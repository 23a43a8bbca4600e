----------------------- MODULE DownloadControlProofs -----------------------
(* Proofs for DownloadControl, for any number of callers and tasks.        *)
EXTENDS DownloadControl, TLAPS

(* The variables of control.rs keep their types.                           *)
THEOREM TypeCorrect == Spec => []TypeOK
<1>1. Init => TypeOK
  BY TasksDisjoint DEF Init, New, TypeOK, RUNNING, PAUSED, CANCELLED, Tasks
<1>2. TypeOK /\ [Next]_vars => TypeOK'
  <2> SUFFICES ASSUME TypeOK, [Next]_vars PROVE TypeOK'
    OBVIOUS
  <2> USE DEF TypeOK, RUNNING, PAUSED, CANCELLED
  <2>1. ASSUME NEW c \in Controllers, Pause(c) \/ Resume(c) \/ Cancel(c) \/ NotifyWaiters(c)
        PROVE TypeOK'
    BY <2>1 DEF Pause, Resume, Cancel, NotifyWaiters
  <2>2. ASSUME NEW t \in Tasks, CallCheckpoint(t) \/ CallCancelled(t)
        PROVE TypeOK'
    BY <2>2, TasksDisjoint DEF CallCheckpoint, CallCancelled, Goto, Tasks
  <2>3. ASSUME NEW t \in Tasks, Proceed(t)
        PROVE TypeOK'
    <3>1. CASE LoadState(t)
      BY <3>1, TasksDisjoint DEF LoadState, Goto, Tasks
    <3>2. CASE Subscribe(t)
      BY <3>2, TasksDisjoint DEF Subscribe, Goto, Tasks
    <3>3. CASE RecheckPaused(t)
      BY <3>3, TasksDisjoint DEF RecheckPaused, Goto, Tasks
    <3>4. CASE CheckCancelled(t)
      BY <3>4, TasksDisjoint DEF CheckCancelled, Goto, Tasks
    <3>5. CASE Awake(t)
      BY <3>5, TasksDisjoint DEF Awake, Goto, Tasks
    <3>6. QED
      BY <2>3, <3>1, <3>2, <3>3, <3>4, <3>5 DEF Proceed
  <2>4. CASE UNCHANGED vars
    BY <2>4 DEF vars
  <2>5. QED
    BY <2>1, <2>2, <2>3, <2>4 DEF Next
<1>3. QED
  BY <1>1, <1>2, PTL DEF Spec

-----------------------------------------------------------------------------
(***************************************************************************)
(* No task of a transfer sleeps through the announcement of a resume or of *)
(* a cancellation, whatever the number of callers and tasks.  The          *)
(* invariant is inductive: a task falls asleep only after loading a state  *)
(* that justifies the sleep, and every write that ends the justification   *)
(* leaves its writer on the way to notify_waiters.                         *)
(***************************************************************************)
THEOREM WakeupsAreNotLost == Spec => []NoLostWakeup
<1>1. Init => NoLostWakeup
  BY DEF Init, New, NoLostWakeup
<1>2. TypeOK /\ NoLostWakeup /\ [Next]_vars => NoLostWakeup'
  <2> SUFFICES ASSUME TypeOK, NoLostWakeup, [Next]_vars,
                      NEW t \in Tasks, pc'[t] = "await", ~woken'[t]
               PROVE  Reason(t)'
    BY DEF NoLostWakeup
  <2> USE DEF TypeOK, RUNNING, PAUSED, CANCELLED
  <2>1. ASSUME NEW c \in Controllers, Pause(c)
        PROVE Reason(t)'
    BY <2>1 DEF Pause, NoLostWakeup, Reason, Announcing, Tasks
  <2>2. ASSUME NEW c \in Controllers, Resume(c)
        PROVE Reason(t)'
    <3>1. CASE state = PAUSED
      BY <2>2, <3>1 DEF Resume, Reason, Announcing
    <3>2. CASE state # PAUSED
      BY <2>2, <3>2 DEF Resume, NoLostWakeup, Reason, Announcing, Tasks
    <3>3. QED
      BY <3>1, <3>2
  <2>3. ASSUME NEW c \in Controllers, Cancel(c)
        PROVE Reason(t)'
    BY <2>3 DEF Cancel, Reason, Announcing
  <2>4. ASSUME NEW c \in Controllers, NotifyWaiters(c)
        PROVE Reason(t)'
    BY <2>4 DEF NotifyWaiters, Subscribed
  <2>5. ASSUME NEW u \in Tasks, CallCheckpoint(u) \/ CallCancelled(u)
        PROVE Reason(t)'
    <3>1. pc[t] = "await" /\ woken' = woken /\ state' = state /\ calling' = calling
      BY <2>5 DEF CallCheckpoint, CallCancelled, Goto
    <3>2. QED
      BY <3>1 DEF NoLostWakeup, Reason, Announcing
  <2>6. ASSUME NEW u \in Tasks, Proceed(u)
        PROVE Reason(t)'
    <3>1. state' = state /\ calling' = calling
      BY <2>6 DEF Proceed, LoadState, Subscribe, RecheckPaused, CheckCancelled, Awake
    <3>2. CASE pc[t] = "await" /\ ~woken[t]
      BY <3>1, <3>2 DEF NoLostWakeup, Reason, Announcing
    <3>3. CASE pc[t] = "await" /\ woken[t]
      BY <2>6, <3>3 DEF Proceed, LoadState, Subscribe, RecheckPaused, CheckCancelled, Awake, Goto
    <3>4. CASE pc[t] # "await"
      <4>1. RecheckPaused(u) \/ CheckCancelled(u)
        BY <2>6, <3>4 DEF Proceed, LoadState, Subscribe, RecheckPaused, CheckCancelled, Awake, Goto
      <4>2. u = t
        BY <4>1, <3>4 DEF RecheckPaused, CheckCancelled, Goto
      <4>3. \/ pc[t] = "recheck" /\ state = PAUSED
            \/ pc[t] = "check" /\ state # CANCELLED
        BY <4>1, <4>2 DEF RecheckPaused, CheckCancelled, Goto
      <4>4. QED
        BY <3>1, <4>3 DEF Tasks, Reason
    <3>5. QED
      BY <3>2, <3>3, <3>4
  <2>7. CASE UNCHANGED vars
    BY <2>7 DEF vars, NoLostWakeup, Reason, Announcing
  <2>8. QED
    BY <2>1, <2>2, <2>3, <2>4, <2>5, <2>6, <2>7 DEF Next
<1>3. QED
  BY <1>1, <1>2, TypeCorrect, PTL DEF Spec
=============================================================================
