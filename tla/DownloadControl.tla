-------------------------- MODULE DownloadControl --------------------------
(***************************************************************************)
(* The pause / resume / cancel handle of one transfer                      *)
(* (quiver-core/src/control.rs): an atomic byte and a tokio Notify, shared *)
(* by the commands that control the transfer and the tasks that obey it.   *)
(*                                                                         *)
(* Every atomic access is a step of its own.  A call of resume or cancel   *)
(* is two steps, the write of the byte and the notification, and a waiting *)
(* task is four: load, subscribe (create the Notified future), re-check,   *)
(* await.  notify_waiters reaches exactly the futures that exist when it   *)
(* runs, whether or not they have been polled: tokio's contract, modelled  *)
(* by woken.                                                               *)
(***************************************************************************)
CONSTANTS
  Controllers,   \* callers of pause, resume and cancel
  Checkers,      \* tasks that call checkpoint()
  Watchers       \* tasks that call cancelled()

ASSUME TasksDisjoint == Checkers \cap Watchers = {}

VARIABLES
  state,       \* ControlInner.state
  calling,     \* per controller: "idle", or "notify" between its write and its notification
  pc,          \* per task: where it is in checkpoint() or cancelled()
  woken        \* per task: its current Notified future has been notified

vars == <<state, calling, pc, woken>>

RUNNING   == "running"
PAUSED    == "paused"
CANCELLED == "cancelled"

Tasks == Checkers \cup Watchers

\* A Notified future of t exists: it was created and has not completed.
Subscribed(t) == pc[t] \in {"recheck", "check", "await"}

Goto(t, from, to) ==
  /\ pc[t] = from
  /\ pc' = [pc EXCEPT ![t] = to]

-----------------------------------------------------------------------------
(* Actions called Action_Something are slips: plausible wrong forms of the *)
(* action that follows them.  They are not part of Next; each serves to    *)
(* show that a property below would notice the slip.                       *)
(*                                                                         *)
(* The callers.                                                            *)

New ==
  /\ state = RUNNING
  /\ calling = [c \in Controllers |-> "idle"]
  /\ pc = [t \in Tasks |-> "idle"]
  /\ woken = [t \in Tasks |-> FALSE]

Pause(c) ==
  /\ calling[c] = "idle"
  /\ state = RUNNING              \* otherwise the compare-exchange fails and nothing happens
  /\ state' = PAUSED
  /\ UNCHANGED <<calling, pc, woken>>

\* Slip: resume() forgets to notify.
Resume_Silent(c) ==
  /\ calling[c] = "idle"
  /\ state' = RUNNING
  /\ UNCHANGED <<calling, pc, woken>>

\* The swap writes RUNNING over any value; only a PAUSED one is announced.
Resume(c) ==
  /\ calling[c] = "idle"
  /\ state' = RUNNING
  /\ calling' = [calling EXCEPT ![c] = IF state = PAUSED THEN "notify" ELSE @]
  /\ UNCHANGED <<pc, woken>>

Cancel(c) ==
  /\ calling[c] = "idle"
  /\ state' = CANCELLED
  /\ calling' = [calling EXCEPT ![c] = "notify"]
  /\ UNCHANGED <<pc, woken>>

NotifyWaiters(c) ==
  /\ calling[c] = "notify"
  /\ calling' = [calling EXCEPT ![c] = "idle"]
  /\ woken' = [t \in Tasks |-> woken[t] \/ Subscribed(t)]
  /\ UNCHANGED <<state, pc>>

-----------------------------------------------------------------------------
(* checkpoint(): returns Ok when it loads RUNNING, Err when CANCELLED.     *)

CallCheckpoint(t) ==
  /\ t \in Checkers
  /\ Goto(t, "idle", "load")
  /\ UNCHANGED <<state, calling, woken>>

\* Slip: every value but RUNNING is taken for a pause.
LoadState_CancelledIsPaused(t) ==
  /\ Goto(t, "load", IF state # RUNNING THEN "subscribe" ELSE "idle")
  /\ UNCHANGED <<state, calling, woken>>

LoadState(t) ==
  /\ Goto(t, "load", IF state = PAUSED THEN "subscribe" ELSE "idle")
  /\ UNCHANGED <<state, calling, woken>>

Subscribe(t) ==
  /\ Goto(t, "subscribe", IF t \in Checkers THEN "recheck" ELSE "check")
  /\ woken' = [woken EXCEPT ![t] = FALSE]
  /\ UNCHANGED <<state, calling>>

\* Slip: the future is awaited without a second look at the state.
RecheckPaused_Skipped(t) ==
  /\ Goto(t, "recheck", "await")
  /\ UNCHANGED <<state, calling, woken>>

RecheckPaused(t) ==
  /\ Goto(t, "recheck", IF state = PAUSED THEN "await" ELSE "load")
  /\ UNCHANGED <<state, calling, woken>>

-----------------------------------------------------------------------------
(* cancelled(): subscribes first, returns when it loads CANCELLED.         *)

CallCancelled(t) ==
  /\ t \in Watchers
  /\ Goto(t, "idle", "subscribe")
  /\ UNCHANGED <<state, calling, woken>>

CheckCancelled(t) ==
  /\ Goto(t, "check", IF state = CANCELLED THEN "idle" ELSE "await")
  /\ UNCHANGED <<state, calling, woken>>

\* The future completes; both loops start over.
Awake(t) ==
  /\ woken[t]
  /\ Goto(t, "await", IF t \in Checkers THEN "load" ELSE "subscribe")
  /\ UNCHANGED <<state, calling, woken>>

-----------------------------------------------------------------------------
\* What a task does by itself once it has been called.
Proceed(t) ==
  \/ LoadState(t) \/ Subscribe(t) \/ RecheckPaused(t)
  \/ CheckCancelled(t) \/ Awake(t)

Init == New

Next ==
  \/ \E c \in Controllers : Pause(c) \/ Resume(c) \/ Cancel(c) \/ NotifyWaiters(c)
  \/ \E t \in Tasks : CallCheckpoint(t) \/ CallCancelled(t) \/ Proceed(t)

\* The executor polls a task whose future is ready, and a caller that wrote
\* the byte goes on to notify: neither call has an await point in between.
Fairness ==
  /\ \A t \in Tasks : WF_vars(Proceed(t))
  /\ \A c \in Controllers : WF_vars(NotifyWaiters(c))

Spec == Init /\ [][Next]_vars /\ Fairness

-----------------------------------------------------------------------------
(* Every variable has its type.                                            *)
TypeOK ==
  /\ state \in {RUNNING, PAUSED, CANCELLED}
  /\ calling \in [Controllers -> {"idle", "notify"}]
  /\ pc \in [Tasks -> {"idle", "load", "subscribe", "recheck", "check", "await"}]
  /\ \A t \in Checkers : pc[t] # "check"
  /\ \A t \in Watchers : pc[t] \notin {"load", "recheck"}
  /\ woken \in [Tasks -> BOOLEAN]

Announcing == \E c \in Controllers : calling[c] = "notify"

Reason(t) ==
  \/ Announcing
  \/ t \in Checkers /\ state = PAUSED
  \/ t \in Watchers /\ state # CANCELLED

(***************************************************************************)
(* A task asleep without a notification is asleep for a reason that still  *)
(* holds, or a caller is about to notify it.  This is what the re-check in *)
(* checkpoint() and the subscribe-then-load order in cancelled() are for.  *)
(***************************************************************************)
NoLostWakeup ==
  \A t \in Tasks : pc[t] = "await" /\ ~woken[t] => Reason(t)

(***************************************************************************)
(* checkpoint(): a task held by a pause is let go once the transfer is     *)
(* resumed or cancelled, unless it is paused again.                        *)
(***************************************************************************)
PauseLetsGo ==
  \A t \in Checkers :
    (pc[t] = "await" /\ state # PAUSED) ~> (pc[t] # "await" \/ state = PAUSED)

(***************************************************************************)
(* cancelled() and checkpoint(): while a cancellation stands, every call   *)
(* that is under way returns.                                              *)
(***************************************************************************)
CancellationEndsWaits ==
  \A t \in Tasks : (state = CANCELLED /\ pc[t] # "idle") ~> (state # CANCELLED \/ pc[t] = "idle")
=============================================================================
