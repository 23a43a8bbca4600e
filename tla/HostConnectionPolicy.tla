------------------------ MODULE HostConnectionPolicy ------------------------
(***************************************************************************)
(* The per-origin connection caps shared by every transfer                 *)
(* (quiver-core/src/host_policy.rs): a map from origins to reference       *)
(* counted HostStates under a tokio Mutex, and in each HostState an atomic *)
(* counter of live permits and a Notify for those who wait for one.        *)
(*                                                                         *)
(* One step per atomic access or critical section.  An acquire() may be    *)
(* dropped at each of its await points (the engine selects it against      *)
(* cancelled()).  A HostState is an object with an identity: it lives      *)
(* while the map or a task refers to it, and its identity may be used      *)
(* again afterwards.                                                       *)
(*                                                                         *)
(* tokio's Notify, as notify_one() and notified() use it: a list of        *)
(* registered futures, first in first out, and at most one stored          *)
(* notification; a future registers when it is first polled; dropping a    *)
(* future that was notified but not polled passes the notification on.     *)
(***************************************************************************)
EXTENDS Naturals, Sequences, FiniteSets, SequencesExt

CONSTANTS
  Tasks,      \* tasks that ask for permits
  Origins,    \* scheme://host:port
  States,     \* identities of HostState objects
  Caps,       \* values of max_connections after clamp(1, 32)
  MaxCalls,   \* bound: calls of acquire() per task
  NoState, NoTask

ASSUME NullAssumption == NoState \notin States /\ NoTask \notin Tasks
ASSUME CapAssumption == Caps \subseteq Nat \ {0}
ASSUME TasksFinite == IsFiniteSet(Tasks)

VARIABLES
  hosts,    \* HostConnectionPolicy.hosts
  lock,     \* the task that holds the hosts mutex
  active,   \* HostState.active
  stored,   \* HostState.changed: a notification is stored
  waiting,  \* HostState.changed: the futures registered and not notified
  pc, origin, cap,
  ref,      \* per task: the HostState its Arc points to
  seen,     \* per task: the value it loaded from active, while it is about to compare
  woken,    \* per task: its registered future was notified
  last,     \* per task: its fetch_sub returned 1
  calls     \* bound: calls made

vars == <<hosts, lock, active, stored, waiting, pc, origin, cap, ref, seen, woken, last, calls>>
notify == <<stored, waiting, woken>>

Users(s) == {t \in Tasks : ref[t] = s}
Holders(s) == {t \in Users(s) : pc[t] = "holding"}

\* Arc::strong_count(s) = 1: only the map refers to s.
Unused(s) == Users(s) = {}

Goto(t, from, to) ==
  /\ pc[t] = from
  /\ pc' = [pc EXCEPT ![t] = to]

\* notify_one() on s.
NotifyOne(s) ==
  IF waiting[s] # <<>>
  THEN /\ woken' = [woken EXCEPT ![Head(waiting[s])] = TRUE]
       /\ waiting' = [waiting EXCEPT ![s] = Tail(@)]
       /\ UNCHANGED stored
  ELSE /\ stored' = [stored EXCEPT ![s] = TRUE]
       /\ UNCHANGED <<woken, waiting>>

Init ==
  /\ hosts = [o \in Origins |-> NoState]
  /\ lock = NoTask
  /\ active = [s \in States |-> 0]
  /\ stored = [s \in States |-> FALSE]
  /\ waiting = [s \in States |-> <<>>]
  /\ pc = [t \in Tasks |-> "idle"]
  /\ origin \in [Tasks -> Origins]
  /\ cap \in [Tasks -> Caps]
  /\ ref = [t \in Tasks |-> NoState]
  /\ seen = [t \in Tasks |-> 0]
  /\ woken = [t \in Tasks |-> FALSE]
  /\ last = [t \in Tasks |-> FALSE]
  /\ calls = [t \in Tasks |-> 0]

-----------------------------------------------------------------------------
(* acquire()                                                               *)

Call(t, o, c) ==
  /\ calls[t] < MaxCalls
  /\ Goto(t, "idle", "lock")
  /\ origin' = [origin EXCEPT ![t] = o]
  /\ cap' = [cap EXCEPT ![t] = c]
  /\ calls' = [calls EXCEPT ![t] = @ + 1]
  /\ UNCHANGED <<hosts, lock, active, notify, ref, seen, last>>

LockHosts(t) ==
  /\ Goto(t, "lock", "lookup")
  /\ lock = NoTask
  /\ lock' = t
  /\ UNCHANGED <<hosts, active, notify, origin, cap, ref, seen, last, calls>>

\* Slip: entries without live permits are dropped, waiters or not.
Retained_IgnoresWaiters(o) ==
  IF hosts[o] # NoState /\ active[hosts[o]] > 0 THEN hosts[o] ELSE NoState

\* retain(): the entries somebody uses.  (Once only the map refers to an
\* entry nobody else can come to use it while the mutex is held, so the two
\* loads of the closure and the loop over the map are one step.)
Retained(o) ==
  IF hosts[o] # NoState /\ (active[hosts[o]] > 0 \/ ~Unused(hosts[o])) THEN hosts[o] ELSE NoState

\* The rest of the critical section: entry(origin).or_default(), clone, unlock.
Lookup(t) ==
  /\ Goto(t, "lookup", "load")
  /\ lock' = NoTask
  /\ \E s \in States :
       /\ IF Retained(origin[t]) # NoState
          THEN s = Retained(origin[t]) /\ UNCHANGED <<active, stored, waiting>>
          ELSE /\ Unused(s) /\ \A o \in Origins : Retained(o) # s
               /\ active' = [active EXCEPT ![s] = 0]
               /\ stored' = [stored EXCEPT ![s] = FALSE]
               /\ waiting' = [waiting EXCEPT ![s] = <<>>]
       /\ ref' = [ref EXCEPT ![t] = s]
       /\ hosts' = [o \in Origins |-> IF o = origin[t] THEN s ELSE Retained(o)]
  /\ UNCHANGED <<woken, origin, cap, seen, last, calls>>

Load(t) ==
  /\ Goto(t, "load", IF active[ref[t]] < cap[t] THEN "cas" ELSE "poll")
  /\ seen' = [seen EXCEPT ![t] = IF active[ref[t]] < cap[t] THEN active[ref[t]] ELSE 0]
  /\ UNCHANGED <<hosts, lock, active, notify, origin, cap, ref, last, calls>>

\* Slip: the permit is taken with a plain increment.
CompareExchange_Unchecked(t) ==
  /\ Goto(t, "cas", "holding")
  /\ active' = [active EXCEPT ![ref[t]] = @ + 1]
  /\ seen' = [seen EXCEPT ![t] = 0]
  /\ UNCHANGED <<hosts, lock, notify, origin, cap, ref, last, calls>>

CompareExchange(t) ==
  /\ Goto(t, "cas", IF active[ref[t]] = seen[t] THEN "holding" ELSE "load")
  /\ active' = IF active[ref[t]] = seen[t] THEN [active EXCEPT ![ref[t]] = @ + 1] ELSE active
  /\ seen' = [seen EXCEPT ![t] = 0]
  /\ UNCHANGED <<hosts, lock, notify, origin, cap, ref, last, calls>>

\* The first poll of changed.await.
Poll(t) ==
  /\ Goto(t, "poll", IF stored[ref[t]] THEN "load" ELSE "await")
  /\ IF stored[ref[t]]
     THEN stored' = [stored EXCEPT ![ref[t]] = FALSE] /\ UNCHANGED waiting
     ELSE waiting' = [waiting EXCEPT ![ref[t]] = Append(@, t)] /\ UNCHANGED stored
  /\ UNCHANGED <<hosts, lock, active, woken, origin, cap, ref, seen, last, calls>>

Awake(t) ==
  /\ woken[t]
  /\ Goto(t, "await", "load")
  /\ woken' = [woken EXCEPT ![t] = FALSE]
  /\ UNCHANGED <<hosts, lock, active, stored, waiting, origin, cap, ref, seen, last, calls>>

\* select! drops acquire() because the transfer was cancelled.
AbandonLock(t) ==
  /\ Goto(t, "lock", "idle")
  /\ UNCHANGED <<hosts, lock, active, notify, origin, cap, ref, seen, last, calls>>

\* Slip: a notified future that is dropped keeps its notification.
AbandonWait_Swallows(t) ==
  /\ Goto(t, "await", "idle")
  /\ ref' = [ref EXCEPT ![t] = NoState]
  /\ woken' = [woken EXCEPT ![t] = FALSE]
  /\ waiting' = [waiting EXCEPT ![ref[t]] = RemoveFirst(@, t)]
  /\ UNCHANGED <<hosts, lock, active, stored, origin, cap, seen, last, calls>>

AbandonWait(t) ==
  /\ Goto(t, "await", "idle")
  /\ ref' = [ref EXCEPT ![t] = NoState]
  /\ LET s == ref[t] IN
     IF ~woken[t]
     THEN /\ waiting' = [waiting EXCEPT ![s] = RemoveFirst(@, t)]
          /\ UNCHANGED <<stored, woken>>
     ELSE IF waiting[s] # <<>>
     THEN /\ woken' = [woken EXCEPT ![t] = FALSE, ![Head(waiting[s])] = TRUE]
          /\ waiting' = [waiting EXCEPT ![s] = Tail(@)]
          /\ UNCHANGED stored
     ELSE /\ woken' = [woken EXCEPT ![t] = FALSE]
          /\ stored' = [stored EXCEPT ![s] = TRUE]
          /\ UNCHANGED waiting
  /\ UNCHANGED <<hosts, lock, active, origin, cap, seen, last, calls>>

-----------------------------------------------------------------------------
(* Drop for HostPermit                                                     *)

FetchSub(t) ==
  /\ Goto(t, "holding", "notify")
  /\ last' = [last EXCEPT ![t] = active[ref[t]] = 1]
  /\ active' = [active EXCEPT ![ref[t]] = @ - 1]
  /\ UNCHANGED <<hosts, lock, notify, origin, cap, ref, seen, calls>>

\* Slip: the last permit of a state is given back without a notification.
NotifyNext_SkipsLast(t) ==
  /\ Goto(t, "notify", IF last[t] THEN "trylock" ELSE "dropref")
  /\ IF last[t] THEN UNCHANGED notify ELSE NotifyOne(ref[t])
  /\ UNCHANGED <<hosts, lock, active, origin, cap, ref, seen, last, calls>>

NotifyNext(t) ==
  /\ Goto(t, "notify", IF last[t] THEN "trylock" ELSE "dropref")
  /\ NotifyOne(ref[t])
  /\ UNCHANGED <<hosts, lock, active, origin, cap, ref, seen, last, calls>>

TryLock(t) ==
  /\ Goto(t, "trylock", IF lock = NoTask THEN "evict" ELSE "dropref")
  /\ lock' = IF lock = NoTask THEN t ELSE lock
  /\ last' = [last EXCEPT ![t] = FALSE]
  /\ UNCHANGED <<hosts, active, notify, origin, cap, ref, seen, calls>>

\* strong_count = 2 and the map has the entry: the map and this permit.
Evictable(t) ==
  /\ active[ref[t]] = 0
  /\ Users(ref[t]) = {t}
  /\ hosts[origin[t]] = ref[t]

Evict(t) ==
  /\ Goto(t, "evict", "dropref")
  /\ lock' = NoTask
  /\ hosts' = IF Evictable(t) THEN [hosts EXCEPT ![origin[t]] = NoState] ELSE hosts
  /\ UNCHANGED <<active, notify, origin, cap, ref, seen, last, calls>>

DropRef(t) ==
  /\ Goto(t, "dropref", "idle")
  /\ ref' = [ref EXCEPT ![t] = NoState]
  /\ UNCHANGED <<hosts, lock, active, notify, origin, cap, seen, last, calls>>

-----------------------------------------------------------------------------
\* What a task does without its environment: everything but asking,
\* cancelling, and deciding that the request is over.
Proceed(t) ==
  \/ LockHosts(t) \/ Lookup(t) \/ Load(t) \/ CompareExchange(t) \/ Poll(t) \/ Awake(t)
  \/ NotifyNext(t) \/ TryLock(t) \/ Evict(t) \/ DropRef(t)

Next ==
  \E t \in Tasks :
    \/ \E o \in Origins, c \in Caps : Call(t, o, c)
    \/ Proceed(t) \/ FetchSub(t)
    \/ AbandonLock(t) \/ AbandonWait(t)

\* The executor polls what is ready, the mutex is handed over in the order it
\* was asked for (strong fairness of LockHosts), and a request ends some day.
Fairness ==
  \A t \in Tasks : WF_vars(Proceed(t)) /\ SF_vars(LockHosts(t)) /\ WF_vars(FetchSub(t))

Spec == Init /\ [][Next]_vars /\ Fairness

-----------------------------------------------------------------------------
PCs == {"idle", "lock", "lookup", "load", "cas", "poll", "await", "holding",
        "notify", "trylock", "evict", "dropref"}

(* Every variable has its type.                                            *)
TypeOK ==
  /\ hosts \in [Origins -> States \cup {NoState}]
  /\ lock \in Tasks \cup {NoTask}
  /\ active \in [States -> Nat]
  /\ stored \in [States -> BOOLEAN]
  /\ waiting \in [States -> Seq(Tasks)]
  /\ pc \in [Tasks -> PCs]
  /\ origin \in [Tasks -> Origins]
  /\ cap \in [Tasks -> Caps]
  /\ ref \in [Tasks -> States \cup {NoState}]
  /\ seen \in [Tasks -> Nat]
  /\ woken \in [Tasks -> BOOLEAN]
  /\ last \in [Tasks -> BOOLEAN]
  /\ calls \in [Tasks -> Nat]

(***************************************************************************)
(* One origin has one live HostState: every task that waits for or holds a *)
(* permit refers to the one in the map.  Two of them would mean two        *)
(* independent caps.  This is what the reference counts in retain() and in *)
(* drop() protect.                                                         *)
(***************************************************************************)
OneStatePerOrigin ==
  \A t \in Tasks : pc[t] \in {"load", "cas", "poll", "await", "holding"} => hosts[origin[t]] = ref[t]

(***************************************************************************)
(* The caps hold across eviction, races for the counter and releases: of   *)
(* any group of tasks that hold permits of one origin, one member's own    *)
(* cap admits them all.  (With a common cap: never more permits than it.)  *)
(***************************************************************************)
CapRespected ==
  \A o \in Origins : \A group \in SUBSET {t \in Tasks : pc[t] = "holding" /\ origin[t] = o} :
    group # {} => \E t \in group : Cardinality(group) <= cap[t]

(***************************************************************************)
(* A future that sleeps on a HostState without live permits is not         *)
(* forgotten: a release is about to notify, or somebody who is awake is    *)
(* about to take a permit (and will notify when it gives it back).         *)
(***************************************************************************)
OnTheMove(s) ==
  \E t \in Users(s) : pc[t] \in {"load", "cas", "notify"} \/ (pc[t] = "await" /\ woken[t])

NoStrandedWaiter ==
  \A s \in States : waiting[s] # <<>> /\ active[s] = 0 => OnTheMove(s)

(***************************************************************************)
(* With finitely many calls and permits that are given back, every         *)
(* acquire() ends: nobody waits for ever.                                  *)
(***************************************************************************)
AcquireEnds ==
  \A t \in Tasks : pc[t] = "lock" ~> pc[t] \in {"idle", "holding"}
=============================================================================
