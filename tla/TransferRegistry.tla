-------------------------- MODULE TransferRegistry --------------------------
(***************************************************************************)
(* The desktop's coordination of direct downloads (src-tauri/src/lib.rs):  *)
(* the map of registered transfers, the sequential queue with its tickets, *)
(* the reservation of destination files and the gate that keeps transfers  *)
(* and the installation of an update apart.                                *)
(*                                                                         *)
(* Every critical section of a std Mutex is one step, and so is every      *)
(* stretch of a command between two of its await points.  The control      *)
(* handle of a transfer is its byte (its wakeups are DownloadControl's     *)
(* business).  A front end that issues every queue sequence once, as       *)
(* App.tsx does, is part of the model: issued.                             *)
(***************************************************************************)
EXTENDS Naturals, FiniteSets

CONSTANTS
  Ids,         \* task identifiers
  Tickets,     \* queue sequences
  Schedules,   \* scheduled start times the front end may ask for
  Paths,       \* canonical destinations
  KeysOf,      \* the files a destination stands for: itself, its partial, state and segment files
  MaxTime,     \* bound of the wall clock
  MaxBacks,    \* bound: how often the wall clock may be set back
  NoEntry, NoTicket, NoTime, NoPath, Absent

ASSUME TicketAssumption == Tickets \subseteq Nat /\ NoTicket \notin Tickets
ASSUME TimeAssumption ==
  /\ MaxTime \in Nat /\ MaxBacks \in Nat
  /\ Schedules \subseteq Nat /\ NoTime \notin Nat
  /\ Absent \notin Nat /\ Absent # NoTime
ASSUME KeysAssumption == KeysOf \in [Paths -> SUBSET UNION {KeysOf[p] : p \in Paths}]

VARIABLES
  transfers,   \* TransferRegistry.transfers: what each task registered
  control,     \* the DownloadControl of each registered transfer, or "none"
  entries,     \* SequentialQueueState.entries: the schedule of each ticket
  turn,        \* SequentialQueueState.active_ticket
  updating,    \* TransferRegistry.update_installing
  forgetting,  \* tickets whose transfer was removed, to be removed from the queue next
  pc,          \* per task: where its start_download command is
  ticket,      \* per task: the ticket its command claimed
  path,        \* per task: the destination its command has prepared
  permit,      \* tasks whose command holds a SequentialPermit
  woken,       \* tasks whose Notified future of the queue was notified
  asof,        \* per task: the clock as acquire() read it before it locked the queue
  now,         \* unix_time_ms
  backs,       \* bound: times the clock was set back
  issued       \* history: tickets the front end has used

queue == <<entries, turn>>
clock == <<now, backs>>
command == <<pc, ticket, path, permit, woken, asof>>
vars == <<transfers, control, queue, updating, forgetting, command, clock, issued>>

Times == Schedules \cup {NoTime}
Keys == UNION {KeysOf[p] : p \in Paths}

ActiveTransfer ==
  [ticket : Tickets \cup {NoTicket}, schedule : Times, keys : SUBSET Keys, started : BOOLEAN]

ASSUME EntryAssumption == NoEntry \notin ActiveTransfer

Goto(i, from, to) ==
  /\ pc[i] = from
  /\ pc' = [pc EXCEPT ![i] = to]

\* notify_waiters() of the queue: every command between its notified() and the end of its wait.
NotifyQueue ==
  woken' = {i \in Ids : pc[i] \in {"admit", "await"}}

Init ==
  /\ transfers = [i \in Ids |-> NoEntry]
  /\ control = [i \in Ids |-> "none"]
  /\ entries = [k \in Tickets |-> Absent]
  /\ turn = NoTicket
  /\ updating = FALSE
  /\ forgetting = {}
  /\ pc = [i \in Ids |-> "none"]
  /\ ticket = [i \in Ids |-> NoTicket]
  /\ path = [i \in Ids |-> NoPath]
  /\ permit = {}
  /\ woken = {}
  /\ asof = [i \in Ids |-> 0]
  /\ now = 0
  /\ backs = 0
  /\ issued = {}

-----------------------------------------------------------------------------
(* SequentialQueue.  RemoveTicket is remove() together with its            *)
(* notification, which can only be late, never early.                      *)

\* Slip: the first entry leaves, whoever asked.
RemoveTicket_PopsFirst(k) ==
  /\ entries' = [j \in Tickets |-> IF \A n \in Tickets : n < j => entries[n] = Absent THEN Absent ELSE entries[j]]
  /\ turn' = IF turn = k THEN NoTicket ELSE turn
  /\ NotifyQueue

RemoveTicket(k) ==
  /\ entries' = [entries EXCEPT ![k] = Absent]
  /\ turn' = IF turn = k THEN NoTicket ELSE turn
  /\ NotifyQueue

Due(s, t) == IF s = NoTime THEN TRUE ELSE s <= t

\* Slip: the first entry of the map is next, whether or not it is due.
IsNextReady_IgnoresSchedule(k, t) ==
  /\ entries[k] # Absent /\ Due(entries[k], t)
  /\ \A j \in Tickets : j < k => entries[j] = Absent

\* Slip: any due entry may go.
IsNextReady_AnyOrder(k, t) ==
  entries[k] # Absent /\ Due(entries[k], t)

\* k is the first entry, by ticket, that is due at time t.
IsNextReady(k, t) ==
  /\ entries[k] # Absent /\ Due(entries[k], t)
  /\ \A j \in Tickets : j < k /\ entries[j] # Absent => ~Due(entries[j], t)

-----------------------------------------------------------------------------
(* register_download, discard_registered_download, control_download.       *)

\* Slip: the update gate is not looked at.
Register_IgnoresGate(i, k, s) ==
  /\ transfers[i] = NoEntry
  /\ transfers' = [transfers EXCEPT ![i] =
       [ticket |-> k, schedule |-> s, keys |-> {}, started |-> FALSE]]
  /\ control' = [control EXCEPT ![i] = "running"]
  /\ IF k = NoTicket
     THEN UNCHANGED <<entries, woken, issued>>
     ELSE /\ k \notin issued /\ entries[k] = Absent
          /\ issued' = issued \cup {k}
          /\ entries' = [entries EXCEPT ![k] = s]
          /\ NotifyQueue
  /\ UNCHANGED <<turn, updating, forgetting, pc, ticket, path, permit, asof, clock>>

\* k = NoTicket is the parallel mode.  Both mutexes are held throughout.
Register(i, k, s) ==
  /\ ~updating
  /\ transfers[i] = NoEntry
  /\ transfers' = [transfers EXCEPT ![i] =
       [ticket |-> k, schedule |-> s, keys |-> {}, started |-> FALSE]]
  /\ control' = [control EXCEPT ![i] = "running"]
  /\ IF k = NoTicket
     THEN UNCHANGED <<entries, woken, issued>>
     ELSE /\ k \notin issued /\ entries[k] = Absent
          /\ issued' = issued \cup {k}
          /\ entries' = [entries EXCEPT ![k] = s]
          /\ NotifyQueue
  /\ UNCHANGED <<turn, updating, forgetting, pc, ticket, path, permit, asof, clock>>

\* Slip: a transfer may be discarded after it was started.
Discard_EvenStarted(i) ==
  /\ transfers[i] # NoEntry
  /\ transfers' = [transfers EXCEPT ![i] = NoEntry]
  /\ control' = [control EXCEPT ![i] = "none"]
  /\ forgetting' = forgetting \cup ({transfers[i].ticket} \ {NoTicket})
  /\ UNCHANGED <<queue, updating, command, clock, issued>>

\* Nobody else has the handle whose cancel() it calls.
Discard(i) ==
  /\ transfers[i] # NoEntry /\ ~transfers[i].started
  /\ transfers' = [transfers EXCEPT ![i] = NoEntry]
  /\ control' = [control EXCEPT ![i] = "none"]
  /\ forgetting' = forgetting \cup ({transfers[i].ticket} \ {NoTicket})
  /\ UNCHANGED <<queue, updating, command, clock, issued>>

\* The last statement of discard_registered_download and of remove_transfer.
Forget(k) ==
  /\ k \in forgetting
  /\ forgetting' = forgetting \ {k}
  /\ RemoveTicket(k)
  /\ UNCHANGED <<transfers, control, updating, pc, ticket, path, permit, asof, clock, issued>>

ControlTo(i, c) ==
  /\ transfers[i] # NoEntry
  /\ control' = [control EXCEPT ![i] = c]
  /\ UNCHANGED <<transfers, queue, updating, forgetting, command, clock, issued>>

Pause(i) == control[i] = "running" /\ ControlTo(i, "paused")
Resume(i) == ControlTo(i, "running")
Cancel(i) == ControlTo(i, "cancelled")

BeginUpdate ==
  /\ ~updating
  /\ \A i \in Ids : transfers[i] = NoEntry
  /\ updating' = TRUE
  /\ UNCHANGED <<transfers, control, queue, forgetting, command, clock, issued>>

CancelUpdate ==
  /\ updating
  /\ updating' = FALSE
  /\ UNCHANGED <<transfers, control, queue, forgetting, command, clock, issued>>

-----------------------------------------------------------------------------
(* start_download, up to the engine and after it.                          *)

unchangedBut_pc == <<transfers, control, queue, updating, forgetting, ticket, path, permit, woken, asof, clock, issued>>

\* claim_registered_transfer; the guard that cleans up exists from here on.
Claim(i) ==
  /\ transfers[i] # NoEntry /\ ~transfers[i].started
  /\ transfers' = [transfers EXCEPT ![i].started = TRUE]
  /\ Goto(i, "none", "schedule")
  /\ ticket' = [ticket EXCEPT ![i] = transfers[i].ticket]
  /\ UNCHANGED <<control, queue, updating, forgetting, path, permit, woken, asof, clock, issued>>

\* Slip: a sleep of 30 s is not repeated.
ScheduleReached_AfterOneSleep(i) ==
  /\ Goto(i, "schedule", "checkpoint1")
  /\ UNCHANGED unchangedBut_pc

\* The sleep of wait_for_queue_turn is over when the wall clock says so
\* (a sleep of 30 s that ends early is repeated: a stutter).
ScheduleReached(i) ==
  /\ pc[i] = "schedule" /\ Due(transfers[i].schedule, now)
  /\ Goto(i, "schedule", "checkpoint1")
  /\ UNCHANGED unchangedBut_pc

CancelledAsleep(i) ==
  /\ control[i] = "cancelled"
  /\ Goto(i, "schedule", "exit")
  /\ UNCHANGED unchangedBut_pc

\* The three calls of checkpoint() before the engine's own.
AfterCheckpoint(i) ==
  CASE pc[i] = "checkpoint1" -> IF ticket[i] = NoTicket THEN "prepare" ELSE "subscribe"
    [] pc[i] = "checkpoint2" -> "prepare"
    [] pc[i] = "checkpoint3" -> "reserve"

Checkpoint(i) ==
  /\ pc[i] \in {"checkpoint1", "checkpoint2", "checkpoint3"}
  /\ control[i] # "paused"
  /\ pc' = [pc EXCEPT ![i] = IF control[i] = "cancelled" THEN "exit" ELSE AfterCheckpoint(i)]
  /\ UNCHANGED unchangedBut_pc

\* acquire(): notified(), then the clock, both before the lock.
Subscribe(i) ==
  /\ Goto(i, "subscribe", "admit")
  /\ woken' = woken \ {i}
  /\ asof' = [asof EXCEPT ![i] = now]
  /\ UNCHANGED <<transfers, control, queue, updating, forgetting, ticket, path, permit, clock, issued>>

\* Slip: the turn is taken by whoever is next, held or not.
Admit_IgnoresTurn(i) ==
  LET k == ticket[i] IN
  /\ pc[i] = "admit"
  /\ IF IsNextReady(k, asof[i])
     THEN turn' = k /\ permit' = permit \cup {i} /\ pc' = [pc EXCEPT ![i] = "checkpoint2"]
     ELSE /\ pc' = [pc EXCEPT ![i] = IF entries[k] = Absent THEN "exit" ELSE "await"]
          /\ UNCHANGED <<turn, permit>>
  /\ woken' = IF pc'[i] = "await" THEN woken ELSE woken \ {i}
  /\ asof' = [asof EXCEPT ![i] = 0]
  /\ UNCHANGED <<transfers, control, entries, updating, forgetting, ticket, path, clock, issued>>

\* acquire(): the critical section.
Admit(i) ==
  LET k == ticket[i] IN
  /\ pc[i] = "admit"
  /\ IF turn = NoTicket /\ IsNextReady(k, asof[i])
     THEN turn' = k /\ permit' = permit \cup {i} /\ pc' = [pc EXCEPT ![i] = "checkpoint2"]
     ELSE /\ pc' = [pc EXCEPT ![i] = IF entries[k] = Absent THEN "exit" ELSE "await"]
          /\ UNCHANGED <<turn, permit>>
  /\ woken' = IF pc'[i] = "await" THEN woken ELSE woken \ {i}
  /\ asof' = [asof EXCEPT ![i] = 0]
  /\ UNCHANGED <<transfers, control, entries, updating, forgetting, ticket, path, clock, issued>>

Awake(i) ==
  /\ i \in woken
  /\ Goto(i, "await", "subscribe")
  /\ woken' = woken \ {i}
  /\ UNCHANGED <<transfers, control, queue, updating, forgetting, ticket, path, permit, asof, clock, issued>>

CancelledWaiting(i) ==
  /\ control[i] = "cancelled"
  /\ Goto(i, "await", "exit")
  /\ RemoveTicket(ticket[i])
  /\ UNCHANGED <<transfers, control, updating, forgetting, ticket, path, permit, asof, clock, issued>>

\* prepare_destination resolves the path, or fails.
Prepare(i) ==
  /\ \/ Goto(i, "prepare", "exit") /\ UNCHANGED path
     \/ /\ Goto(i, "prepare", "checkpoint3")
        /\ \E p \in Paths : path' = [path EXCEPT ![i] = p]
  /\ UNCHANGED <<transfers, control, queue, updating, forgetting, ticket, permit, woken, asof, clock, issued>>

\* Slip: only equal destinations are a conflict, not shared recovery files.
Conflict_SameKeysOnly(i) ==
  \E j \in Ids \ {i} : transfers[j] # NoEntry /\ transfers[j].keys = KeysOf[path[i]]

Conflict(i) ==
  \E j \in Ids \ {i} : transfers[j] # NoEntry /\ transfers[j].keys \cap KeysOf[path[i]] # {}

Reserve(i) ==
  /\ pc[i] = "reserve"
  /\ IF Conflict(i) \/ transfers[i] = NoEntry
     THEN Goto(i, "reserve", "exit") /\ UNCHANGED transfers
     ELSE /\ Goto(i, "reserve", "download")
          /\ transfers' = [transfers EXCEPT ![i].keys = KeysOf[path[i]]]
  /\ UNCHANGED <<control, queue, updating, forgetting, ticket, path, permit, woken, asof, clock, issued>>

\* engine.download returns, with whatever result.
FinishDownload(i) ==
  /\ Goto(i, "download", "exit")
  /\ UNCHANGED unchangedBut_pc

\* The locals of the command are dropped, the permit first ...
DropPermit(i) ==
  /\ i \in permit
  /\ pc[i] = "exit"
  /\ permit' = permit \ {i}
  /\ RemoveTicket(ticket[i])
  /\ UNCHANGED <<transfers, control, updating, forgetting, pc, ticket, path, asof, clock, issued>>

\* ... then the guard: remove_transfer(), whose second half is Forget.
Cleanup(i) ==
  /\ i \notin permit
  /\ Goto(i, "exit", "none")
  /\ control' = [control EXCEPT ![i] = "none"]
  /\ IF transfers[i] = NoEntry
     THEN UNCHANGED <<transfers, forgetting>>
     ELSE /\ transfers' = [transfers EXCEPT ![i] = NoEntry]
          /\ forgetting' = forgetting \cup ({transfers[i].ticket} \ {NoTicket})
  /\ ticket' = [ticket EXCEPT ![i] = NoTicket]
  /\ woken' = woken \ {i}
  /\ path' = [path EXCEPT ![i] = NoPath]
  /\ UNCHANGED <<queue, updating, permit, asof, clock, issued>>

-----------------------------------------------------------------------------
Tick ==
  /\ now < MaxTime
  /\ now' = now + 1
  /\ UNCHANGED <<transfers, control, queue, updating, forgetting, command, backs, issued>>

\* SystemTime is not monotonic.
SetBack ==
  /\ backs < MaxBacks /\ now > 0
  /\ now' = now - 1
  /\ backs' = backs + 1
  /\ UNCHANGED <<transfers, control, queue, updating, forgetting, command, issued>>

\* What a command does by itself, its download aside.
Proceed(i) ==
  \/ ScheduleReached(i) \/ CancelledAsleep(i) \/ Checkpoint(i)
  \/ Subscribe(i) \/ Admit(i) \/ Awake(i) \/ CancelledWaiting(i)
  \/ Prepare(i) \/ Reserve(i) \/ DropPermit(i) \/ Cleanup(i)

Next ==
  \/ \E i \in Ids :
       \/ \E k \in Tickets \cup {NoTicket}, s \in Times : Register(i, k, s)
       \/ Discard(i) \/ Pause(i) \/ Resume(i) \/ Cancel(i)
       \/ Claim(i) \/ Proceed(i) \/ FinishDownload(i)
  \/ \E k \in Tickets : Forget(k)
  \/ BeginUpdate \/ CancelUpdate
  \/ Tick \/ SetBack

\* Commands run on the async runtime, statements follow one another, time
\* passes.  The front end starts or discards what it registered, and a
\* download that is not paused ends.
Fairness ==
  /\ \A i \in Ids :
       /\ WF_vars(Proceed(i))
       /\ WF_vars(Claim(i) \/ Discard(i))
       /\ WF_vars(control[i] # "paused" /\ FinishDownload(i))
  /\ \A k \in Tickets : WF_vars(Forget(k))
  /\ WF_vars(Tick)

Spec == Init /\ [][Next]_vars /\ Fairness

-----------------------------------------------------------------------------
PCs == {"none", "schedule", "checkpoint1", "subscribe", "admit", "await", "checkpoint2",
        "prepare", "checkpoint3", "reserve", "download", "exit"}

Queued == {"subscribe", "admit", "await", "checkpoint2"}

(***************************************************************************)
(* Every variable has its type; a transfer has a control handle exactly    *)
(* while it is registered, and only a command with a ticket is queued.     *)
(***************************************************************************)
TypeOK ==
  /\ transfers \in [Ids -> ActiveTransfer \cup {NoEntry}]
  /\ control \in [Ids -> {"none", "running", "paused", "cancelled"}]
  /\ entries \in [Tickets -> Times \cup {Absent}]
  /\ turn \in Tickets \cup {NoTicket}
  /\ updating \in BOOLEAN
  /\ forgetting \subseteq Tickets
  /\ pc \in [Ids -> PCs]
  /\ ticket \in [Ids -> Tickets \cup {NoTicket}]
  /\ path \in [Ids -> Paths \cup {NoPath}]
  /\ permit \subseteq Ids
  /\ woken \subseteq Ids
  /\ asof \in [Ids -> Nat]
  /\ now \in Nat /\ backs \in Nat
  /\ issued \subseteq Tickets
  /\ \A i \in Ids :
       /\ control[i] = "none" <=> transfers[i] = NoEntry
       /\ i \in permit \/ pc[i] \in Queued => ticket[i] # NoTicket

\* Still on its way to a turn: registered, and not yet past acquire().
InLine(i) ==
  /\ transfers[i] # NoEntry /\ transfers[i].ticket # NoTicket
  /\ ~transfers[i].started \/ pc[i] \in {"schedule", "checkpoint1", "subscribe", "admit", "await"}

(***************************************************************************)
(* Sequential mode: at most one transfer has the turn, and the queue knows *)
(* which.  A second remove() of the same ticket, by the guard of a command *)
(* that already dropped its permit, must not end another transfer's turn.  *)
(***************************************************************************)
OneTurn ==
  /\ \A i, j \in permit : i = j
  /\ \A i \in permit : turn = ticket[i]

(***************************************************************************)
(* A transfer in line keeps its place: nothing but its own end removes its *)
(* ticket, so that acquire() never finds it "no longer registered".        *)
(***************************************************************************)
PlaceKept ==
  \A i \in Ids : InLine(i) => entries[transfers[i].ticket] = transfers[i].schedule

(***************************************************************************)
(* A running command owns its registration: nobody removes or replaces it  *)
(* before the command's own guard does.                                    *)
(***************************************************************************)
CommandOwnsRegistration ==
  \A i \in Ids : pc[i] # "none" =>
    transfers[i] # NoEntry /\ transfers[i].started /\ transfers[i].ticket = ticket[i]

(***************************************************************************)
(* Two downloads never run on a common file: destination, partial, state,  *)
(* temporary or segment file (QUEUES.md: "prevents active transfers from   *)
(* sharing those paths").                                                  *)
(***************************************************************************)
NoSharedFiles ==
  \A i, j \in Ids :
    i # j /\ pc[i] = "download" /\ pc[j] = "download" => KeysOf[path[i]] \cap KeysOf[path[j]] = {}

(***************************************************************************)
(* While an update is installed no command runs and nothing is registered. *)
(***************************************************************************)
UpdateIsAlone ==
  updating => \A i \in Ids : pc[i] = "none" /\ transfers[i] = NoEntry

(***************************************************************************)
(* A turn goes to i only if no transfer with an older ticket was in line   *)
(* and due when i looked at the clock.                                     *)
(***************************************************************************)
OldestDueFirst ==
  [][\A i \in Ids : i \in permit' \ permit =>
       \A j \in Ids \ {i} :
         InLine(j) /\ transfers[j].ticket < ticket[i] => ~Due(transfers[j].schedule, asof[i])]_vars

(***************************************************************************)
(* Unless the clock was set back: a command sleeps in the queue while      *)
(* nobody has the turn only if an older ticket is due, whose command will  *)
(* take it (QUEUES.md: "Future tickets do not block ready work").          *)
(***************************************************************************)
NobodyWaitsForNothing ==
  \A i \in Ids : backs = 0 /\ turn = NoTicket /\ pc[i] = "await" /\ i \notin woken =>
    \E k \in Tickets : k < ticket[i] /\ entries[k] # Absent /\ Due(entries[k], now)

PlaceOf(i) == [id |-> i, ticket |-> transfers[i].ticket, schedule |-> transfers[i].schedule]

Line == {PlaceOf(i) : i \in {j \in Ids : InLine(j)}}

Turns == INSTANCE FairTurns WITH line <- Line, holders <- permit

(***************************************************************************)
(* Seen from outside, the queue is FairTurns (QUEUES.md: "admits one due   *)
(* download at a time"; "Downloads enter that gate in arrival order").     *)
(***************************************************************************)
GivesFairTurns == Turns!Spec

(***************************************************************************)
(* If pauses do not last, a transfer that waits for its turn stops waiting *)
(* (QUEUES.md: "an active transfer releases the next waiting transfer when *)
(* it finishes or fails"; tickets "join the ready set at their scheduled   *)
(* time").                                                                 *)
(***************************************************************************)
TurnsComeRound ==
  <>[](\A i \in Ids : control[i] # "paused") =>
    \A i \in Ids : pc[i] = "await" ~> pc[i] # "await"
=============================================================================
