----------------------- MODULE TransferRegistryProofs -----------------------
(***************************************************************************)
(* Proofs for TransferRegistry, for every value of its constants.          *)
(*                                                                         *)
(* The invariant is IInv: types, then ownership (a registration is started *)
(* exactly while its command runs), then distinctness of tickets, and from *)
(* these the turn, the places, the reservations and the update gate.       *)
(***************************************************************************)
EXTENDS TransferRegistry, TLAPS

(* A permit is a local of a command that was admitted and has not ended.   *)
HoldersRun ==
  \A i \in permit : pc[i] \in {"checkpoint2", "prepare", "checkpoint3", "reserve", "download", "exit"}

(* From prepare_destination on, a command has a destination.               *)
PathsPrepared ==
  \A i \in Ids : pc[i] \in {"checkpoint3", "reserve", "download"} => path[i] \in Paths

Typed == TypeOK /\ HoldersRun /\ PathsPrepared

(* Only a running command leaves a transfer started: its guard removes the *)
(* transfer.                                                               *)
StartedRuns ==
  \A i \in Ids : pc[i] = "none" => transfers[i] = NoEntry \/ ~transfers[i].started

(* A ticket about to be forgotten is nobody's: a queue sequence is used    *)
(* once.                                                                   *)
TicketsAreIssued ==
  /\ forgetting \subseteq issued
  /\ \A i \in Ids : transfers[i] # NoEntry /\ transfers[i].ticket # NoTicket =>
       transfers[i].ticket \in issued \ forgetting

(* No two registered transfers have a ticket in common.                    *)
TicketsDiffer ==
  \A i, j \in Ids :
    i # j /\ transfers[i] # NoEntry /\ transfers[j] # NoEntry /\ transfers[i].ticket # NoTicket =>
      transfers[i].ticket # transfers[j].ticket

(* No two registered transfers have reserved a file in common.             *)
KeysDiffer ==
  \A i, j \in Ids :
    i # j /\ transfers[i] # NoEntry /\ transfers[j] # NoEntry =>
      transfers[i].keys \cap transfers[j].keys = {}

(* Whoever downloads has reserved the files of its destination.            *)
DownloadsReserved ==
  \A i \in Ids : pc[i] = "download" => transfers[i].keys = KeysOf[path[i]]

Owned == CommandOwnsRegistration /\ StartedRuns

(* claim_registered_transfer changes one flag of one registration.         *)
LEMMA ClaimEffect ==
  ASSUME Typed, NEW i \in Ids, Claim(i)
  PROVE  /\ transfers' = [transfers EXCEPT ![i] = transfers'[i]]
         /\ transfers'[i] \in ActiveTransfer /\ transfers'[i] # NoEntry
         /\ transfers'[i].started
         /\ transfers'[i].ticket = transfers[i].ticket
         /\ transfers'[i].schedule = transfers[i].schedule
         /\ transfers'[i].keys = transfers[i].keys
<1>1. transfers[i] \in ActiveTransfer
  BY DEF Typed, TypeOK, Claim
<1>2. transfers'[i] = [transfers[i] EXCEPT !.started = TRUE]
  BY DEF Typed, TypeOK, Claim
<1>3. QED
  BY <1>1, <1>2, EntryAssumption DEF Typed, TypeOK, Claim, ActiveTransfer

(* A reservation that finds no conflict changes the keys of one            *)
(* registration.                                                           *)
LEMMA ReserveEffect ==
  ASSUME Typed, Owned, NEW i \in Ids, Reserve(i), ~Conflict(i)
  PROVE  /\ transfers' = [transfers EXCEPT ![i] = transfers'[i]]
         /\ transfers'[i] \in ActiveTransfer /\ transfers'[i] # NoEntry
         /\ transfers'[i].started
         /\ transfers'[i].ticket = transfers[i].ticket
         /\ transfers'[i].schedule = transfers[i].schedule
         /\ transfers'[i].keys = KeysOf[path[i]]
         /\ pc' = [pc EXCEPT ![i] = "download"]
<1>1. transfers[i] \in ActiveTransfer /\ transfers[i].started
  BY DEF Typed, TypeOK, Owned, CommandOwnsRegistration, Reserve
<1>2. KeysOf[path[i]] \in SUBSET Keys
  BY KeysAssumption DEF Typed, PathsPrepared, Reserve, Keys
<1>3. transfers'[i] = [transfers[i] EXCEPT !.keys = KeysOf[path[i]]]
  BY <1>1, EntryAssumption DEF Typed, TypeOK, Reserve
<1>4. QED
  BY <1>1, <1>2, <1>3, EntryAssumption DEF Typed, TypeOK, Reserve, Goto, ActiveTransfer

(* Types, and where permits and destinations can be, survive every step.   *)
LEMMA TypedStep == Typed /\ [Next]_vars => Typed'
<1> SUFFICES ASSUME Typed, [Next]_vars PROVE Typed'
  OBVIOUS
<1> USE EntryAssumption, TicketAssumption, TimeAssumption, KeysAssumption
    DEF queue, command, clock, Typed, TypeOK, HoldersRun, ActiveTransfer, Times, PathsPrepared, Queued, PCs, Keys
<1>1. ASSUME NEW i \in Ids, NEW k \in Tickets \cup {NoTicket}, NEW s \in Times, Register(i, k, s)
     PROVE Typed'
  <2> DEFINE r == [ticket |-> k, schedule |-> s, keys |-> {}, started |-> FALSE]
  <2>1. r \in ActiveTransfer /\ r # NoEntry
    <3>1. r \in ActiveTransfer
      OBVIOUS
    <3> HIDE DEF r, ActiveTransfer
    <3>2. QED
      BY <3>1, EntryAssumption
  <2>2. /\ transfers' = [transfers EXCEPT ![i] = r]
        /\ control' = [control EXCEPT ![i] = "running"]
        /\ issued' \subseteq Tickets /\ woken' \subseteq Ids
        /\ entries' \in [Tickets -> Times \cup {Absent}]
        /\ UNCHANGED <<turn, updating, forgetting, pc, ticket, path, permit, asof, clock>>
    BY <1>1 DEF Register, NotifyQueue
  <2> HIDE DEF r
  <2>3. QED
    BY <2>1, <2>2 DEF clock
<1>2. ASSUME NEW i \in Ids, Discard(i) PROVE Typed'
  BY <1>2 DEF Discard
<1>3. ASSUME NEW i \in Ids, Pause(i) \/ Resume(i) \/ Cancel(i) PROVE Typed'
  BY <1>3 DEF Pause, Resume, Cancel, ControlTo
<1>4. ASSUME NEW i \in Ids, Claim(i) PROVE Typed'
  <2>1. /\ transfers[i] # NoEntry /\ transfers[i] \in ActiveTransfer
        /\ pc' = [pc EXCEPT ![i] = "schedule"] /\ pc[i] = "none"
        /\ ticket' = [ticket EXCEPT ![i] = transfers[i].ticket]
        /\ UNCHANGED <<control, queue, updating, forgetting, path, permit, woken, asof, clock, issued>>
    BY <1>4 DEF Claim, Goto
  <2>2. QED
    BY <2>1, <1>4, ClaimEffect DEF queue, clock
<1>5. ASSUME NEW i \in Ids, ScheduleReached(i) \/ CancelledAsleep(i) PROVE Typed'
  BY <1>5 DEF ScheduleReached, CancelledAsleep, Goto, unchangedBut_pc
<1>6. ASSUME NEW i \in Ids, Checkpoint(i) PROVE Typed'
  BY <1>6 DEF Checkpoint, AfterCheckpoint, unchangedBut_pc
<1>7. ASSUME NEW i \in Ids, Subscribe(i) PROVE Typed'
  BY <1>7 DEF Subscribe, Goto
<1>8. ASSUME NEW i \in Ids, Admit(i) PROVE Typed'
  BY <1>8 DEF Admit
<1>9. ASSUME NEW i \in Ids, Awake(i) PROVE Typed'
  BY <1>9 DEF Awake, Goto
<1>10. ASSUME NEW i \in Ids, CancelledWaiting(i) PROVE Typed'
  BY <1>10 DEF CancelledWaiting, Goto, RemoveTicket, NotifyQueue
<1>11. ASSUME NEW i \in Ids, Prepare(i) PROVE Typed'
  BY <1>11 DEF Prepare, Goto
<1>12. ASSUME NEW i \in Ids, Reserve(i) PROVE Typed'
  BY <1>12 DEF Reserve, Goto
<1>13. ASSUME NEW i \in Ids, DropPermit(i) PROVE Typed'
  BY <1>13 DEF DropPermit, RemoveTicket, NotifyQueue
<1>14. ASSUME NEW i \in Ids, Cleanup(i) PROVE Typed'
  BY <1>14 DEF Cleanup, Goto
<1>15. ASSUME NEW i \in Ids, FinishDownload(i) PROVE Typed'
  BY <1>15 DEF FinishDownload, Goto, unchangedBut_pc
<1>16. ASSUME NEW k \in Tickets, Forget(k) PROVE Typed'
  BY <1>16 DEF Forget, RemoveTicket, NotifyQueue
<1>17. ASSUME BeginUpdate \/ CancelUpdate PROVE Typed'
  BY <1>17 DEF BeginUpdate, CancelUpdate
<1>18. ASSUME Tick \/ SetBack PROVE Typed'
  BY <1>18 DEF Tick, SetBack
<1>19. CASE UNCHANGED vars
  BY <1>19 DEF vars, queue, command, clock
<1>20. QED
  BY <1>1, <1>2, <1>3, <1>4, <1>5, <1>6, <1>7, <1>8, <1>9, <1>10, <1>11, <1>12, <1>13, <1>14,
     <1>15, <1>16, <1>17, <1>18, <1>19
     DEF Next, Proceed

(* A registration is started exactly while its command runs: discard       *)
(* refuses a started one, and the guard of the command removes it.         *)
LEMMA OwnedStep == Typed /\ Owned /\ [Next]_vars => Owned'
<1> SUFFICES ASSUME Typed, Owned, [Next]_vars PROVE Owned'
  OBVIOUS
<1> USE EntryAssumption, TicketAssumption, TimeAssumption, KeysAssumption
    DEF queue, command, clock, Typed, TypeOK, HoldersRun, ActiveTransfer, Times, Owned, CommandOwnsRegistration,
        StartedRuns
<1>1. ASSUME NEW i \in Ids, NEW k \in Tickets \cup {NoTicket}, NEW s \in Times, Register(i, k, s)
     PROVE Owned'
  BY <1>1 DEF Register, NotifyQueue
<1>2. ASSUME NEW i \in Ids, Discard(i) PROVE Owned'
  BY <1>2 DEF Discard
<1>3. ASSUME NEW i \in Ids, Pause(i) \/ Resume(i) \/ Cancel(i) PROVE Owned'
  BY <1>3 DEF Pause, Resume, Cancel, ControlTo
<1>4. ASSUME NEW i \in Ids, Claim(i) PROVE Owned'
  <2>1. /\ transfers[i] # NoEntry /\ transfers[i] \in ActiveTransfer
        /\ pc' = [pc EXCEPT ![i] = "schedule"] /\ pc[i] = "none"
        /\ ticket' = [ticket EXCEPT ![i] = transfers[i].ticket]
        /\ UNCHANGED <<control, queue, updating, forgetting, path, permit, woken, asof, clock, issued>>
    BY <1>4 DEF Claim, Goto
  <2>2. QED
    BY <2>1, <1>4, ClaimEffect DEF queue, clock
<1>5. ASSUME NEW i \in Ids, ScheduleReached(i) \/ CancelledAsleep(i) PROVE Owned'
  BY <1>5 DEF ScheduleReached, CancelledAsleep, Goto, unchangedBut_pc
<1>6. ASSUME NEW i \in Ids, Checkpoint(i) PROVE Owned'
  BY <1>6 DEF Checkpoint, AfterCheckpoint, unchangedBut_pc
<1>7. ASSUME NEW i \in Ids, Subscribe(i) PROVE Owned'
  BY <1>7 DEF Subscribe, Goto
<1>8. ASSUME NEW i \in Ids, Admit(i) PROVE Owned'
  BY <1>8 DEF Admit
<1>9. ASSUME NEW i \in Ids, Awake(i) PROVE Owned'
  BY <1>9 DEF Awake, Goto
<1>10. ASSUME NEW i \in Ids, CancelledWaiting(i) PROVE Owned'
  BY <1>10 DEF CancelledWaiting, Goto, RemoveTicket, NotifyQueue
<1>11. ASSUME NEW i \in Ids, Prepare(i) PROVE Owned'
  BY <1>11 DEF Prepare, Goto
<1>12. ASSUME NEW i \in Ids, Reserve(i) PROVE Owned'
  BY <1>12, ReserveEffect DEF Reserve, Goto
<1>13. ASSUME NEW i \in Ids, DropPermit(i) PROVE Owned'
  BY <1>13 DEF DropPermit, RemoveTicket, NotifyQueue
<1>14. ASSUME NEW i \in Ids, Cleanup(i) PROVE Owned'
  BY <1>14 DEF Cleanup, Goto
<1>15. ASSUME NEW i \in Ids, FinishDownload(i) PROVE Owned'
  BY <1>15 DEF FinishDownload, Goto, unchangedBut_pc
<1>16. ASSUME NEW k \in Tickets, Forget(k) PROVE Owned'
  BY <1>16 DEF Forget, RemoveTicket, NotifyQueue
<1>17. ASSUME BeginUpdate \/ CancelUpdate PROVE Owned'
  BY <1>17 DEF BeginUpdate, CancelUpdate
<1>18. ASSUME Tick \/ SetBack PROVE Owned'
  BY <1>18 DEF Tick, SetBack
<1>19. CASE UNCHANGED vars
  BY <1>19 DEF vars, queue, command, clock
<1>20. QED
  BY <1>1, <1>2, <1>3, <1>4, <1>5, <1>6, <1>7, <1>8, <1>9, <1>10, <1>11, <1>12, <1>13, <1>14,
     <1>15, <1>16, <1>17, <1>18, <1>19
     DEF Next, Proceed

(* Registered tickets stay distinct and are never those to be forgotten.   *)
LEMMA TicketsAreIssuedStep ==
  Typed /\ Owned /\ TicketsAreIssued /\ TicketsDiffer /\ [Next]_vars
  => (TicketsAreIssued /\ TicketsDiffer)'
<1> SUFFICES ASSUME Typed, Owned, TicketsAreIssued, TicketsDiffer, [Next]_vars
             PROVE (TicketsAreIssued /\ TicketsDiffer)'
  OBVIOUS
<1> USE EntryAssumption, TicketAssumption, TimeAssumption, KeysAssumption
    DEF queue, command, clock, Typed, TypeOK, HoldersRun, ActiveTransfer, Times, TicketsAreIssued, TicketsDiffer
<1>1. ASSUME NEW i \in Ids, NEW k \in Tickets \cup {NoTicket}, NEW s \in Times, Register(i, k, s)
     PROVE (TicketsAreIssued /\ TicketsDiffer)'
  BY <1>1 DEF Register, NotifyQueue
<1>2. ASSUME NEW i \in Ids, Discard(i) PROVE (TicketsAreIssued /\ TicketsDiffer)'
  BY <1>2 DEF Discard
<1>3. ASSUME NEW i \in Ids, Pause(i) \/ Resume(i) \/ Cancel(i)
     PROVE (TicketsAreIssued /\ TicketsDiffer)'
  BY <1>3 DEF Pause, Resume, Cancel, ControlTo
<1>4. ASSUME NEW i \in Ids, Claim(i) PROVE (TicketsAreIssued /\ TicketsDiffer)'
  BY <1>4, ClaimEffect DEF Claim, Goto
<1>5. ASSUME NEW i \in Ids, ScheduleReached(i) \/ CancelledAsleep(i)
     PROVE (TicketsAreIssued /\ TicketsDiffer)'
  BY <1>5 DEF ScheduleReached, CancelledAsleep, Goto, unchangedBut_pc
<1>6. ASSUME NEW i \in Ids, Checkpoint(i) PROVE (TicketsAreIssued /\ TicketsDiffer)'
  BY <1>6 DEF Checkpoint, AfterCheckpoint, unchangedBut_pc
<1>7. ASSUME NEW i \in Ids, Subscribe(i) PROVE (TicketsAreIssued /\ TicketsDiffer)'
  BY <1>7 DEF Subscribe, Goto
<1>8. ASSUME NEW i \in Ids, Admit(i) PROVE (TicketsAreIssued /\ TicketsDiffer)'
  BY <1>8 DEF Admit
<1>9. ASSUME NEW i \in Ids, Awake(i) PROVE (TicketsAreIssued /\ TicketsDiffer)'
  BY <1>9 DEF Awake, Goto
<1>10. ASSUME NEW i \in Ids, CancelledWaiting(i)
     PROVE (TicketsAreIssued /\ TicketsDiffer)'
  BY <1>10 DEF CancelledWaiting, Goto, RemoveTicket, NotifyQueue
<1>11. ASSUME NEW i \in Ids, Prepare(i) PROVE (TicketsAreIssued /\ TicketsDiffer)'
  BY <1>11 DEF Prepare, Goto
<1>12. ASSUME NEW i \in Ids, Reserve(i) PROVE (TicketsAreIssued /\ TicketsDiffer)'
  <2>1. CASE Conflict(i)
    BY <1>12, <2>1 DEF Reserve, Goto, queue, clock
  <2>2. CASE ~Conflict(i)
    <3>1. UNCHANGED <<forgetting, issued>>
      BY <1>12 DEF Reserve
    <3>2. /\ \A j \in Ids : transfers'[j] # NoEntry <=> transfers[j] # NoEntry
          /\ \A j \in Ids : transfers[j] # NoEntry => transfers'[j].ticket = transfers[j].ticket
      <4>1. Owned /\ transfers[i] # NoEntry
        BY <1>12 DEF Owned, CommandOwnsRegistration, Reserve
      <4>2. QED
        BY <1>12, <2>2, <4>1, ReserveEffect
    <3>3. QED
      BY <3>1, <3>2
  <2>3. QED
    BY <2>1, <2>2
<1>13. ASSUME NEW i \in Ids, DropPermit(i) PROVE (TicketsAreIssued /\ TicketsDiffer)'
  BY <1>13 DEF DropPermit, RemoveTicket, NotifyQueue
<1>14. ASSUME NEW i \in Ids, Cleanup(i) PROVE (TicketsAreIssued /\ TicketsDiffer)'
  BY <1>14 DEF Cleanup, Goto
<1>15. ASSUME NEW i \in Ids, FinishDownload(i) PROVE (TicketsAreIssued /\ TicketsDiffer)'
  BY <1>15 DEF FinishDownload, Goto, unchangedBut_pc
<1>16. ASSUME NEW k \in Tickets, Forget(k) PROVE (TicketsAreIssued /\ TicketsDiffer)'
  BY <1>16 DEF Forget, RemoveTicket, NotifyQueue
<1>17. ASSUME BeginUpdate \/ CancelUpdate PROVE (TicketsAreIssued /\ TicketsDiffer)'
  BY <1>17 DEF BeginUpdate, CancelUpdate
<1>18. ASSUME Tick \/ SetBack PROVE (TicketsAreIssued /\ TicketsDiffer)'
  BY <1>18 DEF Tick, SetBack
<1>19. CASE UNCHANGED vars
  BY <1>19 DEF vars, queue, command, clock
<1>20. QED
  BY <1>1, <1>2, <1>3, <1>4, <1>5, <1>6, <1>7, <1>8, <1>9, <1>10, <1>11, <1>12, <1>13, <1>14,
     <1>15, <1>16, <1>17, <1>18, <1>19
     DEF Next, Proceed

(* The turn changes hands only through its holder: the tickets that others *)
(* remove from the queue are not the holder's.                             *)
LEMMA OneTurnStep ==
  Typed /\ Owned /\ TicketsAreIssued /\ TicketsDiffer /\ OneTurn /\ [Next]_vars
  => OneTurn'
<1> SUFFICES ASSUME Typed, Owned, TicketsAreIssued, TicketsDiffer, OneTurn, [Next]_vars
             PROVE OneTurn'
  OBVIOUS
<1> USE EntryAssumption, TicketAssumption, TimeAssumption, KeysAssumption
    DEF queue, command, clock, Typed, TypeOK, HoldersRun, ActiveTransfer, Times, Owned, CommandOwnsRegistration,
        StartedRuns, TicketsAreIssued, TicketsDiffer, OneTurn
<1>1. ASSUME NEW i \in Ids, NEW k \in Tickets \cup {NoTicket}, NEW s \in Times, Register(i, k, s)
     PROVE OneTurn'
  BY <1>1 DEF Register, NotifyQueue
<1>2. ASSUME NEW i \in Ids, Discard(i) PROVE OneTurn'
  BY <1>2 DEF Discard
<1>3. ASSUME NEW i \in Ids, Pause(i) \/ Resume(i) \/ Cancel(i) PROVE OneTurn'
  BY <1>3 DEF Pause, Resume, Cancel, ControlTo
<1>4. ASSUME NEW i \in Ids, Claim(i) PROVE OneTurn'
  BY <1>4 DEF Claim, Goto
<1>5. ASSUME NEW i \in Ids, ScheduleReached(i) \/ CancelledAsleep(i) PROVE OneTurn'
  BY <1>5 DEF ScheduleReached, CancelledAsleep, Goto, unchangedBut_pc
<1>6. ASSUME NEW i \in Ids, Checkpoint(i) PROVE OneTurn'
  BY <1>6 DEF Checkpoint, AfterCheckpoint, unchangedBut_pc
<1>7. ASSUME NEW i \in Ids, Subscribe(i) PROVE OneTurn'
  BY <1>7 DEF Subscribe, Goto
<1>8. ASSUME NEW i \in Ids, Admit(i) PROVE OneTurn'
  BY <1>8 DEF Admit
<1>9. ASSUME NEW i \in Ids, Awake(i) PROVE OneTurn'
  BY <1>9 DEF Awake, Goto
<1>10. ASSUME NEW i \in Ids, CancelledWaiting(i) PROVE OneTurn'
  BY <1>10 DEF CancelledWaiting, Goto, RemoveTicket, NotifyQueue
<1>11. ASSUME NEW i \in Ids, Prepare(i) PROVE OneTurn'
  BY <1>11 DEF Prepare, Goto
<1>12. ASSUME NEW i \in Ids, Reserve(i) PROVE OneTurn'
  BY <1>12 DEF Reserve, Goto
<1>13. ASSUME NEW i \in Ids, DropPermit(i) PROVE OneTurn'
  BY <1>13 DEF DropPermit, RemoveTicket, NotifyQueue
<1>14. ASSUME NEW i \in Ids, Cleanup(i) PROVE OneTurn'
  BY <1>14 DEF Cleanup, Goto
<1>15. ASSUME NEW i \in Ids, FinishDownload(i) PROVE OneTurn'
  BY <1>15 DEF FinishDownload, Goto, unchangedBut_pc
<1>16. ASSUME NEW k \in Tickets, Forget(k) PROVE OneTurn'
  BY <1>16 DEF Forget, RemoveTicket, NotifyQueue
<1>17. ASSUME BeginUpdate \/ CancelUpdate PROVE OneTurn'
  BY <1>17 DEF BeginUpdate, CancelUpdate
<1>18. ASSUME Tick \/ SetBack PROVE OneTurn'
  BY <1>18 DEF Tick, SetBack
<1>19. CASE UNCHANGED vars
  BY <1>19 DEF vars, queue, command, clock
<1>20. QED
  BY <1>1, <1>2, <1>3, <1>4, <1>5, <1>6, <1>7, <1>8, <1>9, <1>10, <1>11, <1>12, <1>13, <1>14,
     <1>15, <1>16, <1>17, <1>18, <1>19
     DEF Next, Proceed

(* A ticket leaves the queue's map only with its own transfer.             *)
LEMMA PlaceKeptStep ==
  Typed /\ Owned /\ TicketsAreIssued /\ TicketsDiffer /\ PlaceKept /\ [Next]_vars
  => PlaceKept'
<1> SUFFICES ASSUME Typed, Owned, TicketsAreIssued, TicketsDiffer, PlaceKept, [Next]_vars
             PROVE PlaceKept'
  OBVIOUS
<1> USE EntryAssumption, TicketAssumption, TimeAssumption, KeysAssumption
    DEF queue, command, clock, Typed, TypeOK, HoldersRun, ActiveTransfer, Times, Owned, CommandOwnsRegistration,
        StartedRuns, TicketsAreIssued, TicketsDiffer, PlaceKept, InLine
<1>1. ASSUME NEW i \in Ids, NEW k \in Tickets \cup {NoTicket}, NEW s \in Times, Register(i, k, s)
     PROVE PlaceKept'
  BY <1>1 DEF Register, NotifyQueue
<1>2. ASSUME NEW i \in Ids, Discard(i) PROVE PlaceKept'
  BY <1>2 DEF Discard
<1>3. ASSUME NEW i \in Ids, Pause(i) \/ Resume(i) \/ Cancel(i) PROVE PlaceKept'
  BY <1>3 DEF Pause, Resume, Cancel, ControlTo
<1>4. ASSUME NEW i \in Ids, Claim(i) PROVE PlaceKept'
  BY <1>4 DEF Claim, Goto
<1>5. ASSUME NEW i \in Ids, ScheduleReached(i) \/ CancelledAsleep(i) PROVE PlaceKept'
  BY <1>5 DEF ScheduleReached, CancelledAsleep, Goto, unchangedBut_pc
<1>6. ASSUME NEW i \in Ids, Checkpoint(i) PROVE PlaceKept'
  BY <1>6 DEF Checkpoint, AfterCheckpoint, unchangedBut_pc
<1>7. ASSUME NEW i \in Ids, Subscribe(i) PROVE PlaceKept'
  BY <1>7 DEF Subscribe, Goto
<1>8. ASSUME NEW i \in Ids, Admit(i) PROVE PlaceKept'
  BY <1>8 DEF Admit
<1>9. ASSUME NEW i \in Ids, Awake(i) PROVE PlaceKept'
  BY <1>9 DEF Awake, Goto
<1>10. ASSUME NEW i \in Ids, CancelledWaiting(i) PROVE PlaceKept'
  BY <1>10 DEF CancelledWaiting, Goto, RemoveTicket, NotifyQueue
<1>11. ASSUME NEW i \in Ids, Prepare(i) PROVE PlaceKept'
  BY <1>11 DEF Prepare, Goto
<1>12. ASSUME NEW i \in Ids, Reserve(i) PROVE PlaceKept'
  BY <1>12 DEF Reserve, Goto
<1>13. ASSUME NEW i \in Ids, DropPermit(i) PROVE PlaceKept'
  BY <1>13 DEF DropPermit, RemoveTicket, NotifyQueue
<1>14. ASSUME NEW i \in Ids, Cleanup(i) PROVE PlaceKept'
  BY <1>14 DEF Cleanup, Goto
<1>15. ASSUME NEW i \in Ids, FinishDownload(i) PROVE PlaceKept'
  BY <1>15 DEF FinishDownload, Goto, unchangedBut_pc
<1>16. ASSUME NEW k \in Tickets, Forget(k) PROVE PlaceKept'
  BY <1>16 DEF Forget, RemoveTicket, NotifyQueue
<1>17. ASSUME BeginUpdate \/ CancelUpdate PROVE PlaceKept'
  BY <1>17 DEF BeginUpdate, CancelUpdate
<1>18. ASSUME Tick \/ SetBack PROVE PlaceKept'
  BY <1>18 DEF Tick, SetBack
<1>19. CASE UNCHANGED vars
  BY <1>19 DEF vars, queue, command, clock
<1>20. QED
  BY <1>1, <1>2, <1>3, <1>4, <1>5, <1>6, <1>7, <1>8, <1>9, <1>10, <1>11, <1>12, <1>13, <1>14,
     <1>15, <1>16, <1>17, <1>18, <1>19
     DEF Next, Proceed

(* A reservation is checked against all others in the critical section     *)
(* that makes it.                                                          *)
LEMMA KeysStep ==
  Typed /\ Owned /\ KeysDiffer /\ DownloadsReserved /\ [Next]_vars
  => (KeysDiffer /\ DownloadsReserved)'
<1> SUFFICES ASSUME Typed, Owned, KeysDiffer, DownloadsReserved, [Next]_vars
             PROVE (KeysDiffer /\ DownloadsReserved)'
  OBVIOUS
<1> USE EntryAssumption, TicketAssumption, TimeAssumption, KeysAssumption
    DEF queue, command, clock, Typed, TypeOK, HoldersRun, ActiveTransfer, Times, Owned, CommandOwnsRegistration,
        StartedRuns, KeysDiffer, DownloadsReserved, Conflict, PathsPrepared
<1>1. ASSUME NEW i \in Ids, NEW k \in Tickets \cup {NoTicket}, NEW s \in Times, Register(i, k, s)
     PROVE (KeysDiffer /\ DownloadsReserved)'
  BY <1>1 DEF Register, NotifyQueue
<1>2. ASSUME NEW i \in Ids, Discard(i) PROVE (KeysDiffer /\ DownloadsReserved)'
  BY <1>2 DEF Discard
<1>3. ASSUME NEW i \in Ids, Pause(i) \/ Resume(i) \/ Cancel(i)
     PROVE (KeysDiffer /\ DownloadsReserved)'
  BY <1>3 DEF Pause, Resume, Cancel, ControlTo
<1>4. ASSUME NEW i \in Ids, Claim(i) PROVE (KeysDiffer /\ DownloadsReserved)'
  BY <1>4 DEF Claim, Goto
<1>5. ASSUME NEW i \in Ids, ScheduleReached(i) \/ CancelledAsleep(i)
     PROVE (KeysDiffer /\ DownloadsReserved)'
  BY <1>5 DEF ScheduleReached, CancelledAsleep, Goto, unchangedBut_pc
<1>6. ASSUME NEW i \in Ids, Checkpoint(i) PROVE (KeysDiffer /\ DownloadsReserved)'
  BY <1>6 DEF Checkpoint, AfterCheckpoint, unchangedBut_pc
<1>7. ASSUME NEW i \in Ids, Subscribe(i) PROVE (KeysDiffer /\ DownloadsReserved)'
  BY <1>7 DEF Subscribe, Goto
<1>8. ASSUME NEW i \in Ids, Admit(i) PROVE (KeysDiffer /\ DownloadsReserved)'
  BY <1>8 DEF Admit
<1>9. ASSUME NEW i \in Ids, Awake(i) PROVE (KeysDiffer /\ DownloadsReserved)'
  BY <1>9 DEF Awake, Goto
<1>10. ASSUME NEW i \in Ids, CancelledWaiting(i) PROVE (KeysDiffer /\ DownloadsReserved)'
  BY <1>10 DEF CancelledWaiting, Goto, RemoveTicket, NotifyQueue
<1>11. ASSUME NEW i \in Ids, Prepare(i) PROVE (KeysDiffer /\ DownloadsReserved)'
  BY <1>11 DEF Prepare, Goto
<1>12. ASSUME NEW i \in Ids, Reserve(i) PROVE (KeysDiffer /\ DownloadsReserved)'
  BY <1>12 DEF Reserve, Goto
<1>13. ASSUME NEW i \in Ids, DropPermit(i) PROVE (KeysDiffer /\ DownloadsReserved)'
  BY <1>13 DEF DropPermit, RemoveTicket, NotifyQueue
<1>14. ASSUME NEW i \in Ids, Cleanup(i) PROVE (KeysDiffer /\ DownloadsReserved)'
  BY <1>14 DEF Cleanup, Goto
<1>15. ASSUME NEW i \in Ids, FinishDownload(i) PROVE (KeysDiffer /\ DownloadsReserved)'
  BY <1>15 DEF FinishDownload, Goto, unchangedBut_pc
<1>16. ASSUME NEW k \in Tickets, Forget(k) PROVE (KeysDiffer /\ DownloadsReserved)'
  BY <1>16 DEF Forget, RemoveTicket, NotifyQueue
<1>17. ASSUME BeginUpdate \/ CancelUpdate PROVE (KeysDiffer /\ DownloadsReserved)'
  BY <1>17 DEF BeginUpdate, CancelUpdate
<1>18. ASSUME Tick \/ SetBack PROVE (KeysDiffer /\ DownloadsReserved)'
  BY <1>18 DEF Tick, SetBack
<1>19. CASE UNCHANGED vars
  BY <1>19 DEF vars, queue, command, clock
<1>20. QED
  BY <1>1, <1>2, <1>3, <1>4, <1>5, <1>6, <1>7, <1>8, <1>9, <1>10, <1>11, <1>12, <1>13, <1>14,
     <1>15, <1>16, <1>17, <1>18, <1>19
     DEF Next, Proceed

(* Registration and the update gate exclude each other.                    *)
LEMMA UpdateStep == Typed /\ Owned /\ UpdateIsAlone /\ [Next]_vars => UpdateIsAlone'
<1> SUFFICES ASSUME Typed, Owned, UpdateIsAlone, [Next]_vars PROVE UpdateIsAlone'
  OBVIOUS
<1> USE EntryAssumption, TicketAssumption, TimeAssumption, KeysAssumption
    DEF queue, command, clock, Typed, TypeOK, HoldersRun, ActiveTransfer, Times, Owned, CommandOwnsRegistration,
        UpdateIsAlone
<1>1. ASSUME NEW i \in Ids, NEW k \in Tickets \cup {NoTicket}, NEW s \in Times, Register(i, k, s)
     PROVE UpdateIsAlone'
  BY <1>1 DEF Register, NotifyQueue
<1>2. ASSUME NEW i \in Ids, Discard(i) PROVE UpdateIsAlone'
  BY <1>2 DEF Discard
<1>3. ASSUME NEW i \in Ids, Pause(i) \/ Resume(i) \/ Cancel(i) PROVE UpdateIsAlone'
  BY <1>3 DEF Pause, Resume, Cancel, ControlTo
<1>4. ASSUME NEW i \in Ids, Claim(i) PROVE UpdateIsAlone'
  BY <1>4 DEF Claim, Goto
<1>5. ASSUME NEW i \in Ids, ScheduleReached(i) \/ CancelledAsleep(i) PROVE UpdateIsAlone'
  BY <1>5 DEF ScheduleReached, CancelledAsleep, Goto, unchangedBut_pc
<1>6. ASSUME NEW i \in Ids, Checkpoint(i) PROVE UpdateIsAlone'
  BY <1>6 DEF Checkpoint, AfterCheckpoint, unchangedBut_pc
<1>7. ASSUME NEW i \in Ids, Subscribe(i) PROVE UpdateIsAlone'
  BY <1>7 DEF Subscribe, Goto
<1>8. ASSUME NEW i \in Ids, Admit(i) PROVE UpdateIsAlone'
  BY <1>8 DEF Admit
<1>9. ASSUME NEW i \in Ids, Awake(i) PROVE UpdateIsAlone'
  BY <1>9 DEF Awake, Goto
<1>10. ASSUME NEW i \in Ids, CancelledWaiting(i) PROVE UpdateIsAlone'
  BY <1>10 DEF CancelledWaiting, Goto, RemoveTicket, NotifyQueue
<1>11. ASSUME NEW i \in Ids, Prepare(i) PROVE UpdateIsAlone'
  BY <1>11 DEF Prepare, Goto
<1>12. ASSUME NEW i \in Ids, Reserve(i) PROVE UpdateIsAlone'
  BY <1>12 DEF Reserve, Goto
<1>13. ASSUME NEW i \in Ids, DropPermit(i) PROVE UpdateIsAlone'
  BY <1>13 DEF DropPermit, RemoveTicket, NotifyQueue
<1>14. ASSUME NEW i \in Ids, Cleanup(i) PROVE UpdateIsAlone'
  BY <1>14 DEF Cleanup, Goto
<1>15. ASSUME NEW i \in Ids, FinishDownload(i) PROVE UpdateIsAlone'
  BY <1>15 DEF FinishDownload, Goto, unchangedBut_pc
<1>16. ASSUME NEW k \in Tickets, Forget(k) PROVE UpdateIsAlone'
  BY <1>16 DEF Forget, RemoveTicket, NotifyQueue
<1>17. ASSUME BeginUpdate \/ CancelUpdate PROVE UpdateIsAlone'
  BY <1>17 DEF BeginUpdate, CancelUpdate
<1>18. ASSUME Tick \/ SetBack PROVE UpdateIsAlone'
  BY <1>18 DEF Tick, SetBack
<1>19. CASE UNCHANGED vars
  BY <1>19 DEF vars, queue, command, clock
<1>20. QED
  BY <1>1, <1>2, <1>3, <1>4, <1>5, <1>6, <1>7, <1>8, <1>9, <1>10, <1>11, <1>12, <1>13, <1>14,
     <1>15, <1>16, <1>17, <1>18, <1>19
     DEF Next, Proceed

(* The inductive invariant.                                                *)
IInv ==
  /\ Typed /\ Owned /\ TicketsAreIssued /\ TicketsDiffer
  /\ OneTurn /\ PlaceKept /\ KeysDiffer /\ DownloadsReserved /\ UpdateIsAlone

(***************************************************************************)
(* The inductive invariant of lib.rs's registry holds, for any number of   *)
(* tasks, tickets, schedules and destinations, and any clock.              *)
(***************************************************************************)
THEOREM Invariance == Spec => []IInv
<1>1. Init => IInv
  <2> SUFFICES ASSUME Init PROVE IInv
    OBVIOUS
  <2>1. Typed
    BY TimeAssumption DEF Init, Typed, TypeOK, HoldersRun, PathsPrepared, Queued, PCs, Times
  <2>2. Owned /\ TicketsAreIssued /\ TicketsDiffer /\ OneTurn /\ PlaceKept
        /\ KeysDiffer /\ DownloadsReserved /\ UpdateIsAlone
    BY DEF Init, Owned, CommandOwnsRegistration, StartedRuns, TicketsAreIssued, TicketsDiffer,
           OneTurn, PlaceKept, InLine, KeysDiffer, DownloadsReserved, UpdateIsAlone
  <2>3. QED
    BY <2>1, <2>2 DEF IInv
<1>2. IInv /\ [Next]_vars => IInv'
  BY TypedStep, OwnedStep, TicketsAreIssuedStep, OneTurnStep, PlaceKeptStep, KeysStep,
     UpdateStep
     DEF IInv
<1>3. QED
  BY <1>1, <1>2, PTL DEF Spec

(* The variables of the registry and of start_download keep their types.   *)
THEOREM TypeCorrect == Spec => []TypeOK
<1>1. IInv => TypeOK
  BY DEF IInv, Typed
<1>2. QED
  BY <1>1, Invariance, PTL

(* Sequential mode: at most one transfer has the turn, and the queue's     *)
(* active_ticket is its ticket (SequentialQueue::acquire, remove).         *)
THEOREM TurnsAreExclusive == Spec => []OneTurn
<1>1. IInv => OneTurn
  BY DEF IInv
<1>2. QED
  BY <1>1, Invariance, PTL

(* No transfer in line loses its entry in the queue                        *)
(* (SequentialQueue::remove).                                              *)
THEOREM PlacesAreKept == Spec => []PlaceKept
<1>1. IInv => PlaceKept
  BY DEF IInv
<1>2. QED
  BY <1>1, Invariance, PTL

(* A running start_download keeps the registration it claimed              *)
(* (discard_registered_download, RegisteredTransferCleanup).               *)
THEOREM CommandsOwnTheirRegistration == Spec => []CommandOwnsRegistration
<1>1. IInv => CommandOwnsRegistration
  BY DEF IInv, Owned
<1>2. QED
  BY <1>1, Invariance, PTL

(* Two running downloads have no file in common                            *)
(* (prepare_and_reserve_destination).                                      *)
THEOREM FilesAreNotShared == Spec => []NoSharedFiles
<1>1. IInv => NoSharedFiles
  BY DEF IInv, Owned, CommandOwnsRegistration, KeysDiffer, DownloadsReserved, NoSharedFiles
<1>2. QED
  BY <1>1, Invariance, PTL

(* While an update is installed nothing is registered and nothing runs     *)
(* (begin_update_install_guard).                                           *)
THEOREM UpdatesAreAlone == Spec => []UpdateIsAlone
<1>1. IInv => UpdateIsAlone
  BY DEF IInv
<1>2. QED
  BY <1>1, Invariance, PTL

(* While the clock has not been set back, whoever has slept until its      *)
(* schedule is due.                                                        *)
DueInQueue ==
  backs = 0 => \A i \in Ids :
    /\ pc[i] \in {"checkpoint1", "subscribe", "await"} => Due(transfers[i].schedule, now)
    /\ pc[i] = "admit" => asof[i] <= now /\ Due(transfers[i].schedule, asof[i])

(* Time that only advances does not undo a due schedule.                   *)
LEMMA DueInQueueStep == Typed /\ Owned /\ DueInQueue /\ [Next]_vars => DueInQueue'
<1> SUFFICES ASSUME Typed, Owned, DueInQueue, [Next]_vars PROVE DueInQueue'
  OBVIOUS
<1> USE EntryAssumption, TicketAssumption, TimeAssumption, KeysAssumption
    DEF queue, command, clock, Typed, TypeOK, HoldersRun, ActiveTransfer, Times, Owned, CommandOwnsRegistration,
        DueInQueue, Due
<1>1. ASSUME NEW i \in Ids, NEW k \in Tickets \cup {NoTicket}, NEW s \in Times, Register(i, k, s)
     PROVE DueInQueue'
  BY <1>1 DEF Register, NotifyQueue
<1>2. ASSUME NEW i \in Ids, Discard(i) PROVE DueInQueue'
  BY <1>2 DEF Discard
<1>3. ASSUME NEW i \in Ids, Pause(i) \/ Resume(i) \/ Cancel(i) PROVE DueInQueue'
  BY <1>3 DEF Pause, Resume, Cancel, ControlTo
<1>4. ASSUME NEW i \in Ids, Claim(i) PROVE DueInQueue'
  BY <1>4 DEF Claim, Goto
<1>5. ASSUME NEW i \in Ids, ScheduleReached(i) \/ CancelledAsleep(i) PROVE DueInQueue'
  BY <1>5 DEF ScheduleReached, CancelledAsleep, Goto, unchangedBut_pc
<1>6. ASSUME NEW i \in Ids, Checkpoint(i) PROVE DueInQueue'
  BY <1>6 DEF Checkpoint, AfterCheckpoint, unchangedBut_pc
<1>7. ASSUME NEW i \in Ids, Subscribe(i) PROVE DueInQueue'
  BY <1>7 DEF Subscribe, Goto
<1>8. ASSUME NEW i \in Ids, Admit(i) PROVE DueInQueue'
  BY <1>8 DEF Admit
<1>9. ASSUME NEW i \in Ids, Awake(i) PROVE DueInQueue'
  BY <1>9 DEF Awake, Goto
<1>10. ASSUME NEW i \in Ids, CancelledWaiting(i) PROVE DueInQueue'
  BY <1>10 DEF CancelledWaiting, Goto, RemoveTicket, NotifyQueue
<1>11. ASSUME NEW i \in Ids, Prepare(i) PROVE DueInQueue'
  BY <1>11 DEF Prepare, Goto
<1>12. ASSUME NEW i \in Ids, Reserve(i) PROVE DueInQueue'
  BY <1>12 DEF Reserve, Goto
<1>13. ASSUME NEW i \in Ids, DropPermit(i) PROVE DueInQueue'
  BY <1>13 DEF DropPermit, RemoveTicket, NotifyQueue
<1>14. ASSUME NEW i \in Ids, Cleanup(i) PROVE DueInQueue'
  BY <1>14 DEF Cleanup, Goto
<1>15. ASSUME NEW i \in Ids, FinishDownload(i) PROVE DueInQueue'
  BY <1>15 DEF FinishDownload, Goto, unchangedBut_pc
<1>16. ASSUME NEW k \in Tickets, Forget(k) PROVE DueInQueue'
  BY <1>16 DEF Forget, RemoveTicket, NotifyQueue
<1>17. ASSUME BeginUpdate \/ CancelUpdate PROVE DueInQueue'
  BY <1>17 DEF BeginUpdate, CancelUpdate
<1>18. ASSUME Tick \/ SetBack PROVE DueInQueue'
  BY <1>18 DEF Tick, SetBack
<1>19. CASE UNCHANGED vars
  BY <1>19 DEF vars, queue, command, clock
<1>20. QED
  BY <1>1, <1>2, <1>3, <1>4, <1>5, <1>6, <1>7, <1>8, <1>9, <1>10, <1>11, <1>12, <1>13, <1>14,
     <1>15, <1>16, <1>17, <1>18, <1>19
     DEF Next, Proceed

(* A turn that becomes free and an entry that leaves are announced to all  *)
(* who wait; one who starts to wait has seen an older entry that is due.   *)
LEMMA NobodyWaitsStep ==
  Typed /\ Owned /\ TicketsAreIssued /\ TicketsDiffer /\ PlaceKept /\ DueInQueue /\ NobodyWaitsForNothing /\ [Next]_vars
  => NobodyWaitsForNothing'
<1> SUFFICES ASSUME Typed, Owned, TicketsAreIssued, TicketsDiffer, PlaceKept, DueInQueue, NobodyWaitsForNothing, [Next]_vars
             PROVE NobodyWaitsForNothing'
  OBVIOUS
<1> USE EntryAssumption, TicketAssumption, TimeAssumption, KeysAssumption
    DEF queue, command, clock, Typed, TypeOK, HoldersRun, ActiveTransfer, Times, Owned, CommandOwnsRegistration,
        TicketsAreIssued, TicketsDiffer, PlaceKept, InLine, DueInQueue, Due,
        NobodyWaitsForNothing
<1>1. ASSUME NEW i \in Ids, NEW k \in Tickets \cup {NoTicket}, NEW s \in Times, Register(i, k, s)
     PROVE NobodyWaitsForNothing'
  BY <1>1 DEF Register, NotifyQueue
<1>2. ASSUME NEW i \in Ids, Discard(i) PROVE NobodyWaitsForNothing'
  BY <1>2 DEF Discard
<1>3. ASSUME NEW i \in Ids, Pause(i) \/ Resume(i) \/ Cancel(i)
     PROVE NobodyWaitsForNothing'
  BY <1>3 DEF Pause, Resume, Cancel, ControlTo
<1>4. ASSUME NEW i \in Ids, Claim(i) PROVE NobodyWaitsForNothing'
  BY <1>4 DEF Claim, Goto
<1>5. ASSUME NEW i \in Ids, ScheduleReached(i) \/ CancelledAsleep(i)
     PROVE NobodyWaitsForNothing'
  BY <1>5 DEF ScheduleReached, CancelledAsleep, Goto, unchangedBut_pc
<1>6. ASSUME NEW i \in Ids, Checkpoint(i) PROVE NobodyWaitsForNothing'
  BY <1>6 DEF Checkpoint, AfterCheckpoint, unchangedBut_pc
<1>7. ASSUME NEW i \in Ids, Subscribe(i) PROVE NobodyWaitsForNothing'
  BY <1>7 DEF Subscribe, Goto
<1>8. ASSUME NEW i \in Ids, Admit(i) PROVE NobodyWaitsForNothing'
  <2> SUFFICES ASSUME NEW m \in Ids, backs' = 0, turn' = NoTicket, pc'[m] = "await", m \notin woken'
               PROVE  \E j \in Tickets : j < ticket'[m] /\ entries'[j] # Absent /\ Due(entries'[j], now')
    BY DEF NobodyWaitsForNothing
  <2>1. UNCHANGED <<entries, ticket, clock>>
    BY <1>8 DEF Admit
  <2>2. turn = NoTicket /\ (m = i => ~IsNextReady(ticket[i], asof[i]) /\ entries[ticket[i]] # Absent)
    BY <1>8 DEF Admit
  <2>3. CASE m # i
    BY <1>8, <2>1, <2>2, <2>3 DEF Admit, clock
  <2>4. CASE m = i
    <3>1. asof[i] <= now /\ Due(entries[ticket[i]], asof[i])
      <4>1. pc[i] = "admit" /\ backs = 0
        BY <1>8, <2>1 DEF Admit, clock
      <4>2. asof[i] <= now /\ Due(transfers[i].schedule, asof[i])
        BY <4>1
      <4>3. transfers[i] # NoEntry /\ transfers[i].ticket = ticket[i] /\ ticket[i] # NoTicket
        BY <4>1 DEF Queued
      <4>4. entries[ticket[i]] = transfers[i].schedule
        BY <4>1, <4>3
      <4>5. QED
        BY <4>2, <4>4
    <3>2. \E j \in Tickets : j < ticket[i] /\ entries[j] # Absent /\ Due(entries[j], asof[i])
      BY <1>8, <2>2, <2>4, <3>1 DEF IsNextReady
    <3>3. QED
      BY <2>1, <2>4, <3>1, <3>2 DEF clock
  <2>5. QED
    BY <2>3, <2>4
<1>9. ASSUME NEW i \in Ids, Awake(i) PROVE NobodyWaitsForNothing'
  BY <1>9 DEF Awake, Goto
<1>10. ASSUME NEW i \in Ids, CancelledWaiting(i) PROVE NobodyWaitsForNothing'
  BY <1>10 DEF CancelledWaiting, Goto, RemoveTicket, NotifyQueue
<1>11. ASSUME NEW i \in Ids, Prepare(i) PROVE NobodyWaitsForNothing'
  BY <1>11 DEF Prepare, Goto
<1>12. ASSUME NEW i \in Ids, Reserve(i) PROVE NobodyWaitsForNothing'
  BY <1>12 DEF Reserve, Goto
<1>13. ASSUME NEW i \in Ids, DropPermit(i) PROVE NobodyWaitsForNothing'
  BY <1>13 DEF DropPermit, RemoveTicket, NotifyQueue
<1>14. ASSUME NEW i \in Ids, Cleanup(i) PROVE NobodyWaitsForNothing'
  BY <1>14 DEF Cleanup, Goto
<1>15. ASSUME NEW i \in Ids, FinishDownload(i) PROVE NobodyWaitsForNothing'
  BY <1>15 DEF FinishDownload, Goto, unchangedBut_pc
<1>16. ASSUME NEW k \in Tickets, Forget(k) PROVE NobodyWaitsForNothing'
  BY <1>16 DEF Forget, RemoveTicket, NotifyQueue
<1>17. ASSUME BeginUpdate \/ CancelUpdate PROVE NobodyWaitsForNothing'
  BY <1>17 DEF BeginUpdate, CancelUpdate
<1>18. ASSUME Tick \/ SetBack PROVE NobodyWaitsForNothing'
  BY <1>18 DEF Tick, SetBack
<1>19. CASE UNCHANGED vars
  BY <1>19 DEF vars, queue, command, clock
<1>20. QED
  BY <1>1, <1>2, <1>3, <1>4, <1>5, <1>6, <1>7, <1>8, <1>9, <1>10, <1>11, <1>12, <1>13, <1>14,
     <1>15, <1>16, <1>17, <1>18, <1>19
     DEF Next, Proceed

(***************************************************************************)
(* Unless the clock was set back, nobody sleeps in the queue beside a turn *)
(* that it could have (SequentialQueue::acquire and the notifications of   *)
(* register and remove).                                                   *)
(***************************************************************************)
THEOREM NobodyWaits == Spec => []NobodyWaitsForNothing
<1>1. Init => DueInQueue /\ NobodyWaitsForNothing
  BY DEF Init, DueInQueue, NobodyWaitsForNothing
<1>2. IInv /\ DueInQueue /\ NobodyWaitsForNothing /\ [Next]_vars => (DueInQueue /\ NobodyWaitsForNothing)'
  BY DueInQueueStep, NobodyWaitsStep DEF IInv
<1>3. QED
  BY <1>1, <1>2, Invariance, PTL DEF Spec

(***************************************************************************)
(* acquire() gives no turn to a transfer while an older ticket is in line  *)
(* that was due by the clock acquire() read.                               *)
(***************************************************************************)
THEOREM OldestFirst == Spec => OldestDueFirst
<1>1. IInv /\ [Next]_vars => [\A i \in Ids : i \in permit' \ permit =>
                                \A j \in Ids \ {i} :
                                  InLine(j) /\ transfers[j].ticket < ticket[i]
                                    => ~Due(transfers[j].schedule, asof[i])]_vars
  <2> SUFFICES ASSUME IInv, Next, NEW i \in Ids, (i \in permit' \ permit),
                      NEW j \in Ids \ {i}, InLine(j), transfers[j].ticket < ticket[i]
               PROVE  ~Due(transfers[j].schedule, asof[i])
    OBVIOUS
  <2>1. Admit(i)
    BY DEF Next, Proceed, Register, Discard, Pause, Resume, Cancel, ControlTo, Claim,
           ScheduleReached, CancelledAsleep, Checkpoint, Subscribe, Admit, Awake, CancelledWaiting,
           Prepare, Reserve, DropPermit, Cleanup, FinishDownload, Forget, BeginUpdate, CancelUpdate,
           Tick, SetBack, command, unchangedBut_pc
  <2>2. IsNextReady(ticket[i], asof[i])
    BY <2>1 DEF Admit
  <2>3. transfers[j].ticket \in Tickets /\ transfers[j].schedule \in Times
    BY TicketAssumption DEF IInv, Typed, TypeOK, InLine, ActiveTransfer
  <2>4. entries[transfers[j].ticket] = transfers[j].schedule
    BY DEF IInv, PlaceKept
  <2>5. transfers[j].schedule # Absent
    BY <2>3, TimeAssumption DEF Times
  <2>6. QED
    BY <2>2, <2>3, <2>4, <2>5 DEF IsNextReady
<1>2. QED
  BY <1>1, Invariance, PTL DEF Spec, OldestDueFirst

-----------------------------------------------------------------------------
(* What an observer of the queue sees of transfer i does not change.       *)
Kept(i) == (InLine(i)' <=> InLine(i)) /\ (InLine(i) => PlaceOf(i)' = PlaceOf(i))

OthersKept(i) == \A j \in Ids \ {i} : Kept(j)

(* The line as FairTurns sees it: unchanged, joined by one, left by one.   *)
LEMMA LineKept ==
  ASSUME \A i \in Ids : Kept(i)
  PROVE  Line' = Line
  BY DEF Kept, Line

LEMMA LineJoined ==
  ASSUME NEW i \in Ids, ~InLine(i), InLine(i)', OthersKept(i)
  PROVE  Line' = Line \cup {PlaceOf(i)'}
  BY DEF OthersKept, Kept, Line

LEMMA LineLeft ==
  ASSUME NEW i \in Ids, InLine(i), ~InLine(i)', OthersKept(i)
  PROVE  Line' = Line \ {PlaceOf(i)} /\ PlaceOf(i) \in Line
<1>1. \A j \in Ids \ {i} : PlaceOf(j) # PlaceOf(i)
  BY DEF PlaceOf
<1>2. QED
  BY <1>1 DEF OthersKept, Kept, Line

(* A step that leaves a transfer and its command alone is not seen.        *)
LEMMA KeptWhen ==
  ASSUME NEW j \in Ids, UNCHANGED <<transfers[j], pc[j]>>
  PROVE  Kept(j)
  BY DEF Kept, InLine, PlaceOf

AbstractStep == [Turns!Next]_(Turns!vars)

(* Each kind of step is a step of FairTurns, or a stutter.                 *)
LEMMA Stutters ==
  ASSUME \A i \in Ids : Kept(i), permit' = permit
  PROVE  AbstractStep
<1>1. Line' = Line
  BY LineKept
<1>2. QED
  BY <1>1 DEF AbstractStep, Turns!vars

LEMMA Joins ==
  ASSUME Typed', TicketsDiffer', NEW i \in Ids, ~InLine(i), InLine(i)', OthersKept(i), permit' = permit
  PROVE  AbstractStep
<1>1. Line' = Line \cup {PlaceOf(i)'}
  BY LineJoined
<1>2. \A o \in Line : o.id # i /\ o.ticket # transfers'[i].ticket
  <2> SUFFICES ASSUME NEW j \in Ids, InLine(j) PROVE j # i /\ transfers[j].ticket # transfers'[i].ticket
    BY DEF Line, PlaceOf
  <2>1. InLine(j)' /\ transfers'[j].ticket = transfers[j].ticket /\ j # i
    BY DEF OthersKept, Kept, PlaceOf
  <2>2. QED
    BY <2>1 DEF InLine, TicketsDiffer
<1>3. PlaceOf(i)' \in Turns!Place
  BY DEF Typed, TypeOK, ActiveTransfer, Times, InLine, PlaceOf, Turns!Place
<1>4. PICK m \in Turns!Place : m = PlaceOf(i)'
  BY <1>3
<1>5. m.id = i /\ m.ticket = transfers'[i].ticket
  BY <1>4 DEF PlaceOf
<1>6. Turns!Join(m) /\ m \notin Line
  BY <1>1, <1>2, <1>4, <1>5 DEF Turns!Join
<1>7. QED
  BY <1>6 DEF AbstractStep, Turns!Next

LEMMA Leaves ==
  ASSUME NEW i \in Ids, InLine(i), ~InLine(i)', OthersKept(i), permit' = permit
  PROVE  AbstractStep
<1>1. Line' = Line \ {PlaceOf(i)} /\ PlaceOf(i) \in Line
  BY LineLeft
<1>2. Turns!Leave(PlaceOf(i))
  BY <1>1 DEF Turns!Leave
<1>3. QED
  BY <1>1, <1>2 DEF AbstractStep, Turns!Next

LEMMA Takes ==
  ASSUME IInv, NEW i \in Ids, InLine(i), ~InLine(i)', OthersKept(i),
         permit = {}, permit' = {i}, transfers[i].ticket = ticket[i],
         IsNextReady(ticket[i], asof[i])
  PROVE  AbstractStep
<1>1. Line' = Line \ {PlaceOf(i)} /\ PlaceOf(i) \in Line
  BY LineLeft
<1>2. ASSUME NEW j \in Ids, InLine(j), transfers[j].ticket < ticket[i]
      PROVE  transfers[j].schedule # NoTime
  <2>1. transfers[j].ticket \in Tickets /\ transfers[j].schedule \in Times
    BY <1>2 DEF IInv, Typed, TypeOK, InLine, ActiveTransfer
  <2>2. entries[transfers[j].ticket] = transfers[j].schedule /\ transfers[j].schedule # Absent
    BY <1>2, <2>1, TimeAssumption DEF IInv, PlaceKept, Times
  <2>3. ~Due(transfers[j].schedule, asof[i])
    BY <1>2, <2>1, <2>2 DEF IsNextReady
  <2>4. QED
    BY <2>3 DEF Due
<1>3. Turns!Take(PlaceOf(i))
  BY <1>1, <1>2 DEF Turns!Take, Line, PlaceOf
<1>4. QED
  BY <1>1, <1>3 DEF AbstractStep, Turns!Next

LEMMA Ends ==
  ASSUME \A i \in Ids : Kept(i), permit' = {}
  PROVE  AbstractStep
<1>1. Line' = Line
  BY LineKept
<1>2. QED
  BY <1>1 DEF AbstractStep, Turns!Next, Turns!End

(***************************************************************************)
(* The registry implements the abstract queue: a registration joins the    *)
(* line, a discard or a cancellation before the turn leaves it, acquire()  *)
(* takes the turn, the drop of the permit ends it, and no other critical   *)
(* section can be seen.                                                    *)
(***************************************************************************)
THEOREM ImplementsFairTurns == Spec => GivesFairTurns
<1>1. Init => Turns!Init
  BY DEF Init, Turns!Init, Line, InLine
<1>2. IInv /\ IInv' /\ [Next]_vars => AbstractStep
  <2> SUFFICES ASSUME IInv, IInv', [Next]_vars PROVE AbstractStep
    OBVIOUS
  <2>0. ASSUME UNCHANGED <<transfers, pc, permit>> PROVE AbstractStep
    BY <2>0, KeptWhen, Stutters
  <2>1. ASSUME NEW i \in Ids, NEW k \in Tickets \cup {NoTicket}, NEW s \in Times, Register(i, k, s)
        PROVE  AbstractStep
    <3>1. OthersKept(i) /\ permit' = permit /\ ~InLine(i)
      BY <2>1, KeptWhen DEF Register, OthersKept, IInv, Typed, TypeOK, InLine
    <3>2. CASE InLine(i)'
      BY <3>1, <3>2, Joins DEF IInv
    <3>3. CASE ~InLine(i)'
      BY <3>1, <3>3, Stutters DEF OthersKept, Kept
    <3>4. QED
      BY <3>2, <3>3
  <2>2. ASSUME NEW i \in Ids, Discard(i)
        PROVE  AbstractStep
    <3>1. OthersKept(i) /\ permit' = permit /\ ~InLine(i)'
      BY <2>2, KeptWhen DEF Discard, OthersKept, IInv, Typed, TypeOK, InLine, command
    <3>2. CASE InLine(i)
      BY <3>1, <3>2, Leaves
    <3>3. CASE ~InLine(i)
      BY <3>1, <3>3, Stutters DEF OthersKept, Kept
    <3>4. QED
      BY <3>2, <3>3
  <2>3. ASSUME NEW i \in Ids, Pause(i) \/ Resume(i) \/ Cancel(i)
        PROVE  AbstractStep
    BY <2>0, <2>3 DEF Pause, Resume, Cancel, ControlTo, command
  <2>4. ASSUME NEW i \in Ids, Claim(i)
        PROVE  AbstractStep
    <3>1. OthersKept(i) /\ permit' = permit
      BY <2>4, ClaimEffect, KeptWhen DEF Claim, Goto, OthersKept, IInv, Typed, TypeOK
    <3>2. pc'[i] = "schedule" /\ ~transfers[i].started /\ transfers[i] # NoEntry
      BY <2>4 DEF Claim, Goto, IInv, Typed, TypeOK
    <3>3. Kept(i)
      BY <2>4, <3>2, ClaimEffect DEF Kept, PlaceOf, InLine, IInv
    <3>4. QED
      BY <3>1, <3>3, Stutters DEF OthersKept
  <2>5. ASSUME NEW i \in Ids, ScheduleReached(i) \/ Subscribe(i) \/ Awake(i)
        PROVE  AbstractStep
    <3>1. OthersKept(i) /\ permit' = permit
      BY <2>5, KeptWhen
         DEF ScheduleReached, Subscribe, Awake, Goto, OthersKept, IInv, Typed, TypeOK,
             unchangedBut_pc
    <3>2. Kept(i)
      BY <2>5
         DEF ScheduleReached, Subscribe, Awake, Goto, Kept, PlaceOf, InLine, IInv, Typed,
             TypeOK, unchangedBut_pc
    <3>3. QED
      BY <3>1, <3>2, Stutters DEF OthersKept
  <2>6. ASSUME NEW i \in Ids, CancelledAsleep(i) \/ CancelledWaiting(i)
        PROVE  AbstractStep
    <3>1. OthersKept(i) /\ permit' = permit
      BY <2>6, KeptWhen
         DEF CancelledAsleep, CancelledWaiting, Goto, OthersKept, IInv, Typed, TypeOK,
             unchangedBut_pc
    <3>2. ~InLine(i)'
      BY <2>6
         DEF CancelledAsleep, CancelledWaiting, Goto, InLine, IInv, Typed, TypeOK, Owned,
             CommandOwnsRegistration, unchangedBut_pc
    <3>3. CASE InLine(i)
      BY <3>1, <3>2, <3>3, Leaves
    <3>4. CASE ~InLine(i)
      BY <3>1, <3>2, <3>4, Stutters DEF OthersKept, Kept
    <3>5. QED
      BY <3>3, <3>4
  <2>7. ASSUME NEW i \in Ids, Checkpoint(i)
        PROVE  AbstractStep
    <3>1. OthersKept(i) /\ permit' = permit /\ transfers' = transfers
      BY <2>7, KeptWhen DEF Checkpoint, OthersKept, IInv, Typed, TypeOK, unchangedBut_pc
    <3>2. InLine(i)' => InLine(i)
      BY <2>7, <3>1
         DEF Checkpoint, AfterCheckpoint, InLine, IInv, Typed, TypeOK, Owned,
             CommandOwnsRegistration
    <3>3. CASE InLine(i) /\ ~InLine(i)'
      BY <3>1, <3>3, Leaves
    <3>4. CASE ~(InLine(i) /\ ~InLine(i)')
      BY <3>1, <3>2, <3>4, Stutters DEF OthersKept, Kept, PlaceOf
    <3>5. QED
      BY <3>3, <3>4
  <2>8. ASSUME NEW i \in Ids, Admit(i)
        PROVE  AbstractStep
    <3>1. OthersKept(i) /\ transfers' = transfers /\ ticket[i] # NoTicket
      BY <2>8, KeptWhen DEF Admit, OthersKept, IInv, Typed, TypeOK, Queued
    <3>2. InLine(i) /\ transfers[i].ticket = ticket[i] /\ transfers[i].started
      BY <2>8, <3>1 DEF Admit, InLine, IInv, Owned, CommandOwnsRegistration
    <3>3. CASE turn = NoTicket /\ IsNextReady(ticket[i], asof[i])
      <4>1. permit = {}
        BY <3>3, TicketAssumption DEF IInv, OneTurn, Typed, TypeOK
      <4>2. permit' = {i} /\ pc'[i] = "checkpoint2"
        BY <2>8, <3>3, <4>1 DEF Admit, IInv, Typed, TypeOK
      <4>3. ~InLine(i)'
        BY <3>1, <3>2, <4>2 DEF InLine
      <4>4. QED
        BY <3>1, <3>2, <3>3, <4>1, <4>2, <4>3, Takes
    <3>4. CASE ~(turn = NoTicket /\ IsNextReady(ticket[i], asof[i]))
      <4>1. permit' = permit /\ pc'[i] \in {"exit", "await"}
        BY <2>8, <3>4 DEF Admit, IInv, Typed, TypeOK
      <4>2. CASE pc'[i] = "await"
        BY <3>1, <3>2, <4>1, <4>2, Stutters DEF OthersKept, Kept, InLine, PlaceOf
      <4>3. CASE pc'[i] = "exit"
        <5>1. ~InLine(i)'
          BY <3>1, <3>2, <4>3 DEF InLine
        <5>2. QED
          BY <3>1, <3>2, <4>1, <5>1, Leaves
      <4>4. QED
        BY <4>1, <4>2, <4>3
    <3>5. QED
      BY <3>3, <3>4
  <2>9. ASSUME NEW i \in Ids, Prepare(i) \/ Reserve(i) \/ Cleanup(i) \/ FinishDownload(i)
        PROVE  AbstractStep
    <3>1. OthersKept(i) /\ permit' = permit
      BY <2>9, KeptWhen
         DEF Prepare, Reserve, Cleanup, FinishDownload, Goto, OthersKept, IInv, Typed, TypeOK,
             unchangedBut_pc
    <3>2. pc[i] \in {"prepare", "reserve", "exit", "download"}
          /\ pc'[i] \in {"checkpoint3", "exit", "download", "none"}
          /\ (pc'[i] = "none" => transfers'[i] = NoEntry)
      BY <2>9 DEF Prepare, Reserve, Cleanup, FinishDownload, Goto, IInv, Typed, TypeOK
    <3>3. ~InLine(i) /\ ~InLine(i)'
      BY <3>2 DEF InLine, IInv, Owned, CommandOwnsRegistration
    <3>4. QED
      BY <3>1, <3>3, Stutters DEF OthersKept, Kept
  <2>10. ASSUME NEW i \in Ids, DropPermit(i)
         PROVE  AbstractStep
    <3>1. permit' = {}
      BY <2>10 DEF DropPermit, IInv, OneTurn, Typed, TypeOK
    <3>2. QED
      BY <2>10, <3>1, KeptWhen, Ends DEF DropPermit
  <2>11. CASE (\E k \in Tickets : Forget(k)) \/ BeginUpdate \/ CancelUpdate \/ Tick \/ SetBack
    BY <2>0, <2>11 DEF Forget, BeginUpdate, CancelUpdate, Tick, SetBack, command
  <2>12. CASE UNCHANGED vars
    BY <2>0, <2>12 DEF vars, command
  <2>13. QED
    BY <2>1, <2>2, <2>3, <2>4, <2>5, <2>6, <2>7, <2>8, <2>9, <2>10, <2>11, <2>12
       DEF Next, Proceed
<1>3. QED
  BY <1>1, <1>2, Invariance, PTL DEF Spec, GivesFairTurns, Turns!Spec, AbstractStep
=============================================================================
