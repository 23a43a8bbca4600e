------------------------------- MODULE RunnerGate -------------------------------
(***************************************************************************)
(* What the commands of the media and of the torrent runner share with the *)
(* coordinator (TransferRegistry): the registration they claim, the        *)
(* control they may be cancelled by, the turn in the sequential queue and  *)
(* the guards that give both back.  Both queue in sequential mode.         *)
(***************************************************************************)
EXTENDS Naturals, Sequences, FiniteSets

CONSTANTS
  Media, Torrent,   \* one task of each kind
  Nobody,
  MaxStarts         \* bound: how often each is registered

Tasks == {Media, Torrent}

ASSUME TasksAssumption == Media # Torrent /\ Nobody \notin Tasks /\ MaxStarts \in Nat

VARIABLES
  pc,       \* where the command of the task is
  ticket,   \* its registration: none, registered or started
  stop,     \* tasks whose control is cancelled
  turn,     \* who has the turn in the queue
  starts    \* bound: registrations so far

gate == <<pc, ticket, stop, turn, starts>>

Goes(t, from, to) == pc[t] = from /\ pc' = [pc EXCEPT ![t] = to]

GateInit ==
  /\ pc = [t \in Tasks |-> "idle"]
  /\ ticket = [t \in Tasks |-> "none"]
  /\ stop = {} /\ turn = Nobody
  /\ starts = [t \in Tasks |-> 0]

\* register_download: a control of its own for every registration.
Register(t) ==
  /\ starts[t] < MaxStarts
  /\ ticket[t] = "none"
  /\ ticket' = [ticket EXCEPT ![t] = "registered"]
  /\ starts' = [starts EXCEPT ![t] = @ + 1]
  /\ UNCHANGED <<pc, stop, turn>>

\* control_download(cancel)
CancelControl(t) ==
  /\ ticket[t] # "none"
  /\ stop' = stop \cup {t}
  /\ UNCHANGED <<pc, ticket, turn, starts>>

Claim(t) ==
  /\ ticket[t] = "registered"
  /\ Goes(t, "idle", "turn")
  /\ ticket' = [ticket EXCEPT ![t] = "started"]
  /\ UNCHANGED <<stop, turn, starts>>

\* wait_for_queue_turn up to its last checkpoint.
GetTurn(t) ==
  /\ pc[t] = "turn"
  /\ IF t \in stop
       THEN Goes(t, "turn", "return") /\ UNCHANGED turn
       ELSE turn = Nobody /\ turn' = t /\ Goes(t, "turn", "prepare")
  /\ UNCHANGED <<ticket, stop, starts>>

\* The command returns and drops its guards.
Return(t) ==
  /\ Goes(t, "return", "idle")
  /\ turn' = IF turn = t THEN Nobody ELSE turn
  /\ ticket' = [ticket EXCEPT ![t] = "none"]
  /\ stop' = stop \ {t}
  /\ UNCHANGED starts

\* The command goes on by itself.
Step(t, from, to) == Goes(t, from, to) /\ UNCHANGED <<ticket, stop, turn, starts>>
=============================================================================
