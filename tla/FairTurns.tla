------------------------------ MODULE FairTurns ------------------------------
(***************************************************************************)
(* What the sequential queue promises (docs/QUEUES.md): one transfer at a  *)
(* time has the turn, and a turn is never given to a transfer while one    *)
(* with an older ticket and no schedule is in line.                        *)
(***************************************************************************)
EXTENDS Naturals

CONSTANTS Ids, Tickets, Schedules, NoTime

VARIABLES
  line,     \* who waits: [id, ticket, schedule]
  holders   \* who has the turn

vars == <<line, holders>>

Place == [id : Ids, ticket : Tickets, schedule : Schedules \cup {NoTime}]

Init == line = {} /\ holders = {}

Join(m) ==
  /\ \A o \in line : o.id # m.id /\ o.ticket # m.ticket
  /\ line' = line \cup {m}
  /\ UNCHANGED holders

Leave(m) ==
  /\ line' = line \ {m}
  /\ UNCHANGED holders

Take(m) ==
  /\ holders = {}
  /\ \A o \in line : o.ticket < m.ticket => o.schedule # NoTime
  /\ line' = line \ {m}
  /\ holders' = {m.id}

End ==
  /\ holders' = {}
  /\ UNCHANGED line

Next ==
  \/ \E m \in Place \ line : Join(m)
  \/ \E m \in line : Leave(m) \/ Take(m)
  \/ End

Spec == Init /\ [][Next]_vars
=============================================================================
