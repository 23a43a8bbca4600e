------------------------------ MODULE DurableState ------------------------------
(***************************************************************************)
(* What the store of the application's state promises: calls take effect   *)
(* one after the other, a load returns what the last save to take effect   *)
(* left, and a power loss never goes behind a save that was answered with  *)
(* success nor shows anything that nobody saved.                           *)
(***************************************************************************)
CONSTANTS
  Calls,
  Values,     \* what the store can hold
  Nothing,    \* a call without a value
  Reading     \* readable value -> what a load makes of it

VARIABLES
  value,      \* what a load returns
  possible,   \* what it may return after a power loss
  call        \* call -> [pc, value]: a save or a load and where it is

durableVars == <<value, possible, call>>

Pcs == {"idle", "saving", "replaced", "ok", "error", "loading", "loaded"}
Idle == [pc |-> "idle", value |-> Nothing]

DurableInit ==
  /\ value \in Values
  /\ possible = {value}
  /\ call = [c \in Calls |-> Idle]

Becomes(c, pc, v) == call' = [call EXCEPT ![c] = [pc |-> pc, value |-> v]]
At(c, pc) == call[c].pc = pc
Quiet == \A c \in Calls: ~At(c, "replaced")

AskSave(c, v) ==
  /\ call[c].pc \in {"idle", "ok", "loaded", "error"}
  /\ Becomes(c, "saving", v)
  /\ UNCHANGED <<value, possible>>

AskLoad(c) ==
  /\ call[c].pc \in {"idle", "ok", "loaded", "error"}
  /\ Becomes(c, "loading", Nothing)
  /\ UNCHANGED <<value, possible>>

Replace(c) ==
  /\ At(c, "saving") /\ Quiet
  /\ Becomes(c, "replaced", call[c].value)
  /\ value' = call[c].value
  /\ possible' = possible \cup {value'}

Succeed(c) ==
  /\ At(c, "replaced")
  /\ Becomes(c, "ok", call[c].value)
  /\ possible' = {value}
  /\ UNCHANGED value

\* A failed save may have taken effect, and may yet be undone by a power loss.
Fail(c) ==
  /\ call[c].pc \in {"saving", "replaced", "loading"}
  /\ Becomes(c, "error", Nothing)
  /\ UNCHANGED <<value, possible>>

Load(c) ==
  /\ At(c, "loading") /\ Quiet
  /\ value \in DOMAIN Reading
  /\ Becomes(c, "loaded", Reading[value])
  /\ UNCHANGED <<value, possible>>

\* The caller has taken the answer.
Collect(c) ==
  /\ call[c].pc \in {"ok", "loaded", "error"}
  /\ call' = [call EXCEPT ![c] = Idle]
  /\ UNCHANGED <<value, possible>>

CallsEnd == call' = [c \in Calls |-> Idle]

\* The process dies with all its calls.
Crash ==
  /\ CallsEnd
  /\ UNCHANGED <<value, possible>>

PowerLoss ==
  /\ CallsEnd
  /\ value' \in possible
  /\ possible' = {value'}

DurableNext ==
  \/ \E c \in Calls: \/ \E v \in Values: AskSave(c, v)
                     \/ AskLoad(c) \/ Replace(c) \/ Succeed(c) \/ Fail(c) \/ Load(c)
                     \/ Collect(c)
  \/ Crash
  \/ PowerLoss

DurableSpec == DurableInit /\ [][DurableNext]_durableVars
=============================================================================
