----------------------------- MODULE AppStateProofs -----------------------------
(***************************************************************************)
(* What holds of the store of the application's state for any number of    *)
(* calls and any snapshots: it implements DurableState.                    *)
(***************************************************************************)
EXTENDS AppState, FiniteSetTheorems, WellFoundedInduction, TLAPS

(* The snapshots a call may carry: one to save, or one that was loaded.    *)
Carried == Contents \cup {Answer(v) : v \in Values}

(* What a call that saves carries, and what it has made of the temporary   *)
(* file, which nobody else touches while it holds the gate.                *)
Calling == call \in [Calls -> [pc : Steps, snapshot : Carried]]
OwnTemporary(c) ==
  /\ call[c].pc \in {"check", "gate", "create", "write", "sync", "commit", "flush", "ok"}
       => call[c].snapshot \in Contents
  /\ call[c].pc \in {"sync", "commit"} => temporary.value = Migrated(call[c].snapshot)
  /\ call[c].pc = "commit" => temporary.synced

IInv == TypeOK /\ Calling /\ \A c \in Calls : OwnTemporary(c)

-----------------------------------------------------------------------------
(* The values a save brings.                                               *)
LEMMA ContentValues ==
  /\ \A s \in Contents : Migrated(s) \in Values
  /\ Damaged \in Values /\ NoFile \in Values /\ Default \in Carried
  /\ \A v \in Values : Answer(v) \in Carried
  BY ContentsAssumption DEF Values, Carried

(* A step that gives one call a new record.                                *)
LEMMA CallStep ==
  ASSUME Calling, NEW c \in Calls, NEW pc \in Steps, NEW s \in Carried,
         call' = [call EXCEPT ![c] = [pc |-> pc, snapshot |-> s]]
  PROVE  /\ Calling' /\ call'[c].pc = pc /\ call'[c].snapshot = s
         /\ \A d \in Calls \ {c} : call'[d] = call[d]
  BY DEF Calling

LEMMA GoesStep ==
  ASSUME Calling, NEW c \in Calls, NEW from, NEW to \in Steps, Goes(c, from, to)
  PROVE  /\ call[c].pc = from /\ call'[c].pc = to /\ call'[c].snapshot = call[c].snapshot
         /\ Calling' /\ \A d \in Calls \ {c} : call'[d] = call[d]
<1>1. call' = [call EXCEPT ![c].pc = to] /\ call[c].pc = from
  BY DEF Goes, At
<1>2. call[c] \in [pc : Steps, snapshot : Carried]
  BY DEF Calling
<1>3. call' = [call EXCEPT ![c] = [call[c] EXCEPT !.pc = to]]
  BY <1>1
<1>4. [call[c] EXCEPT !.pc = to] = [pc |-> to, snapshot |-> call[c].snapshot] /\ call[c].snapshot \in Carried
  BY <1>2
<1>5. call' = [call EXCEPT ![c] = [pc |-> to, snapshot |-> call[c].snapshot]]
  BY <1>3, <1>4
<1>6. call'[c].pc = to /\ call'[c].snapshot = call[c].snapshot /\ Calling' /\ \A d \in Calls \ {c} : call'[d] = call[d]
  BY ONLY <1>4, <1>5, Calling, c \in Calls, to \in Steps, CallStep
<1> QED
  BY <1>1, <1>6

LEMMA EndsStep ==
  ASSUME Calling, NEW c \in Calls, NEW from, NEW pc \in Steps, NEW s \in Carried,
         Ends(c, from, [pc |-> pc, snapshot |-> s])
  PROVE  /\ call[c].pc = from /\ call'[c].pc = pc /\ call'[c].snapshot = s
         /\ Calling' /\ \A d \in Calls \ {c} : call'[d] = call[d]
<1>1. call' = [call EXCEPT ![c] = [pc |-> pc, snapshot |-> s]] /\ call[c].pc = from
  BY DEF Ends, At
<1> QED
  BY <1>1, CallStep

(* What each kind of step does to the call that takes it: its place before *)
(* and after, and what it carries.                                         *)
LEMMA StepKinds ==
  ASSUME IInv, NEW c \in Calls, (\E s \in Contents : Save(c, s)) \/ Load(c) \/ Proceed(c)
  PROVE  /\ Calling' /\ \A d \in Calls \ {c} : call'[d] = call[d]
         /\ original' = original
         /\ \/ /\ call[c].pc \in Over /\ UNCHANGED <<file, kept, temporary, gate>>
               /\ \/ call'[c].pc = "check" /\ call'[c].snapshot \in Contents
                  \/ call'[c].pc = "load"
            \/ /\ call[c].pc = "check" /\ UNCHANGED <<file, kept, temporary, gate>>
               /\ \/ /\ call'[c].pc = "gate" /\ call'[c].snapshot = call[c].snapshot
                     /\ Savable(call[c].snapshot)
                  \/ call'[c].pc = "error"
            \/ /\ gate = NoCall /\ gate' = c /\ UNCHANGED <<file, kept, temporary>>
               /\ call'[c].snapshot = call[c].snapshot
               /\ \/ call[c].pc = "gate" /\ call'[c].pc = "create"
                  \/ call[c].pc = "load" /\ call'[c].pc = "read"
            \/ /\ gate' = gate /\ UNCHANGED <<file, kept>> /\ call'[c].snapshot = call[c].snapshot
               /\ \/ /\ call[c].pc = "create" /\ call'[c].pc = "write"
                     /\ temporary' = [value |-> Damaged, synced |-> FALSE]
                  \/ /\ call[c].pc = "write" /\ call'[c].pc = "sync"
                     /\ temporary' = [temporary EXCEPT !.value = Migrated(call[c].snapshot)]
                  \/ /\ call[c].pc = "sync" /\ call'[c].pc = "commit"
                     /\ temporary' = [temporary EXCEPT !.synced = TRUE]
            \/ /\ gate' = gate /\ call[c].pc = "commit" /\ call'[c].pc = "flush"
               /\ call'[c].snapshot = call[c].snapshot
               /\ file' = Migrated(call[c].snapshot) /\ kept' = kept \cup {file'}
               /\ temporary' = [value |-> NoFile, synced |-> FALSE]
            \/ /\ gate' = NoCall /\ call[c].pc = "flush" /\ call'[c].pc = "ok"
               /\ call'[c].snapshot = call[c].snapshot
               /\ kept' = {file} /\ UNCHANGED <<file, temporary>>
            \/ /\ gate' = NoCall /\ call[c].pc = "read" /\ UNCHANGED <<file, kept, temporary>>
               /\ Readable(file) /\ call'[c].pc = "loaded" /\ call'[c].snapshot = Answer(file)
            \/ /\ gate' = NoCall /\ call[c].pc \in Inside /\ UNCHANGED <<file, kept, temporary>>
               /\ call'[c].pc = "error"
<1>t. Calling /\ TypeOK /\ OwnTemporary(c)
  BY DEF IInv
<1>c. /\ Steps = {"idle", "ok", "loaded", "error", "create", "write", "sync", "commit", "flush", "read",
                  "check", "gate", "load"}
      /\ Failed = [pc |-> "error", snapshot |-> Default] /\ Default \in Carried
      /\ Contents \subseteq Carried /\ (\A v \in Values : Answer(v) \in Carried) /\ file \in Values
  BY <1>t, ContentValues DEF Steps, Over, Inside, Failed, Carried, TypeOK
<1>1. ASSUME NEW s \in Contents, Save(c, s)
      PROVE  /\ call[c].pc \in Over /\ UNCHANGED <<original, file, kept, temporary, gate>>
             /\ call'[c].pc = "check" /\ call'[c].snapshot \in Contents
             /\ Calling' /\ \A d \in Calls \ {c} : call'[d] = call[d]
  BY <1>t, <1>c, <1>1, CallStep DEF Save
<1>2. ASSUME Load(c)
      PROVE  /\ call[c].pc \in Over /\ UNCHANGED <<original, file, kept, temporary, gate>>
             /\ call'[c].pc = "load"
             /\ Calling' /\ \A d \in Calls \ {c} : call'[d] = call[d]
  BY <1>t, <1>c, <1>2, CallStep DEF Load
<1>3. CASE Check(c)
  <2>1. (Goes(c, "check", "gate") /\ Savable(call[c].snapshot)) \/ Ends(c, "check", Failed)
    BY <1>3 DEF Check
  <2>2. UNCHANGED <<original, file, kept, temporary, gate>>
    BY <1>3 DEF Check
  <2> QED
    BY <1>t, <1>c, <2>1, <2>2, GoesStep, EndsStep
<1>4. CASE Lock(c)
  <2>1. Goes(c, "gate", "create") \/ Goes(c, "load", "read")
    BY <1>4 DEF Lock
  <2>2. gate = NoCall /\ gate' = c /\ UNCHANGED <<original, file, kept, temporary>>
    BY <1>4 DEF Lock
  <2> QED
    BY <1>t, <1>c, <2>1, <2>2, GoesStep
<1>5. CASE Create(c) \/ Write(c) \/ Sync(c)
  BY <1>t, <1>c, <1>5, GoesStep DEF Create, Write, Sync
<1>6. CASE Commit(c)
  <2>1. Goes(c, "commit", "flush")
    BY <1>6 DEF Commit
  <2>2. temporary.synced /\ temporary.value = Migrated(call[c].snapshot)
    BY <1>t, <2>1 DEF OwnTemporary, Goes, At
  <2>3. /\ file' = Migrated(call[c].snapshot) /\ kept' = kept \cup {file'} /\ gate' = gate /\ original' = original
        /\ temporary' = [value |-> NoFile, synced |-> FALSE]
    BY <1>6, <2>2 DEF Commit
  <2> QED
    BY <1>t, <1>c, <2>1, <2>3, GoesStep
<1>7. CASE Flush(c)
  <2>1. Goes(c, "flush", "ok")
    BY <1>7 DEF Flush
  <2>2. gate' = NoCall /\ kept' = {file} /\ UNCHANGED <<original, file, temporary>>
    BY <1>7 DEF Flush
  <2> QED
    BY <1>t, <1>c, <2>1, <2>2, GoesStep
<1>8. CASE Read(c)
  <2>1. gate' = NoCall /\ UNCHANGED <<original, file, kept, temporary>>
    BY <1>8 DEF Read
  <2>2. CASE Readable(file)
    <3>1. Ends(c, "read", [pc |-> "loaded", snapshot |-> Answer(file)])
      BY <1>8, <2>2 DEF Read
    <3> QED
      BY <1>t, <1>c, <2>1, <2>2, <3>1, EndsStep
  <2>3. CASE ~Readable(file)
    <3>1. Ends(c, "read", Failed) /\ "read" \in Inside
      BY <1>8, <2>3 DEF Read, Inside
    <3> QED
      BY <1>t, <1>c, <2>1, <3>1, EndsStep
  <2> QED
    BY <2>2, <2>3
<1>9. CASE StepFails(c)
  <2>1. PICK step \in Inside : Ends(c, step, Failed)
    BY <1>9 DEF StepFails
  <2>2. gate' = NoCall /\ UNCHANGED <<original, file, kept, temporary>>
    BY <1>9 DEF StepFails
  <2> QED
    BY <1>t, <1>c, <2>1, <2>2, EndsStep
<1> QED
  BY <1>1, <1>2, <1>3, <1>4, <1>5, <1>6, <1>7, <1>8, <1>9 DEF Proceed

-----------------------------------------------------------------------------
(* The invariant.                                                          *)
LEMMA InitHolds == Init => IInv
<1> SUFFICES ASSUME Init PROVE IInv
  OBVIOUS
<1>1. \A c \in Calls : call[c] = [pc |-> "idle", snapshot |-> Default]
  BY DEF Init, Idle
<1>2. call = [c \in Calls |-> [pc |-> "idle", snapshot |-> Default]] /\ "idle" \in Steps
  BY DEF Init, Idle, Steps, Over
<1>3. Calling
  BY <1>2, ContentValues DEF Calling
<1>4. original \in Values /\ file = original /\ kept = {original}
  BY DEF Init, Values
<1>5. temporary \in [value : Values, synced : BOOLEAN] /\ gate = NoCall
  BY ContentValues DEF Init
<1>6. "idle" \notin Inside
  BY DEF Inside
<1>7. TypeOK
  BY <1>1, <1>2, <1>4, <1>5, <1>6, ContentsAssumption DEF TypeOK
<1> QED
  BY <1>1, <1>3, <1>7 DEF IInv, OwnTemporary

LEMMA CallsEndHolds ==
  ASSUME IInv, CallsEnd, original' = original, file' \in Values, kept' \subseteq Values,
         temporary' \in [value : Values, synced : BOOLEAN]
  PROVE  IInv'
<1>1. \A c \in Calls : call'[c].pc = "idle"
  BY DEF CallsEnd, Idle
<1>2. Calling'
  <2>1. Idle \in [pc : Steps, snapshot : Carried]
    BY ContentValues DEF Idle, Steps, Over
  <2> QED
    BY <2>1 DEF CallsEnd, Calling
<1>3. "idle" \in Steps /\ "idle" \notin Inside /\ gate' = NoCall
  BY DEF Steps, Over, Inside, CallsEnd
<1>4. TypeOK'
  BY <1>1, <1>3, ContentsAssumption DEF TypeOK, IInv
<1> QED
  BY <1>1, <1>2, <1>4 DEF IInv, OwnTemporary

LEMMA StepHolds ==
  ASSUME IInv, NEW c \in Calls, (\E s \in Contents : Save(c, s)) \/ Load(c) \/ Proceed(c)
  PROVE  IInv'
<1>t. /\ original \in Values /\ file \in Values /\ kept \subseteq Values
      /\ temporary \in [value : Values, synced : BOOLEAN] /\ gate \in Calls \cup {NoCall}
      /\ \A d \in Calls : call[d].pc \in Inside <=> gate = d
      /\ \A d \in Calls : OwnTemporary(d)
  BY DEF IInv, TypeOK
<1>c. /\ Inside = {"create", "write", "sync", "commit", "flush", "read"}
      /\ Over = {"idle", "ok", "loaded", "error"}
  BY DEF Inside, Over
<1>v. c # NoCall /\ NoCall \notin Calls
  BY ContentsAssumption
<1>1. Calling' /\ original' = original /\ \A d \in Calls \ {c} : call'[d] = call[d]
  BY StepKinds
<1>2. /\ file' \in Values /\ kept' \subseteq Values /\ temporary' \in [value : Values, synced : BOOLEAN]
      /\ gate' \in Calls \cup {NoCall}
      /\ temporary' = temporary \/ gate = c
  <2>1. call[c].pc \in {"write", "commit"} => Migrated(call[c].snapshot) \in Values
    BY <1>t, ContentValues DEF OwnTemporary
  <2>2. Damaged \in Values /\ NoFile \in Values
    BY ContentValues
  <2>3. file' \in Values /\ kept' \subseteq Values
    BY <1>t, <2>1, StepKinds
  <2>4. temporary' \in [value : Values, synced : BOOLEAN]
    <3> DEFINE R == [value : Values, synced : BOOLEAN]
    <3>1. [value |-> Damaged, synced |-> FALSE] \in R /\ [value |-> NoFile, synced |-> FALSE] \in R
      BY <2>2
    <3>2. (\A v \in Values : [temporary EXCEPT !.value = v] \in R) /\ [temporary EXCEPT !.synced = TRUE] \in R
      BY <1>t
    <3>3. temporary \in R
      BY <1>t
    <3> HIDE DEF R
    <3>4. temporary' \in R
      BY <2>1, <3>1, <3>2, <3>3, StepKinds
    <3> QED
      BY <3>4 DEF R
  <2>5. gate' \in Calls \cup {NoCall} /\ (temporary' = temporary \/ gate = c)
    BY <1>t, <1>c, StepKinds
  <2> QED
    BY <2>3, <2>4, <2>5
<1>3. \A d \in Calls : call'[d].pc \in Inside <=> gate' = d
  BY <1>t, <1>c, <1>v, <1>1, StepKinds
<1>4. TypeOK'
  <2>1. \A d \in Calls : call'[d].pc \in Steps
    BY <1>1 DEF Calling
  <2> QED
    BY <1>t, <1>1, <1>2, <1>3, <2>1 DEF TypeOK
<1>5. ASSUME NEW d \in Calls, d # c PROVE OwnTemporary(d)'
  <2>1. call'[d] = call[d] /\ OwnTemporary(d)
    BY <1>t, <1>1, <1>5
  <2>2. call[d].pc \in {"sync", "commit"} => temporary' = temporary
    BY <1>t, <1>c, <1>2, <1>5
  <2> QED
    BY <2>1, <2>2 DEF OwnTemporary
<1>6. OwnTemporary(c)'
  <2>1. OwnTemporary(c)
    BY <1>t
  <2> QED
    BY <1>t, <1>c, <2>1, StepKinds DEF OwnTemporary
<1> QED
  BY <1>1, <1>4, <1>5, <1>6 DEF IInv

LEMMA NextHolds == IInv /\ [Next]_vars => IInv'
<1> SUFFICES ASSUME IInv, [Next]_vars PROVE IInv'
  OBVIOUS
<1>1. CASE Crash
  BY <1>1, CallsEndHolds DEF Crash, IInv, TypeOK
<1>2. CASE PowerLoss
  <2>1. file' \in Values /\ kept' \subseteq Values /\ temporary' \in [value : Values, synced : BOOLEAN]
    BY <1>2, ContentValues DEF PowerLoss, IInv, TypeOK
  <2> QED
    BY <1>2, <2>1, CallsEndHolds DEF PowerLoss
<1>3. CASE UNCHANGED vars
  BY <1>3 DEF vars, IInv, TypeOK, Calling, OwnTemporary
<1> QED
  BY <1>1, <1>2, <1>3, StepHolds DEF Next

THEOREM Invariance == Spec => []IInv
  BY InitHolds, NextHolds, PTL DEF Spec

(* The variables have their types, and who is past the gate holds it.      *)
THEOREM TypeCorrect == Spec => []TypeOK
<1>1. IInv => TypeOK
  BY DEF IInv
<1> QED
  BY <1>1, Invariance, PTL

-----------------------------------------------------------------------------
(* The refinement: what DurableState sees of the calls.                    *)
Seen == [c \in Calls |-> [pc |-> Phase(call[c].pc), value |-> Held(c)]]

Phases == {"saving", "replaced", "loading", "idle", "ok", "loaded", "error"}

(* What is seen of a call, place by place.                                 *)
LEMMA SeenAt ==
  ASSUME NEW c \in Calls
  PROVE  /\ call[c].pc \in {"check", "gate", "create", "write", "sync", "commit"}
              => Phase(call[c].pc) = "saving" /\ Held(c) = Migrated(call[c].snapshot)
         /\ call[c].pc = "flush" => Phase(call[c].pc) = "replaced" /\ Held(c) = Migrated(call[c].snapshot)
         /\ call[c].pc \in {"load", "read"} => Phase(call[c].pc) = "loading" /\ Held(c) = Damaged
         /\ call[c].pc = "ok" => Phase(call[c].pc) = "ok" /\ Held(c) = Migrated(call[c].snapshot)
         /\ call[c].pc = "loaded" => Phase(call[c].pc) = "loaded" /\ Held(c) = call[c].snapshot
         /\ call[c].pc \in {"idle", "error"} => Phase(call[c].pc) = call[c].pc /\ Held(c) = Damaged
  BY DEF Phase, Held

(* A step of one call changes what is seen of this call.                   *)
LEMMA SeenStep ==
  ASSUME NEW c \in Calls, \A d \in Calls \ {c} : call'[d] = call[d]
  PROVE  Seen' = [Seen EXCEPT ![c] = [pc |-> Phase(call'[c].pc), value |-> Held(c)']]
<1>1. \A d \in Calls \ {c} : Held(d)' = Held(d) /\ Phase(call'[d].pc) = Phase(call[d].pc)
  BY DEF Held
<1>2. Seen' = [d \in Calls |-> [pc |-> Phase(call'[d].pc), value |-> Held(d)']]
  BY DEF Seen
<1> QED
  BY <1>1, <1>2 DEF Seen

LEMMA InitSeen == Init => Store!DurableInit
<1> SUFFICES ASSUME Init PROVE Store!DurableInit
  OBVIOUS
<1>1. file \in Values /\ kept = {file}
  BY DEF Init, Values
<1>2. \A c \in Calls : call[c].pc = "idle"
  BY DEF Init, Idle
<1>3. \A c \in Calls : Phase(call[c].pc) = "idle" /\ Held(c) = Damaged
  BY <1>2, SeenAt
<1>4. Seen = [c \in Calls |-> [pc |-> "idle", value |-> Damaged]]
  BY <1>3 DEF Seen
<1> QED
  BY <1>1, <1>4 DEF Store!DurableInit, Store!Idle, Seen

(* Ending all calls is seen as ending all calls.                           *)
LEMMA CallsEndSeen == CallsEnd => Store!CallsEnd
<1> SUFFICES ASSUME CallsEnd PROVE Store!CallsEnd
  OBVIOUS
<1>1. \A c \in Calls : call'[c].pc = "idle"
  BY DEF CallsEnd, Idle
<1>2. \A c \in Calls : Phase(call'[c].pc) = "idle" /\ Held(c)' = Damaged
  BY <1>1 DEF Phase, Held
<1>3. Seen' = [c \in Calls |-> [pc |-> "idle", value |-> Damaged]]
  BY <1>2 DEF Seen
<1> QED
  BY <1>3 DEF Store!CallsEnd, Store!Idle, Seen

(* Every step of a call is one of DurableState's, or is not seen.          *)
LEMMA StepSeen ==
  ASSUME IInv, NEW c \in Calls, (\E s \in Contents : Save(c, s)) \/ Load(c) \/ Proceed(c)
  PROVE  \/ \E v \in Values : Store!AskSave(c, v)
         \/ Store!AskLoad(c) \/ Store!Replace(c) \/ Store!Succeed(c) \/ Store!Fail(c) \/ Store!Load(c)
         \/ UNCHANGED <<file, kept, Seen>>
<1> DEFINE Becomes(pc, v) == Seen' = [Seen EXCEPT ![c] = [pc |-> pc, value |-> v]]
<1>t. /\ \A d \in Calls : call[d].pc \in Inside <=> gate = d
      /\ file \in Values /\ OwnTemporary(c)
  BY DEF IInv, TypeOK
<1>c. /\ Inside = {"create", "write", "sync", "commit", "flush", "read"}
      /\ Over = {"idle", "ok", "loaded", "error"}
  BY DEF Inside, Over
<1>s. \A d \in Calls : Seen[d].pc = Phase(call[d].pc) /\ Seen[d].value = Held(d)
  BY DEF Seen
<1>b. \A pc, v : Phase(call'[c].pc) = pc /\ Held(c)' = v => Becomes(pc, v)
  BY StepKinds, SeenStep
<1>p. \A d \in Calls : Seen[d].pc = "replaced" => call[d].pc = "flush"
  <2>1. \A d \in Calls : call[d].pc \in Steps
    BY DEF IInv, TypeOK
  <2> QED
    BY <1>s, <2>1 DEF Phase, Steps, Over, Inside
<1>q. gate \in {NoCall, c} /\ call[c].pc # "flush" => \A d \in Calls : Seen[d].pc # "replaced"
  BY <1>t, <1>c, <1>p, ContentsAssumption
<1>1. CASE call[c].pc \in Over /\ call'[c].pc = "check" /\ call'[c].snapshot \in Contents /\ UNCHANGED <<file, kept>>
  <2>1. Seen[c].pc \in {"idle", "ok", "loaded", "error"}
    BY <1>c, <1>s, <1>1, SeenAt
  <2>2. Phase(call'[c].pc) = "saving" /\ Held(c)' = Migrated(call'[c].snapshot)
    BY <1>1 DEF Phase, Held
  <2>3. Migrated(call'[c].snapshot) \in Values
    BY <1>1, ContentValues
  <2> QED
    BY <1>1, <1>b, <2>1, <2>2, <2>3 DEF Store!AskSave, Store!Becomes, Seen
<1>2. CASE call[c].pc \in Over /\ call'[c].pc = "load" /\ UNCHANGED <<file, kept>>
  <2>1. Seen[c].pc \in {"idle", "ok", "loaded", "error"}
    BY <1>c, <1>s, <1>2, SeenAt
  <2>2. Phase(call'[c].pc) = "loading" /\ Held(c)' = Damaged
    BY <1>2 DEF Phase, Held
  <2> QED
    BY <1>2, <1>b, <2>1, <2>2 DEF Store!AskLoad, Store!Becomes, Seen
<1>3. CASE /\ call[c].pc \in Inside \cup {"check"} /\ call'[c].pc = "error" /\ UNCHANGED <<file, kept>>
  <2>1. Seen[c].pc \in {"saving", "replaced", "loading"}
    BY <1>c, <1>s, <1>3, SeenAt
  <2>2. Phase(call'[c].pc) = "error" /\ Held(c)' = Damaged
    BY <1>3 DEF Phase, Held
  <2> QED
    BY <1>3, <1>b, <2>1, <2>2 DEF Store!Fail, Store!Becomes, Seen
<1>4. CASE /\ UNCHANGED <<file, kept>> /\ call'[c].snapshot = call[c].snapshot
           /\ \/ /\ call[c].pc \in {"check", "gate", "create", "write", "sync"}
                 /\ call'[c].pc \in {"gate", "create", "write", "sync", "commit"}
              \/ call[c].pc = "load" /\ call'[c].pc = "read"
  <2>1. Phase(call'[c].pc) = Phase(call[c].pc) /\ Held(c)' = Held(c)
    BY <1>4 DEF Phase, Held
  <2>2. Seen' = [Seen EXCEPT ![c] = [pc |-> Phase(call[c].pc), value |-> Held(c)]]
    BY <1>b, <2>1
  <2>3. Seen' = Seen
    BY <2>2, Zenon DEF Seen
  <2> QED
    BY <1>4, <2>3
<1>5. CASE /\ call[c].pc = "commit" /\ call'[c].pc = "flush" /\ call'[c].snapshot = call[c].snapshot
           /\ file' = Migrated(call[c].snapshot) /\ kept' = kept \cup {file'}
  <2>1. Seen[c].pc = "saving" /\ Seen[c].value = Migrated(call[c].snapshot)
    BY <1>s, <1>5, SeenAt
  <2>2. Phase(call'[c].pc) = "replaced" /\ Held(c)' = Migrated(call[c].snapshot)
    BY <1>5 DEF Phase, Held
  <2>3. \A d \in Calls : Seen[d].pc # "replaced"
    BY <1>t, <1>c, <1>q, <1>5
  <2> QED
    BY <1>5, <1>b, <2>1, <2>2, <2>3 DEF Store!Replace, Store!At, Store!Quiet, Store!Becomes, Seen
<1>6. CASE /\ call[c].pc = "flush" /\ call'[c].pc = "ok" /\ call'[c].snapshot = call[c].snapshot
           /\ kept' = {file} /\ file' = file
  <2>1. Seen[c].pc = "replaced" /\ Seen[c].value = Migrated(call[c].snapshot)
    BY <1>s, <1>6, SeenAt
  <2>2. Phase(call'[c].pc) = "ok" /\ Held(c)' = Migrated(call[c].snapshot)
    BY <1>6 DEF Phase, Held
  <2> QED
    BY <1>6, <1>b, <2>1, <2>2 DEF Store!Succeed, Store!At, Store!Becomes, Seen
<1>7. CASE /\ call[c].pc = "read" /\ call'[c].pc = "loaded" /\ call'[c].snapshot = Answer(file)
           /\ Readable(file) /\ UNCHANGED <<file, kept>>
  <2>1. Seen[c].pc = "loading"
    BY <1>s, <1>7, SeenAt
  <2>2. Phase(call'[c].pc) = "loaded" /\ Held(c)' = Answer(file)
    BY <1>7 DEF Phase, Held
  <2>3. \A d \in Calls : Seen[d].pc # "replaced"
    BY <1>t, <1>c, <1>q, <1>7
  <2>4. file \in DOMAIN Reading /\ Reading[file] = Answer(file)
    BY <1>t, <1>7 DEF Reading
  <2>5. Becomes("loaded", Reading[file])
    BY <1>b, <2>2, <2>4
  <2> QED
    BY <1>7, <2>1, <2>3, <2>4, <2>5 DEF Store!Load, Store!At, Store!Quiet, Store!Becomes, Seen
<1> QED
  BY <1>1, <1>2, <1>3, <1>4, <1>5, <1>6, <1>7, StepKinds

(* The store keeps its promise: saves and loads take effect one by one,    *)
(* and no power loss takes away a save that was answered with success.     *)
THEOREM ImplementsDurableState == Spec => KeepsPromise
<1>1. Init => Store!DurableInit
  BY InitSeen
<1>2. IInv /\ [Next]_vars => [Store!DurableNext]_(Store!durableVars)
  <2> SUFFICES ASSUME IInv, [Next]_vars PROVE Store!DurableNext \/ UNCHANGED <<file, kept, Seen>>
    BY DEF Store!durableVars, Seen
  <2>1. CASE Crash
    BY <2>1, CallsEndSeen DEF Crash, Store!Crash, Store!DurableNext
  <2>2. CASE PowerLoss
    BY <2>2, CallsEndSeen DEF PowerLoss, Store!PowerLoss, Store!DurableNext
  <2>3. CASE UNCHANGED vars
    BY <2>3 DEF vars, Seen, Held
  <2>4. ASSUME NEW c \in Calls, (\E s \in Contents : Save(c, s)) \/ Load(c) \/ Proceed(c)
        PROVE  Store!DurableNext \/ UNCHANGED <<file, kept, Seen>>
    BY <2>4, StepSeen DEF Store!DurableNext
  <2> QED
    BY <2>1, <2>2, <2>3, <2>4 DEF Next
<1> QED
  BY <1>1, <1>2, Invariance, PTL DEF Spec, KeepsPromise, Store!DurableSpec

-----------------------------------------------------------------------------
(* Snapshots: what is known of one without its places in the queue, which  *)
(* a recursive function gives out.                                         *)
Fields == {"kind", "status", "selection", "wellFormed", "queuedAt", "scheduledFor", "sequence",
           "completedAt", "downloaded", "total", "text", "added", "error"}
IsItem(d) == d = [f \in Fields |-> d[f]]
Shaped(v) ==
  /\ v.version \in Nat /\ Len(v.downloads) \in Nat
  /\ DOMAIN v.downloads = 1 .. Len(v.downloads)
  /\ \A i \in 1 .. Len(v.downloads) : IsItem(v.downloads[i]) /\ v.downloads[i].text \in Nat /\ v.downloads[i].added \in Nat

(* What a load fills into an item, and what it makes of a running one.     *)
Filled(d, place) == [d EXCEPT !.sequence = place, !.text = @ + d.added, !.added = 0]
Noticed(d) == [d EXCEPT !.status = "paused", !.error = NoticeLength]
FilledFields == {"sequence", "text", "added"}
NoticedFields == {"status", "error"}

LEMMA FilledFacts ==
  ASSUME NEW d, IsItem(d), NEW x
  PROVE  /\ IsItem(Filled(d, x))
         /\ Filled(d, x).sequence = x /\ Filled(d, x).text = d.text + d.added /\ Filled(d, x).added = 0
         /\ \A f \in Fields \ FilledFields : Filled(d, x)[f] = d[f]
  BY DEF IsItem, Fields, Filled, FilledFields

LEMMA NoticedFacts ==
  ASSUME NEW d, IsItem(d)
  PROVE  /\ IsItem(Noticed(d)) /\ Noticed(d).status = "paused"
         /\ \A f \in Fields \ NoticedFields : Noticed(d)[f] = d[f]
  BY DEF IsItem, Fields, Noticed, NoticedFields

(* A function on 1 .. n is a sequence of length n.                         *)
LEMMA LengthOfFunction ==
  ASSUME NEW n \in Nat, NEW g, g = [i \in 1 .. n |-> g[i]]
  PROVE  Len(g) = n
<1> DEFINE A == {g[i] : i \in 1 .. n}
<1>1. \A i \in 1 .. n : g[i] \in A
  OBVIOUS
<1> HIDE DEF A
<1>2. g \in Seq(A)
  BY <1>1
<1> QED
  BY <1>2

(* The migration keeps the shape and, from version 3 on, the places; what  *)
(* it fills in once is there.                                              *)
LEMMA MigratedFacts ==
  ASSUME NEW v, Shaped(v)
  PROVE  /\ Shaped(Migrated(v)) /\ Migrated(v).version = 5
         /\ Migrated(v) = [version |-> 5, downloads |-> Migrated(v).downloads]
         /\ Migrated(v).downloads = [i \in 1 .. Len(v.downloads) |-> Migrated(v).downloads[i]]
         /\ Len(Migrated(v).downloads) = Len(v.downloads)
         /\ \A i \in 1 .. Len(v.downloads) :
              /\ \A f \in Fields \ FilledFields : Migrated(v).downloads[i][f] = v.downloads[i][f]
              /\ v.version >= 3 => Migrated(v).downloads[i].sequence = v.downloads[i].sequence
              /\ Migrated(v).downloads[i].text = v.downloads[i].text + v.downloads[i].added
              /\ Migrated(v).downloads[i].added = 0
<1> DEFINE items == v.downloads
           next[i \in 1 .. Len(items) + 1] ==
             IF i > Len(items) THEN 0 ELSE next[i + 1] + (IF Placeless(items[i]) THEN 1 ELSE 0)
           place(i) == IF v.version < 3 /\ Placeless(items[i]) THEN next[i + 1] ELSE items[i].sequence
           list == [i \in 1 .. Len(items) |-> Filled(items[i], place(i))]
<1>1. Migrated(v) = [version |-> 5, downloads |-> list]
  BY DEF Migrated, SchemaVersion, Filled
<1>2. \A i \in 1 .. Len(items) : v.version >= 3 => place(i) = items[i].sequence
  BY DEF Shaped
<1>3. Len(items) \in Nat
  BY DEF Shaped
<1>s. \A i \in 1 .. Len(items) : IsItem(items[i]) /\ items[i].text \in Nat /\ items[i].added \in Nat
  BY DEF Shaped
<1> HIDE DEF next, items, place
<1>4. list = [i \in 1 .. Len(items) |-> list[i]]
  OBVIOUS
<1>5. Len(list) = Len(items)
  BY <1>3, <1>4, LengthOfFunction
<1>6. \A i \in 1 .. Len(items) :
        /\ IsItem(list[i]) /\ list[i].sequence = place(i)
        /\ list[i].text = items[i].text + items[i].added /\ list[i].added = 0
        /\ \A f \in Fields \ FilledFields : list[i][f] = items[i][f]
  <2> TAKE i \in 1 .. Len(items)
  <2>1. list[i] = Filled(items[i], place(i)) /\ IsItem(items[i])
    BY <1>s
  <2> HIDE DEF list
  <2> QED
    BY <2>1, FilledFacts
<1>7. DOMAIN list = 1 .. Len(items)
  OBVIOUS
<1> HIDE DEF list
<1>8. /\ Migrated(v).version = 5 /\ Migrated(v).downloads = list
      /\ Migrated(v) = [version |-> 5, downloads |-> list]
  BY <1>1
<1>9. Shaped(Migrated(v))
  BY <1>s, <1>3, <1>5, <1>6, <1>7, <1>8 DEF Shaped
<1> QED
  BY <1>2, <1>4, <1>5, <1>6, <1>8, <1>9 DEF items

(* Pausing what was running keeps an item valid.                           *)
LEMMA PausedIsValid ==
  ASSUME NEW d, NEW e, ValidItem(d),
         \A f \in Fields \ (NoticedFields \cup {"text", "added"}) : e[f] = d[f],
         e.status = d.status \/ (d.status \in Running /\ e.status = "paused")
  PROVE  ValidItem(e)
<1>1. /\ e.kind = d.kind /\ e.selection = d.selection /\ e.wellFormed = d.wellFormed
      /\ e.queuedAt = d.queuedAt /\ e.scheduledFor = d.scheduledFor /\ e.sequence = d.sequence
      /\ e.completedAt = d.completedAt /\ e.downloaded = d.downloaded /\ e.total = d.total
  BY DEF Fields, NoticedFields
<1>2. "paused" \in Resting /\ "paused" \notin Pending /\ "paused" # "completed" /\ "completed" \notin Running
  BY DEF Resting, Pending, Running
<1>3. CASE e.status = d.status
  BY <1>1, <1>3 DEF ValidItem
<1>4. CASE d.status \in Running /\ e.status = "paused"
  BY <1>1, <1>2, <1>4, Zenon DEF ValidItem
<1> QED
  BY <1>3, <1>4

(* What was saved can be loaded, and what is loaded can be saved.          *)
LEMMA LoadedIsAccepted ==
  ASSUME NEW v, Shaped(v), Accepts(v)
  PROVE  Accepts(Opened(v)) /\ Accepts(Migrated(v))
<1> DEFINE m == Migrated(v)
           n == Len(v.downloads)
<1>1. /\ Shaped(m) /\ m.version = 5 /\ Len(m.downloads) = n /\ n \in Nat
      /\ DOMAIN m.downloads = 1 .. n
  BY MigratedFacts DEF Shaped
<1>2. /\ n <= MaxDownloads /\ NoPlaceTwice(m.downloads)
      /\ \A i \in 1 .. n : ValidItem(m.downloads[i])
  BY DEF Accepts, Shaped
<1> HIDE DEF m
(* What has the shape, the statuses and the places of m is accepted.       *)
<1>3. ASSUME NEW o, Shaped(o), o.version = 5, Len(o.downloads) = n,
             \A i \in 1 .. n :
               /\ \A f \in Fields \ NoticedFields : o.downloads[i][f] = m.downloads[i][f]
               /\ \/ o.downloads[i].status = m.downloads[i].status
                  \/ m.downloads[i].status \in Running /\ o.downloads[i].status = "paused"
      PROVE  Accepts(o)
  <2> DEFINE p == Migrated(o)
  <2>1. /\ Len(p.downloads) = n /\ DOMAIN p.downloads = 1 .. n /\ DOMAIN o.downloads = 1 .. n
        /\ \A i \in 1 .. n :
             /\ \A f \in Fields \ FilledFields : p.downloads[i][f] = o.downloads[i][f]
             /\ p.downloads[i].sequence = o.downloads[i].sequence
    <3>1. /\ Shaped(p) /\ Len(p.downloads) = Len(o.downloads)
          /\ \A i \in 1 .. Len(o.downloads) :
               /\ \A f \in Fields \ FilledFields : p.downloads[i][f] = o.downloads[i][f]
               /\ o.version >= 3 => p.downloads[i].sequence = o.downloads[i].sequence
      BY <1>3, MigratedFacts
    <3>2. o.version >= 3 /\ DOMAIN o.downloads = 1 .. n
      BY <1>3 DEF Shaped
    <3>3. DOMAIN p.downloads = 1 .. Len(p.downloads)
      BY <3>1 DEF Shaped
    <3> QED
      BY ONLY <1>3, <3>1, <3>2, <3>3
  <2> HIDE DEF p
  <2>2. ASSUME NEW i \in 1 .. n
        PROVE  ValidItem(p.downloads[i]) /\ p.downloads[i].sequence = m.downloads[i].sequence
    <3>1. \A f \in Fields \ (NoticedFields \cup {"text", "added"}) : p.downloads[i][f] = m.downloads[i][f]
      BY <1>3, <2>1 DEF Fields, FilledFields, NoticedFields
    <3>2. p.downloads[i].status = o.downloads[i].status
      BY <2>1 DEF Fields, FilledFields
    <3>3. \/ p.downloads[i].status = m.downloads[i].status
          \/ m.downloads[i].status \in Running /\ p.downloads[i].status = "paused"
      BY <1>3, <3>2
    <3>4. ValidItem(m.downloads[i])
      BY <1>2
    <3>5. ValidItem(p.downloads[i])
      BY ONLY <3>1, <3>3, <3>4, PausedIsValid
    <3>6. p.downloads[i].sequence = m.downloads[i].sequence
      BY <3>1 DEF Fields, NoticedFields
    <3> QED
      BY <3>5, <3>6
  <2>3. NoPlaceTwice(p.downloads)
    BY <1>1, <1>2, <2>1, <2>2 DEF NoPlaceTwice
  <2>4. o.version <= SchemaVersion
    BY <1>3 DEF SchemaVersion
  <2> QED
    BY <1>2, <1>3, <2>1, <2>2, <2>3, <2>4 DEF Accepts, p
<1>4. Accepts(m)
  BY <1>1, <1>3
<1>5. Accepts(Opened(v))
  <2> DEFINE o == Opened(v)
             opened(d) == IF d.status \in Running THEN Noticed(d) ELSE d
             list == [i \in 1 .. n |-> opened(m.downloads[i])]
  <2>1. \A i \in 1 .. n :
          /\ IsItem(opened(m.downloads[i]))
          /\ opened(m.downloads[i]).text = m.downloads[i].text
          /\ opened(m.downloads[i]).added = m.downloads[i].added
          /\ \A f \in Fields \ NoticedFields : opened(m.downloads[i])[f] = m.downloads[i][f]
          /\ \/ opened(m.downloads[i]).status = m.downloads[i].status
             \/ m.downloads[i].status \in Running /\ opened(m.downloads[i]).status = "paused"
    <3> TAKE i \in 1 .. n
    <3> DEFINE d == m.downloads[i]
    <3>1. IsItem(d)
      BY <1>1 DEF Shaped
    <3> HIDE DEF d
    <3>2. /\ IsItem(opened(d)) /\ \A f \in Fields \ NoticedFields : opened(d)[f] = d[f]
          /\ opened(d).text = d.text /\ opened(d).added = d.added
          /\ opened(d).status = d.status \/ (d.status \in Running /\ opened(d).status = "paused")
      <4>1. CASE d.status \in Running
        <5>1. opened(d) = Noticed(d)
          BY <4>1
        <5>2. /\ IsItem(Noticed(d)) /\ Noticed(d).status = "paused"
              /\ \A f \in Fields \ NoticedFields : Noticed(d)[f] = d[f]
          BY <3>1, NoticedFacts
        <5>3. {"text", "added"} \subseteq Fields \ NoticedFields
          BY DEF Fields, NoticedFields
        <5> HIDE DEF opened
        <5> QED
          BY ONLY <4>1, <5>1, <5>2, <5>3
      <4>2. CASE d.status \notin Running
        BY <3>1, <4>2
      <4> QED
        BY <4>1, <4>2
    <3> HIDE DEF opened
    <3> QED
      BY <3>2 DEF d
  <2>2. o.downloads = list /\ o.version = 5
    <3>1. o = [Migrated(v) EXCEPT !.downloads = list]
      BY DEF Opened, Shaped, m, Noticed
    <3> QED
      BY <1>1, <3>1 DEF Migrated, SchemaVersion, m
  <2>3. Len(list) = n
    BY <1>1, LengthOfFunction
  <2> HIDE DEF o, opened
  <2>4. Shaped(o) /\ Len(o.downloads) = n
    <3>1. DOMAIN list = 1 .. n /\ \A i \in 1 .. n : list[i] = opened(m.downloads[i])
      OBVIOUS
    <3>2. \A i \in 1 .. n : m.downloads[i].text \in Nat /\ m.downloads[i].added \in Nat
      BY <1>1 DEF Shaped
    <3> HIDE DEF list
    <3> QED
      BY <1>1, <2>1, <2>2, <2>3, <3>1, <3>2 DEF Shaped
  <2>5. Accepts(o)
    BY <1>3, <2>1, <2>2, <2>4
  <2> QED
    BY <2>5 DEF o
<1> QED
  BY <1>4, <1>5 DEF m

-----------------------------------------------------------------------------
(* What is in the file, or may be after a power loss, is what the first    *)
(* start found or a snapshot that was checked before it was written.       *)
Checked == {Migrated(s) : s \in {t \in Contents : Savable(t)}}
OnlyChecked ==
  /\ \A v \in kept \cup {file} : v = original \/ v \in Checked
  /\ original \in Originals
  /\ \A c \in Calls :
       /\ call[c].pc \in {"gate", "create", "write", "sync", "commit"} => Savable(call[c].snapshot)
       /\ call[c].pc = "loaded" => Accepts(call[c].snapshot)

LEMMA SnapshotShaped ==
  ASSUME NEW s \in Contents \cup (Originals \ {NoFile, Damaged})
  PROVE  Shaped(s)
<1>1. s \in Snapshot
  BY ContentsAssumption
<1>2. s.version \in Nat
  BY <1>1 DEF Snapshot
<1> DEFINE I == [kind: STRING, status: STRING, selection: BOOLEAN, wellFormed: BOOLEAN,
                 queuedAt: BOOLEAN, scheduledFor: BOOLEAN, sequence: Nat \cup {None},
                 completedAt: BOOLEAN, downloaded: Nat, total: Nat \cup {None},
                 text: Nat, added: Nat, error: Nat]
<1>3. s.downloads \in Seq(I)
  BY <1>1 DEF Snapshot
<1>4. \A d \in I : IsItem(d) /\ d.text \in Nat /\ d.added \in Nat
  BY DEF IsItem, Fields
<1> HIDE DEF I
<1> QED
  BY <1>2, <1>3, <1>4 DEF Shaped

(* A migrated snapshot is not changed by another migration.                *)
LEMMA MigratedTwice ==
  ASSUME NEW s, Shaped(s)
  PROVE  Migrated(Migrated(s)) = Migrated(s)
<1> DEFINE m == Migrated(s)
           p == Migrated(m)
           n == Len(s.downloads)
<1>1. /\ Shaped(m) /\ m.version = 5 /\ m = [version |-> 5, downloads |-> m.downloads]
      /\ m.downloads = [i \in 1 .. n |-> m.downloads[i]] /\ Len(m.downloads) = n
      /\ \A i \in 1 .. n : m.downloads[i].added = 0
  BY MigratedFacts
<1> HIDE DEF m
<1>2. /\ Shaped(p) /\ p = [version |-> 5, downloads |-> p.downloads] /\ Len(p.downloads) = n
      /\ p.downloads = [i \in 1 .. n |-> p.downloads[i]]
      /\ \A i \in 1 .. n :
           /\ \A f \in Fields \ FilledFields : p.downloads[i][f] = m.downloads[i][f]
           /\ p.downloads[i].sequence = m.downloads[i].sequence
           /\ p.downloads[i].text = m.downloads[i].text + m.downloads[i].added
           /\ p.downloads[i].added = 0
  BY <1>1, MigratedFacts
<1> HIDE DEF p
<1>3. ASSUME NEW i \in 1 .. n PROVE p.downloads[i] = m.downloads[i]
  <2>0. m.downloads[i].text \in Nat
    BY <1>1 DEF Shaped
  <2>1. p.downloads[i].text = m.downloads[i].text /\ p.downloads[i].added = m.downloads[i].added
    <3>1. p.downloads[i].text = m.downloads[i].text + m.downloads[i].added
      BY <1>2
    <3>2. m.downloads[i].added = 0 /\ p.downloads[i].added = 0
      BY <1>1, <1>2
    <3> QED
      BY <2>0, <3>1, <3>2
  <2>2. \A f \in Fields : p.downloads[i][f] = m.downloads[i][f]
    <3>1. Fields = (Fields \ FilledFields) \cup {"sequence", "text", "added"}
      BY DEF Fields, FilledFields
    <3> QED
      BY ONLY <1>2, <2>1, <3>1
  <2>3. IsItem(p.downloads[i]) /\ IsItem(m.downloads[i])
    BY <1>1, <1>2 DEF Shaped
  <2> QED
    BY ONLY <2>2, <2>3 DEF IsItem
<1>4. p.downloads = m.downloads
  BY <1>1, <1>2, <1>3
<1> QED
  BY <1>1, <1>2, <1>4 DEF p, m

(* Nor by a load that has nobody to notify.                                *)
LEMMA OpenedQuiet ==
  ASSUME NEW s, Shaped(s), \A i \in DOMAIN Migrated(s).downloads : Migrated(s).downloads[i].status \notin Running
  PROVE  Opened(Migrated(s)) = Migrated(s)
<1> DEFINE m == Migrated(s)
           n == Len(s.downloads)
<1>1. /\ m = [version |-> 5, downloads |-> m.downloads] /\ Migrated(m) = m
      /\ m.downloads = [i \in 1 .. n |-> m.downloads[i]]
  BY MigratedFacts, MigratedTwice
<1>2. Opened(m) = [m EXCEPT !.downloads = [i \in DOMAIN m.downloads |-> m.downloads[i]]]
  <2> HIDE DEF m
  <2> QED
    BY <1>1 DEF Opened, m
<1> HIDE DEF m
<1>3. Opened(m) = m
  BY <1>1, <1>2
<1> QED
  BY <1>3 DEF m

(* What was saved can be read, and saved again unless a notice is added;   *)
(* an answer of a load is valid.                                           *)
LEMMA AnswersAreAccepted ==
  /\ \A v \in Checked :
       /\ v # NoFile /\ v # Damaged /\ Fits(v) /\ Accepts(v) /\ Accepts(Opened(v))
       /\ Savable(Opened(v)) \/ \E i \in DOMAIN v.downloads : v.downloads[i].status \in Running
  /\ \A v \in Originals : Readable(v) => Accepts(Answer(v))
<1>1. ASSUME NEW v \in Checked
      PROVE  /\ v # NoFile /\ v # Damaged /\ Fits(v) /\ Accepts(v) /\ Accepts(Opened(v))
             /\ Savable(Opened(v)) \/ \E i \in DOMAIN v.downloads : v.downloads[i].status \in Running
  <2>1. PICK s \in Contents : Accepts(s) /\ Fits(Migrated(s)) /\ v = Migrated(s)
    BY DEF Checked, Savable
  <2>2. Shaped(s) /\ Shaped(v) /\ Accepts(v)
    BY <2>1, SnapshotShaped, MigratedFacts, LoadedIsAccepted
  <2>3. v # NoFile /\ v # Damaged
    BY <2>1, ContentsAssumption
  <2>4. Accepts(Opened(v))
    BY <2>2, LoadedIsAccepted
  <2>5. ASSUME \A i \in DOMAIN v.downloads : v.downloads[i].status \notin Running PROVE Savable(Opened(v))
    <3>1. Opened(v) = v /\ Migrated(v) = v
      BY <2>1, <2>2, <2>5, OpenedQuiet, MigratedTwice
    <3> QED
      BY <2>1, <2>2, <3>1 DEF Savable
  <2> QED
    BY <2>1, <2>2, <2>3, <2>4, <2>5
<1>2. Accepts(Default)
  <2>1. Shaped(Default)
    BY ContentsAssumption, SnapshotShaped
  <2>2. Default.downloads = << >> /\ Default.version = 5
    BY DEF Default, SchemaVersion
  <2>3. Len(Migrated(Default).downloads) = 0 /\ DOMAIN Migrated(Default).downloads = 1 .. 0 /\ DOMAIN << >> = 1 .. 0
    BY <2>1, <2>2, MigratedFacts DEF Shaped
  <2> QED
    BY <2>2, <2>3, ContentsAssumption DEF Accepts, NoPlaceTwice, SchemaVersion
<1>3. ASSUME NEW v \in Originals, Readable(v) PROVE Accepts(Answer(v))
  <2>1. CASE v = NoFile
    BY <1>2, <2>1 DEF Answer
  <2>2. CASE v # NoFile
    <3>1. Shaped(v) /\ Accepts(v)
      BY <1>3, <2>2, SnapshotShaped DEF Readable
    <3> QED
      BY <2>2, <3>1, LoadedIsAccepted DEF Answer
  <2> QED
    BY <2>1, <2>2
<1> QED
  BY <1>1, <1>3

LEMMA OnlyCheckedStep == IInv /\ OnlyChecked /\ [Next]_vars => OnlyChecked'
<1> SUFFICES ASSUME IInv, OnlyChecked, [Next]_vars PROVE OnlyChecked'
  OBVIOUS
<1>1. CASE Crash
  BY <1>1 DEF Crash, CallsEnd, Idle, OnlyChecked
<1>2. CASE PowerLoss
  BY <1>2 DEF PowerLoss, CallsEnd, Idle, OnlyChecked
<1>3. CASE UNCHANGED vars
  BY <1>3 DEF vars, OnlyChecked
<1>4. ASSUME NEW c \in Calls, (\E s \in Contents : Save(c, s)) \/ Load(c) \/ Proceed(c)
      PROVE  OnlyChecked'
  <2>1. original' = original /\ \A d \in Calls \ {c} : call'[d] = call[d]
    BY <1>4, StepKinds
  <2>2. call[c].pc = "commit" => Migrated(call[c].snapshot) \in Checked
    BY DEF IInv, OwnTemporary, OnlyChecked, Checked
  <2>3. \A v \in kept' \cup {file'} : v = original \/ v \in Checked
    BY <1>4, <2>2, StepKinds DEF OnlyChecked
  <2>4. Readable(file) => Accepts(Answer(file))
    <3>1. file \in Checked => Answer(file) = Opened(file)
      BY AnswersAreAccepted DEF Answer
    <3> QED
      BY <3>1, AnswersAreAccepted DEF OnlyChecked
  <2>5. /\ call'[c].pc \in {"gate", "create", "write", "sync", "commit"} => Savable(call'[c].snapshot)
        /\ call'[c].pc = "loaded" => Accepts(call'[c].snapshot)
    <3>1. call[c].pc \in {"gate", "create", "write", "sync", "commit"} => Savable(call[c].snapshot)
      BY DEF OnlyChecked
    <3> QED
      BY <1>4, <2>4, <3>1, StepKinds
  <2> QED
    BY <2>1, <2>3, <2>5 DEF OnlyChecked
<1> QED
  BY <1>1, <1>2, <1>3, <1>4 DEF Next

(* Whatever a save has left, now or after a power loss, can be loaded.     *)
(* What was loaded is valid and can be saved, unless the notices of the    *)
(* transfers that were running make it too long: nothing else locks the    *)
(* user out of saving.                                                     *)
THEOREM QueueRemainsReadable == Spec => []QueueStaysReadable
<1>1. Init => OnlyChecked
  BY DEF Init, Idle, OnlyChecked
<1>2. OnlyChecked => QueueStaysReadable
  BY AnswersAreAccepted DEF OnlyChecked, QueueStaysReadable, Readable, At
<1> QED
  BY <1>1, <1>2, OnlyCheckedStep, Invariance, PTL DEF Spec

-----------------------------------------------------------------------------
(* Induction over the natural numbers.                                     *)

(* The natural numbers' order.                                             *)
Less == {ss \in Nat \X Nat: ss[1] < ss[2]}

(* It is well founded, stated of a set so that it can be cited.            *)
LEMMA LessFounded == IsWellFoundedOn(Less, Nat)
<1>1. IsWellFoundedOn(OpToRel(<, Nat), Nat)
  BY NatLessThanWellFounded
<1>2. OpToRel(<, Nat) = Less
  BY DEF OpToRel, Less
<1>3. QED
  BY <1>1, <1>2

(* A set of numbers that is not empty has a least element.                 *)
LEMMA LeastNatural ==
  ASSUME NEW T, T \subseteq Nat, T # {}
  PROVE  \E x \in T: \A y \in T: x <= y
<1>1. ASSUME NEW x \in Nat, NEW y \in Nat, y < x
      PROVE  <<y, x>> \in Less
  <2>1. <<y, x>> \in Nat \X Nat /\ <<y, x>>[1] < <<y, x>>[2]
    BY <1>1
  <2>2. QED
    BY <2>1 DEF Less
<1>2. PICK x \in T: \A y \in T: <<y, x>> \notin Less
  BY LessFounded, WFMin
<1>3. ASSUME NEW y \in T PROVE x <= y
  <2>1. x \in Nat /\ y \in Nat
    OBVIOUS
  <2>2. ~(y < x)
    BY <1>1, <1>2, <2>1
  <2>3. QED
    BY <2>1, <2>2
<1>4. QED
  BY <1>3

(* Induction, with the property as the set of the numbers that have it.    *)
LEMMA Induction ==
  ASSUME NEW S, 0 \in S, \A n \in Nat: n \in S => n + 1 \in S
  PROVE  Nat \subseteq S
<1>1. SUFFICES ASSUME Nat \ S # {} PROVE FALSE
  OBVIOUS
<1>2. PICK x \in Nat \ S: \A y \in Nat \ S: x <= y
  BY <1>1, LeastNatural
<1>3. x # 0 /\ x - 1 \in Nat /\ ~(x <= x - 1) /\ x = (x - 1) + 1
  BY <1>2
<1>4. x - 1 \in S
  BY <1>2, <1>3
<1>5. QED
  BY <1>2, <1>3, <1>4

-----------------------------------------------------------------------------
(* The order that an old version's queue gets.  The recursive function of  *)
(* Migrated counts the items without a place from i on; that it exists is  *)
(* shown by naming this count.                                             *)
Count(items) ==
  LET next[i \in 1 .. Len(items) + 1] ==
        IF i > Len(items) THEN 0 ELSE next[i + 1] + (IF Placeless(items[i]) THEN 1 ELSE 0)
  IN  next
From(items, i) == {j \in i .. Len(items) : Placeless(items[j])}

LEMMA FromFacts ==
  ASSUME NEW items, Len(items) \in Nat, NEW i \in 1 .. Len(items) + 1
  PROVE  /\ Cardinality(From(items, i)) \in Nat
         /\ i > Len(items) => Cardinality(From(items, i)) = 0
         /\ i <= Len(items) => Cardinality(From(items, i))
                = Cardinality(From(items, i + 1)) + (IF Placeless(items[i]) THEN 1 ELSE 0)
<1>1. \A k \in 1 .. Len(items) + 2 : IsFiniteSet(From(items, k))
  <2> TAKE k \in 1 .. Len(items) + 2
  <2>1. IsFiniteSet(k .. Len(items))
    BY FS_Interval
  <2> QED
    BY <2>1, FS_Subset DEF From
<1>2. Cardinality(From(items, i)) \in Nat
  BY <1>1, FS_CardinalityType
<1>3. i > Len(items) => Cardinality(From(items, i)) = 0
  <2>1. i > Len(items) => From(items, i) = {}
    BY DEF From
  <2> QED
    BY <2>1, FS_EmptySet
<1>4. ASSUME i <= Len(items)
      PROVE  Cardinality(From(items, i))
               = Cardinality(From(items, i + 1)) + (IF Placeless(items[i]) THEN 1 ELSE 0)
  <2>1. IsFiniteSet(From(items, i + 1)) /\ Cardinality(From(items, i + 1)) \in Nat
    BY <1>1, FS_CardinalityType
  <2>2. CASE Placeless(items[i])
    <3>1. From(items, i) = From(items, i + 1) \cup {i} /\ i \notin From(items, i + 1)
      BY <1>4, <2>2 DEF From
    <3> QED
      BY <2>1, <2>2, <3>1, FS_AddElement
  <2>3. CASE ~Placeless(items[i])
    <3>1. From(items, i) = From(items, i + 1)
      BY <1>4, <2>3 DEF From
    <3> QED
      BY <2>1, <2>3, <3>1
  <2> QED
    BY <2>2, <2>3
<1> QED
  BY <1>2, <1>3, <1>4

(* The function obeys its recursion.                                       *)
LEMMA NextExists ==
  ASSUME NEW items, Len(items) \in Nat
  PROVE  Count(items) = [i \in 1 .. Len(items) + 1 |->
           IF i > Len(items) THEN 0
           ELSE Count(items)[i + 1] + (IF Placeless(items[i]) THEN 1 ELSE 0)]
<1> DEFINE count == [i \in 1 .. Len(items) + 1 |-> Cardinality(From(items, i))]
<1>1. count = [i \in 1 .. Len(items) + 1 |->
         IF i > Len(items) THEN 0
         ELSE count[i + 1] + (IF Placeless(items[i]) THEN 1 ELSE 0)]
  <2>1. ASSUME NEW i \in 1 .. Len(items) + 1
        PROVE  count[i] = IF i > Len(items) THEN 0
                          ELSE count[i + 1] + (IF Placeless(items[i]) THEN 1 ELSE 0)
    <3>1. CASE i > Len(items)
      BY <3>1, FromFacts
    <3>2. CASE ~(i > Len(items))
      <4>1. i + 1 \in 1 .. Len(items) + 1 /\ i <= Len(items)
        BY <3>2
      <4> QED
        BY <3>2, <4>1, FromFacts
    <3> QED
      BY <3>1, <3>2
  <2> QED
    BY <2>1
<1> HIDE DEF count
<1> QED
  BY <1>1 DEF Count

(* It is the count: were it not, there would be a least distance from the  *)
(* end where it differs.                                                   *)
LEMMA NextCounts ==
  ASSUME NEW items, Len(items) \in Nat
  PROVE  \A i \in 1 .. Len(items) + 1 : Count(items)[i] = Cardinality(From(items, i))
<1> DEFINE n == Len(items)
           next == Count(items)
           Counted(i) == next[i] = Cardinality(From(items, i))
           Holds == {k \in Nat : k <= n => Counted(n + 1 - k)}
<1>0. n \in Nat
  OBVIOUS
<1>1. \A i \in 1 .. n + 1 :
        next[i] = IF i > n THEN 0 ELSE next[i + 1] + (IF Placeless(items[i]) THEN 1 ELSE 0)
  <2> HIDE DEF next
  <2> QED
    BY NextExists DEF next
<1>2. /\ Counted(n + 1)
      /\ \A i \in 1 .. n : Counted(i + 1) => Counted(i)
  <2> HIDE DEF next
  <2>1. Counted(n + 1)
    BY <1>0, <1>1, FromFacts
  <2>2. ASSUME NEW i \in 1 .. n, Counted(i + 1) PROVE Counted(i)
    BY <1>0, <1>1, <2>2, FromFacts
  <2> QED
    BY <2>1, <2>2
<1> HIDE DEF n, Counted
<1>3. 0 \in Holds
  BY <1>0, <1>2
<1>4. ASSUME NEW k \in Nat, k \in Holds PROVE k + 1 \in Holds
  <2>1. CASE k + 1 <= n
    <3>1. n + 1 - (k + 1) \in 1 .. n /\ (n + 1 - (k + 1)) + 1 = n + 1 - k /\ k <= n
      BY <1>0, <2>1
    <3>2. Counted(n + 1 - k)
      BY <1>4, <3>1
    <3> QED
      BY <1>2, <3>1, <3>2
  <2>2. CASE ~(k + 1 <= n)
    BY <2>2
  <2> QED
    BY <2>1, <2>2
<1> HIDE DEF Holds
<1>5. Nat \subseteq Holds
  BY <1>3, <1>4, Induction
<1>6. ASSUME NEW i \in 1 .. n + 1 PROVE Counted(i)
  <2>1. n + 1 - i \in Nat /\ n + 1 - i <= n /\ n + 1 - (n + 1 - i) = i
    BY <1>0
  <2>2. n + 1 - i \in Holds
    BY <1>5, <2>1
  <2> QED
    BY <2>1, <2>2 DEF Holds
<1> QED
  BY <1>6 DEF n, Counted

(* The places fall along the list: an earlier item is served later.        *)
LEMMA PlacesFall ==
  ASSUME NEW items, Len(items) \in Nat, NEW i \in 1 .. Len(items), NEW j \in 1 .. Len(items),
         i < j, Placeless(items[j])
  PROVE  Count(items)[i + 1] > Count(items)[j + 1]
<1>1. /\ i + 1 \in 1 .. Len(items) + 1 /\ j + 1 \in 1 .. Len(items) + 1
      /\ Count(items)[i + 1] = Cardinality(From(items, i + 1))
      /\ Count(items)[j + 1] = Cardinality(From(items, j + 1))
  BY NextCounts
<1>2. From(items, j) \subseteq From(items, i + 1)
  BY DEF From
<1>3. IsFiniteSet(From(items, i + 1))
  <2>1. IsFiniteSet((i + 1) .. Len(items))
    BY FS_Interval
  <2> QED
    BY <2>1, FS_Subset DEF From
<1>4. Cardinality(From(items, j)) <= Cardinality(From(items, i + 1))
  BY <1>2, <1>3, FS_Subset
<1>5. Cardinality(From(items, j)) = Cardinality(From(items, j + 1)) + 1
  BY FromFacts
<1>6. Cardinality(From(items, j + 1)) \in Nat /\ Cardinality(From(items, i + 1)) \in Nat
  BY <1>1, FromFacts
<1> QED
  BY <1>1, <1>4, <1>5, <1>6

(* So does what a load of such a queue answers.                            *)
LEMMA OldQueueFalls ==
  ASSUME NEW v, Shaped(v), v.version < 3,
         \A i \in DOMAIN v.downloads : v.downloads[i].sequence = None,
         NEW i \in DOMAIN Opened(v).downloads, NEW j \in DOMAIN Opened(v).downloads, i < j,
         Opened(v).downloads[i].status \in Pending, Opened(v).downloads[j].status \in Pending
  PROVE  Opened(v).downloads[i].sequence > Opened(v).downloads[j].sequence
<1> DEFINE items == v.downloads
           n == Len(items)
           m == Migrated(v)
           place(k) == IF v.version < 3 /\ Placeless(items[k]) THEN Count(items)[k + 1] ELSE items[k].sequence
           opened(d) == IF d.status \in Running THEN Noticed(d) ELSE d
<1>1. n \in Nat /\ DOMAIN items = 1 .. n /\ \A k \in 1 .. n : IsItem(items[k])
  BY DEF Shaped
<1>2. m.downloads = [k \in 1 .. n |-> Filled(items[k], place(k))]
  BY DEF Migrated, Count, Filled
<1>3. Opened(v).downloads = [k \in 1 .. n |-> opened(m.downloads[k])]
  <2>1. m = [version |-> m.version, downloads |-> m.downloads]
    BY DEF Migrated
  <2>2. Opened(v) = [m EXCEPT !.downloads = [k \in 1 .. n |-> opened(m.downloads[k])]]
    BY <1>1 DEF Opened, Noticed
  <2> HIDE DEF m
  <2> QED
    BY <2>1, <2>2
<1> HIDE DEF m, place
<1>4. ASSUME NEW k \in 1 .. n, Opened(v).downloads[k].status \in Pending
      PROVE  Opened(v).downloads[k].sequence = place(k) /\ items[k].status \in Pending
  <2>1. /\ m.downloads[k].sequence = place(k)
        /\ m.downloads[k].status = items[k].status
        /\ IsItem(m.downloads[k])
    <3>1. m.downloads[k] = Filled(items[k], place(k)) /\ IsItem(items[k])
      BY <1>1, <1>2
    <3> HIDE DEF items
    <3>2. /\ Filled(items[k], place(k)).sequence = place(k) /\ IsItem(Filled(items[k], place(k)))
          /\ \A f \in Fields \ FilledFields : Filled(items[k], place(k))[f] = items[k][f]
      BY <3>1, FilledFacts
    <3>3. "status" \in Fields \ FilledFields
      BY DEF Fields, FilledFields
    <3> QED
      BY ONLY <3>1, <3>2, <3>3
  <2>2. CASE m.downloads[k].status \in Running
    <3>1. Opened(v).downloads[k] = Noticed(m.downloads[k])
      BY <1>3, <2>2
    <3>2. Noticed(m.downloads[k]).status = "paused"
      BY <2>1, NoticedFacts
    <3> QED
      BY <1>4, <3>1, <3>2 DEF Pending
  <2>3. CASE m.downloads[k].status \notin Running
    <3>1. Opened(v).downloads[k] = m.downloads[k]
      BY <1>3, <2>3
    <3> QED
      BY <1>4, <2>1, <3>1
  <2> QED
    BY <2>2, <2>3
<1>5. i \in 1 .. n /\ j \in 1 .. n
  BY <1>3
<1>6. Placeless(items[i]) /\ Placeless(items[j])
  BY <1>1, <1>4, <1>5 DEF Placeless
<1>7. place(i) = Count(items)[i + 1] /\ place(j) = Count(items)[j + 1]
  BY <1>6 DEF place
<1>8. Count(items)[i + 1] > Count(items)[j + 1]
  BY <1>1, <1>5, <1>6, PlacesFall
<1> QED
  BY <1>4, <1>5, <1>7, <1>8

(* While the file is the old version's, who has loaded has loaded it.      *)
Old(v) == v \in Originals /\ v \notin {NoFile, Damaged} /\ v.version < 3
FromOld ==
  \A c \in Calls : At(c, "loaded") /\ file = original /\ Old(original)
                    => call[c].snapshot = Opened(original)

LEMMA FromOldStep == IInv /\ OnlyChecked /\ FromOld /\ [Next]_vars => FromOld'
<1> SUFFICES ASSUME IInv, OnlyChecked, FromOld, [Next]_vars PROVE FromOld'
  OBVIOUS
<1>1. CASE Crash
  BY <1>1 DEF Crash, CallsEnd, Idle, FromOld, At
<1>2. CASE PowerLoss
  BY <1>2 DEF PowerLoss, CallsEnd, Idle, FromOld, At
<1>3. CASE UNCHANGED vars
  BY <1>3 DEF vars, FromOld, At
<1>4. ASSUME NEW c \in Calls, (\E s \in Contents : Save(c, s)) \/ Load(c) \/ Proceed(c)
      PROVE  FromOld'
  <2>1. original' = original /\ \A d \in Calls \ {c} : call'[d] = call[d]
    BY <1>4, StepKinds
  <2>2. file' = file \/ file'.version = 5
    <3>1. \A s : Migrated(s).version = 5
      BY DEF Migrated, SchemaVersion
    <3> QED
      BY <1>4, <3>1, StepKinds
  <2>3. file' = original /\ Old(original) => file = original
    BY <2>2 DEF Old
  <2>4. call'[c].pc = "loaded" => call'[c].snapshot = Answer(file) /\ file' = file
    BY <1>4, StepKinds
  <2>5. Old(original) => Answer(original) = Opened(original)
    BY DEF Old, Answer
  <2> QED
    BY <2>1, <2>3, <2>4, <2>5 DEF FromOld, At
<1> QED
  BY <1>1, <1>2, <1>3, <1>4 DEF Next

(* A queue of a version that had no places yet keeps its order, and after  *)
(* any saves, loads, failures and losses of power the queue can be loaded  *)
(* and is refused for nothing but its length.                              *)
THEOREM QueueRemainsUsable == Spec => []QueueStaysUsable
<1>1. Init => OnlyChecked /\ FromOld
  BY DEF Init, Idle, OnlyChecked, FromOld, At
<1>2. OnlyChecked /\ FromOld => OldQueueKeepsOrder
  <2> SUFFICES ASSUME OnlyChecked, FromOld, NEW c \in Calls, At(c, "loaded"), file = original,
                      original \notin {NoFile, Damaged}, original.version < 3,
                      NEW i \in DOMAIN call[c].snapshot.downloads,
                      NEW j \in DOMAIN call[c].snapshot.downloads, i < j,
                      call[c].snapshot.downloads[i].status \in Pending,
                      call[c].snapshot.downloads[j].status \in Pending
               PROVE  call[c].snapshot.downloads[i].sequence > call[c].snapshot.downloads[j].sequence
    BY DEF OldQueueKeepsOrder
  <2>1. original \in Originals /\ Old(original)
    BY DEF OnlyChecked, Old
  <2>2. call[c].snapshot = Opened(original)
    BY <2>1 DEF FromOld
  <2>3. Shaped(original) /\ \A k \in DOMAIN original.downloads : original.downloads[k].sequence = None
    BY <2>1, SnapshotShaped, OldVersionsAssumption
  <2> QED
    BY <2>2, <2>3, OldQueueFalls
<1> QED
  BY <1>1, <1>2, OnlyCheckedStep, FromOldStep, Invariance, QueueRemainsReadable, PTL DEF Spec, QueueStaysUsable
=============================================================================
