-------------------------------- MODULE AppState --------------------------------
(***************************************************************************)
(* PersistentStore: state.json, the temporary file beside it, the gate     *)
(* that orders the calls, and save_app_state and load_app_state step by    *)
(* step.  Any step may fail; the process may die and the machine may lose  *)
(* power between two steps.  A power loss may undo a rename that no flush  *)
(* of the directory has followed, and tears a file that was not flushed.   *)
(***************************************************************************)
EXTENDS Snapshots

CONSTANTS
  Calls,       \* calls the front end makes at the same time
  Contents,    \* snapshots it may save
  Originals,   \* what may be found at the first start
  NoFile, Damaged, NoCall

Values == Originals \cup {Migrated(s): s \in Contents} \cup {NoFile, Damaged}
Default == [version |-> SchemaVersion, downloads |-> << >>]

ASSUME ContentsAssumption ==
  /\ MaxDownloads \in Nat /\ MaxLength \in Nat /\ NoticeLength \in Nat
  /\ NoCall \notin Calls
  /\ Contents # {}
  /\ Default \in Contents
  /\ Contents \cup (Originals \ {NoFile, Damaged}) \subseteq Snapshot
  /\ {NoFile, Damaged} \cap {Migrated(s): s \in Contents} = {}
  /\ NoFile # Damaged

\* An item had no place in the queue before version 3 (persistence.rs, 301-306,
\* 450-456).
ASSUME OldVersionsAssumption ==
  \A v \in Originals \ {NoFile, Damaged}: v.version < 3 =>
    \A i \in DOMAIN v.downloads: v.downloads[i].sequence = None

VARIABLES
  original,    \* what the first start found
  file,        \* state.json
  kept,        \* what a power loss may leave there
  temporary,   \* state.json.tmp: [value, synced]
  gate,        \* the call that holds the gate
  call         \* call -> [pc, snapshot]

vars == <<original, file, kept, temporary, gate, call>>

Inside == {"create", "write", "sync", "commit", "flush", "read"}
Over == {"idle", "ok", "loaded", "error"}
Idle == [pc |-> "idle", snapshot |-> Default]
Failed == [pc |-> "error", snapshot |-> Default]
Steps == Over \cup Inside \cup {"check", "gate", "load"}

\* The types, and that who is past the gate is the one who holds it.
TypeOK ==
  /\ original \in Values
  /\ file \in Values
  /\ kept \subseteq Values
  /\ temporary \in [value: Values, synced: BOOLEAN]
  /\ gate \in Calls \cup {NoCall}
  /\ \A c \in Calls: call[c].pc \in Steps /\ (call[c].pc \in Inside <=> gate = c)

Init ==
  /\ original \in Originals
  /\ file = original
  /\ kept = {original}
  /\ temporary = [value |-> NoFile, synced |-> FALSE]
  /\ gate = NoCall
  /\ call = [c \in Calls |-> Idle]

At(c, pc) == call[c].pc = pc
Goes(c, from, to) == At(c, from) /\ call' = [call EXCEPT ![c].pc = to]

Ends(c, from, answer) == At(c, from) /\ call' = [call EXCEPT ![c] = answer]

Save(c, s) ==
  /\ call[c].pc \in Over
  /\ call' = [call EXCEPT ![c] = [pc |-> "check", snapshot |-> s]]
  /\ UNCHANGED <<original, file, kept, temporary, gate>>

Load(c) ==
  /\ call[c].pc \in Over
  /\ call' = [call EXCEPT ![c] = [pc |-> "load", snapshot |-> Default]]
  /\ UNCHANGED <<original, file, kept, temporary, gate>>

\* What is not valid, or too long, is refused before the gate.
Check(c) ==
  /\ IF Savable(call[c].snapshot) THEN Goes(c, "check", "gate") ELSE Ends(c, "check", Failed)
  /\ UNCHANGED <<original, file, kept, temporary, gate>>

Lock(c) ==
  /\ gate = NoCall
  /\ gate' = c
  /\ Goes(c, "gate", "create") \/ Goes(c, "load", "read")
  /\ UNCHANGED <<original, file, kept, temporary>>

\* open_private_regular_file: an old temporary file is removed first.
Create(c) ==
  /\ Goes(c, "create", "write")
  /\ temporary' = [value |-> Damaged, synced |-> FALSE]
  /\ UNCHANGED <<original, file, kept, gate>>

Write(c) ==
  /\ Goes(c, "write", "sync")
  /\ temporary' = [temporary EXCEPT !.value = Migrated(call[c].snapshot)]
  /\ UNCHANGED <<original, file, kept, gate>>

Sync(c) ==
  /\ Goes(c, "sync", "commit")
  /\ temporary' = [temporary EXCEPT !.synced = TRUE]
  /\ UNCHANGED <<original, file, kept, gate>>

\* atomic_replace: the rename, then the flush of the directory.
Commit(c) ==
  /\ Goes(c, "commit", "flush")
  /\ file' = temporary.value
  /\ kept' = kept \cup {IF temporary.synced THEN file' ELSE Damaged}
  /\ temporary' = [value |-> NoFile, synced |-> FALSE]
  /\ UNCHANGED <<original, gate>>

\* Slip: the answer does not wait for the directory.
Flush_Skipped(c) ==
  /\ Goes(c, "flush", "ok")
  /\ gate' = NoCall
  /\ UNCHANGED <<original, file, kept, temporary>>

Flush(c) ==
  /\ Goes(c, "flush", "ok")
  /\ gate' = NoCall
  /\ kept' = {file}
  /\ UNCHANGED <<original, file, temporary>>

\* A file that is too long, damaged, of a newer version or not valid is an error,
\* and stays as it is; no file is an empty queue.
Readable(v) == v = NoFile \/ (v # Damaged /\ Fits(v) /\ Accepts(v))
Answer(v) == IF v = NoFile THEN Default ELSE Opened(v)

Read(c) ==
  /\ Ends(c, "read", IF Readable(file) THEN [pc |-> "loaded", snapshot |-> Answer(file)]
                                       ELSE Failed)
  /\ gate' = NoCall
  /\ UNCHANGED <<original, file, kept, temporary>>

\* Slip: an early return that forgets the gate.
StepFails_KeepsGate(c) ==
  /\ \E step \in Inside: Ends(c, step, Failed)
  /\ UNCHANGED <<original, file, kept, temporary, gate>>

StepFails(c) ==
  /\ \E step \in Inside: Ends(c, step, Failed)
  /\ gate' = NoCall
  /\ UNCHANGED <<original, file, kept, temporary>>

CallsEnd ==
  /\ call' = [c \in Calls |-> Idle]
  /\ gate' = NoCall

Crash ==
  /\ CallsEnd
  /\ UNCHANGED <<original, file, kept, temporary>>

PowerLoss ==
  /\ CallsEnd
  /\ file' \in kept
  /\ kept' = {file'}
  /\ temporary' = [value |-> NoFile, synced |-> FALSE]
  /\ UNCHANGED original

Proceed(c) ==
  \/ Check(c) \/ Lock(c) \/ Create(c) \/ Write(c) \/ Sync(c) \/ Commit(c) \/ Flush(c)
  \/ Read(c) \/ StepFails(c)

Next ==
  \/ \E c \in Calls: (\E s \in Contents: Save(c, s)) \/ Load(c) \/ Proceed(c)
  \/ Crash
  \/ PowerLoss

\* File system calls return, and the gate's queue is first come, first served.
Fairness == \A c \in Calls: WF_vars(Proceed(c)) /\ SF_vars(Lock(c))

Spec == Init /\ [][Next]_vars /\ Fairness

-----------------------------------------------------------------------------
\* The store keeps its promise (DurableState): saves and loads take effect one
\* by one, and success means that no power loss can take the snapshot away.
Phase(pc) ==
  CASE pc \in {"check", "gate", "create", "write", "sync", "commit"} -> "saving"
    [] pc = "flush" -> "replaced"
    [] pc \in {"load", "read"} -> "loading"
    [] OTHER -> pc

Held(c) == IF Phase(call[c].pc) \in {"saving", "replaced", "ok"} THEN Migrated(call[c].snapshot)
           ELSE IF call[c].pc = "loaded" THEN call[c].snapshot ELSE Damaged

Reading == [v \in {v \in Values: Readable(v)} |-> Answer(v)]

Store == INSTANCE DurableState WITH
  Nothing <- Damaged,
  Reading <- Reading,
  value <- file,
  possible <- kept,
  call <- [c \in Calls |-> [pc |-> Phase(call[c].pc), value |-> Held(c)]]
KeepsPromise == Store!DurableSpec

\* Whatever a save has left, now or after a power loss, this version can load, and
\* a save refuses what was loaded for nothing but its length: not at all when no
\* transfer was running, for then the load adds no notice.
QueueStaysReadable ==
  /\ \A v \in kept \cup {file}: v # original =>
       /\ v # NoFile /\ Readable(v)
       /\ Savable(Opened(v)) \/ \E i \in DOMAIN v.downloads: v.downloads[i].status \in Running
  /\ \A c \in Calls: At(c, "loaded") => Accepts(call[c].snapshot)

\* A queue of a version that had no places yet keeps its order: what was added
\* first, which is what comes last in the list, is served first.
OldQueueKeepsOrder ==
  \A c \in Calls:
    /\ At(c, "loaded") /\ file = original /\ original \notin {NoFile, Damaged}
    /\ original.version < 3
    => LET items == call[c].snapshot.downloads
       IN  \A i, j \in DOMAIN items:
             /\ i < j /\ items[i].status \in Pending /\ items[j].status \in Pending
             => items[i].sequence > items[j].sequence

\* An update and any sequence of saves leave the user's queue usable, as far as
\* its length allows.
QueueStaysUsable == QueueStaysReadable /\ OldQueueKeepsOrder

\* Every call is answered, however many of the others fail.
EveryCallEnds == \A c \in Calls: call[c].pc \in {"check", "load"} ~> call[c].pc \in Over
=============================================================================
