------------------------------ MODULE MediaRunner ------------------------------
(***************************************************************************)
(* start_media_download and run_bridge (media.rs): the Python bridge runs  *)
(* as a child process that may start a helper of its own (ffmpeg), which   *)
(* may keep the child's outputs open; the command reads the child's lines, *)
(* kills it when its flag is set, and waits for it and its diagnostics.    *)
(***************************************************************************)
EXTENDS RunnerGate

VARIABLES
  active,   \* MediaRegistry.active
  flag,     \* the flag in it is set
  child,    \* the bridge: none, running, killed (and not waited for) or dead
  helper,   \* its helper: none, holds (the diagnostics open that are being read) or own
  line      \* what is next on the child's output: nothing, good or bad

media == <<active, flag, child, helper, line>>

MediaTypeOK ==
  /\ active \in BOOLEAN /\ flag \in BOOLEAN
  /\ child \in {"none", "running", "killed", "dead"}
  /\ helper \in {"none", "holds", "own"}
  /\ line \in {"nothing", "good", "bad"}

MediaInit ==
  /\ active = FALSE /\ flag = FALSE
  /\ child = "none" /\ helper = "none" /\ line = "nothing"

\* The link, the quality and the destination are valid, or the command fails.
MediaPrepares ==
  /\ Step(Media, "prepare", "insert") \/ Step(Media, "prepare", "return")
  /\ UNCHANGED media

\* An entry that is there already is replaced all the same.
InsertActive ==
  /\ Step(Media, "insert", IF active THEN "return" ELSE "spawn")
  /\ active' = TRUE /\ flag' = FALSE
  /\ UNCHANGED <<child, helper, line>>

\* No Python, no bridge, or no valid proxy.
SpawnFails ==
  /\ Step(Media, "spawn", "remove")
  /\ UNCHANGED media

Spawn ==
  /\ Step(Media, "spawn", "read")
  /\ child' = "running" /\ line' = "nothing"
  /\ UNCHANGED <<active, flag, helper>>

\* The request cannot be written, or a pipe is missing: the child is killed as it
\* is dropped, and neither its end nor that of a helper is waited for.
SpawnBreaks ==
  /\ Step(Media, "spawn", "remove")
  /\ child' = "killed"
  /\ UNCHANGED <<active, flag, helper, line>>

\* The child and its helper at work; a bad line is one that the command
\* refuses, or one that the listener of the progress cannot take any more.
ChildWrites ==
  /\ child = "running" /\ line = "nothing"
  /\ line' \in {"good", "bad"}
  /\ UNCHANGED <<gate, active, flag, child, helper>>

\* The helper inherits the diagnostics, or has pipes of its own.
ChildStartsHelper ==
  /\ child \in {"running", "killed"} /\ helper # "holds"
  /\ helper' \in IF child = "running" THEN {"holds", "own"} ELSE {"own"}
  /\ UNCHANGED <<gate, active, flag, child, line>>

ChildEnds ==
  /\ child \in {"running", "killed"}
  /\ child' = "dead"
  /\ UNCHANGED <<gate, active, flag, helper, line>>

HelperEnds ==
  /\ helper # "none"
  /\ helper' = "none"
  /\ UNCHANGED <<gate, active, flag, child, line>>

\* stderr_task has read MAX_BRIDGE_STDERR_BYTES and closes the diagnostics.
DiagnosticsFull ==
  /\ helper = "holds"
  /\ helper' = "own"
  /\ UNCHANGED <<gate, active, flag, child, line>>

\* Slip: the child is left to end by itself.
Kill_Not == Step(Media, "read", "drain") /\ UNCHANGED media

\* fail_bridge: the child is killed, and what it wrote is forgotten.
Kill ==
  /\ Step(Media, "read", "drain")
  /\ child' = "dead" /\ line' = "nothing"
  /\ UNCHANGED <<active, flag, helper>>

\* The flag is looked at before every line, and before the end of the output.
ReadFlag == flag /\ Kill

ReadLine ==
  /\ ~flag
  /\ \/ line = "bad" /\ Kill
     \/ /\ line = "good" /\ pc[Media] = "read"
        /\ line' = "nothing"
        /\ UNCHANGED <<gate, active, flag, child, helper>>

\* The output has ended, at once or with the last helper that holds it.
ReadEnd ==
  /\ ~flag /\ child = "dead" /\ line = "nothing"
  /\ Step(Media, "read", "drain")
  /\ UNCHANGED media

\* Slip: nobody waits for the end of the diagnostics.
Drain_Not ==
  /\ Step(Media, "drain", "remove")
  /\ UNCHANGED media

\* wait() and the end of the diagnostics: a helper that does not hold them stays.
Drain ==
  /\ child = "dead" /\ helper # "holds"
  /\ Step(Media, "drain", "remove")
  /\ UNCHANGED media

RemoveActive ==
  /\ Step(Media, "remove", "return")
  /\ active' = FALSE
  /\ flag' = FALSE
  /\ UNCHANGED <<child, helper, line>>

\* cancel_media_download, the second of the front end's two calls.
CancelMedia ==
  /\ active
  /\ flag' = TRUE
  /\ UNCHANGED <<gate, active, child, helper, line>>

MediaCommand ==
  \/ MediaPrepares \/ InsertActive \/ SpawnFails \/ Spawn \/ SpawnBreaks
  \/ ReadFlag \/ ReadLine \/ ReadEnd \/ Drain \/ RemoveActive

MediaNext ==
  \/ MediaCommand
  \/ ChildWrites \/ ChildStartsHelper \/ ChildEnds
  \/ HelperEnds \/ DiagnosticsFull \/ CancelMedia
=============================================================================
