---------------------------- MODULE ResumeEngine ----------------------------
(***************************************************************************)
(* One download through the transfer engine (quiver-core/src/engine.rs)    *)
(* and its recovery files (state.rs): probe, decision to resume or to      *)
(* start over, single stream or parallel segments, verification, promotion *)
(* to the destination, cleaning up; with retries, cancellation and crashes *)
(* at any point between two file operations, and a server whose file may   *)
(* be replaced by another version at any time.                             *)
(*                                                                         *)
(* A file is the sequence of its bytes; a byte is the version it belongs   *)
(* to and its place there.  A chunk is one byte.  The temporary state file *)
(* is never read: saving the state is its rename.  The host caps, the      *)
(* limiter and pauses only delay a step and are not part of this module.   *)
(***************************************************************************)
EXTENDS Naturals, Sequences

CONSTANTS
  Urls,          \* what may be downloaded to the destination
  Requests,      \* the DownloadRequests for it: url, overwrite_existing and expected_sha256
  Versions,      \* the contents the servers have over time, in the order they appear
  UrlOf,         \* per version: its URL
  Size,          \* per version: its length
  Told,          \* per version: whether the server tells the length
  Ranged,        \* per version: whether the server supports byte ranges
  Curt,          \* per version: whether it may answer an open range in part
  Etag,          \* per version: its strong ETag, or NoTag
  Modified,      \* per version: its Last-Modified, or NoTag
  MaxSegments,   \* TransferPolicy::max_segments
  MinSegment,    \* TransferPolicy::min_segment_bytes
  MaxAttempts,   \* RetryPolicy::max_attempts
  VersionsReturn,\* whether a server may go back to an earlier version
  MaxFaults,     \* bound: failures, cancellations and crashes
  MaxChanges,    \* bound: changes of a server's version
  Unknown, NoTag, NoFile, NoState, Foreign

ASSUME VersionsAssumption ==
  /\ Versions \subseteq Nat \ {0}
  /\ UrlOf \in [Versions -> Urls]
  /\ Size \in [Versions -> Nat \ {0}]
  /\ Told \in [Versions -> BOOLEAN] /\ Ranged \in [Versions -> BOOLEAN]
  /\ Curt \in [Versions -> BOOLEAN] /\ VersionsReturn \in BOOLEAN
ASSUME RequestsAssumption ==
  Requests \subseteq [url : Urls, overwrite : BOOLEAN, expected : Versions \cup {NoTag}]
ASSUME PolicyAssumption ==
  /\ MaxSegments \in Nat \ {0} /\ MinSegment \in Nat \ {0} /\ MaxAttempts \in Nat \ {0}
ASSUME HonestValidators ==
  \A v, w \in Versions :
    /\ UrlOf[v] = UrlOf[w] /\ Etag[v] = Etag[w] /\ Etag[v] # NoTag => v = w
    /\ UrlOf[v] = UrlOf[w] /\ Modified[v] = Modified[w] /\ Modified[v] # NoTag => v = w

VARIABLES
  current,    \* per URL: the version its server has
  partial,    \* the .quiver-part file
  saved,      \* the .quiver.json file
  segments,   \* the .segment-N files
  dest,       \* the destination; Foreign if somebody else created it
  pc,         \* where the command is
  request,    \* the command's request
  attempt,    \* the attempt of download()'s loop
  probe,      \* the version the probe saw: its ProbeResult
  previous,   \* the PartialState that was loaded
  resumed,    \* can_resume_segments, or whether the single stream resumes
  body,       \* the response of the single stream: its version and where it ends
  open,       \* per segment: the version whose response it receives, or 0
  faults, changes

files == <<partial, saved, segments, dest>>
locals == <<request, attempt, probe, previous, resumed, body, open>>
vars == <<current, files, pc, locals, faults, changes>>

Slots == 0..(MaxSegments - 1)

Byte(v, i) == <<v, i>>
Content(v) == [i \in 1..Size[v] |-> Byte(v, i)]

\* s is what version v has from byte `first` (counted from 0) on.
Matches(s, v, first) ==
  /\ first + Len(s) <= Size[v]
  /\ \A i \in 1..Len(s) : s[i] = Byte(v, first + i)

\* A file that open_regular_file has truncated or created.
NewFile == <<>>

Length(f) == IF f = NoFile THEN 0 ELSE Len(f)
Total(v) == IF Told[v] THEN Size[v] ELSE Unknown

-----------------------------------------------------------------------------
(* The decisions of the engine.                                            *)

\* The PartialState that state::save writes.
StateOf(u, v, ranges) ==
  [url |-> u, total |-> Total(v), etag |-> Etag[v], modified |-> Modified[v], ranges |-> ranges]

ResumeValidator(v) == IF Etag[v] # NoTag THEN Etag[v] ELSE Modified[v]

\* Slip: the URL is not compared.
ValidatorsMatch_AnyUrl(u, v, state) ==
  /\ state # NoState
  /\ Ranged[v] /\ state.total = Total(v)
  /\ ResumeValidator(v) # NoTag
  /\ IF Etag[v] # NoTag THEN state.etag = Etag[v] ELSE state.modified = Modified[v]

ValidatorsMatch(u, v, state) ==
  /\ state # NoState
  /\ state.url = u
  /\ Ranged[v] /\ state.total = Total(v)
  /\ ResumeValidator(v) # NoTag
  /\ IF Etag[v] # NoTag THEN state.etag = Etag[v] ELSE state.modified = Modified[v]

\* Slip: a partial file as long as the whole is resumed.
CanResume_AnyLength(u, v, state, offset) ==
  ValidatorsMatch(u, v, state)

CanResume(u, v, state, offset) ==
  /\ ValidatorsMatch(u, v, state)
  /\ Told[v] => offset < Size[v]

LesserOf(a, b) == IF a < b THEN a ELSE b
GreaterOf(a, b) == IF a > b THEN a ELSE b

\* Rounding up may leave no byte for the last ranges, which are dropped.
PlanSegments(total) ==
  LET count == LesserOf(MaxSegments, GreaterOf(total \div MinSegment, 1))
      size == (total + count - 1) \div count
      used == (total + size - 1) \div size
  IN [k \in 1..used |-> [first |-> (k - 1) * size, last |-> LesserOf(k * size, total) - 1]]

\* `ranges` of download_once, for a probe of v and that many bytes to resume from.
RangesFor(v, offset) ==
  IF offset = 0 /\ Told[v] /\ Ranged[v] /\ ResumeValidator(v) # NoTag
  THEN PlanSegments(Size[v])
  ELSE <<>>

CanResumeSegments(u, v, state, offset) ==
  /\ Len(RangesFor(v, offset)) > 1
  /\ ValidatorsMatch(u, v, state)
  /\ state.ranges = RangesFor(v, offset)

\* Slip: the request has no If-Range.
RangeHolds_Unconditionally(v, w) == Ranged[w]

\* What the server answers to a range request with If-Range: 206 if the
\* validator is that of the version it has.
RangeHolds(v, w) ==
  /\ Ranged[w]
  /\ IF Etag[v] # NoTag THEN Etag[w] = Etag[v] ELSE Modified[w] = Modified[v]

-----------------------------------------------------------------------------
NoBody == [version |-> 0, end |-> 0]

Init ==
  /\ current \in [Urls -> Versions]
  /\ \A u \in Urls : UrlOf[current[u]] = u /\ \A v \in Versions : UrlOf[v] = u => current[u] <= v
  /\ partial = NoFile /\ saved = NoState /\ dest = NoFile
  /\ segments = [k \in Slots |-> NoFile]
  /\ pc = "idle"
  /\ request \in Requests /\ attempt = 0 /\ probe = 0 /\ previous = NoState
  /\ resumed = FALSE /\ body = NoBody /\ open = [k \in Slots |-> 0]
  /\ faults = 0 /\ changes = 0

Goto(from, to) == pc = from /\ pc' = to

\* The locals of an attempt are gone when it ends.
Forget ==
  /\ probe' = 0 /\ previous' = NoState /\ resumed' = FALSE
  /\ body' = NoBody /\ open' = [k \in Slots |-> 0]

\* The command ends, with whatever result.
Ends ==
  /\ pc' = "idle" /\ attempt' = 0
  /\ Forget /\ UNCHANGED request

Start(r) ==
  /\ Goto("idle", "ensure")
  /\ request' = r /\ attempt' = 1
  /\ UNCHANGED <<current, files, probe, previous, resumed, body, open, faults, changes>>

\* A cancellation, an error that is not retried, or the end of the process.
Stop ==
  /\ faults < MaxFaults
  /\ pc # "idle"
  /\ Ends
  /\ faults' = faults + 1
  /\ UNCHANGED <<current, files, changes>>

\* Slip: one attempt too many.
FailTransiently_OnceMore ==
  /\ faults < MaxFaults
  /\ pc \in {"probe", "request", "stream", "segments"}
  /\ IF attempt <= MaxAttempts
     THEN pc' = "ensure" /\ attempt' = attempt + 1 /\ Forget /\ UNCHANGED request
     ELSE Ends
  /\ faults' = faults + 1
  /\ UNCHANGED <<current, files, changes>>

\* An error of the transport or a temporary status: download() tries again
\* after a delay, or gives up.
FailTransiently ==
  /\ faults < MaxFaults
  /\ pc \in {"probe", "request", "stream", "segments"}
  /\ IF attempt < MaxAttempts
     THEN pc' = "ensure" /\ attempt' = attempt + 1 /\ Forget /\ UNCHANGED request
     ELSE Ends
  /\ faults' = faults + 1
  /\ UNCHANGED <<current, files, changes>>

-----------------------------------------------------------------------------
(* download_once up to the request.                                        *)

EnsureDestination ==
  /\ pc = "ensure"
  /\ IF ~request.overwrite /\ dest # NoFile
     THEN Ends
     ELSE pc' = "probe" /\ UNCHANGED locals
  /\ UNCHANGED <<current, files, faults, changes>>

Probe ==
  /\ Goto("probe", "load")
  /\ probe' = current[request.url]
  /\ UNCHANGED <<current, files, request, attempt, previous, resumed, body, open, faults, changes>>

\* The saved state and the length of the partial file; the decision to resume.
Load ==
  LET offset == Length(partial) IN
  /\ pc = "load"
  /\ previous' = saved
  /\ pc' = IF offset > 0 /\ ~CanResume(request.url, probe, saved, offset) THEN "drop_partial" ELSE "plan"
  /\ UNCHANGED <<current, files, request, attempt, probe, resumed, body, open, faults, changes>>

\* Slip: the bytes that cannot be resumed stay in the file.
DropPartial_Keeps ==
  /\ Goto("drop_partial", "plan")
  /\ UNCHANGED <<current, files, locals, faults, changes>>

DropPartial ==
  /\ Goto("drop_partial", "plan")
  /\ partial' = NoFile
  /\ UNCHANGED <<current, saved, segments, dest, locals, faults, changes>>

\* Slip: segment files are kept, whoever they belong to.
Plan_KeepsSegments ==
  /\ Goto("plan", "save")
  /\ resumed' = CanResumeSegments(request.url, probe, previous, Length(partial))
  /\ UNCHANGED <<current, files, request, attempt, probe, previous, body, open, faults, changes>>

Plan ==
  LET reuse == CanResumeSegments(request.url, probe, previous, Length(partial)) IN
  /\ pc = "plan"
  /\ resumed' = reuse
  /\ pc' = IF reuse THEN "save" ELSE "drop_segments"
  /\ UNCHANGED <<current, files, request, attempt, probe, previous, body, open, faults, changes>>

\* remove_segment_files: one file after the other.
RemoveSegments(from, to) ==
  /\ pc = from
  /\ IF \A k \in Slots : segments[k] = NoFile
     THEN pc' = to /\ UNCHANGED segments
     ELSE /\ UNCHANGED pc
          /\ \E k \in Slots :
               /\ segments[k] # NoFile
               /\ \A j \in Slots : j < k => segments[j] = NoFile
               /\ segments' = [segments EXCEPT ![k] = NoFile]

DropSegments ==
  /\ RemoveSegments("drop_segments", "save")
  /\ UNCHANGED <<current, partial, saved, dest, locals, faults, changes>>

Save ==
  LET ranges == RangesFor(probe, Length(partial)) IN
  /\ pc = "save"
  /\ saved' = StateOf(request.url, probe, ranges)
  /\ pc' = IF Len(ranges) > 1 THEN "prepare" ELSE "request"
  /\ UNCHANGED <<current, partial, segments, dest, locals, faults, changes>>

-----------------------------------------------------------------------------
(* download_segmented and download_segment.  The segments run concurrently *)
(* and end together: the first error drops the others.                     *)

\* `ranges` is what the command itself saved last.
Planned == {k \in Slots : k < Len(saved.ranges)}
First(k) == saved.ranges[k + 1].first
Expects(k) == saved.ranges[k + 1].last + 1 - First(k)

Prepare ==
  /\ Goto("prepare", "segments")
  /\ segments' = [k \in Slots |->
       IF k \in Planned /\ Length(segments[k]) > Expects(k) THEN NoFile ELSE segments[k]]
  /\ UNCHANGED <<current, partial, saved, dest, locals, faults, changes>>

RequestSegment(k) ==
  /\ pc = "segments" /\ k \in Planned
  /\ open[k] = 0 /\ Length(segments[k]) < Expects(k)
  /\ IF RangeHolds(probe, current[request.url])
     THEN /\ open' = [open EXCEPT ![k] = current[request.url]]
          /\ segments' = [segments EXCEPT ![k] = IF @ = NoFile THEN NewFile ELSE @]
          /\ UNCHANGED <<pc, request, attempt, probe, previous, resumed, body>>
     ELSE Ends /\ UNCHANGED segments
  /\ UNCHANGED <<current, partial, saved, dest, faults, changes>>

ReceiveSegment(k) ==
  /\ pc = "segments" /\ k \in Planned
  /\ open[k] # 0 /\ Len(segments[k]) < Expects(k)
  /\ segments' = [segments EXCEPT ![k] = Append(@, Byte(open[k], First(k) + Len(@) + 1))]
  /\ UNCHANGED <<current, partial, saved, dest, pc, locals, faults, changes>>

\* The merge starts when every segment is complete: a new partial file.
OpenMerge ==
  /\ Goto("segments", "merge")
  /\ \A k \in Planned : Length(segments[k]) = Expects(k)
  /\ partial' = NewFile
  /\ UNCHANGED <<current, saved, segments, dest, locals, faults, changes>>

\* The segments are copied in order, and the sum of their lengths is checked.
Merge ==
  /\ pc = "merge"
  /\ \/ /\ \E k \in Planned :
             /\ First(k) <= Len(partial) /\ Len(partial) < First(k) + Expects(k)
             /\ partial' = Append(partial, segments[k][Len(partial) + 1 - First(k)])
        /\ UNCHANGED <<pc, locals>>
     \/ /\ \A k \in Planned : First(k) + Expects(k) <= Len(partial)
        /\ UNCHANGED partial
        /\ IF Len(partial) = Size[probe] THEN pc' = "verify" /\ UNCHANGED locals ELSE Ends
  /\ UNCHANGED <<current, saved, segments, dest, faults, changes>>

-----------------------------------------------------------------------------
(* The single stream.                                                      *)

\* A full answer starts a new partial file, whatever version it is of; a
\* resume needs the 206 of a version with the probed validator.
Request ==
  LET offset == Length(partial)
      v == current[request.url] IN
  /\ pc = "request"
  /\ \/ /\ offset = 0
        /\ pc' = "stream" /\ body' = [version |-> v, end |-> Size[v]] /\ resumed' = FALSE
        /\ partial' = NewFile
        /\ UNCHANGED <<request, attempt, probe, previous, open>>
     \/ /\ offset > 0 /\ RangeHolds(probe, v) /\ offset < Size[v]
        /\ \E end \in (offset + 1)..Size[v] :
             /\ Curt[v] \/ end = Size[v]
             /\ body' = [version |-> v, end |-> end]
        /\ pc' = "stream" /\ resumed' = TRUE
        /\ UNCHANGED <<partial, request, attempt, probe, previous, open>>
     \/ /\ offset > 0 /\ ~(RangeHolds(probe, v) /\ offset < Size[v])
        /\ Ends /\ UNCHANGED partial
  /\ UNCHANGED <<current, saved, segments, dest, faults, changes>>

\* A chunk beyond the probed size is refused before it is written.
Receive ==
  /\ pc = "stream" /\ Len(partial) < body.end
  /\ IF ~resumed /\ Told[probe] /\ Len(partial) = Size[probe]
     THEN Ends /\ UNCHANGED partial
     ELSE /\ partial' = Append(partial, Byte(body.version, Len(partial) + 1))
          /\ UNCHANGED <<pc, locals>>
  /\ UNCHANGED <<current, saved, segments, dest, faults, changes>>

EndOfBody ==
  /\ pc = "stream" /\ Len(partial) = body.end
  /\ IF Told[probe] /\ Len(partial) # Size[probe]
     THEN Ends
     ELSE pc' = "verify" /\ UNCHANGED locals
  /\ UNCHANGED <<current, files, faults, changes>>

-----------------------------------------------------------------------------
(* finish_download and invalidate_failed_verification.                     *)

\* Slip: a resumed file is not verified.
Verify_FreshOnly ==
  /\ pc = "verify"
  /\ pc' = IF request.expected = NoTag \/ resumed THEN "promote"
           ELSE IF partial = Content(request.expected) THEN "promote" ELSE "invalidate_state"
  /\ UNCHANGED <<current, files, locals, faults, changes>>

Verify ==
  /\ pc = "verify"
  /\ pc' = IF request.expected = NoTag THEN "promote"
           ELSE IF partial = Content(request.expected) THEN "promote" ELSE "invalidate_state"
  /\ UNCHANGED <<current, files, locals, faults, changes>>

InvalidateState ==
  /\ Goto("invalidate_state", "invalidate_segments")
  /\ saved' = NoState
  /\ UNCHANGED <<current, partial, segments, dest, locals, faults, changes>>

InvalidateSegments ==
  /\ RemoveSegments("invalidate_segments", "invalidate_partial")
  /\ UNCHANGED <<current, partial, saved, dest, locals, faults, changes>>

InvalidatePartial ==
  /\ pc = "invalidate_partial" /\ Ends
  /\ partial' = NoFile
  /\ UNCHANGED <<current, saved, segments, dest, faults, changes>>

\* Slip: a rename that replaces.
Promote_Replaces ==
  /\ Goto("promote", "clean_state")
  /\ dest' = partial /\ partial' = NoFile
  /\ UNCHANGED <<current, saved, segments, locals, faults, changes>>

\* atomic_rename_noreplace; with overwriting, remove_file and then rename.
Promote ==
  /\ pc = "promote"
  /\ \/ /\ request.overwrite
        /\ pc' = "rename" /\ dest' = NoFile
        /\ UNCHANGED <<partial, locals>>
     \/ /\ ~request.overwrite /\ dest = NoFile
        /\ pc' = "clean_state" /\ dest' = partial /\ partial' = NoFile
        /\ UNCHANGED locals
     \/ /\ ~request.overwrite /\ dest # NoFile
        /\ Ends
        /\ UNCHANGED <<partial, dest>>
  /\ UNCHANGED <<current, saved, segments, faults, changes>>

Rename ==
  /\ Goto("rename", "clean_state")
  /\ dest' = partial /\ partial' = NoFile
  /\ UNCHANGED <<current, saved, segments, locals, faults, changes>>

CleanState ==
  /\ Goto("clean_state", "clean_segments")
  /\ saved' = NoState
  /\ UNCHANGED <<current, partial, segments, dest, locals, faults, changes>>

CleanSegments ==
  /\ RemoveSegments("clean_segments", "completed")
  /\ UNCHANGED <<current, partial, saved, dest, locals, faults, changes>>

Complete ==
  /\ pc = "completed" /\ Ends
  /\ UNCHANGED <<current, files, faults, changes>>

-----------------------------------------------------------------------------
(* The surroundings.                                                       *)

ServerChanges(u) ==
  /\ changes < MaxChanges
  /\ \E v \in Versions :
       /\ UrlOf[v] = u /\ v # current[u]
       /\ VersionsReturn \/ v > current[u]
       /\ current' = [current EXCEPT ![u] = v]
  /\ changes' = changes + 1
  /\ UNCHANGED <<files, pc, locals, faults>>

SomebodyCreates ==
  /\ changes < MaxChanges
  /\ dest = NoFile
  /\ dest' = Foreign
  /\ changes' = changes + 1
  /\ UNCHANGED <<current, partial, saved, segments, pc, locals, faults>>

Progress ==
  \/ EnsureDestination \/ Probe \/ Load \/ DropPartial \/ Plan \/ DropSegments \/ Save
  \/ Prepare \/ OpenMerge \/ Merge
  \/ \E k \in Slots : RequestSegment(k) \/ ReceiveSegment(k)
  \/ Request \/ Receive \/ EndOfBody
  \/ Verify \/ InvalidateState \/ InvalidateSegments \/ InvalidatePartial
  \/ Promote \/ Rename \/ CleanState \/ CleanSegments \/ Complete

Starts == dest = NoFile /\ \E r \in Requests : Start(r)

Next ==
  \/ \E r \in Requests : Start(r)
  \/ \E u \in Urls : ServerChanges(u)
  \/ Progress
  \/ Stop \/ FailTransiently \/ SomebodyCreates

\* The runtime runs the command, and the user asks again for a file that is
\* not there.
Spec == Init /\ [][Next]_vars /\ WF_vars(Progress) /\ WF_vars(Starts)

-----------------------------------------------------------------------------
PartialState ==
  [url : Urls, total : {Size[v] : v \in Versions} \cup {Unknown},
   etag : {Etag[v] : v \in Versions}, modified : {Modified[v] : v \in Versions},
   ranges : {RangesFor(v, 0) : v \in Versions} \cup {<<>>}]

PCs == {"idle", "ensure", "probe", "load", "drop_partial", "plan", "drop_segments", "save",
        "prepare", "segments", "merge", "request", "stream", "verify",
        "invalidate_state", "invalidate_segments", "invalidate_partial",
        "promote", "rename", "clean_state", "clean_segments", "completed"}

(***************************************************************************)
(* Every variable has its type, and no file is longer than it may be.      *)
(***************************************************************************)
TypeOK ==
  /\ current \in [Urls -> Versions]
  /\ pc \in PCs
  /\ request \in Requests /\ attempt \in 0..MaxAttempts
  /\ probe \in Versions \cup {0}
  /\ saved \in PartialState \cup {NoState} /\ previous \in PartialState \cup {NoState}
  /\ resumed \in BOOLEAN
  /\ body.version \in Versions \cup {0}
  /\ open \in [Slots -> Versions \cup {0}]
  /\ \A f \in {partial, dest} : f \notin {NoFile, Foreign} =>
       \A i \in 1..Len(f) : f[i] \in Versions \X Nat
  /\ pc = "segments" => \A k \in Planned : segments[k] # NoFile => Len(segments[k]) <= Expects(k)

(***************************************************************************)
(* What is published is one version of the file, and all of it, whatever   *)
(* was interrupted and changed before (RESUME.md: never "a completed file  *)
(* made from two different versions").                                     *)
(***************************************************************************)
PublishedIsOneVersion ==
  dest \notin {NoFile, Foreign} => \E v \in Versions : dest = Content(v)

(***************************************************************************)
(* A command with an expected digest publishes that content or nothing,    *)
(* whatever earlier commands left behind for it to resume from.            *)
(***************************************************************************)
PublishedIsExpected ==
  [][dest' \notin {dest, NoFile, Foreign} /\ request.expected # NoTag
       => dest' = Content(request.expected)]_dest

\* The versions that a probe of u can still see.
Probable(u) ==
  {v \in Versions : UrlOf[v] = u /\ (VersionsReturn \/ v >= current[u])}

(***************************************************************************)
(* At every instant, and so after a crash at any point: if the files left  *)
(* behind would make the next attempt resume, the bytes it would resume    *)
(* from are those of the version it would resume with.                     *)
(***************************************************************************)
ResumesOwnBytes ==
  \A u \in Urls : \A v \in Probable(u) :
    partial # NoFile /\ CanResume(u, v, saved, Length(partial)) => Matches(partial, v, 0)

(***************************************************************************)
(* The same of segment files: those that the next attempt would reuse are  *)
(* pieces of the version it would download, at the places of its plan.     *)
(***************************************************************************)
SegmentsResumeOwnBytes ==
  \A u \in Urls : \A v \in Probable(u) :
    CanResumeSegments(u, v, saved, 0) =>
      \A k \in Slots : segments[k] # NoFile => Matches(segments[k], v, RangesFor(v, 0)[k + 1].first)

(***************************************************************************)
(* A destination, once it is there, is never touched without permission to *)
(* overwrite: not by promotion, not by cleaning up, not if it appeared     *)
(* while the transfer ran.                                                 *)
(***************************************************************************)
NeverClobbers ==
  [][dest \notin {NoFile, dest'} => request.overwrite]_dest

(***************************************************************************)
(* Whatever was interrupted, as long as failures and changes end, asking   *)
(* again gets the file (RESUME.md: "keeps interrupted downloads            *)
(* recoverable").                                                          *)
(***************************************************************************)
EventuallyPublished == <>(dest # NoFile)
=============================================================================
