------------------------- MODULE ResumeEngineProofs -------------------------
(***************************************************************************)
(* Proofs for ResumeEngine, for every value of its constants: a partial    *)
(* file is never resumed with a foreign version, and what is published is  *)
(* one whole version, if servers do not go back to earlier versions and    *)
(* one that tells no length answers an open range to its end.              *)
(*                                                                         *)
(* The invariant is Integrity.  Its heart is AtRest, a property of the     *)
(* recovery files and of what the servers can still serve, whatever the    *)
(* command does; the other conjuncts say what the command knows where it   *)
(* is.                                                                     *)
(***************************************************************************)
EXTENDS ResumeEngine, SequenceTheorems, TLAPS

(* What the theorems assume of the servers.                                *)
Forward ==
  /\ ~VersionsReturn
  /\ \A v \in Versions : Curt[v] => Told[v]

Bytes == Versions \X Nat
Files == Seq(Bytes) \cup {NoFile}

Typed ==
  /\ current \in [Urls -> Versions] /\ \A u \in Urls : UrlOf[current[u]] = u
  /\ request \in Requests
  /\ partial \in Files
  /\ segments \in [Slots -> Files]
  /\ open \in [Slots -> Versions \cup {0}]

(* What a partial file f and segment files segs may hold if v can resume   *)
(* from them with a saved state.                                           *)
OwnBytes(v, f, state) ==
  f # NoFile /\ ValidatorsMatch(UrlOf[v], v, state) => Matches(f, v, 0)

OwnPieces(v, segs) ==
  \A k \in Slots : segs[k] # NoFile =>
    k < Len(RangesFor(v, 0)) /\ Matches(segs[k], v, RangesFor(v, 0)[k + 1].first)

OwnSegments(v, segs, state) ==
  CanResumeSegments(UrlOf[v], v, state, 0) => OwnPieces(v, segs)

SafeFor(cur, f, segs, state) ==
  \A v \in Versions : cur[UrlOf[v]] <= v => OwnBytes(v, f, state) /\ OwnSegments(v, segs, state)

(* Whatever a server may still serve can only resume its own bytes.        *)
AtRest == SafeFor(current, partial, segments, saved)

Probed == PCs \ {"idle", "ensure", "probe"}

(* What was probed may be out of date.                                     *)
ProbeIsPast ==
  pc \in Probed =>
    probe \in Versions /\ UrlOf[probe] = request.url /\ probe <= current[request.url]

(* The decision to resume is about the files that are there.               *)
AtLoad ==
  /\ pc = "load" => OwnBytes(probe, partial, saved) /\ OwnSegments(probe, segments, saved)
  /\ pc \in {"drop_partial", "plan"} => previous = saved /\ OwnSegments(probe, segments, saved)

Kept ==
  pc \in {"plan", "drop_segments", "save", "request"} /\ Length(partial) > 0 =>
    Matches(partial, probe, 0) /\ ResumeValidator(probe) # NoTag

Pieces ==
  pc \in {"save", "prepare", "segments", "merge"} => OwnPieces(probe, segments)

(* From Save on, the saved state is that of the probe.                     *)
SavedIsProbed ==
  /\ pc \in {"request", "stream", "prepare", "segments", "merge"} =>
       saved = StateOf(request.url, probe, saved.ranges)
  /\ pc \in {"request", "stream"} => ~(Len(saved.ranges) > 1)
  /\ pc \in {"prepare", "segments", "merge"} =>
       saved.ranges = RangesFor(probe, 0) /\ Len(RangesFor(probe, 0)) > 1

(* The single stream appends bytes of one version that was there after the *)
(* probe, or of the probed one.                                            *)
Streaming ==
  pc = "stream" =>
    /\ body.version \in Versions /\ UrlOf[body.version] = request.url
    /\ probe <= body.version /\ body.version <= current[request.url]
    /\ partial \in Seq(Bytes) /\ Matches(partial, body.version, 0)
    /\ body.end \in Nat /\ Len(partial) <= body.end /\ body.end <= Size[body.version]
    /\ body.end = Size[body.version] \/ (body.version = probe /\ Told[probe])

Unopened ==
  {"idle", "ensure", "probe", "load", "drop_partial", "plan", "drop_segments", "save",
   "prepare", "request", "stream"}

(* A segment receives bytes of the probed version, and not too many.       *)
Segmented ==
  /\ pc \in Unopened => \A k \in Slots : open[k] = 0
  /\ pc = "segments" =>
       \A k \in Planned :
         /\ segments[k] # NoFile => Len(segments[k]) <= Expects(k)
         /\ open[k] # 0 => /\ open[k] = probe
                           /\ segments[k] \in Seq(Bytes) /\ Matches(segments[k], probe, First(k))

Merging ==
  pc = "merge" =>
    /\ partial \in Seq(Bytes) /\ Matches(partial, probe, 0)
    /\ \A k \in Planned : Length(segments[k]) = Expects(k)

(* What is verified and promoted is a whole version.                       *)
Whole ==
  pc \in {"verify", "promote", "rename"} => \E v \in Versions : partial = Content(v)

Integrity ==
  /\ Typed /\ pc \in PCs
  /\ AtRest /\ ProbeIsPast /\ AtLoad /\ Kept /\ Pieces
  /\ SavedIsProbed /\ Streaming /\ Segmented /\ Merging /\ Whole
  /\ PublishedIsOneVersion

-----------------------------------------------------------------------------
(* Versions and their validators.                                          *)

(* The constants have their types.                                         *)
LEMMA Constants ==
  /\ Versions \subseteq Nat \ {0}
  /\ UrlOf \in [Versions -> Urls] /\ Size \in [Versions -> Nat \ {0}]
  /\ MaxSegments \in Nat \ {0} /\ MinSegment \in Nat \ {0}
BY VersionsAssumption, PolicyAssumption

(* A saved state matches no version but the one it was saved for.          *)
LEMMA SameVersion ==
  ASSUME NEW v \in Versions, NEW w \in Versions, NEW r,
         ValidatorsMatch(UrlOf[v], v, StateOf(UrlOf[w], w, r))
  PROVE  v = w
<1>1. UrlOf[v] = UrlOf[w]
  BY DEF ValidatorsMatch, StateOf
<1>2. CASE Etag[v] # NoTag
  BY <1>1, <1>2, HonestValidators DEF ValidatorsMatch, StateOf
<1>3. CASE Etag[v] = NoTag
  BY <1>1, <1>3, HonestValidators DEF ValidatorsMatch, StateOf, ResumeValidator
<1> QED BY <1>2, <1>3

(* An If-Range request is answered with bytes of the probed version only.  *)
LEMMA SameAnswer ==
  ASSUME NEW v \in Versions, NEW w \in Versions, UrlOf[v] = UrlOf[w],
         ResumeValidator(v) # NoTag, RangeHolds(v, w)
  PROVE  v = w
<1>1. CASE Etag[v] # NoTag
  BY <1>1, HonestValidators DEF RangeHolds
<1>2. CASE Etag[v] = NoTag
  BY <1>2, HonestValidators DEF RangeHolds, ResumeValidator
<1> QED BY <1>1, <1>2

(* A plan of several segments is made from the first byte on, for a        *)
(* version with a validator.                                               *)
LEMMA PlanNeedsValidator ==
  ASSUME NEW v, NEW n, Len(RangesFor(v, n)) > 1
  PROVE  n = 0 /\ ResumeValidator(v) # NoTag
<1>1. RangesFor(v, n) # <<>>
  BY EmptySeq
<1> QED BY <1>1 DEF RangesFor

(* The ranges of a plan are inside the file (segments beyond the end are   *)
(* dropped, the last one is cut).                                          *)
LEMMA PlanIsInside ==
  ASSUME NEW v \in Versions, NEW k \in Slots, k < Len(RangesFor(v, 0))
  PROVE  /\ RangesFor(v, 0)[k + 1].first \in Nat
         /\ RangesFor(v, 0)[k + 1].last \in Int
         /\ RangesFor(v, 0)[k + 1].last + 1 <= Size[v]
<1> DEFINE total == Size[v]
           count == LesserOf(MaxSegments, GreaterOf(total \div MinSegment, 1))
           size == (total + count - 1) \div count
           used == (total + size - 1) \div size
           range(j) == [first |-> (j - 1) * size, last |-> LesserOf(j * size, total) - 1]
           plan == [j \in 1..used |-> range(j)]
<1>0. total \in Nat \ {0} /\ MaxSegments \in Nat \ {0} /\ MinSegment \in Nat \ {0} /\ k \in Nat
  BY Constants DEF Slots
<1>1. RangesFor(v, 0) # <<>>
  BY <1>0, EmptySeq
<1>2. RangesFor(v, 0) = plan
  BY <1>1 DEF RangesFor, PlanSegments
<1>3. count \in Nat \ {0}
  <2>1. total \div MinSegment \in Nat
    BY <1>0
  <2> QED BY <2>1, <1>0 DEF LesserOf, GreaterOf
<1> HIDE DEF count
<1>4. size \in Nat \ {0}
  <2>1. (total + count - 1) \in Nat /\ total + count - 1 >= count
    BY <1>0, <1>3
  <2> QED BY <2>1, <1>3
<1> HIDE DEF size
<1>5. used \in Nat
  BY <1>0, <1>4
<1> HIDE DEF used
<1>6. \A j \in 1..used : range(j) \in [first : Nat, last : Int] /\ range(j).last + 1 <= total
  <2> TAKE j \in 1..used
  <2>1. (j - 1) * size \in Nat /\ j * size \in Nat
    BY <1>4, <1>5
  <2> QED BY <2>1, <1>0 DEF LesserOf
<1>7. plan \in [1..used -> [first : Nat, last : Int]]
  BY <1>6
<1>8. plan \in Seq([first : Nat, last : Int]) /\ DOMAIN plan = 1..used
  BY <1>7, <1>5, SeqDef
<1>9. Len(plan) = used
  BY <1>8, <1>5, LenProperties
<1>10. k + 1 \in 1..used
  BY <1>0, <1>2, <1>5, <1>9
<1> QED BY <1>2, <1>6, <1>7, <1>10

-----------------------------------------------------------------------------
(* Files.                                                                  *)

(* A new file matches any version, from any of its bytes on.               *)
LEMMA NewFileMatches ==
  ASSUME NEW v \in Versions, NEW first \in Nat, first <= Size[v]
  PROVE  NewFile \in Seq(Bytes) /\ Len(NewFile) = 0 /\ Matches(NewFile, v, first)
<1>1. NewFile \in Seq(Bytes) /\ Len(NewFile) = 0
  BY EmptySeq DEF NewFile
<1> QED BY <1>1, Constants DEF Matches

(* A file that has bytes is a file.                                        *)
LEMMA LengthOfFile ==
  ASSUME NEW f \in Files
  PROVE  /\ Length(f) \in Nat
         /\ f = NoFile => Length(f) = 0
         /\ f # NoFile => f \in Seq(Bytes) /\ Length(f) = Len(f)
BY LenProperties DEF Length, Files

(* A file without bytes matches any version.                               *)
LEMMA EmptyMatches ==
  ASSUME NEW v \in Versions, NEW f \in Seq(Bytes), ~(Len(f) > 0)
  PROVE  Matches(f, v, 0)
<1>1. Len(f) = 0
  BY LenProperties
<1> QED BY <1>1, Constants DEF Matches

(* The next byte of the version a file matches keeps the match.            *)
LEMMA AppendMatches ==
  ASSUME NEW v \in Versions, NEW f \in Seq(Bytes), NEW first \in Nat,
         Matches(f, v, first), first + Len(f) < Size[v]
  PROVE  LET g == Append(f, Byte(v, first + Len(f) + 1)) IN
         /\ g \in Seq(Bytes) /\ Len(g) = Len(f) + 1 /\ Matches(g, v, first)
<1> DEFINE b == Byte(v, first + Len(f) + 1)
           g == Append(f, b)
<1>1. Len(f) \in Nat /\ Size[v] \in Nat
  BY LenProperties, Constants
<1>2. b \in Bytes
  BY <1>1, Constants DEF Byte, Bytes
<1>3. g \in Seq(Bytes) /\ Len(g) = Len(f) + 1
  BY <1>2
<1>4. \A i \in 1..Len(f) : g[i] = f[i]
  BY <1>2
<1>5. g[Len(f) + 1] = b
  BY <1>2
<1> HIDE DEF g
<1>6. \A i \in 1..Len(g) : g[i] = Byte(v, first + i)
  <2> TAKE i \in 1..Len(g)
  <2>1. CASE i \in 1..Len(f)
    BY <2>1, <1>4 DEF Matches
  <2>2. CASE i = Len(f) + 1
    <3>1. first + i = first + Len(f) + 1
      BY <2>2, <1>1
    <3> QED BY <2>2, <3>1, <1>5
  <2> QED BY <2>1, <2>2, <1>1, <1>3
<1>7. first + Len(g) <= Size[v]
  BY <1>1, <1>3
<1>8. Matches(g, v, first)
  BY <1>6, <1>7 DEF Matches
<1> QED BY <1>3, <1>8 DEF g

(* A file that matches a version and is as long as it is that version.     *)
LEMMA WholeMatch ==
  ASSUME NEW v \in Versions, NEW f \in Seq(Bytes), Matches(f, v, 0), Len(f) = Size[v]
  PROVE  f = Content(v)
<1>1. f \in [1..Len(f) -> Bytes]
  BY LenProperties
<1>2. \A i \in 1..Len(f) : f[i] = Byte(v, i)
  BY LenProperties DEF Matches
<1> QED BY <1>1, <1>2 DEF Content

-----------------------------------------------------------------------------
(* What keeps the recovery files safe.                                     *)

(* Removing files, and servers that move on, harm nothing.                 *)
LEMMA FewerFilesAreSafe ==
  ASSUME NEW cur \in [Urls -> Versions], NEW later \in [Urls -> Versions],
         \A u \in Urls : cur[u] <= later[u],
         NEW f, NEW g \in {f, NoFile}, NEW segs, NEW less, NEW state, NEW left \in {state, NoState},
         \A k \in Slots : less[k] \in {segs[k], NoFile},
         SafeFor(cur, f, segs, state)
  PROVE  SafeFor(later, g, less, left)
<1> SUFFICES ASSUME NEW v \in Versions, later[UrlOf[v]] <= v
             PROVE  OwnBytes(v, g, left) /\ OwnSegments(v, less, left)
  BY DEF SafeFor
<1>1. cur[UrlOf[v]] <= v
  <2>1. UrlOf[v] \in Urls /\ v \in Nat
    BY Constants
  <2>2. cur[UrlOf[v]] \in Nat /\ later[UrlOf[v]] \in Nat
    BY <2>1, Constants
  <2> QED BY <2>1, <2>2
<1>2. OwnBytes(v, f, state) /\ OwnSegments(v, segs, state)
  BY <1>1 DEF SafeFor
<1>3. OwnBytes(v, g, left)
  BY <1>2 DEF OwnBytes, ValidatorsMatch
<1>4. OwnSegments(v, less, left)
  BY <1>2 DEF OwnSegments, OwnPieces, CanResumeSegments, ValidatorsMatch
<1> QED BY <1>3, <1>4

(* Files under the state of a version p are safe if they are p's, or if p  *)
(* is gone.                                                                *)
LEMMA ProbedFilesAreSafe ==
  ASSUME NEW p \in Versions, NEW cur, NEW f, NEW segs, NEW r,
         cur[UrlOf[p]] <= p /\ f # NoFile => Matches(f, p, 0),
         Len(r) > 1 => OwnPieces(p, segs)
  PROVE  SafeFor(cur, f, segs, StateOf(UrlOf[p], p, r))
<1> SUFFICES ASSUME NEW v \in Versions, cur[UrlOf[v]] <= v
             PROVE  /\ OwnBytes(v, f, StateOf(UrlOf[p], p, r))
                    /\ OwnSegments(v, segs, StateOf(UrlOf[p], p, r))
  BY DEF SafeFor
<1>1. ValidatorsMatch(UrlOf[v], v, StateOf(UrlOf[p], p, r)) => v = p
  BY SameVersion
<1>2. OwnBytes(v, f, StateOf(UrlOf[p], p, r))
  BY <1>1 DEF OwnBytes
<1>3. OwnSegments(v, segs, StateOf(UrlOf[p], p, r))
  BY <1>1 DEF OwnSegments, CanResumeSegments, StateOf
<1> QED BY <1>2, <1>3

(* Other pieces of the version that the state was saved for.               *)
LEMMA PiecesAreSafe ==
  ASSUME NEW p \in Versions, NEW cur, NEW f, NEW segs, NEW new, NEW r,
         SafeFor(cur, f, segs, StateOf(UrlOf[p], p, r)), OwnPieces(p, new)
  PROVE  SafeFor(cur, f, new, StateOf(UrlOf[p], p, r))
<1> SUFFICES ASSUME NEW v \in Versions, cur[UrlOf[v]] <= v
             PROVE  /\ OwnBytes(v, f, StateOf(UrlOf[p], p, r))
                    /\ OwnSegments(v, new, StateOf(UrlOf[p], p, r))
  BY DEF SafeFor
<1>1. OwnBytes(v, f, StateOf(UrlOf[p], p, r))
  BY DEF SafeFor
<1>2. ValidatorsMatch(UrlOf[v], v, StateOf(UrlOf[p], p, r)) => v = p
  BY SameVersion
<1>3. OwnSegments(v, new, StateOf(UrlOf[p], p, r))
  BY <1>2 DEF OwnSegments, CanResumeSegments
<1> QED BY <1>1, <1>3

(* Fewer pieces are still pieces.                                          *)
LEMMA FewerPieces ==
  ASSUME NEW v, NEW segs, NEW less, \A k \in Slots : less[k] \in {segs[k], NoFile},
         OwnPieces(v, segs)
  PROVE  OwnPieces(v, less)
BY DEF OwnPieces

(* Removing files, and servers that move on, keep AtRest.                  *)
LEMMA RestKept ==
  ASSUME Typed, AtRest,
         current' \in [Urls -> Versions], \A u \in Urls : current[u] <= current'[u],
         partial' \in {partial, NoFile}, saved' \in {saved, NoState},
         \A k \in Slots : segments'[k] \in {segments[k], NoFile}
  PROVE  AtRest'
<1>1. current \in [Urls -> Versions] /\ SafeFor(current, partial, segments, saved)
  BY DEF Typed, AtRest
<1>2. SafeFor(current', partial', segments', saved')
  BY <1>1, FewerFilesAreSafe
<1> QED BY <1>2 DEF AtRest

(* The current versions are numbers.                                       *)
LEMMA CurrentIsOrdered ==
  ASSUME Typed
  PROVE  \A u \in Urls : current[u] \in Nat /\ current[u] <= current[u]
<1> TAKE u \in Urls
<1>1. current[u] \in Versions
  BY DEF Typed
<1>2. current[u] \in Nat
  BY <1>1, Constants
<1> QED BY <1>2

(* Removing segment files, one at a time.                                  *)
LEMMA RemoveEffect ==
  ASSUME Typed, NEW from, NEW to, RemoveSegments(from, to)
  PROVE  /\ segments' \in [Slots -> Files]
         /\ \A k \in Slots : segments'[k] \in {segments[k], NoFile}
         /\ pc = from /\ pc' \in {from, to}
         /\ pc' = from \/ \A k \in Slots : segments'[k] = NoFile
<1>1. CASE \A k \in Slots : segments[k] = NoFile
  BY <1>1 DEF RemoveSegments, Typed
<1>2. CASE ~\A k \in Slots : segments[k] = NoFile
  <2>1. PICK k \in Slots : segments' = [segments EXCEPT ![k] = NoFile]
    BY <1>2 DEF RemoveSegments
  <2> QED BY <1>2, <2>1 DEF RemoveSegments, Typed, Files
<1> QED BY <1>1, <1>2

-----------------------------------------------------------------------------
(* A command that ends, or is not yet beyond its probe, knows nothing.     *)

Outside == {"idle", "ensure", "probe"}

(* Steps to the outside keep the invariant, whatever they end.             *)
LEMMA OutsideKeeps ==
  ASSUME Integrity, pc' \in Outside, request' \in Requests,
         open' = [k \in Slots |-> 0] \/ (pc \in Outside /\ open' = open),
         partial' \in {partial, NoFile}, UNCHANGED <<current, segments, saved>>,
         PublishedIsOneVersion'
  PROVE  Integrity'
<1>1. Typed'
  BY DEF Integrity, Typed, Files
<1>2. AtRest'
  BY CurrentIsOrdered, RestKept DEF Integrity, Typed
<1>3. pc' \in PCs /\ ProbeIsPast' /\ AtLoad' /\ Kept' /\ Pieces'
  BY DEF Outside, PCs, Probed, ProbeIsPast, AtLoad, Kept, Pieces
<1>4. SavedIsProbed' /\ Streaming' /\ Merging' /\ Whole'
  BY DEF Outside, SavedIsProbed, Streaming, Merging, Whole
<1>5. Segmented'
  BY DEF Integrity, Outside, Unopened, Segmented
<1> QED BY <1>1, <1>2, <1>3, <1>4, <1>5 DEF Integrity

(* The end of a command.                                                   *)
LEMMA EndKeeps ==
  ASSUME Integrity, Ends, partial' \in {partial, NoFile},
         UNCHANGED <<current, segments, saved, dest>>
  PROVE  Integrity'
<1>1. PublishedIsOneVersion'
  BY DEF Integrity, PublishedIsOneVersion
<1>2. pc' \in Outside /\ request' \in Requests /\ open' = [k \in Slots |-> 0]
  BY DEF Ends, Forget, Outside, Integrity, Typed
<1> QED BY <1>1, <1>2, OutsideKeeps

(* A new command.                                                          *)
LEMMA StartKeeps ==
  ASSUME Integrity, NEW r \in Requests, Start(r)
  PROVE  Integrity'
<1>1. PublishedIsOneVersion'
  BY DEF Start, files, Integrity, PublishedIsOneVersion
<1>2. /\ pc' \in Outside /\ request' \in Requests /\ pc \in Outside /\ open' = open
      /\ partial' = partial /\ UNCHANGED <<current, segments, saved>>
  BY DEF Start, Goto, files, Outside
<1> QED BY <1>1, <1>2, OutsideKeeps

(* A cancellation or a crash.                                              *)
LEMMA StopKeeps ==
  ASSUME Integrity, Stop
  PROVE  Integrity'
BY EndKeeps DEF Stop, files

(* A failure that is retried, or not.                                      *)
LEMMA FailTransientlyKeeps ==
  ASSUME Integrity, FailTransiently
  PROVE  Integrity'
<1>1. CASE attempt < MaxAttempts
  <2>1. PublishedIsOneVersion'
    BY DEF FailTransiently, files, Integrity, PublishedIsOneVersion
  <2>2. /\ pc' \in Outside /\ request' \in Requests /\ open' = [k \in Slots |-> 0]
        /\ partial' = partial /\ UNCHANGED <<current, segments, saved>>
    BY <1>1 DEF FailTransiently, Forget, files, Outside, Integrity, Typed
  <2> QED BY <2>1, <2>2, OutsideKeeps
<1>2. CASE ~(attempt < MaxAttempts)
  BY <1>2, EndKeeps DEF FailTransiently, files
<1> QED BY <1>1, <1>2

(* The check of the destination.                                           *)
LEMMA EnsureDestinationKeeps ==
  ASSUME Integrity, EnsureDestination
  PROVE  Integrity'
<1>1. CASE Ends
  BY <1>1, EndKeeps DEF EnsureDestination, files
<1>2. CASE pc' = "probe" /\ UNCHANGED locals
  <2>1. PublishedIsOneVersion'
    BY DEF EnsureDestination, files, Integrity, PublishedIsOneVersion
  <2>2. /\ pc' \in Outside /\ request' \in Requests /\ pc \in Outside /\ open' = open
        /\ partial' = partial /\ UNCHANGED <<current, segments, saved>>
    BY <1>2 DEF EnsureDestination, files, locals, Outside, Integrity, Typed
  <2> QED BY <2>1, <2>2, OutsideKeeps
<1> QED BY <1>1, <1>2 DEF EnsureDestination

-----------------------------------------------------------------------------
(* The surroundings.                                                       *)

(* A newer version on a server.                                            *)
LEMMA ServerChangesKeeps ==
  ASSUME Forward, Integrity, NEW u \in Urls, ServerChanges(u)
  PROVE  Integrity'
<1>1. PICK v \in Versions : UrlOf[v] = u /\ v > current[u] /\ current' = [current EXCEPT ![u] = v]
  BY DEF ServerChanges, Forward
<1>2. Typed
  BY DEF Integrity
<1>3. Typed'
  BY <1>1, <1>2 DEF Typed, ServerChanges, files, locals
<1>4. \A w \in Urls : current[w] \in Nat /\ current'[w] \in Nat /\ current[w] <= current'[w]
  <2> TAKE w \in Urls
  <2>1. current[w] \in Versions /\ current'[w] \in Versions
    BY <1>2, <1>3 DEF Typed
  <2>2. current[w] \in Nat /\ current'[w] \in Nat
    BY <2>1, Constants
  <2>3. current'[w] = IF w = u THEN v ELSE current[w]
    BY <1>1, <1>2 DEF Typed
  <2> QED BY <1>1, <2>2, <2>3
<1>5. AtRest'
  BY <1>2, <1>3, <1>4, RestKept DEF Integrity, ServerChanges, files, Typed
<1>6. request.url \in Urls
  BY <1>2, RequestsAssumption DEF Typed
<1>7. ProbeIsPast'
  <2> SUFFICES ASSUME pc \in Probed PROVE ProbeIsPast'
    BY DEF ProbeIsPast, ServerChanges
  <2>1. probe \in Versions /\ UrlOf[probe] = request.url /\ probe <= current[request.url]
    BY DEF Integrity, ProbeIsPast
  <2>2. probe \in Nat
    BY <2>1, Constants
  <2>3. probe <= current'[request.url]
    BY <2>1, <2>2, <1>4, <1>6
  <2> QED BY <2>1, <2>3 DEF ProbeIsPast, ServerChanges, locals
<1>8. pc' \in PCs /\ AtLoad' /\ Kept' /\ Pieces' /\ SavedIsProbed' /\ Merging' /\ Whole'
  BY DEF ServerChanges, files, locals, Integrity, AtLoad, Kept, Pieces, SavedIsProbed, Merging,
         Whole, Planned, Expects, First
<1>9. Streaming'
  <2> SUFFICES ASSUME pc = "stream" PROVE Streaming'
    BY DEF Streaming, ServerChanges
  <2>1. body.version \in Versions /\ body.version <= current[request.url]
    BY DEF Integrity, Streaming
  <2>2. body.version \in Nat
    BY <2>1, Constants
  <2>3. body.version <= current'[request.url]
    BY <2>1, <2>2, <1>4, <1>6
  <2> QED BY <2>3 DEF Integrity, Streaming, ServerChanges, files, locals
<1>10. Segmented' /\ PublishedIsOneVersion'
  BY DEF ServerChanges, files, locals, Integrity, Segmented, PublishedIsOneVersion, Planned,
         Expects, First
<1> QED BY <1>3, <1>5, <1>7, <1>8, <1>9, <1>10 DEF Integrity

(* Somebody else's file at the destination.                                *)
LEMMA SomebodyCreatesKeeps ==
  ASSUME Integrity, SomebodyCreates
  PROVE  Integrity'
<1>1. Typed' /\ pc' \in PCs /\ AtRest' /\ ProbeIsPast' /\ AtLoad' /\ Kept' /\ Pieces'
  BY DEF SomebodyCreates, locals, Integrity, Typed, AtRest, ProbeIsPast, AtLoad, Kept, Pieces
<1>2. SavedIsProbed' /\ Streaming' /\ Segmented' /\ Merging' /\ Whole'
  BY DEF SomebodyCreates, locals, Integrity, SavedIsProbed, Streaming, Segmented, Merging, Whole,
         Planned, Expects, First
<1>3. PublishedIsOneVersion'
  BY DEF SomebodyCreates, PublishedIsOneVersion
<1> QED BY <1>1, <1>2, <1>3 DEF Integrity

(* A step that changes nothing.                                            *)
LEMMA StutterKeeps ==
  ASSUME Integrity, UNCHANGED vars
  PROVE  Integrity'
<1>1. Typed' /\ pc' \in PCs /\ AtRest' /\ ProbeIsPast' /\ AtLoad' /\ Kept' /\ Pieces'
  BY DEF vars, files, locals, Integrity, Typed, AtRest, ProbeIsPast, AtLoad, Kept, Pieces
<1>2. SavedIsProbed' /\ Streaming' /\ Segmented' /\ Merging' /\ Whole' /\ PublishedIsOneVersion'
  BY DEF vars, files, locals, Integrity, SavedIsProbed, Streaming, Segmented, Merging, Whole,
         Planned, Expects, First, PublishedIsOneVersion
<1> QED BY <1>1, <1>2 DEF Integrity

-----------------------------------------------------------------------------
(* From the probe to the request.                                          *)

(* What is known of the probe.                                             *)
LEMMA ProbeFacts ==
  ASSUME Integrity, pc \in Probed
  PROVE  /\ probe \in Versions /\ UrlOf[probe] = request.url
         /\ request.url \in Urls /\ current[request.url] \in Versions
         /\ UrlOf[current[request.url]] = request.url
         /\ probe <= current[request.url]
         /\ partial \in Files
BY RequestsAssumption DEF Integrity, ProbeIsPast, Typed

(* A new probe sees what the recovery files are safe for.                  *)
LEMMA ProbeKeeps ==
  ASSUME Integrity, Probe
  PROVE  Integrity'
<1>1. request.url \in Urls
  BY RequestsAssumption DEF Integrity, Typed
<1>2. probe' \in Versions /\ UrlOf[probe'] = request.url /\ probe' = current[request.url]
  BY <1>1 DEF Probe, Integrity, Typed
<1>3. current[request.url] <= probe'
  BY <1>1, <1>2, CurrentIsOrdered DEF Integrity
<1>4. /\ pc = "probe" /\ pc' = "load" /\ request' = request /\ open' = open
      /\ UNCHANGED <<current, partial, saved, segments, dest>>
  BY DEF Probe, Goto, files
<1>5. Typed' /\ pc' \in PCs /\ AtRest'
  BY <1>4 DEF Integrity, Typed, AtRest, PCs
<1>6. ProbeIsPast'
  BY <1>2, <1>3, <1>4 DEF ProbeIsPast
<1>7. OwnBytes(probe', partial, saved) /\ OwnSegments(probe', segments, saved)
  BY <1>2, <1>3 DEF Integrity, AtRest, SafeFor
<1>8. AtLoad'
  BY <1>4, <1>7 DEF AtLoad
<1>9. Kept' /\ Pieces' /\ SavedIsProbed' /\ Streaming' /\ Merging' /\ Whole'
  BY <1>4 DEF Kept, Pieces, SavedIsProbed, Streaming, Merging, Whole
<1>10. Segmented' /\ PublishedIsOneVersion'
  BY <1>4 DEF Integrity, Segmented, Unopened, PublishedIsOneVersion
<1> QED BY <1>5, <1>6, <1>8, <1>9, <1>10 DEF Integrity

(* The partial file is kept only if it is the probed version's.            *)
LEMMA LoadKeeps ==
  ASSUME Integrity, Load
  PROVE  Integrity'
<1>1. /\ pc = "load" /\ pc' \in {"drop_partial", "plan"} /\ previous' = saved
      /\ pc' = "plan" => ~(Length(partial) > 0) \/ CanResume(request.url, probe, saved, Length(partial))
      /\ UNCHANGED <<current, partial, saved, segments, dest, request, probe, open>>
  BY DEF Load, files
<1>2. probe \in Versions /\ UrlOf[probe] = request.url /\ partial \in Files
  BY <1>1, ProbeFacts DEF Probed, PCs
<1>3. Typed' /\ pc' \in PCs /\ AtRest'
  BY <1>1 DEF Integrity, Typed, AtRest, PCs
<1>4. ProbeIsPast' /\ AtLoad'
  BY <1>1 DEF Integrity, ProbeIsPast, Probed, PCs, AtLoad
<1>5. Kept'
  <2> SUFFICES ASSUME pc' = "plan", Length(partial) > 0
               PROVE  Matches(partial, probe, 0) /\ ResumeValidator(probe) # NoTag
    BY <1>1 DEF Kept
  <2>1. ValidatorsMatch(request.url, probe, saved)
    BY <1>1 DEF CanResume
  <2>2. partial # NoFile
    BY <1>2, LengthOfFile
  <2>3. OwnBytes(probe, partial, saved)
    BY <1>1 DEF Integrity, AtLoad
  <2> QED BY <1>2, <2>1, <2>2, <2>3 DEF OwnBytes, ValidatorsMatch
<1>6. Pieces' /\ SavedIsProbed' /\ Streaming' /\ Merging' /\ Whole'
  BY <1>1 DEF Pieces, SavedIsProbed, Streaming, Merging, Whole
<1>7. Segmented' /\ PublishedIsOneVersion'
  BY <1>1 DEF Integrity, Segmented, Unopened, PublishedIsOneVersion
<1> QED BY <1>3, <1>4, <1>5, <1>6, <1>7 DEF Integrity

(* A partial file that cannot be resumed is removed.                       *)
LEMMA DropPartialKeeps ==
  ASSUME Integrity, DropPartial
  PROVE  Integrity'
<1>1. /\ pc = "drop_partial" /\ pc' = "plan" /\ partial' = NoFile
      /\ UNCHANGED <<current, saved, segments, dest, request, probe, previous, open>>
  BY DEF DropPartial, Goto, locals
<1>2. Typed' /\ pc' \in PCs
  BY <1>1 DEF Integrity, Typed, PCs, Files
<1>3. AtRest'
  BY <1>1, CurrentIsOrdered, RestKept DEF Integrity, Typed
<1>4. ProbeIsPast' /\ AtLoad'
  BY <1>1 DEF Integrity, ProbeIsPast, Probed, PCs, AtLoad
<1>5. Kept'
  BY <1>1 DEF Kept, Length
<1>6. Pieces' /\ SavedIsProbed' /\ Streaming' /\ Merging' /\ Whole'
  BY <1>1 DEF Pieces, SavedIsProbed, Streaming, Merging, Whole
<1>7. Segmented' /\ PublishedIsOneVersion'
  BY <1>1 DEF Integrity, Segmented, Unopened, PublishedIsOneVersion
<1> QED BY <1>2, <1>3, <1>4, <1>5, <1>6, <1>7 DEF Integrity

(* Segment files are reused only if they are the probed version's.         *)
LEMMA PlanKeeps ==
  ASSUME Integrity, Plan
  PROVE  Integrity'
<1>1. /\ pc = "plan" /\ pc' \in {"save", "drop_segments"}
      /\ pc' = "save" => CanResumeSegments(request.url, probe, previous, Length(partial))
      /\ UNCHANGED <<current, partial, saved, segments, dest, request, probe, open>>
  BY DEF Plan, files
<1>2. probe \in Versions /\ UrlOf[probe] = request.url
  BY <1>1, ProbeFacts DEF Probed, PCs
<1>3. Typed' /\ pc' \in PCs /\ AtRest'
  BY <1>1 DEF Integrity, Typed, AtRest, PCs
<1>4. ProbeIsPast' /\ AtLoad' /\ Kept'
  BY <1>1 DEF Integrity, ProbeIsPast, Probed, PCs, AtLoad, Kept
<1>5. Pieces'
  <2> SUFFICES ASSUME pc' = "save" PROVE OwnPieces(probe, segments)
    BY <1>1 DEF Pieces
  <2>1. CanResumeSegments(request.url, probe, previous, Length(partial))
    BY <1>1
  <2>2. Length(partial) = 0
    BY <2>1, PlanNeedsValidator DEF CanResumeSegments
  <2>3. previous = saved /\ OwnSegments(probe, segments, saved)
    BY <1>1 DEF Integrity, AtLoad
  <2> QED BY <1>2, <2>1, <2>2, <2>3 DEF OwnSegments
<1>6. SavedIsProbed' /\ Streaming' /\ Merging' /\ Whole'
  BY <1>1 DEF SavedIsProbed, Streaming, Merging, Whole
<1>7. Segmented' /\ PublishedIsOneVersion'
  BY <1>1 DEF Integrity, Segmented, Unopened, PublishedIsOneVersion
<1> QED BY <1>3, <1>4, <1>5, <1>6, <1>7 DEF Integrity

(* The others are removed.                                                 *)
LEMMA DropSegmentsKeeps ==
  ASSUME Integrity, DropSegments
  PROVE  Integrity'
<1>0. Typed
  BY DEF Integrity
<1>1. /\ segments' \in [Slots -> Files]
      /\ \A k \in Slots : segments'[k] \in {segments[k], NoFile}
      /\ pc = "drop_segments" /\ pc' \in {"drop_segments", "save"}
      /\ pc' = "drop_segments" \/ \A k \in Slots : segments'[k] = NoFile
  BY <1>0, RemoveEffect DEF DropSegments
<1>2. UNCHANGED <<current, partial, saved, dest, request, probe, open>>
  BY DEF DropSegments, locals
<1>3. Typed' /\ pc' \in PCs
  BY <1>0, <1>1, <1>2 DEF Typed, PCs
<1>4. AtRest'
  BY <1>0, <1>1, <1>2, CurrentIsOrdered, RestKept DEF Integrity, Typed
<1>5. ProbeIsPast' /\ AtLoad' /\ Kept'
  BY <1>1, <1>2 DEF Integrity, ProbeIsPast, Probed, PCs, AtLoad, Kept
<1>6. Pieces'
  BY <1>1, <1>2 DEF Pieces, OwnPieces
<1>7. SavedIsProbed' /\ Streaming' /\ Merging' /\ Whole'
  BY <1>1 DEF SavedIsProbed, Streaming, Merging, Whole
<1>8. Segmented' /\ PublishedIsOneVersion'
  BY <1>1, <1>2 DEF Integrity, Segmented, Unopened, PublishedIsOneVersion
<1> QED BY <1>3, <1>4, <1>5, <1>6, <1>7, <1>8 DEF Integrity

(* The saved state becomes the probe's; the files already are.             *)
LEMMA SaveKeeps ==
  ASSUME Integrity, Save
  PROVE  Integrity'
<1> DEFINE ranges == RangesFor(probe, Length(partial))
<1>1. /\ pc = "save" /\ saved' = StateOf(request.url, probe, ranges)
      /\ pc' \in {"prepare", "request"} /\ (pc' = "prepare" <=> Len(ranges) > 1)
      /\ UNCHANGED <<current, partial, segments, dest, request, probe, open>>
  BY DEF Save, locals
<1>2. probe \in Versions /\ UrlOf[probe] = request.url /\ partial \in Files
  BY <1>1, ProbeFacts DEF Probed, PCs
<1>3. Typed' /\ pc' \in PCs
  BY <1>1 DEF Integrity, Typed, PCs
<1>4. partial # NoFile => Matches(partial, probe, 0)
  <2>1. CASE Length(partial) > 0
    BY <1>1, <2>1 DEF Integrity, Kept
  <2>2. CASE ~(Length(partial) > 0)
    BY <1>2, <2>2, LengthOfFile, EmptyMatches
  <2> QED BY <2>1, <2>2
<1>5. OwnPieces(probe, segments)
  BY <1>1 DEF Integrity, Pieces
<1>6. AtRest'
  <2>1. SafeFor(current, partial, segments, StateOf(UrlOf[probe], probe, ranges))
    BY <1>2, <1>4, <1>5, ProbedFilesAreSafe
  <2> QED BY <1>1, <1>2, <2>1 DEF AtRest
<1>7. ProbeIsPast' /\ AtLoad' /\ Kept' /\ Pieces'
  BY <1>1, <1>5 DEF Integrity, ProbeIsPast, Probed, PCs, AtLoad, Kept, Pieces
<1>8. SavedIsProbed'
  <2>1. saved' = StateOf(request.url, probe, saved'.ranges) /\ saved'.ranges = ranges
    BY <1>1 DEF StateOf
  <2>2. Len(ranges) > 1 => ranges = RangesFor(probe, 0)
    BY PlanNeedsValidator
  <2> QED BY <1>1, <2>1, <2>2 DEF SavedIsProbed
<1>9. Streaming' /\ Merging' /\ Whole'
  BY <1>1 DEF Streaming, Merging, Whole
<1>10. Segmented' /\ PublishedIsOneVersion'
  BY <1>1 DEF Integrity, Segmented, Unopened, PublishedIsOneVersion
<1> QED BY <1>3, <1>6, <1>7, <1>8, <1>9, <1>10 DEF Integrity

-----------------------------------------------------------------------------
(* The segments.                                                           *)

(* Where a planned segment is.                                             *)
LEMMA Expectations ==
  ASSUME Integrity, pc \in {"prepare", "segments", "merge"}, NEW k \in Planned
  PROVE  /\ k \in Slots /\ k < Len(RangesFor(probe, 0))
         /\ First(k) = RangesFor(probe, 0)[k + 1].first
         /\ First(k) \in Nat /\ Expects(k) \in Int /\ First(k) + Expects(k) <= Size[probe]
<1>1. probe \in Versions
  BY ProbeFacts DEF Probed, PCs
<1>2. saved.ranges = RangesFor(probe, 0)
  BY DEF Integrity, SavedIsProbed
<1>3. k \in Slots /\ k < Len(RangesFor(probe, 0))
  BY <1>2 DEF Planned
<1>4. First(k) = RangesFor(probe, 0)[k + 1].first
  BY <1>2 DEF First
<1>5. Expects(k) = RangesFor(probe, 0)[k + 1].last + 1 - First(k)
  BY <1>2 DEF Expects
<1> QED BY <1>1, <1>3, <1>4, <1>5, PlanIsInside, Constants

(* What the saved state is while segments are downloaded.                  *)
LEMMA SegmentFacts ==
  ASSUME Integrity, pc \in {"prepare", "segments", "merge"}
  PROVE  /\ probe \in Versions /\ UrlOf[probe] = request.url
         /\ saved = StateOf(UrlOf[probe], probe, saved.ranges)
         /\ ResumeValidator(probe) # NoTag
         /\ OwnPieces(probe, segments)
<1>1. probe \in Versions /\ UrlOf[probe] = request.url
  BY ProbeFacts DEF Probed, PCs
<1>2. saved = StateOf(UrlOf[probe], probe, saved.ranges) /\ Len(RangesFor(probe, 0)) > 1
  BY <1>1 DEF Integrity, SavedIsProbed
<1>3. OwnPieces(probe, segments)
  BY DEF Integrity, Pieces
<1> QED BY <1>1, <1>2, <1>3, PlanNeedsValidator

(* Segment files that are too long are removed.                            *)
LEMMA PrepareKeeps ==
  ASSUME Integrity, Prepare
  PROVE  Integrity'
<1>1. /\ pc = "prepare" /\ pc' = "segments"
      /\ segments' = [k \in Slots |->
           IF k \in Planned /\ Length(segments[k]) > Expects(k) THEN NoFile ELSE segments[k]]
      /\ UNCHANGED <<current, partial, saved, dest, request, probe, open>>
  BY DEF Prepare, Goto, locals
<1>2. \A k \in Slots : segments'[k] \in {segments[k], NoFile}
  BY <1>1
<1>3. Typed' /\ pc' \in PCs
  BY <1>1 DEF Integrity, Typed, PCs, Files
<1>4. AtRest'
  BY <1>1, <1>2, CurrentIsOrdered, RestKept DEF Integrity, Typed
<1>5. ProbeIsPast' /\ AtLoad' /\ Kept'
  BY <1>1 DEF Integrity, ProbeIsPast, Probed, PCs, AtLoad, Kept
<1>6. Pieces'
  BY <1>1, <1>2, SegmentFacts, FewerPieces DEF Pieces
<1>7. SavedIsProbed' /\ Streaming' /\ Merging' /\ Whole'
  BY <1>1 DEF Integrity, SavedIsProbed, Streaming, Merging, Whole
<1>8. \A k \in Planned : segments'[k] # NoFile => Len(segments'[k]) <= Expects(k)
  <2> SUFFICES ASSUME NEW k \in Planned, segments'[k] # NoFile
               PROVE  Len(segments'[k]) <= Expects(k)
    OBVIOUS
  <2>1. k \in Slots /\ Expects(k) \in Int
    BY <1>1, Expectations
  <2>2. segments'[k] = segments[k] /\ ~(Length(segments[k]) > Expects(k)) /\ segments[k] \in Files
    BY <1>1, <2>1 DEF Integrity, Typed
  <2> QED BY <2>1, <2>2, LengthOfFile
<1>9. Segmented'
  <2>1. \A k \in Slots : open[k] = 0
    BY <1>1 DEF Integrity, Segmented, Unopened
  <2>2. Planned' = Planned /\ \A k \in Slots : Expects(k)' = Expects(k)
    BY <1>1 DEF Planned, Expects, First
  <2> QED BY <1>1, <1>8, <2>1, <2>2 DEF Segmented, Unopened, Planned
<1>10. PublishedIsOneVersion'
  BY <1>1 DEF Integrity, PublishedIsOneVersion
<1> QED BY <1>3, <1>4, <1>5, <1>6, <1>7, <1>9, <1>10 DEF Integrity

(* A segment file changes into another piece of the probed version.        *)
LEMMA SegmentStepKeeps ==
  ASSUME Integrity, pc = "segments", pc' = "segments",
         UNCHANGED <<current, partial, saved, dest, request, probe>>,
         segments' \in [Slots -> Files], open' \in [Slots -> Versions \cup {0}],
         NEW k \in Planned, NEW f \in Seq(Bytes),
         segments' = [segments EXCEPT ![k] = f],
         \A j \in Slots : j # k => open'[j] = open[j],
         open'[k] = probe, Matches(f, probe, First(k)), Len(f) <= Expects(k)
  PROVE  Integrity'
<1>1. k \in Slots /\ k < Len(RangesFor(probe, 0)) /\ First(k) = RangesFor(probe, 0)[k + 1].first
  BY Expectations
<1>2. segments'[k] = f /\ \A j \in Slots : j # k => segments'[j] = segments[j]
  BY <1>1 DEF Integrity, Typed
<1>3. Typed' /\ pc' \in PCs
  BY DEF Integrity, Typed
<1>4. OwnPieces(probe, segments')
  BY <1>1, <1>2, SegmentFacts DEF OwnPieces
<1>5. AtRest'
  <2>1. SafeFor(current, partial, segments', saved)
    BY <1>4, SegmentFacts, PiecesAreSafe DEF Integrity, AtRest
  <2> QED BY <2>1 DEF AtRest
<1>6. ProbeIsPast' /\ AtLoad' /\ Kept' /\ Pieces'
  BY <1>4 DEF Integrity, ProbeIsPast, AtLoad, Kept, Pieces
<1>7. SavedIsProbed' /\ Streaming' /\ Merging' /\ Whole'
  BY DEF Integrity, SavedIsProbed, Streaming, Merging, Whole
<1>8. Segmented'
  <2>1. Planned' = Planned /\ \A j \in Slots : Expects(j)' = Expects(j) /\ First(j)' = First(j)
    BY DEF Planned, Expects, First
  <2>2. ASSUME NEW j \in Planned
        PROVE  /\ segments'[j] # NoFile => Len(segments'[j]) <= Expects(j)
               /\ open'[j] # 0 => /\ open'[j] = probe
                                  /\ segments'[j] \in Seq(Bytes)
                                  /\ Matches(segments'[j], probe, First(j))
    <3>1. CASE j = k
      BY <3>1, <1>2
    <3>2. CASE j # k
      <4>1. segments'[j] = segments[j] /\ open'[j] = open[j]
        BY <3>2, <1>2 DEF Planned
      <4> QED BY <4>1 DEF Integrity, Segmented
    <3> QED BY <3>1, <3>2
  <2>3. \A j \in Slots : segments[j]' = segments'[j] /\ open[j]' = open'[j]
    OBVIOUS
  <2> QED BY <2>1, <2>2, <2>3 DEF Segmented, Unopened, Planned
<1>9. PublishedIsOneVersion'
  BY DEF Integrity, PublishedIsOneVersion
<1> QED BY <1>3, <1>5, <1>6, <1>7, <1>8, <1>9 DEF Integrity

(* The answer to a segment's request is of the probed version, or the      *)
(* command ends.                                                           *)
LEMMA RequestSegmentKeeps ==
  ASSUME Integrity, NEW k \in Slots, RequestSegment(k)
  PROVE  Integrity'
<1>1. /\ pc = "segments" /\ k \in Planned /\ open[k] = 0 /\ Length(segments[k]) < Expects(k)
      /\ UNCHANGED <<current, partial, saved, dest>>
  BY DEF RequestSegment
<1>2. /\ probe \in Versions /\ current[request.url] \in Versions
      /\ UrlOf[probe] = UrlOf[current[request.url]]
  BY <1>1, ProbeFacts DEF Probed, PCs
<1>3. CASE RangeHolds(probe, current[request.url])
  <2>1. current[request.url] = probe
    BY <1>1, <1>2, <1>3, SegmentFacts, SameAnswer
  <2> DEFINE f == IF segments[k] = NoFile THEN NewFile ELSE segments[k]
  <2>2. /\ pc' = "segments" /\ UNCHANGED <<request, probe>>
        /\ open' = [open EXCEPT ![k] = probe]
        /\ segments' = [segments EXCEPT ![k] = f]
    BY <1>1, <1>3, <2>1 DEF RequestSegment, Integrity, Typed
  <2>3. /\ First(k) = RangesFor(probe, 0)[k + 1].first /\ First(k) \in Nat /\ Expects(k) \in Int
        /\ First(k) + Expects(k) <= Size[probe]
    BY <1>1, Expectations
  <2>4. segments[k] \in Files
    BY DEF Integrity, Typed
  <2>5. f \in Seq(Bytes) /\ Matches(f, probe, First(k)) /\ Len(f) <= Expects(k)
    <3>1. CASE segments[k] = NoFile
      <4>1. 0 < Expects(k) /\ First(k) <= Size[probe]
        BY <1>1, <1>2, <2>3, <2>4, <3>1, LengthOfFile, Constants
      <4> QED BY <1>2, <2>3, <3>1, <4>1, NewFileMatches
    <3>2. CASE segments[k] # NoFile
      <4>1. segments[k] \in Seq(Bytes) /\ Len(segments[k]) < Expects(k) /\ Len(segments[k]) \in Nat
        BY <1>1, <2>4, <3>2, LengthOfFile
      <4>2. Matches(segments[k], probe, First(k))
        BY <1>1, <2>3, <3>2, SegmentFacts DEF OwnPieces
      <4> QED BY <2>3, <3>2, <4>1, <4>2
    <3> QED BY <3>1, <3>2
  <2> HIDE DEF f
  <2>6. segments' \in [Slots -> Files] /\ open' \in [Slots -> Versions \cup {0}]
    BY <1>2, <2>2, <2>5 DEF Integrity, Typed, Files
  <2>7. open'[k] = probe /\ \A j \in Slots : j # k => open'[j] = open[j]
    BY <2>2 DEF Integrity, Typed
  <2> QED BY <1>1, <2>2, <2>5, <2>6, <2>7, SegmentStepKeeps
<1>4. CASE ~RangeHolds(probe, current[request.url])
  BY <1>4, EndKeeps DEF RequestSegment
<1> QED BY <1>3, <1>4

(* A segment grows by a byte of the probed version.                        *)
LEMMA ReceiveSegmentKeeps ==
  ASSUME Integrity, NEW k \in Slots, ReceiveSegment(k)
  PROVE  Integrity'
<1> DEFINE f == Append(segments[k], Byte(open[k], First(k) + Len(segments[k]) + 1))
<1>1. /\ pc = "segments" /\ k \in Planned /\ open[k] # 0 /\ Len(segments[k]) < Expects(k)
      /\ pc' = "segments" /\ segments' = [segments EXCEPT ![k] = f]
      /\ UNCHANGED <<current, partial, saved, dest, request, probe, open>>
  BY DEF ReceiveSegment, locals, Integrity, Typed
<1>2. /\ probe \in Versions /\ First(k) \in Nat /\ Expects(k) \in Int
      /\ First(k) + Expects(k) <= Size[probe]
  BY <1>1, Expectations, SegmentFacts
<1>3. /\ open[k] = probe /\ segments[k] \in Seq(Bytes) /\ Matches(segments[k], probe, First(k))
  BY <1>1 DEF Integrity, Segmented
<1>4. Len(segments[k]) \in Nat /\ First(k) + Len(segments[k]) < Size[probe]
  BY <1>1, <1>2, <1>3, LenProperties, Constants
<1>5. f \in Seq(Bytes) /\ Len(f) = Len(segments[k]) + 1 /\ Matches(f, probe, First(k))
  BY <1>2, <1>3, <1>4, AppendMatches
<1>6. Len(f) <= Expects(k)
  BY <1>1, <1>2, <1>4, <1>5
<1> HIDE DEF f
<1>7. segments' \in [Slots -> Files] /\ open' \in [Slots -> Versions \cup {0}]
  BY <1>1, <1>5 DEF Integrity, Typed, Files
<1>8. open'[k] = probe /\ \A j \in Slots : j # k => open'[j] = open[j]
  BY <1>1, <1>3
<1> QED BY <1>1, <1>5, <1>6, <1>7, <1>8, SegmentStepKeeps

(* The merge writes the partial file only, which stays the probe's.        *)
LEMMA MergeStepKeeps ==
  ASSUME Integrity, pc \in {"segments", "merge"}, pc' = "merge",
         UNCHANGED <<current, saved, segments, dest, locals>>,
         \A k \in Planned : Length(segments[k]) = Expects(k),
         partial' \in Seq(Bytes), Matches(partial', probe, 0)
  PROVE  Integrity'
<1>1. UNCHANGED <<request, probe, open>>
  BY DEF locals
<1>2. Typed' /\ pc' \in PCs
  BY <1>1 DEF Integrity, Typed, PCs, Files
<1>3. AtRest'
  <2>1. SafeFor(current, partial', segments, saved)
    BY SegmentFacts, ProbedFilesAreSafe
  <2> QED BY <2>1 DEF AtRest
<1>4. ProbeIsPast' /\ AtLoad' /\ Kept' /\ Pieces'
  BY <1>1 DEF Integrity, ProbeIsPast, Probed, PCs, AtLoad, Kept, Pieces
<1>5. SavedIsProbed' /\ Streaming' /\ Segmented' /\ Whole'
  BY <1>1 DEF Integrity, SavedIsProbed, Streaming, Segmented, Unopened, Whole
<1>6. Merging'
  BY <1>1 DEF Merging, Planned, Expects, First, Length
<1>7. PublishedIsOneVersion'
  BY DEF Integrity, PublishedIsOneVersion
<1> QED BY <1>2, <1>3, <1>4, <1>5, <1>6, <1>7 DEF Integrity

(* The merge starts with complete segments and a new file.                 *)
LEMMA OpenMergeKeeps ==
  ASSUME Integrity, OpenMerge
  PROVE  Integrity'
<1>1. /\ pc = "segments" /\ pc' = "merge" /\ partial' = NewFile
      /\ \A k \in Planned : Length(segments[k]) = Expects(k)
      /\ UNCHANGED <<current, saved, segments, dest, locals>>
  BY DEF OpenMerge, Goto
<1>2. probe \in Versions
  BY <1>1, SegmentFacts
<1>3. partial' \in Seq(Bytes) /\ Matches(partial', probe, 0)
  BY <1>1, <1>2, NewFileMatches, Constants
<1> QED BY <1>1, <1>3, MergeStepKeeps

-----------------------------------------------------------------------------
(* Verification, promotion, cleaning up.                                   *)

Late ==
  {"verify", "invalidate_state", "invalidate_segments", "invalidate_partial",
   "promote", "rename", "clean_state", "clean_segments", "completed"}

(* Steps that remove recovery files only.                                  *)
LEMMA LateKeeps ==
  ASSUME Integrity, pc \in Late, pc' \in Late,
         UNCHANGED <<current, request, probe, open>>,
         partial' \in {partial, NoFile}, saved' \in {saved, NoState},
         segments' \in [Slots -> Files],
         \A k \in Slots : segments'[k] \in {segments[k], NoFile},
         Whole', PublishedIsOneVersion'
  PROVE  Integrity'
<1>1. Typed'
  BY DEF Integrity, Typed, Files
<1>2. AtRest'
  BY CurrentIsOrdered, RestKept DEF Integrity, Typed
<1>3. pc' \in PCs /\ ProbeIsPast'
  BY DEF Integrity, ProbeIsPast, Probed, PCs, Late
<1>4. AtLoad' /\ Kept' /\ Pieces'
  BY DEF Late, AtLoad, Kept, Pieces
<1>5. SavedIsProbed' /\ Streaming' /\ Merging'
  BY DEF Late, SavedIsProbed, Streaming, Merging
<1>6. Segmented'
  BY DEF Late, Segmented, Unopened
<1> QED BY <1>1, <1>2, <1>3, <1>4, <1>5, <1>6 DEF Integrity

(* The digest decides, and changes nothing.                                *)
LEMMA VerifyKeeps ==
  ASSUME Integrity, Verify
  PROVE  Integrity'
<1>1. pc = "verify" /\ pc' \in {"promote", "invalidate_state"}
  BY DEF Verify
<1>2. UNCHANGED <<current, partial, saved, segments, dest, request, probe, open>>
  BY DEF Verify, files, locals
<1>3. segments' \in [Slots -> Files] /\ \A k \in Slots : segments'[k] \in {segments[k], NoFile}
  BY <1>2 DEF Integrity, Typed
<1>4. Whole' /\ PublishedIsOneVersion'
  BY <1>1, <1>2 DEF Integrity, Whole, PublishedIsOneVersion
<1>5. pc \in Late /\ pc' \in Late
  BY <1>1 DEF Late
<1> QED BY <1>2, <1>3, <1>4, <1>5, LateKeeps

(* The saved state is removed: after a failed verification, or at the end. *)
LEMMA DropStateKeeps ==
  ASSUME Integrity, InvalidateState \/ CleanState
  PROVE  Integrity'
<1>1. pc \in Late /\ pc' \in Late \ {"verify", "promote", "rename"}
  BY DEF InvalidateState, CleanState, Goto, Late
<1>2. saved' = NoState /\ UNCHANGED <<current, partial, segments, dest, request, probe, open>>
  BY DEF InvalidateState, CleanState, locals
<1>3. segments' \in [Slots -> Files] /\ \A k \in Slots : segments'[k] \in {segments[k], NoFile}
  BY <1>2 DEF Integrity, Typed
<1>4. Whole' /\ PublishedIsOneVersion'
  BY <1>1, <1>2 DEF Integrity, Whole, PublishedIsOneVersion
<1> QED BY <1>1, <1>2, <1>3, <1>4, LateKeeps

(* The segment files are removed: after a failed verification, or at the   *)
(* end.                                                                    *)
LEMMA RemoveSegmentsKeeps ==
  ASSUME Integrity, InvalidateSegments \/ CleanSegments
  PROVE  Integrity'
<1>0. Typed
  BY DEF Integrity
<1>1. /\ segments' \in [Slots -> Files]
      /\ \A k \in Slots : segments'[k] \in {segments[k], NoFile}
      /\ pc \in Late /\ pc' \in Late \ {"verify", "promote", "rename"}
  <2>1. CASE InvalidateSegments
    BY <1>0, <2>1, RemoveEffect DEF InvalidateSegments, Late
  <2>2. CASE CleanSegments
    BY <1>0, <2>2, RemoveEffect DEF CleanSegments, Late
  <2> QED BY <2>1, <2>2
<1>2. UNCHANGED <<current, partial, saved, dest, request, probe, open>>
  BY DEF InvalidateSegments, CleanSegments, locals
<1>3. Whole' /\ PublishedIsOneVersion'
  BY <1>1, <1>2 DEF Integrity, Whole, PublishedIsOneVersion
<1> QED BY <1>1, <1>2, <1>3, LateKeeps

(* The partial file becomes the destination.                               *)
LEMMA RenameKeeps ==
  ASSUME Integrity, pc \in {"promote", "rename"}, pc' = "clean_state",
         dest' = partial, partial' = NoFile, UNCHANGED <<current, saved, segments, locals>>
  PROVE  Integrity'
<1>1. PublishedIsOneVersion'
  BY DEF Integrity, Whole, PublishedIsOneVersion
<1>2. Whole' /\ pc \in Late /\ pc' \in Late
  BY DEF Whole, Late
<1>3. UNCHANGED <<request, probe, open>>
  BY DEF locals
<1>4. segments' \in [Slots -> Files] /\ \A k \in Slots : segments'[k] \in {segments[k], NoFile}
  BY DEF Integrity, Typed
<1> QED BY <1>1, <1>2, <1>3, <1>4, LateKeeps

(* The promotion: a rename, the removal before it, or a refusal.           *)
LEMMA PromoteKeeps ==
  ASSUME Integrity, Promote
  PROVE  Integrity'
<1>1. CASE pc' = "rename" /\ dest' = NoFile /\ UNCHANGED <<partial, locals>>
  <2>1. pc = "promote" /\ UNCHANGED <<current, saved, segments, request, probe, open>>
    BY <1>1 DEF Promote, locals
  <2>2. Whole' /\ PublishedIsOneVersion' /\ pc \in Late /\ pc' \in Late
    BY <1>1, <2>1 DEF Integrity, Whole, PublishedIsOneVersion, Late
  <2>3. segments' \in [Slots -> Files] /\ \A k \in Slots : segments'[k] \in {segments[k], NoFile}
    BY <2>1 DEF Integrity, Typed
  <2> QED BY <1>1, <2>1, <2>2, <2>3, LateKeeps
<1>2. CASE pc' = "clean_state" /\ dest' = partial /\ partial' = NoFile /\ UNCHANGED locals
  <2>1. pc = "promote" /\ UNCHANGED <<current, saved, segments>>
    BY DEF Promote
  <2> QED BY <1>2, <2>1, RenameKeeps
<1>3. CASE Ends /\ UNCHANGED <<partial, dest>>
  <2>1. UNCHANGED <<current, saved, segments>>
    BY DEF Promote
  <2> QED BY <1>3, <2>1, EndKeeps
<1> QED BY <1>1, <1>2, <1>3 DEF Promote

-----------------------------------------------------------------------------
(* The bytes of the partial file.                                          *)

(* From a complete partial file on, only the file counts.                  *)
LEMMA WholeKeeps ==
  ASSUME Integrity, pc \in {"merge", "stream"}, pc' = "verify",
         UNCHANGED <<current, partial, saved, segments, dest, locals>>,
         NEW v \in Versions, partial = Content(v)
  PROVE  Integrity'
<1>1. UNCHANGED <<request, probe, open>>
  BY DEF locals
<1>2. Typed' /\ pc' \in PCs /\ AtRest' /\ ProbeIsPast'
  BY <1>1 DEF Integrity, Typed, AtRest, ProbeIsPast, Probed, PCs
<1>3. AtLoad' /\ Kept' /\ Pieces' /\ SavedIsProbed' /\ Streaming' /\ Merging' /\ Segmented'
  BY DEF AtLoad, Kept, Pieces, SavedIsProbed, Streaming, Merging, Segmented, Unopened
<1>4. Whole' /\ PublishedIsOneVersion'
  BY DEF Integrity, Whole, PublishedIsOneVersion
<1> QED BY <1>2, <1>3, <1>4 DEF Integrity

(* A byte of a segment is copied to its place, or the merge is complete.   *)
LEMMA MergeKeeps ==
  ASSUME Integrity, Merge
  PROVE  Integrity'
<1>1. /\ pc = "merge" /\ UNCHANGED <<current, saved, segments, dest>>
  BY DEF Merge
<1>2. probe \in Versions /\ Size[probe] \in Nat
  BY <1>1, SegmentFacts, Constants
<1>3. partial \in Seq(Bytes) /\ Matches(partial, probe, 0) /\ Len(partial) \in Nat
  BY <1>1, LenProperties DEF Integrity, Merging
<1>4. ASSUME NEW k \in Planned,
             First(k) <= Len(partial), Len(partial) < First(k) + Expects(k),
             partial' = Append(partial, segments[k][Len(partial) + 1 - First(k)]),
             UNCHANGED <<pc, locals>>
      PROVE  Integrity'
  <2>1. /\ k \in Slots /\ k < Len(RangesFor(probe, 0))
        /\ First(k) = RangesFor(probe, 0)[k + 1].first
        /\ First(k) \in Nat /\ Expects(k) \in Int /\ First(k) + Expects(k) <= Size[probe]
    BY <1>1, Expectations
  <2>2. segments[k] \in Files /\ Length(segments[k]) = Expects(k)
    BY <1>1, <2>1 DEF Integrity, Typed, Merging
  <2>3. Expects(k) > 0
    BY <1>3, <1>4, <2>1
  <2>4. segments[k] # NoFile /\ Len(segments[k]) = Expects(k)
    BY <2>2, <2>3, LengthOfFile
  <2>5. Matches(segments[k], probe, First(k))
    BY <1>1, <2>1, <2>4, SegmentFacts DEF OwnPieces
  <2> DEFINE i == Len(partial) + 1 - First(k)
  <2>6. i \in 1..Len(segments[k]) /\ First(k) + i = 0 + Len(partial) + 1
    BY <1>3, <1>4, <2>1, <2>4
  <2>7. segments[k][i] = Byte(probe, First(k) + i)
    BY <2>5, <2>6 DEF Matches
  <2>8. partial' = Append(partial, Byte(probe, 0 + Len(partial) + 1))
    BY <1>4, <2>6, <2>7
  <2>9. 0 + Len(partial) < Size[probe]
    BY <1>2, <1>3, <1>4, <2>1
  <2>10. partial' \in Seq(Bytes) /\ Matches(partial', probe, 0)
    BY <1>2, <1>3, <2>8, <2>9, AppendMatches
  <2>11. \A j \in Planned : Length(segments[j]) = Expects(j)
    BY <1>1 DEF Integrity, Merging
  <2> QED BY <1>1, <1>4, <2>10, <2>11, MergeStepKeeps
<1>5. CASE Len(partial) = Size[probe] /\ pc' = "verify" /\ UNCHANGED <<partial, locals>>
  <2>1. partial = Content(probe)
    BY <1>2, <1>3, <1>5, WholeMatch
  <2> QED BY <1>1, <1>2, <1>5, <2>1, WholeKeeps
<1>6. CASE Ends /\ UNCHANGED partial
  BY <1>1, <1>6, EndKeeps
<1> QED BY <1>4, <1>5, <1>6 DEF Merge

(* What the saved state is while a single stream is downloaded.            *)
LEMMA StreamFacts ==
  ASSUME Integrity, pc \in {"request", "stream"}
  PROVE  /\ probe \in Versions /\ UrlOf[probe] = request.url /\ request.url \in Urls
         /\ current[request.url] \in Versions /\ UrlOf[current[request.url]] = request.url
         /\ probe \in Nat /\ current[request.url] \in Nat /\ probe <= current[request.url]
         /\ saved = StateOf(UrlOf[probe], probe, saved.ranges) /\ ~(Len(saved.ranges) > 1)
         /\ partial \in Files
<1>1. /\ probe \in Versions /\ UrlOf[probe] = request.url /\ request.url \in Urls
      /\ current[request.url] \in Versions /\ UrlOf[current[request.url]] = request.url
      /\ probe <= current[request.url] /\ partial \in Files
  BY ProbeFacts DEF Probed, PCs
<1>2. saved = StateOf(UrlOf[probe], probe, saved.ranges) /\ ~(Len(saved.ranges) > 1)
  BY <1>1 DEF Integrity, SavedIsProbed
<1> QED BY <1>1, <1>2, Constants

(* A step of the single stream leaves the partial file with bytes of the   *)
(* streamed version, which no version that can still be served resumes     *)
(* unless it is the probed one.                                            *)
LEMMA StreamStepKeeps ==
  ASSUME Integrity, pc \in {"request", "stream"}, pc' = "stream",
         UNCHANGED <<current, saved, segments, dest, request, probe, open>>,
         Streaming', AtRest'
  PROVE  Integrity'
<1>1. partial' \in Seq(Bytes)
  BY DEF Streaming
<1>2. Typed' /\ pc' \in PCs
  BY <1>1 DEF Integrity, Typed, PCs, Files
<1>3. ProbeIsPast' /\ AtLoad' /\ Kept' /\ Pieces'
  BY DEF Integrity, ProbeIsPast, Probed, PCs, AtLoad, Kept, Pieces
<1>4. SavedIsProbed' /\ Merging' /\ Whole'
  BY DEF Integrity, SavedIsProbed, Merging, Whole
<1>5. Segmented' /\ PublishedIsOneVersion'
  BY DEF Integrity, Segmented, Unopened, PublishedIsOneVersion
<1> QED BY <1>2, <1>3, <1>4, <1>5 DEF Integrity

(* A new file, or the probed version's next bytes for a file that has its  *)
(* first ones.                                                             *)
LEMMA RequestKeeps ==
  ASSUME Forward, Integrity, Request
  PROVE  Integrity'
<1> DEFINE offset == Length(partial)
           v == current[request.url]
<1>1. pc = "request" /\ UNCHANGED <<current, saved, segments, dest>>
  BY DEF Request
<1>2. v \in Versions /\ UrlOf[v] = request.url /\ v \in Nat /\ Size[v] \in Nat
  BY <1>1, StreamFacts, Constants
<1>3. CASE /\ pc' = "stream" /\ body' = [version |-> v, end |-> Size[v]] /\ partial' = NewFile
           /\ UNCHANGED <<request, probe, open>>
  <2>1. partial' \in Seq(Bytes) /\ Len(partial') = 0 /\ \A w \in Versions : Matches(partial', w, 0)
    <3>1. \A w \in Versions :
            NewFile \in Seq(Bytes) /\ Len(NewFile) = 0 /\ Matches(NewFile, w, 0)
      <4> TAKE w \in Versions
      <4>1. 0 <= Size[w]
        BY Constants
      <4> QED BY <4>1, NewFileMatches
    <3> QED BY <1>2, <1>3, <3>1
  <2>2. SafeFor(current, partial', segments, saved)
    BY <1>1, <2>1, StreamFacts, ProbedFilesAreSafe
  <2>3. AtRest'
    BY <1>1, <2>2 DEF AtRest
  <2>4. Streaming'
    BY <1>1, <1>2, <1>3, <2>1, StreamFacts DEF Streaming
  <2> QED BY <1>1, <1>3, <2>3, <2>4, StreamStepKeeps
<1>4. ASSUME NEW end \in (offset + 1)..Size[v],
             offset > 0, RangeHolds(probe, v), Curt[v] \/ end = Size[v],
             body' = [version |-> v, end |-> end], pc' = "stream",
             UNCHANGED <<partial, request, probe, open>>
      PROVE  Integrity'
  <2>1. Matches(partial, probe, 0) /\ ResumeValidator(probe) # NoTag
    BY <1>1, <1>4 DEF Integrity, Kept
  <2>2. v = probe
    BY <1>1, <1>2, <1>4, <2>1, StreamFacts, SameAnswer
  <2>3. partial \in Seq(Bytes) /\ offset = Len(partial) /\ offset \in Nat
    BY <1>1, <1>4, StreamFacts, LengthOfFile
  <2>4. end \in Nat /\ Len(partial) <= end /\ end <= Size[v]
    BY <1>2, <1>4, <2>3
  <2>5. end = Size[v] \/ Told[probe]
    BY <1>2, <1>4, <2>2 DEF Forward
  <2>6. Streaming'
    BY <1>1, <1>2, <1>4, <2>1, <2>2, <2>3, <2>4, <2>5, StreamFacts DEF Streaming
  <2>7. AtRest'
    BY <1>1, <1>4 DEF Integrity, AtRest
  <2> QED BY <1>1, <1>4, <2>6, <2>7, StreamStepKeeps
<1>5. CASE Ends /\ UNCHANGED partial
  BY <1>1, <1>5, EndKeeps
<1> QED BY <1>3, <1>4, <1>5 DEF Request

(* The next byte of the streamed version.                                  *)
LEMMA ReceiveKeeps ==
  ASSUME Integrity, Receive
  PROVE  Integrity'
<1>1. pc = "stream" /\ Len(partial) < body.end /\ UNCHANGED <<current, saved, segments, dest>>
  BY DEF Receive
<1>2. CASE Ends /\ UNCHANGED partial
  BY <1>1, <1>2, EndKeeps
<1>3. CASE /\ partial' = Append(partial, Byte(body.version, Len(partial) + 1))
           /\ UNCHANGED <<pc, locals>>
  <2>1. pc' = "stream" /\ UNCHANGED <<request, probe, open, body>>
    BY <1>1, <1>3 DEF locals
  <2>2. /\ body.version \in Versions /\ UrlOf[body.version] = request.url
        /\ probe <= body.version /\ body.version <= current[request.url]
        /\ partial \in Seq(Bytes) /\ Matches(partial, body.version, 0)
        /\ body.end \in Nat /\ body.end <= Size[body.version]
        /\ body.end = Size[body.version] \/ (body.version = probe /\ Told[probe])
    BY <1>1 DEF Integrity, Streaming
  <2>3. body.version \in Nat /\ Size[body.version] \in Nat /\ Len(partial) \in Nat
    BY <2>2, LenProperties, Constants
  <2>4. 0 + Len(partial) < Size[body.version]
    BY <1>1, <2>2, <2>3
  <2>5. partial' = Append(partial, Byte(body.version, 0 + Len(partial) + 1))
    BY <1>3, <2>3
  <2>6. /\ partial' \in Seq(Bytes) /\ Len(partial') = Len(partial) + 1
        /\ Matches(partial', body.version, 0)
    BY <2>2, <2>3, <2>4, <2>5, AppendMatches
  <2>7. Len(partial') <= body.end
    BY <1>1, <2>2, <2>3, <2>6
  <2>8. Streaming'
    BY <1>1, <2>1, <2>2, <2>6, <2>7 DEF Streaming
  <2>9. current[UrlOf[probe]] <= probe => body.version = probe
    BY <1>1, <2>2, <2>3, StreamFacts
  <2>10. SafeFor(current, partial', segments, saved)
    BY <1>1, <2>6, <2>9, StreamFacts, ProbedFilesAreSafe
  <2>11. AtRest'
    BY <1>1, <2>10 DEF AtRest
  <2> QED BY <1>1, <2>1, <2>8, <2>11, StreamStepKeeps
<1> QED BY <1>2, <1>3 DEF Receive

(* A body that ended where it should is a whole version.                   *)
LEMMA EndOfBodyKeeps ==
  ASSUME Integrity, EndOfBody
  PROVE  Integrity'
<1>1. pc = "stream" /\ Len(partial) = body.end
      /\ UNCHANGED <<current, partial, saved, segments, dest>>
  BY DEF EndOfBody, files
<1>2. CASE Ends
  BY <1>1, <1>2, EndKeeps
<1>3. CASE ~(Told[probe] /\ Len(partial) # Size[probe]) /\ pc' = "verify" /\ UNCHANGED locals
  <2>1. /\ body.version \in Versions /\ partial \in Seq(Bytes) /\ Matches(partial, body.version, 0)
        /\ body.end = Size[body.version] \/ (body.version = probe /\ Told[probe])
    BY <1>1 DEF Integrity, Streaming
  <2>2. Len(partial) = Size[body.version]
    BY <1>1, <1>3, <2>1
  <2>3. partial = Content(body.version)
    BY <2>1, <2>2, WholeMatch
  <2> QED BY <1>1, <1>3, <2>1, <2>3, WholeKeeps
<1> QED BY <1>2, <1>3 DEF EndOfBody

-----------------------------------------------------------------------------
(***************************************************************************)
(* Every step keeps the invariant, as long as servers only move on.        *)
(***************************************************************************)
LEMMA Inductive ==
  ASSUME Forward, Integrity, [Next]_vars
  PROVE  Integrity'
<1>1. CASE \E r \in Requests : Start(r)
  BY <1>1, StartKeeps
<1>2. CASE \E u \in Urls : ServerChanges(u)
  BY <1>2, ServerChangesKeeps
<1>3. CASE Progress
  <2>1. CASE EnsureDestination \/ Probe \/ Load \/ DropPartial \/ Plan \/ DropSegments \/ Save
    BY <2>1, EnsureDestinationKeeps, ProbeKeeps, LoadKeeps, DropPartialKeeps, PlanKeeps,
       DropSegmentsKeeps, SaveKeeps
  <2>2. CASE Prepare \/ OpenMerge \/ Merge \/ \E k \in Slots : RequestSegment(k) \/ ReceiveSegment(k)
    BY <2>2, PrepareKeeps, OpenMergeKeeps, MergeKeeps, RequestSegmentKeeps, ReceiveSegmentKeeps
  <2>3. CASE Request \/ Receive \/ EndOfBody
    BY <2>3, RequestKeeps, ReceiveKeeps, EndOfBodyKeeps
  <2>4. CASE Verify \/ InvalidateState \/ InvalidateSegments \/ CleanState \/ CleanSegments
    BY <2>4, VerifyKeeps, DropStateKeeps, RemoveSegmentsKeeps
  <2>5. CASE InvalidatePartial
    BY <2>5, EndKeeps DEF InvalidatePartial
  <2>6. CASE Promote
    BY <2>6, PromoteKeeps
  <2>7. CASE Rename
    BY <2>7, RenameKeeps DEF Rename, Goto
  <2>8. CASE Complete
    BY <2>8, EndKeeps DEF Complete, files
  <2> QED BY <1>3, <2>1, <2>2, <2>3, <2>4, <2>5, <2>6, <2>7, <2>8 DEF Progress
<1>4. CASE Stop \/ FailTransiently \/ SomebodyCreates
  BY <1>4, StopKeeps, FailTransientlyKeeps, SomebodyCreatesKeeps
<1>5. CASE UNCHANGED vars
  BY <1>5, StutterKeeps
<1> QED BY <1>1, <1>2, <1>3, <1>4, <1>5 DEF Next

(* The invariant holds before the first command: there are no files.       *)
LEMMA Initially ==
  ASSUME Init
  PROVE  Integrity
<1>1. Typed /\ pc \in PCs
  BY DEF Init, Typed, Files, PCs
<1>2. AtRest
  BY DEF Init, AtRest, SafeFor, OwnBytes, OwnSegments, CanResumeSegments, ValidatorsMatch
<1>3. ProbeIsPast /\ AtLoad /\ Kept /\ Pieces /\ SavedIsProbed /\ Streaming /\ Merging /\ Whole
  BY DEF Init, ProbeIsPast, Probed, AtLoad, Kept, Pieces, SavedIsProbed, Streaming, Merging, Whole
<1>4. Segmented /\ PublishedIsOneVersion
  BY DEF Init, Segmented, PublishedIsOneVersion
<1> QED BY <1>1, <1>2, <1>3, <1>4 DEF Integrity

(* What is at rest is what the properties say of the versions that a probe *)
(* can still see.                                                          *)
LEMMA AtRestIsSafe ==
  ASSUME Forward, Integrity
  PROVE  ResumesOwnBytes /\ SegmentsResumeOwnBytes
<1>1. ASSUME NEW u \in Urls, NEW v \in Probable(u)
      PROVE  v \in Versions /\ UrlOf[v] = u /\ OwnBytes(v, partial, saved)
             /\ OwnSegments(v, segments, saved)
  <2>1. v \in Versions /\ UrlOf[v] = u /\ v >= current[u]
    BY <1>1 DEF Probable, Forward
  <2>2. v \in Nat /\ current[u] \in Nat
    BY <2>1, CurrentIsOrdered, Constants DEF Integrity
  <2> QED BY <2>1, <2>2 DEF Integrity, AtRest, SafeFor
<1>2. ResumesOwnBytes
  BY <1>1 DEF ResumesOwnBytes, CanResume, OwnBytes
<1>3. SegmentsResumeOwnBytes
  BY <1>1 DEF SegmentsResumeOwnBytes, OwnSegments, OwnPieces
<1> QED BY <1>2, <1>3

(***************************************************************************)
(* The recovery files are always safe to resume from, and what is          *)
(* published is one whole version: for any versions, sizes, validators,    *)
(* policies, and numbers of failures, if servers do not go back and one    *)
(* that tells no length answers an open range to its end.                  *)
(***************************************************************************)
THEOREM NoMixedVersions ==
  ASSUME Forward
  PROVE  Spec => []PublishedIsOneVersion
<1>1. Init => Integrity
  BY Initially
<1>2. Integrity /\ [Next]_vars => Integrity'
  BY Inductive
<1>3. Integrity => PublishedIsOneVersion
  BY DEF Integrity
<1> QED BY <1>1, <1>2, <1>3, PTL DEF Spec

(***************************************************************************)
(* A crash at any instant leaves a partial file that the next attempt can  *)
(* only continue with the version its bytes are of.                        *)
(***************************************************************************)
THEOREM SafeToResume ==
  ASSUME Forward
  PROVE  Spec => []ResumesOwnBytes
<1>1. Init => Integrity
  BY Initially
<1>2. Integrity /\ [Next]_vars => Integrity'
  BY Inductive
<1>3. Integrity => ResumesOwnBytes
  BY AtRestIsSafe
<1> QED BY <1>1, <1>2, <1>3, PTL DEF Spec

(***************************************************************************)
(* The same of segment files.                                              *)
(***************************************************************************)
THEOREM SafeToReuseSegments ==
  ASSUME Forward
  PROVE  Spec => []SegmentsResumeOwnBytes
<1>1. Init => Integrity
  BY Initially
<1>2. Integrity /\ [Next]_vars => Integrity'
  BY Inductive
<1>3. Integrity => SegmentsResumeOwnBytes
  BY AtRestIsSafe
<1> QED BY <1>1, <1>2, <1>3, PTL DEF Spec

-----------------------------------------------------------------------------
(* The destination, whatever servers do.                                   *)

(* What a command has made sure of before it touches the destination.      *)
Promising ==
  /\ pc \in {"promote", "rename"} /\ request.expected # NoTag =>
       partial = Content(request.expected)
  /\ pc = "rename" => request.overwrite

(* Only a verification and a promotion lead to the promotion and to the    *)
(* rename.                                                                 *)
LEMMA PromisingKept ==
  ASSUME Promising, [Next]_vars
  PROVE  Promising'
<1>1. CASE (\E r \in Requests : Start(r)) \/ Stop \/ FailTransiently
  <2>1. pc' \notin {"promote", "rename"}
    BY <1>1 DEF Start, Goto, Stop, FailTransiently, Ends
  <2> QED BY <2>1 DEF Promising
<1>2. CASE (\E u \in Urls : ServerChanges(u)) \/ SomebodyCreates \/ UNCHANGED vars
  <2>1. UNCHANGED <<pc, request, partial>>
    BY <1>2 DEF ServerChanges, SomebodyCreates, vars, files, locals
  <2> QED BY <2>1 DEF Promising
<1>3. CASE Progress
  <2>1. CASE Verify
    <3>1. pc' = "promote" => request.expected = NoTag \/ partial = Content(request.expected)
      BY <2>1 DEF Verify
    <3>2. pc' # "rename" /\ UNCHANGED <<request, partial>>
      BY <2>1 DEF Verify, files, locals
    <3> QED BY <3>1, <3>2 DEF Promising
  <2>2. CASE Promote
    <3>1. CASE pc' = "rename"
      BY <2>2, <3>1 DEF Promote, Ends, Promising, locals
    <3>2. CASE pc' # "rename"
      BY <2>2, <3>2 DEF Promote, Ends, Promising
    <3> QED BY <3>1, <3>2
  <2>3. CASE \/ EnsureDestination \/ Probe \/ Load \/ DropPartial \/ Plan \/ DropSegments \/ Save
             \/ Prepare \/ OpenMerge \/ Merge
    <3>1. pc' \notin {"promote", "rename"}
      BY <2>3 DEF EnsureDestination, Probe, Load, DropPartial, Plan, DropSegments, RemoveSegments,
                  Save, Prepare, OpenMerge, Merge, Goto, Ends
    <3> QED BY <3>1 DEF Promising
  <2>4. CASE (\E k \in Slots : RequestSegment(k) \/ ReceiveSegment(k)) \/ Request \/ Receive \/ EndOfBody
    <3>1. pc' \notin {"promote", "rename"}
      BY <2>4 DEF RequestSegment, ReceiveSegment, Request, Receive, EndOfBody, Ends
    <3> QED BY <3>1 DEF Promising
  <2>5. CASE \/ InvalidateState \/ InvalidateSegments \/ InvalidatePartial
             \/ Rename \/ CleanState \/ CleanSegments \/ Complete
    <3>1. pc' \notin {"promote", "rename"}
      BY <2>5 DEF InvalidateState, InvalidateSegments, InvalidatePartial, RemoveSegments,
                  Rename, CleanState, CleanSegments, Complete, Goto, Ends
    <3> QED BY <3>1 DEF Promising
  <2> QED BY <1>3, <2>1, <2>2, <2>3, <2>4, <2>5 DEF Progress
<1> QED BY <1>1, <1>2, <1>3 DEF Next

(* Nothing else touches it.                                                *)
LEMMA DestinationSteps ==
  ASSUME [Next]_vars
  PROVE  dest' = dest \/ (dest = NoFile /\ dest' = Foreign) \/ Promote \/ Rename
<1>1. CASE \/ \E r \in Requests : Start(r)
           \/ \E u \in Urls : ServerChanges(u)
           \/ Stop \/ FailTransiently \/ SomebodyCreates \/ UNCHANGED vars
  BY <1>1 DEF Start, ServerChanges, Stop, FailTransiently, SomebodyCreates, vars, files
<1>2. CASE Progress
  <2>1. CASE \/ EnsureDestination \/ Probe \/ Load \/ DropPartial \/ Plan \/ DropSegments \/ Save
             \/ Prepare \/ OpenMerge \/ Merge
    BY <2>1 DEF EnsureDestination, Probe, Load, DropPartial, Plan, DropSegments, Save, Prepare,
                OpenMerge, Merge, files
  <2>2. CASE (\E k \in Slots : RequestSegment(k) \/ ReceiveSegment(k)) \/ Request \/ Receive \/ EndOfBody
    BY <2>2 DEF RequestSegment, ReceiveSegment, Request, Receive, EndOfBody, files
  <2>3. CASE \/ Verify \/ InvalidateState \/ InvalidateSegments \/ InvalidatePartial
             \/ CleanState \/ CleanSegments \/ Complete
    BY <2>3 DEF Verify, InvalidateState, InvalidateSegments, InvalidatePartial, CleanState,
                CleanSegments, Complete, files
  <2> QED BY <1>2, <2>1, <2>2, <2>3 DEF Progress
<1> QED BY <1>1, <1>2 DEF Next

(***************************************************************************)
(* A destination that is there is only touched with permission to          *)
(* overwrite, whatever the servers, crashes and other programs do.         *)
(***************************************************************************)
THEOREM DestinationIsRespected == Spec => NeverClobbers
<1>1. Init => Promising
  BY DEF Init, Promising
<1>2. Promising /\ [Next]_vars => Promising'
  BY PromisingKept
<1>3. Promising /\ [Next]_vars => [dest \notin {NoFile, dest'} => request.overwrite]_dest
  <2> SUFFICES ASSUME Promising, Promote \/ Rename, dest # NoFile, dest # dest'
               PROVE  request.overwrite
    BY DestinationSteps
  <2>1. CASE Promote
    BY <2>1 DEF Promote
  <2>2. CASE Rename
    BY <2>2 DEF Rename, Goto, Promising
  <2> QED BY <2>1, <2>2
<1> QED BY <1>1, <1>2, <1>3, PTL DEF Spec, NeverClobbers

(***************************************************************************)
(* A command with an expected digest publishes the content with it, or     *)
(* nothing: even if servers go back to earlier versions and a resume mixed *)
(* them.                                                                   *)
(***************************************************************************)
THEOREM ExpectedIsPublished == Spec => PublishedIsExpected
<1>1. Init => Promising
  BY DEF Init, Promising
<1>2. Promising /\ [Next]_vars => Promising'
  BY PromisingKept
<1>3. Promising /\ [Next]_vars =>
        [dest' \notin {dest, NoFile, Foreign} /\ request.expected # NoTag
           => dest' = Content(request.expected)]_dest
  <2> SUFFICES ASSUME Promising, Promote \/ Rename,
                      dest' \notin {dest, NoFile, Foreign}, request.expected # NoTag
               PROVE  dest' = Content(request.expected)
    BY DestinationSteps
  <2>1. CASE Promote
    BY <2>1 DEF Promote, Promising
  <2>2. CASE Rename
    BY <2>2 DEF Rename, Goto, Promising
  <2> QED BY <2>1, <2>2
<1> QED BY <1>1, <1>2, <1>3, PTL DEF Spec, PublishedIsExpected

-----------------------------------------------------------------------------
(* The types of what Integrity does not speak of.                          *)

SavedStates == PartialState \cup {NoState}
LocalTypes ==
  /\ attempt \in 0..MaxAttempts /\ probe \in Versions \cup {0}
  /\ saved \in SavedStates /\ previous \in SavedStates
  /\ resumed \in BOOLEAN /\ body.version \in Versions \cup {0}

(* What a probe of a version makes the engine save is a PartialState.      *)
LEMMA StateIsTyped ==
  ASSUME NEW v \in Versions, NEW u \in Urls, NEW offset
  PROVE  StateOf(u, v, RangesFor(v, offset)) \in PartialState
<1>1. RangesFor(v, offset) \in {RangesFor(w, 0) : w \in Versions} \cup {<<>>}
  <2>1. offset = 0 \/ RangesFor(v, offset) = <<>>
    BY DEF RangesFor
  <2> QED BY <2>1
<1>2. Total(v) \in {Size[w] : w \in Versions} \cup {Unknown}
  BY DEF Total
<1> QED BY <1>1, <1>2 DEF StateOf, PartialState

(* An attempt that ends forgets its locals.                                *)
LEMMA ForgetTypes ==
  ASSUME Forget
  PROVE  /\ probe' = 0 /\ previous' = NoState /\ resumed' = FALSE /\ body'.version = 0
  BY DEF Forget, NoBody

LEMMA LocalTypesKept ==
  ASSUME Integrity, LocalTypes, [Next]_vars
  PROVE  LocalTypes'
<1>a. MaxAttempts \in Nat \ {0} /\ NoState \in SavedStates /\ FALSE \in BOOLEAN /\ TRUE \in BOOLEAN
  BY PolicyAssumption DEF SavedStates
<1>c. \A u \in Urls : current[u] \in Versions
  BY DEF Integrity, Typed
<1>u. request.url \in Urls
  BY RequestsAssumption DEF Integrity, Typed
<1>e. ASSUME Ends, saved' \in SavedStates PROVE LocalTypes'
  BY <1>a, <1>e, ForgetTypes DEF Ends, LocalTypes
<1>s. ASSUME UNCHANGED <<attempt, probe, previous, resumed, body>>, saved' \in SavedStates PROVE LocalTypes'
  BY <1>s DEF LocalTypes
<1>0. saved \in SavedStates
  BY DEF LocalTypes
<1>1. ASSUME NEW r \in Requests, Start(r) PROVE LocalTypes'
  BY <1>a, <1>1 DEF Start, LocalTypes, files
<1>2. CASE (\E u \in Urls : ServerChanges(u)) \/ SomebodyCreates \/ UNCHANGED vars
  <2>1. UNCHANGED <<saved, attempt, probe, previous, resumed, body>>
    BY <1>2 DEF ServerChanges, SomebodyCreates, vars, files, locals
  <2> QED BY <1>0, <1>s, <2>1
<1>3. CASE Stop
  BY <1>0, <1>3, <1>e DEF Stop, files
<1>4. CASE FailTransiently
  <2>1. CASE Ends
    BY <1>0, <1>4, <2>1, <1>e DEF FailTransiently, files
  <2>2. CASE attempt < MaxAttempts /\ attempt' = attempt + 1 /\ Forget
    <3>1. attempt' \in 0..MaxAttempts
      BY <1>a, <2>2 DEF LocalTypes
    <3> QED BY <1>a, <1>0, <1>4, <2>2, <3>1, ForgetTypes DEF FailTransiently, LocalTypes, files
  <2> QED BY <1>4, <2>1, <2>2 DEF FailTransiently
<1>5. CASE Progress
  <2>1. CASE EnsureDestination
    BY <1>0, <1>e, <1>s, <2>1 DEF EnsureDestination, files, locals
  <2>2. CASE Probe
    BY <1>c, <1>u, <2>2 DEF Probe, LocalTypes, files
  <2>3. CASE Load
    BY <2>3 DEF Load, LocalTypes, files
  <2>4. CASE DropPartial \/ DropSegments \/ Prepare \/ OpenMerge \/ InvalidateState \/ InvalidateSegments
             \/ CleanState \/ CleanSegments \/ Rename \/ Verify \/ \E k \in Slots : ReceiveSegment(k)
    <3>1. saved' \in SavedStates
      BY <1>0, <1>a, <2>4 DEF DropPartial, DropSegments, Prepare, OpenMerge, InvalidateState,
         InvalidateSegments, CleanState, CleanSegments, Rename, Verify, ReceiveSegment, files
    <3>2. UNCHANGED <<attempt, probe, previous, resumed, body>>
      BY <2>4 DEF DropPartial, DropSegments, Prepare, OpenMerge, InvalidateState,
         InvalidateSegments, CleanState, CleanSegments, Rename, Verify, ReceiveSegment, locals
    <3> QED BY <1>s, <3>1, <3>2
  <2>5. CASE Plan
    <3>1. resumed' \in BOOLEAN
      <4>1. resumed' = CanResumeSegments(request.url, probe, previous, Length(partial))
        BY <2>5 DEF Plan
      <4>2. CanResumeSegments(request.url, probe, previous, Length(partial)) \in BOOLEAN
        BY DEF CanResumeSegments
      <4> QED BY <4>1, <4>2
    <3> QED BY <2>5, <3>1 DEF Plan, LocalTypes, files
  <2>6. CASE Save
    <3>1. probe \in Versions
      BY <2>6, ProbeFacts DEF Save, Probed, PCs
    <3>2. saved' \in SavedStates
      BY <1>u, <2>6, <3>1, StateIsTyped DEF Save, SavedStates
    <3> QED BY <1>s, <2>6, <3>2 DEF Save, locals
  <2>7. ASSUME NEW k \in Slots, RequestSegment(k) PROVE LocalTypes'
    BY <1>0, <1>e, <1>s, <2>7 DEF RequestSegment
  <2>8. CASE Merge \/ Receive \/ EndOfBody \/ Promote
    BY <1>0, <1>e, <1>s, <2>8 DEF Merge, Receive, EndOfBody, Promote, locals, files
  <2>9. CASE Request
    <3>1. CASE Ends
      BY <1>0, <1>e, <2>9, <3>1 DEF Request
    <3>2. CASE resumed' \in BOOLEAN /\ body'.version = current[request.url]
               /\ UNCHANGED <<request, attempt, probe, previous, open>>
      BY <1>c, <1>u, <1>0, <2>9, <3>2 DEF Request, LocalTypes
    <3>3. Ends \/ (resumed' \in BOOLEAN /\ body'.version = current[request.url]
                   /\ UNCHANGED <<request, attempt, probe, previous, open>>)
      <4>1. Ends \/ resumed' \in {TRUE, FALSE}
        BY <2>9 DEF Request
      <4>2. Ends \/ UNCHANGED <<request, attempt, probe, previous, open>>
        BY <2>9 DEF Request
      <4>3. \/ Ends
            \/ body' = [version |-> current[request.url], end |-> Size[current[request.url]]]
            \/ \E end \in (Length(partial) + 1)..Size[current[request.url]] :
                 /\ Curt[current[request.url]] \/ end = Size[current[request.url]]
                 /\ body' = [version |-> current[request.url], end |-> end]
        BY <2>9, Zenon DEF Request
      <4>4. Ends \/ body'.version = current[request.url]
        BY <4>3
      <4>5. Ends \/ resumed' \in BOOLEAN
        BY <4>1
      <4> QED BY ONLY <4>2, <4>4, <4>5, Zenon
    <3> QED BY <3>1, <3>2, <3>3
  <2>10. CASE InvalidatePartial \/ Complete
    BY <1>0, <1>e, <2>10 DEF InvalidatePartial, Complete, files
  <2> QED BY <1>5, <2>1, <2>2, <2>3, <2>4, <2>5, <2>6, <2>7, <2>8, <2>9, <2>10 DEF Progress
<1> QED BY <1>1, <1>2, <1>3, <1>4, <1>5 DEF Next

(***************************************************************************)
(* The variables have their types: files hold bytes of versions, and no    *)
(* segment is longer than its range.                                       *)
(***************************************************************************)
THEOREM TypeCorrect ==
  ASSUME Forward
  PROVE  Spec => []TypeOK
<1>1. Init => Integrity /\ LocalTypes
  <2>1. Init => LocalTypes
    <3>1. Init => attempt = 0 /\ probe = 0 /\ saved = NoState /\ previous = NoState /\ resumed = FALSE
                  /\ body.version = 0
      BY DEF Init, NoBody
    <3>2. 0 \in 0..MaxAttempts
      BY PolicyAssumption
    <3> QED BY <3>1, <3>2 DEF LocalTypes, SavedStates
  <2> QED BY <2>1, Initially
<1>2. Integrity /\ LocalTypes /\ [Next]_vars => (Integrity /\ LocalTypes)'
  BY Inductive, LocalTypesKept
<1>3. Integrity /\ LocalTypes => TypeOK
  <2> SUFFICES ASSUME Integrity, LocalTypes PROVE TypeOK
    OBVIOUS
  <2>1. \A f \in {partial, dest} : f \notin {NoFile, Foreign} => \A i \in 1..Len(f) : f[i] \in Versions \X Nat
    <3>1. partial # NoFile => partial \in Seq(Bytes)
      BY DEF Integrity, Typed, Files
    <3>2. partial # NoFile => \A i \in 1..Len(partial) : partial[i] \in Versions \X Nat
      BY <3>1 DEF Bytes
    <3>3. ASSUME NEW v \in Versions PROVE \A i \in 1..Len(Content(v)) : Content(v)[i] \in Versions \X Nat
      <4>1. Content(v) \in [1..Size[v] -> Versions \X Nat] /\ Size[v] \in Nat
        BY Constants DEF Content, Byte
      <4>2. Content(v) \in Seq(Versions \X Nat)
        BY <4>1, SeqDef
      <4> QED BY <4>2
    <3>4. dest \notin {NoFile, Foreign} => \A i \in 1..Len(dest) : dest[i] \in Versions \X Nat
      BY <3>3 DEF Integrity, PublishedIsOneVersion
    <3> QED BY <3>2, <3>4
  <2>2. pc = "segments" => \A k \in Planned : segments[k] # NoFile => Len(segments[k]) <= Expects(k)
    BY DEF Integrity, Segmented
  <2> QED BY <2>1, <2>2 DEF TypeOK, Integrity, Typed, LocalTypes, SavedStates
<1> QED BY <1>1, <1>2, <1>3, PTL DEF Spec
=============================================================================
