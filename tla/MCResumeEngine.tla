--------------------------- MODULE MCResumeEngine ---------------------------
(* Small instances of ResumeEngine.                                        *)
EXTENDS ResumeEngine

Ask(u, o, e) == [url |-> u, overwrite |-> o, expected |-> e]

\* Single streams: two URLs with files of the same length and, at first, the
\* same ETag; then a version without a length, and one without ranges.
MCUrls == {"u", "w"}
MCRequests == {Ask("u", FALSE, NoTag), Ask("w", FALSE, NoTag), Ask("u", TRUE, 1)}
MCUrlOf == [v \in Versions |-> IF v = 4 THEN "w" ELSE "u"]
MCSize == [v \in Versions |-> IF v = 3 THEN 2 ELSE 3]
MCTold == [v \in Versions |-> v # 2]
MCRanged == [v \in Versions |-> v # 3]
MCCurt == [v \in Versions |-> v = 1]
MCEtag == [v \in Versions |-> CASE v \in {1, 4} -> "e1" [] v = 2 -> "e2" [] OTHER -> NoTag]
MCModified == [v \in Versions |-> IF v = 3 THEN "m3" ELSE NoTag]

\* One URL with versions that are downloaded in segments: two of the same
\* length, told apart by their strong ETags, whose third range would be empty,
\* and a shorter one in three segments with a Last-Modified only.
OneUrl == {"u"}
OneRequest == {Ask("u", FALSE, NoTag)}
OneUrlOf == [v \in Versions |-> "u"]
SegmentSize == [v \in Versions |-> IF v = 3 THEN 3 ELSE 4]
ShortSize == [v \in Versions |-> 3]
Always == [v \in Versions |-> TRUE]
Never == [v \in Versions |-> FALSE]
SegmentEtag == [v \in Versions |-> CASE v = 1 -> "e1" [] v = 2 -> "e2" [] OTHER -> NoTag]
=============================================================================
