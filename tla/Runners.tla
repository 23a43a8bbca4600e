-------------------------------- MODULE Runners --------------------------------
(***************************************************************************)
(* The media runner and the torrent runner in one sequential queue.        *)
(***************************************************************************)
EXTENDS MediaRunner, TorrentRunner

vars == <<gate, media, discovery, torrent>>

Init == GateInit /\ MediaInit /\ DiscoveryInit /\ TorrentInit

Coordinator ==
  /\ \E t \in Tasks: Register(t) \/ CancelControl(t) \/ Claim(t) \/ GetTurn(t) \/ Return(t)
  /\ UNCHANGED <<media, discovery, torrent>>

Next ==
  \/ Coordinator
  \/ MediaNext /\ UNCHANGED <<discovery, torrent>>
  \/ DiscoveryNext /\ UNCHANGED <<media, torrent>>
  \/ TorrentNext /\ UNCHANGED media

\* A command that can go on does, timers fire, and a process whose output
\* nobody reads any more ends by itself: a helper that has lost its parent.
\* Nothing is assumed of a bridge, a tracker, a torrent or the front end.
Fairness ==
  /\ \A t \in Tasks: WF_vars(Return(t) /\ UNCHANGED <<media, discovery, torrent>>)
  /\ \A t \in Tasks: WF_vars(t \in stop /\ GetTurn(t) /\ UNCHANGED <<media, discovery, torrent>>)
  /\ WF_vars((MediaPrepares \/ InsertActive \/ Spawn \/ ReadFlag \/ Drain \/ RemoveActive)
             /\ UNCHANGED <<discovery, torrent>>)
  /\ WF_vars(HelperEnds /\ child = "dead" /\ UNCHANGED <<discovery, torrent>>)
  /\ WF_vars((TorrentPrepares \/ Resolve \/ Resolved \/ AskTracker \/ AskedAll \/ Tick
              \/ Retransmit \/ TimeOut) /\ UNCHANGED <<media, torrent>>)
  /\ WF_vars((MakeFolder \/ InsertEntry \/ WatchHeeds \/ DeleteTorrent \/ RemoveEntry)
             /\ UNCHANGED media)
  /\ WF_vars(Stopped /\ (OpenSession \/ AddTorrent) /\ UNCHANGED media)

Spec == Init /\ [][Next]_vars /\ Fairness

-----------------------------------------------------------------------------
StepsOf(t) ==
  IF t = Media THEN {"idle", "turn", "prepare", "insert", "spawn", "read", "drain", "remove", "return"}
  ELSE {"idle", "turn", "prepare", "resolve", "ask", "folder", "open", "add", "added", "watch",
        "delete", "remove", "return"}

GateTypeOK ==
  /\ pc \in [Tasks -> UNION {StepsOf(t): t \in Tasks}]
  /\ \A t \in Tasks: pc[t] \in StepsOf(t)
  /\ ticket \in [Tasks -> {"none", "registered", "started"}]
  /\ stop \subseteq Tasks
  /\ turn \in Tasks \cup {Nobody}
  /\ starts \in [Tasks -> 0..MaxStarts]

TypeOK == GateTypeOK /\ MediaTypeOK /\ DiscoveryTypeOK /\ TorrentTypeOK

\* In the sequential queue, whoever has no turn has no bridge it reads from, no
\* exchange with a tracker, no session and no place among the active transfers.
\* What may outlive its turn: a bridge that was killed because its start broke, a
\* helper that does not hold the diagnostics, and a session for as long as a
\* control command that found it before has not ended.
MediaWorks == child = "running" \/ helper = "holds" \/ active
TorrentWorks == session # "none" \/ exchange # NoExchange \/ entry
OneWorks ==
  /\ MediaWorks => turn = Media
  /\ TorrentWorks => turn = Torrent
  /\ kept => command # NoCommand /\ ~Current

\* A cancelled torrent ends, wherever the cancellation finds it; a cancelled
\* media download does once the flag is set, or when it still waits for its turn.
Heard(t) ==
  IF t = Torrent THEN Torrent \in stop /\ ticket[Torrent] = "started"
  ELSE flag \/ (Media \in stop /\ pc[Media] = "turn")

CancelledRunsEnd == \A t \in Tasks: Heard(t) ~> pc[t] = "idle"
=============================================================================
