----------------------------- MODULE TorrentRunner -----------------------------
(***************************************************************************)
(* start_torrent_download and control_torrent_download (torrent.rs): after *)
(* the discovery of peers the command opens a session of the BitTorrent    *)
(* library under a policy file, adds the torrent, and watches it until it  *)
(* ends; the front end pauses, resumes and cancels it through the map of   *)
(* active torrents.                                                        *)
(***************************************************************************)
EXTENDS TrackerDiscovery

NoCommand == [action |-> "none", run |-> 0]

VARIABLES
  entry,     \* TorrentRegistry.active
  raised,    \* the flag of the run is set
  session,   \* of the run: none, open (without a torrent), live, paused or deleted
  command,   \* a control_torrent_download that has left the lock
  kept       \* the command holds the session of a run that is over

torrent == <<entry, raised, session, command, kept>>

TorrentTypeOK ==
  /\ entry \in BOOLEAN /\ raised \in BOOLEAN
  /\ session \in {"none", "open", "live", "paused", "deleted"} /\ kept \in BOOLEAN
  /\ command \in {NoCommand} \cup [action: {"pause", "resume", "cancel"}, run: 0..MaxStarts]

\* The command acts on the run that goes on, with its session.
Current == command # NoCommand /\ command.run = starts[Torrent] /\ entry

TorrentInit ==
  entry = FALSE /\ raised = FALSE /\ session = "none" /\ command = NoCommand /\ kept = FALSE

\* The last checkpoint, then the folder and the policy file; or an error.
MakeFolder ==
  /\ \/ ~Stopped /\ Step(Torrent, "folder", "open")
     \/ Step(Torrent, "folder", "return")
  /\ UNCHANGED <<discovery, torrent>>

OpenSession ==
  /\ \/ Step(Torrent, "open", "add") /\ session' = "open"
     \/ Step(Torrent, "open", "return") /\ UNCHANGED session
  /\ UNCHANGED <<discovery, entry, raised, command, kept>>

\* An error and a cancellation leave the session to its end.
AddTorrent ==
  /\ \/ Step(Torrent, "add", "added") /\ session' = "live"
     \/ Step(Torrent, "add", "return") /\ session' = "none"
  /\ UNCHANGED <<discovery, entry, raised, command, kept>>

\* The checkpoint after the torrent was added, and its entry in the map; an
\* entry that is there already stays.
InsertEntry ==
  /\ Step(Torrent, "added", IF Stopped \/ entry THEN "return" ELSE "watch")
  /\ IF Stopped \/ entry THEN session' = "none" /\ UNCHANGED <<entry, raised>>
                         ELSE entry' = TRUE /\ raised' = FALSE /\ UNCHANGED session
  /\ UNCHANGED <<discovery, command, kept>>

\* The watch looks at the flag twice a second, and waits for the control.
WatchHeeds ==
  /\ raised \/ Stopped
  /\ Step(Torrent, "watch", "delete")
  /\ UNCHANGED <<discovery, torrent>>

\* The torrent is complete or in error, or nobody listens any more.
WatchEnds ==
  /\ Step(Torrent, "watch", "delete")
  /\ UNCHANGED <<discovery, torrent>>

\* An error of the deletion is ignored.
DeleteTorrent ==
  /\ Step(Torrent, "delete", "remove")
  /\ session' \in {session, "deleted"}
  /\ UNCHANGED <<discovery, entry, raised, command, kept>>

\* The session closes, unless a command still holds it.
RemoveEntry ==
  /\ Step(Torrent, "remove", "return")
  /\ entry' = FALSE /\ raised' = FALSE /\ session' = "none"
  /\ kept' = (kept \/ Current)
  /\ UNCHANGED <<discovery, command>>

-----------------------------------------------------------------------------
(* control_torrent_download, the second of the front end's calls; it takes *)
(* the session and the flag of the run it finds, and acts on those.        *)

FindEntry(action) ==
  /\ entry /\ command = NoCommand
  /\ command' = [action |-> action, run |-> starts[Torrent]]
  /\ UNCHANGED <<gate, discovery, entry, raised, session, kept>>

ActOn ==
  /\ command # NoCommand
  /\ command' = NoCommand
  /\ session' = IF ~Current \/ session = "deleted" THEN session
               ELSE [pause |-> "paused", resume |-> "live", cancel |-> "deleted"][command.action]
  /\ raised' = IF Current /\ command.action = "cancel" THEN TRUE ELSE raised
  /\ kept' = FALSE
  /\ UNCHANGED <<gate, discovery, entry>>

TorrentCommand ==
  \/ MakeFolder \/ OpenSession \/ AddTorrent \/ InsertEntry
  \/ WatchHeeds \/ WatchEnds \/ DeleteTorrent \/ RemoveEntry

TorrentNext ==
  \/ TorrentCommand
  \/ \E action \in {"pause", "resume", "cancel"}: FindEntry(action)
  \/ ActOn
=============================================================================
