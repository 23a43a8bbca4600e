------------------------------ MODULE BrowserInbox ------------------------------
(***************************************************************************)
(* The inbox directory through which browsers hand downloads to the        *)
(* desktop: the writer of a request (write_inbox_request, called by the    *)
(* native host and by the loopback server), the native host's launch of    *)
(* the desktop, and the desktop's listing, quarantine and acknowledgement. *)
(*                                                                         *)
(* A request has one file, whose name changes: <id>.tmp, <id>.json and a   *)
(* random name in rejected-inbox.  A power loss may undo every change of   *)
(* the directory that no flush of it has followed, and tears a file that   *)
(* was not flushed.  The directory is flushed on Unix only.                *)
(***************************************************************************)
EXTENDS Naturals, FiniteSets

CONSTANTS
  Requests,     \* the browser's requests; each gets a fresh id
  MaxScanned,   \* MAX_INBOX_ENTRIES_SCANNED
  MaxResults    \* MAX_INBOX_RESULTS

ASSUME LimitsAssumption ==
  /\ IsFiniteSet(Requests)
  /\ MaxScanned \in Nat \ {0}
  /\ MaxResults \in Nat \ {0}

VARIABLES
  entry,         \* request -> the name its file has now
  kept,          \* request -> the names a power loss may leave it with
  synced,        \* requests whose bytes have been flushed
  torn,          \* requests whose bytes were lost in part
  writer,        \* request -> the step at which its handling is
  told,          \* request -> what the browser has been answered
  listing,       \* the call of list_browser_requests in progress
  listed,        \* the requests the front end received last
  acknowledged   \* requests removed by acknowledge_browser_request

directory == <<entry, kept, synced, torn>>
inboxVars == <<directory, writer, told, listing, listed, acknowledged>>

Names == {"none", "tmp", "json", "rejected"}
Steps == {"idle", "checks", "permit", "create", "sync", "rename", "flush", "launch", "done"}
Idle == [pc |-> "idle", names |-> {}, scanned |-> 0, found |-> {}]

InboxTypeOK ==
  /\ entry \in [Requests -> Names]
  /\ kept \in [Requests -> SUBSET Names]
  /\ synced \subseteq Requests
  /\ torn \subseteq Requests
  /\ writer \in [Requests -> Steps]
  /\ told \in [Requests -> {"waiting", "ok", "error", "lost"}]
  /\ listing \in [pc: {"idle", "scan", "ready"},
                  names: SUBSET (Requests \X {"tmp", "json"}),
                  scanned: 0 .. MaxScanned, found: SUBSET Requests]
  /\ Cardinality(listing.found) <= MaxResults
  /\ listed \subseteq Requests
  /\ acknowledged \subseteq Requests

InboxInit ==
  /\ entry = [r \in Requests |-> "none"]
  /\ kept = [r \in Requests |-> {"none"}]
  /\ synced = {}
  /\ torn = {}
  /\ writer = [r \in Requests |-> "idle"]
  /\ told = [r \in Requests |-> "waiting"]
  /\ listing = Idle
  /\ listed = {}
  /\ acknowledged = {}

-----------------------------------------------------------------------------
(* The writer.                                                             *)

\* The file of r gets another name; only a flush of the directory makes it sure.
Move(r, name) ==
  /\ entry' = [entry EXCEPT ![r] = name]
  /\ kept' = [kept EXCEPT ![r] = @ \cup {name}]
  /\ UNCHANGED <<synced, torn>>

Goes(r, from, to) == writer[r] = from /\ writer' = [writer EXCEPT ![r] = to]

\* The first answer stands: who has gone away hears nothing.
Tell(r, answer) == told' = [told EXCEPT ![r] = IF @ = "waiting" THEN answer ELSE @]

\* The handling of r ends with an answer.
Ends(r, from, answer) == Goes(r, from, "done") /\ Tell(r, answer)

\* process_message accepts a message and gives it an id.
Receive(r) ==
  /\ Goes(r, "idle", "create")
  /\ UNCHANGED <<directory, told, listing, listed, acknowledged>>

\* A message of the wrong form, version, action, token or scheme.
Refuse(r) ==
  /\ Ends(r, "idle", "error")
  /\ UNCHANGED <<directory, listing, listed, acknowledged>>

Create(r) ==
  /\ Goes(r, "create", "sync")
  /\ Move(r, "tmp")
  /\ UNCHANGED <<told, listing, listed, acknowledged>>

SyncFile(r) ==
  /\ Goes(r, "sync", "rename")
  /\ synced' = synced \cup {r}
  /\ UNCHANGED <<entry, kept, torn, told, listing, listed, acknowledged>>

\* Fails when a listing has taken the temporary file away.
Rename(r) ==
  /\ IF entry[r] = "tmp" THEN /\ Goes(r, "rename", "flush")
                              /\ Move(r, "json")
                              /\ UNCHANGED told
                         ELSE /\ Ends(r, "rename", "error")
                              /\ UNCHANGED directory
  /\ UNCHANGED <<listing, listed, acknowledged>>

\* The directory is flushed with all that happened in it.
Flushed == kept' = [r \in Requests |-> {entry[r]}]

\* Slip: the directory is not flushed before the answer.
Flush_Skipped(r, next, unix) ==
  /\ IF next = "done" THEN Ends(r, "flush", "ok") ELSE Goes(r, "flush", next) /\ UNCHANGED told
  /\ UNCHANGED <<directory, listing, listed, acknowledged>>

\* write_inbox_request flushes the directory where it was built for Unix, and is
\* done: the loopback server answers, the native host goes on to launch the desktop.
Flush(r, next, unix) ==
  /\ IF next = "done" THEN Ends(r, "flush", "ok") ELSE Goes(r, "flush", next) /\ UNCHANGED told
  /\ IF unix THEN Flushed ELSE UNCHANGED kept
  /\ UNCHANGED <<entry, synced, torn, listing, listed, acknowledged>>

\* Any step of the writer may fail; what it has left behind stays.
WriteFails(r) ==
  /\ \E step \in {"create", "sync", "rename", "flush"}: Ends(r, step, "error")
  /\ UNCHANGED <<directory, listing, listed, acknowledged>>

\* The desktop has been started, or the browser is not Firefox.
Launched(r) ==
  /\ Ends(r, "launch", "ok")
  /\ UNCHANGED <<directory, listing, listed, acknowledged>>

\* The desktop cannot be started: the request is taken back, if it is still there.
LaunchFails(r) ==
  /\ Ends(r, "launch", "error")
  /\ IF entry[r] = "json" THEN Move(r, "none") ELSE UNCHANGED directory
  /\ UNCHANGED <<listing, listed, acknowledged>>

\* The native host's process is killed.
HostDies(r) ==
  /\ \E step \in {"create", "sync", "rename", "flush", "launch"}: Ends(r, step, "lost")
  /\ UNCHANGED <<directory, listing, listed, acknowledged>>

-----------------------------------------------------------------------------
(* The desktop.                                                            *)

\* read_dir: the names there are now.
StartListing ==
  /\ listing.pc = "idle"
  /\ listing' = [Idle EXCEPT !.pc = "scan",
                   !.names = {n \in Requests \X {"tmp", "json"}: entry[n[1]] = n[2]}]
  /\ UNCHANGED <<directory, writer, told, listed, acknowledged>>

\* An entry that is not a whole request is moved to rejected-inbox; if it has
\* gone meanwhile, the rename fails and with it the listing.
Quarantine(r, name) ==
  IF entry[r] = name
    THEN /\ Move(r, "rejected")
         /\ listing' = [listing EXCEPT !.names = @ \ {<<r, name>>}, !.scanned = @ + 1]
    ELSE /\ listing' = Idle
         /\ UNCHANGED directory

\* The loop goes on to another entry.
Room == listing.scanned < MaxScanned /\ Cardinality(listing.found) < MaxResults

\* Slip: the extension is not looked at.
Acceptable_AnyName(r, name) == entry[r] = name /\ r \notin torn

\* The entry has the extension json, can be read and is a whole request.
Acceptable(r, name) == name = "json" /\ entry[r] = "json" /\ r \notin torn

InspectEntry(n) ==
  LET r == n[1] IN
  /\ listing.pc = "scan" /\ n \in listing.names /\ Room
  /\ IF Acceptable(r, n[2])
       THEN /\ listing' = [listing EXCEPT !.names = @ \ {n}, !.scanned = @ + 1,
                                          !.found = @ \cup {r}]
            /\ UNCHANGED directory
       ELSE Quarantine(r, n[2])
  /\ UNCHANGED <<writer, told, listed, acknowledged>>

EndListing ==
  /\ listing.pc = "scan"
  /\ listing.names = {} \/ ~Room
  /\ listing' = [listing EXCEPT !.pc = "ready"]
  /\ UNCHANGED <<directory, writer, told, listed, acknowledged>>

\* The answer reaches the front end, which replaces its browserRequests.
ReceiveListing ==
  /\ listing.pc = "ready"
  /\ listed' = listing.found
  /\ listing' = Idle
  /\ UNCHANGED <<directory, writer, told, acknowledged>>

\* Slip: the file stays.
Remove_Keeps(r) == acknowledged' = acknowledged \cup {r} /\ UNCHANGED directory

\* acknowledge_browser_request: nothing to do when the file has gone.
Remove(r) ==
  /\ IF entry[r] = "json" THEN Move(r, "none") ELSE UNCHANGED directory
  /\ acknowledged' = acknowledged \cup {r}

\* The files after a power loss.
DirectoryAfterPowerLoss ==
  /\ entry' \in {f \in [Requests -> Names]: \A r \in Requests: f[r] \in kept[r]}
  /\ kept' = [r \in Requests |-> {entry'[r]}]
  /\ torn' = torn \cup {r \in Requests: entry'[r] # "none" /\ r \notin synced}
  /\ UNCHANGED synced

-----------------------------------------------------------------------------
(* What the browser relies on.                                             *)

\* Every request that a listing reports is a whole one, whose handling came as
\* far as the rename.
ListedIsWhole ==
  \A r \in listing.found \cup listed:
    r \notin torn /\ writer[r] \in {"flush", "launch", "done"}
=============================================================================
