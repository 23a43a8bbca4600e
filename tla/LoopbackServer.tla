----------------------------- MODULE LoopbackServer -----------------------------
(***************************************************************************)
(* The two transports that fill the browser inbox.  A packaged desktop     *)
(* serves HTTP on the loopback interface: message() takes the only permit, *)
(* counts the inbox and writes the request on a blocking thread that holds *)
(* the permit even when the browser has hung up.  Otherwise the browser    *)
(* runs the native host, a process of its own, for each connection.        *)
(***************************************************************************)
EXTENDS BrowserInbox

CONSTANTS
  QueueLimit,   \* QUEUE_LIMIT
  MaxLosses,    \* bound: power losses and crashes of the desktop
  Handshake,    \* the permit is held by a session() call
  NoRequest     \* nobody holds the permit

ASSUME QueueLimitAssumption ==
  /\ QueueLimit \in Nat \ {0}
  /\ MaxLosses \in Nat
  /\ Handshake # NoRequest /\ {Handshake, NoRequest} \cap Requests = {}

VARIABLES
  packaged,   \* is_packaged(), on Windows only
  unix,       \* cfg(unix)
  permit,     \* who holds the semaphore's permit
  bearer,     \* the browser has the token of a session that has not expired
  losses,     \* power losses and crashes so far
  undone      \* history: accepted requests whose rename a power loss has undone

world == <<packaged, unix, losses, undone>>
serverVars == <<permit, bearer, world>>
vars == <<inboxVars, serverVars>>

TypeOK ==
  /\ InboxTypeOK
  /\ packaged \in BOOLEAN /\ unix \in BOOLEAN
  /\ permit \in Requests \cup {Handshake, NoRequest}
  /\ bearer \in BOOLEAN
  /\ losses \in 0 .. MaxLosses
  /\ undone \subseteq Requests

Init ==
  /\ InboxInit
  /\ packaged \in BOOLEAN /\ unix \in BOOLEAN /\ ~(packaged /\ unix)
  /\ permit = NoRequest
  /\ bearer = FALSE
  /\ losses = 0
  /\ undone = {}

Pending == {r \in Requests: entry[r] \in {"tmp", "json"}}

-----------------------------------------------------------------------------
(* session(): it takes the same permit as a request.                       *)

StartSession ==
  /\ packaged /\ permit = NoRequest
  /\ permit' = Handshake
  /\ UNCHANGED <<inboxVars, bearer, world>>

\* The browser gets the token, a new one after an hour; or it sends a body that
\* is refused, late or never read.
EndSession ==
  /\ permit = Handshake
  /\ permit' = NoRequest
  /\ bearer' \in {bearer, TRUE}
  /\ UNCHANGED <<inboxVars, world>>

\* The hour of the session is over.
Expire ==
  /\ bearer
  /\ bearer' = FALSE
  /\ UNCHANGED <<inboxVars, permit, world>>

-----------------------------------------------------------------------------
(* message()                                                               *)

\* Headers, session token and rate are checked and the wait for the permit begins.
Arrive(r) ==
  /\ packaged /\ bearer
  /\ Goes(r, "idle", "permit")
  /\ UNCHANGED <<directory, told, listing, listed, acknowledged, serverVars>>

TakePermit(r) ==
  /\ permit = NoRequest
  /\ permit' = r
  /\ Goes(r, "permit", "checks")
  /\ UNCHANGED <<directory, told, listing, listed, acknowledged, bearer, world>>

\* Headers, token, rate, the two seconds for the permit, the configuration, the
\* three seconds for the body: a request is turned away and gives back the permit.
TurnAway(r) ==
  /\ packaged
  /\ \E step \in {"idle", "permit", "checks"}: Ends(r, step, "error")
  /\ permit' = IF permit = r THEN NoRequest ELSE permit
  /\ UNCHANGED <<directory, listing, listed, acknowledged, bearer, world>>

\* The blocking task counts the inbox and writes, or refuses.
CountInbox(r) ==
  /\ IF Cardinality(Pending) >= QueueLimit
       THEN Ends(r, "checks", "error") /\ permit' = NoRequest
       ELSE Goes(r, "checks", "create") /\ UNCHANGED <<told, permit>>
  /\ UNCHANGED <<directory, listing, listed, acknowledged, bearer, world>>

\* The permit comes back when the blocking task ends.
GiveBack(r) == permit' = IF writer'[r] = "done" /\ permit = r THEN NoRequest ELSE permit

\* Slip: the permit belongs to the handler, which is dropped with the connection.
Disconnect_DropsPermit(r) ==
  /\ packaged
  /\ writer[r] \notin {"idle", "done"}
  /\ Tell(r, "lost")
  /\ permit' = IF permit = r THEN NoRequest ELSE permit
  /\ writer' = [writer EXCEPT ![r] = IF @ \in {"permit", "checks"} THEN "done" ELSE @]
  /\ UNCHANGED <<directory, listing, listed, acknowledged, bearer, world>>

\* The browser hangs up.  The handler is dropped; a blocking task that has
\* started runs on and keeps the permit.
Disconnect(r) ==
  /\ packaged
  /\ writer[r] \notin {"idle", "done"}
  /\ Tell(r, "lost")
  /\ writer' = [writer EXCEPT ![r] = IF @ \in {"permit", "checks"} THEN "done" ELSE @]
  /\ GiveBack(r)
  /\ UNCHANGED <<directory, listing, listed, acknowledged, bearer, world>>

Writes(r) ==
  /\ \/ Create(r)
     \/ SyncFile(r)
     \/ Rename(r)
     \/ Flush(r, IF packaged THEN "done" ELSE "launch", unix)
     \/ WriteFails(r)
  /\ GiveBack(r)
  /\ UNCHANGED <<bearer, world>>

NativeHost(r) ==
  /\ ~packaged
  /\ \/ Receive(r)
     \/ Refuse(r)
     \/ Launched(r)
     \/ LaunchFails(r)
     \/ HostDies(r)
  /\ UNCHANGED serverVars

-----------------------------------------------------------------------------
\* The front end has saved and registered a listed request, or knows it already.
Acknowledge ==
  /\ \E r \in listed: Remove(r)
  /\ UNCHANGED <<writer, told, listing, listed>>

Desktop ==
  /\ \/ StartListing
     \/ \E n \in listing.names: InspectEntry(n)
     \/ EndListing
     \/ ReceiveListing
     \/ Acknowledge
  /\ UNCHANGED serverVars

\* Handlers that a crash of the machine, or of the packaged desktop, cuts off.
CutOff(all) ==
  LET lost(r) == all /\ writer[r] \notin {"idle", "done"}
  IN  /\ writer' = [r \in Requests |-> IF lost(r) THEN "done" ELSE writer[r]]
      /\ told' = [r \in Requests |-> IF lost(r) /\ told[r] = "waiting" THEN "lost" ELSE told[r]]
      /\ permit' = NoRequest
      /\ bearer' = FALSE
      /\ listing' = Idle
      /\ listed' = {}

DesktopCrashes ==
  /\ losses < MaxLosses
  /\ losses' = losses + 1
  /\ CutOff(packaged)
  /\ UNCHANGED <<directory, acknowledged, packaged, unix, undone>>

PowerLoss ==
  /\ losses < MaxLosses
  /\ losses' = losses + 1
  /\ CutOff(TRUE)
  /\ DirectoryAfterPowerLoss
  /\ undone' = undone \cup {r \in Requests: told[r] = "ok" /\ r \notin acknowledged /\ entry'[r] # "json"}
  /\ UNCHANGED <<acknowledged, packaged, unix>>

Next ==
  \/ \E r \in Requests: Arrive(r) \/ TakePermit(r) \/ TurnAway(r) \/ CountInbox(r)
                          \/ Disconnect(r) \/ Writes(r) \/ NativeHost(r)
  \/ StartSession \/ EndSession \/ Expire
  \/ Desktop
  \/ DesktopCrashes
  \/ PowerLoss

\* The front end polls for ever, every three seconds, and its calls end.
Fairness ==
  /\ WF_vars(StartListing /\ UNCHANGED serverVars)
  /\ WF_vars(\E n \in listing.names: InspectEntry(n) /\ UNCHANGED serverVars)
  /\ WF_vars(EndListing /\ UNCHANGED serverVars)
  /\ WF_vars(ReceiveListing /\ UNCHANGED serverVars)
  /\ WF_vars(Acknowledge /\ UNCHANGED serverVars)

Spec == Init /\ [][Next]_vars /\ Fairness

-----------------------------------------------------------------------------
\* However many browsers write together, hang up or fail, the packaged server
\* never adds a file to an inbox that has reached its limit.
NeverBeyondLimit ==
  [][packaged /\ losses' = losses /\ ~(Pending' \subseteq Pending)
       => Cardinality(Pending') <= QueueLimit]_vars

\* A request that was answered with ok, after which the browser gives up its own
\* copy, is whole under its final name until the desktop acknowledges it.  On
\* Unix no power loss can take it away; on Windows one can, nothing else.
AcceptedIsDurable ==
  \A r \in Requests:
    told[r] = "ok" /\ r \notin acknowledged =>
      /\ r \notin torn
      /\ entry[r] = "json" \/ r \in undone
      /\ unix => kept[r] = {"json"} /\ r \notin undone

\* Every request that the browser has given up reaches the front end, although a
\* listing may fail over files that come and go while it runs, unless a power
\* loss on Windows has undone it.
AcceptedIsListed ==
  \A r \in Requests: told[r] = "ok" ~> r \in listed \cup acknowledged \cup undone
=============================================================================
