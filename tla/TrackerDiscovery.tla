---------------------------- MODULE TrackerDiscovery ----------------------------
(***************************************************************************)
(* How a torrent download finds its first peers (torrent.rs and            *)
(* torrent_tracker_udp.rs): the trackers of the magnet are resolved and    *)
(* asked one after the other, over HTTP or over UDP with retransmissions,  *)
(* until one of them names usable peers.                                   *)
(*                                                                         *)
(* Time passes in units of five seconds within one exchange.  A datagram   *)
(* may be lost, late, repeated or out of order: whatever a tracker may     *)
(* send to the socket arrives at any time, or never.                       *)
(***************************************************************************)
EXTENDS RunnerGate

CONSTANTS
  Magnets,       \* tracker lists: sequences of "http", "udp" and "other"
  MaxTrackers,
  Addresses,
  Public,        \* the addresses that are neither local nor reserved
  MaxPeers,
  MaxTries       \* addresses of a UDP tracker that are tried

ASSUME DiscoveryAssumption ==
  /\ Magnets \subseteq Seq({"http", "udp", "other"})
  /\ Public \subseteq Addresses /\ IsFiniteSet(Addresses)
  /\ {MaxTrackers, MaxPeers, MaxTries} \subseteq Nat

VARIABLES
  trackers,    \* the trackers that are still to be resolved
  approved,    \* those that are still to be asked, with their addresses
  exchange,    \* what goes on with the first of these
  peers,
  contacted    \* history: addresses a packet or a request was sent to

discovery == <<trackers, approved, exchange, peers, contacted>>

Exchanges ==
  [stage: {"none", "http", "connect", "announce"}, left: SUBSET Addresses, tries: Nat,
   attempt: 0..2, since: Nat, spent: Nat]

DiscoveryTypeOK ==
  exchange \in Exchanges /\ peers \subseteq Addresses /\ contacted \subseteq Addresses

NoExchange == [stage |-> "none", left |-> {}, tries |-> 0, attempt |-> 0, since |-> 0, spent |-> 0]

DiscoveryInit ==
  /\ trackers = << >> /\ approved = << >> /\ exchange = NoExchange
  /\ peers = {} /\ contacted = {}

Stopped == Torrent \in stop

-----------------------------------------------------------------------------
(* The trackers of the magnet, and their addresses.                        *)

\* validate_magnet_trackers: too many are an error, unsupported ones are skipped.
Supported(magnet) == SelectSeq(magnet, LAMBDA scheme: scheme \in {"http", "udp"})
Valid(magnet) == Len(magnet) <= MaxTrackers /\ Supported(magnet) # << >>

\* The magnet is read, or the command fails.
TorrentPrepares ==
  /\ \E magnet \in Magnets:
       IF Valid(magnet)
         THEN /\ Step(Torrent, "prepare", "resolve")
              /\ trackers' = Supported(magnet)
         ELSE Step(Torrent, "prepare", "return") /\ UNCHANGED trackers
  /\ UNCHANGED <<approved, exchange, peers, contacted>>

\* is_public_ip of every address.
AllPublic(answer) == answer \subseteq Public

\* Slip: one public address is enough.
Approve_SomePublic(answer) == answer \cap Public # {}

\* An answer with one address that is not public is no answer.
Approve(answer) == answer # {} /\ AllPublic(answer)

Resolve ==
  /\ trackers # << >>
  /\ pc[Torrent] = "resolve"
  /\ \E answer \in SUBSET Addresses:
       approved' = IF Approve(answer) THEN Append(approved, [scheme |-> Head(trackers), to |-> answer])
                                      ELSE approved
  /\ trackers' = Tail(trackers)
  /\ UNCHANGED <<gate, exchange, peers, contacted>>

\* The peers go to the session; the rest is not needed any more.
Forget == trackers' = << >> /\ approved' = << >> /\ exchange' = NoExchange /\ peers' = {} /\ contacted' = {}

ResolveStops ==
  /\ trackers # << >> /\ Stopped
  /\ Step(Torrent, "resolve", "return")
  /\ Forget

Resolved ==
  /\ trackers = << >>
  /\ Step(Torrent, "resolve", "ask")
  /\ UNCHANGED discovery

-----------------------------------------------------------------------------
(* fetch_tracker_peers                                                     *)

Asking == pc[Torrent] = "ask"
Idle == exchange = NoExchange

\* The tracker has been asked; with or without an answer.
Asked(found) ==
  /\ approved' = Tail(approved) /\ exchange' = NoExchange
  /\ peers' = found
  /\ UNCHANGED <<gate, trackers, contacted>>

\* A stopped discovery still goes through its trackers: what is ready first,
\* the first packet or the cancellation, is chance.
SkipTracker == Asking /\ Idle /\ approved # << >> /\ peers = {} /\ Stopped /\ Asked({})

Begin(stage, addresses, left, tries) ==
  /\ exchange' = [stage |-> stage, left |-> left, tries |-> tries, attempt |-> 1, since |-> 0, spent |-> 0]
  /\ contacted' = contacted \cup addresses
  /\ UNCHANGED <<gate, trackers, approved, peers>>

\* Slip: the trackers after the first answer are asked as well.
Unanswered_Never == TRUE

Unanswered == peers = {}

AskTracker ==
  LET tracker == Head(approved) IN
  /\ Asking /\ Idle /\ approved # << >> /\ Unanswered
  /\ IF tracker.scheme = "http" THEN Begin("http", tracker.to, {}, 1)
     ELSE \E a \in tracker.to: Begin("connect", {a}, tracker.to \ {a}, 1)

\* The first tracker with peers ends the search.
AskedAll ==
  /\ Asking /\ Idle
  /\ IF peers # {} THEN Step(Torrent, "ask", "folder")
     ELSE approved = << >> /\ Step(Torrent, "ask", "return")
  /\ Forget

StopExchange == Asking /\ ~Idle /\ Stopped /\ Asked({})

\* fetch_http_tracker: an answer that names an address that is not public, or
\* too many addresses, is refused as a whole.
HttpAnswer ==
  /\ Asking /\ exchange.stage = "http"
  /\ \E named \in SUBSET Addresses:
       Asked(IF AllPublic(named) /\ Cardinality(named) <= MaxPeers THEN named ELSE {})

-----------------------------------------------------------------------------
(* announce, exchange and request                                          *)

Udp == Asking /\ exchange.stage \in {"connect", "announce"}

\* What is left of the tracker's addresses is tried next, four in all.
NextAddress ==
  IF exchange.left = {} \/ exchange.tries = MaxTries THEN Asked({})
  ELSE \E a \in exchange.left: Begin("connect", {a}, exchange.left \ {a}, exchange.tries + 1)

\* parse_peers: what is not public is left out, and what is too many.
Parsed(named) == {found \in SUBSET (named \cap Public):
  IF Cardinality(named \cap Public) <= MaxPeers THEN found = named \cap Public
  ELSE Cardinality(found) = MaxPeers}

\* An answer to an earlier packet changes nothing; one that refuses or is cut
\* short, and an error of the socket, end the exchange.
Receive ==
  /\ Udp
  /\ \/ NextAddress
     \/ /\ exchange.stage = "connect"
        /\ exchange' = [exchange EXCEPT !.stage = "announce", !.attempt = 1, !.since = 0]
        /\ UNCHANGED <<gate, trackers, approved, peers, contacted>>
     \/ /\ exchange.stage = "announce"
        /\ \E named \in SUBSET Addresses: \E found \in Parsed(named):
             IF found = {} THEN NextAddress ELSE Asked(found)

Wait == IF exchange.attempt = 1 THEN 3 ELSE 6
Due == IF exchange.stage = "http" THEN exchange.spent = 4
       ELSE exchange.since = Wait \/ exchange.spent = 7

Tick ==
  /\ Asking /\ ~Idle /\ ~Due
  /\ exchange' = [exchange EXCEPT !.since = @ + 1, !.spent = @ + 1]
  /\ UNCHANGED <<gate, trackers, approved, peers, contacted>>

Retransmit ==
  /\ Udp /\ exchange.attempt = 1 /\ exchange.since = Wait /\ exchange.spent # 7
  /\ exchange' = [exchange EXCEPT !.attempt = 2, !.since = 0]
  /\ UNCHANGED <<gate, trackers, approved, peers, contacted>>

\* The exchange has taken 35 seconds, before a second wait could end, or the
\* request over HTTP 20.
TimeOut ==
  /\ Asking /\ ~Idle
  /\ IF exchange.stage = "http" THEN exchange.spent = 4 /\ Asked({})
                                ELSE exchange.spent = 7 /\ NextAddress

DiscoveryNext ==
  \/ TorrentPrepares \/ Resolve \/ ResolveStops \/ Resolved
  \/ SkipTracker \/ AskTracker \/ AskedAll \/ StopExchange \/ HttpAnswer
  \/ Receive \/ Tick \/ Retransmit \/ TimeOut

-----------------------------------------------------------------------------
\* Only public addresses are contacted or become peers, whatever the name
\* service and the trackers answer, and never more peers than allowed.
OnlyPublicAddresses ==
  contacted \subseteq Public /\ peers \subseteq Public /\ Cardinality(peers) <= MaxPeers

\* Once a tracker has named peers no further tracker learns of the torrent.
FirstAnswerEnds == [][peers # {} => contacted' \subseteq contacted]_discovery
=============================================================================
