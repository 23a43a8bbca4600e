------------------------------ MODULE RunnersProofs ------------------------------
(***************************************************************************)
(* What holds of the media and the torrent runner for any magnets, name    *)
(* services, trackers and limits: one of them works at a time, only public *)
(* addresses are contacted, and the first answer ends the search.          *)
(***************************************************************************)
EXTENDS Runners, FiniteSetTheorems, TLAPS

(* Whoever is past the gate has the turn.                                  *)
PastGateHasTurn == \A t \in Tasks : pc[t] \notin {"idle", "turn", "return"} => turn = t

(* Where the media command is while its things are there.                  *)
MediaPlaces ==
  /\ active => pc[Media] \in {"spawn", "read", "drain", "remove"}
  /\ child = "running" => pc[Media] = "read"
  /\ helper = "holds" => pc[Media] \in {"read", "drain"}

(* Where the torrent command is while its things are there.                *)
TorrentPlaces ==
  /\ exchange # NoExchange => pc[Torrent] = "ask"
  /\ session # "none" => pc[Torrent] \in {"add", "added", "watch", "delete", "remove"}
  /\ entry => pc[Torrent] \in {"watch", "delete", "remove"}

(* A control command is about the last run of the torrent or an older one; *)
(* of the last it is as long as the entry is there, and until the next     *)
(* registration.                                                           *)
CommandRuns ==
  command # NoCommand =>
    /\ command.run <= starts[Torrent]
    /\ \/ command.run # starts[Torrent]
       \/ entry
       \/ pc[Torrent] = "return"
       \/ pc[Torrent] = "idle" /\ ticket[Torrent] = "none"
KeptByCommand == kept => command # NoCommand /\ ~Current

(* A sequence, of whatever its elements are.                               *)
IsList(s) == s \in Seq({s[i] : i \in 1 .. Len(s)})

(* The approved trackers, and the addresses still to be tried, are public. *)
PublicApproved ==
  /\ IsList(approved)
  /\ \A i \in 1 .. Len(approved) : approved[i].to \subseteq Public
PublicLeft == exchange.left \subseteq Public

(* The exchange is over when there is an answer.                           *)
AnswerEndsExchange == peers # {} => exchange = NoExchange

(* An exchange is about the first of the approved trackers.                *)
ExchangeHasTracker == exchange # NoExchange => approved # << >>

Places == PastGateHasTurn /\ MediaPlaces /\ TorrentPlaces
Discovered ==
  OnlyPublicAddresses /\ PublicApproved /\ PublicLeft /\ AnswerEndsExchange /\ ExchangeHasTracker
Commanded == CommandRuns /\ KeptByCommand
IInv == TypeOK /\ Places /\ Commanded /\ Discovered

-----------------------------------------------------------------------------
(* A sequence is one of its own elements.                                  *)
LEMMA SeqOfItsElements ==
  ASSUME NEW A, NEW r \in Seq(A)
  PROVE  IsList(r)
<1> DEFINE B == {r[i] : i \in 1 .. Len(r)}
<1>1. \A i \in 1 .. Len(r) : r[i] \in B
  OBVIOUS
<1> HIDE DEF B
<1>2. Len(r) \in Nat /\ r = [i \in 1 .. Len(r) |-> r[i]]
  OBVIOUS
<1>3. r \in Seq(B)
  BY <1>1, <1>2
<1> QED
  BY <1>3 DEF B, IsList

(* Appending to a list of approved trackers, and dropping the first.       *)
LEMMA AppendApproved ==
  ASSUME NEW s, IsList(s), NEW e
  PROVE  /\ IsList(Append(s, e)) /\ Append(s, e) # << >>
         /\ \A i \in 1 .. Len(Append(s, e)) :
              Append(s, e)[i] = e \/ \E j \in 1 .. Len(s) : Append(s, e)[i] = s[j]
<1> DEFINE r == Append(s, e)
<1> DEFINE A == {s[i] : i \in 1 .. Len(s)} \cup {e}
<1>1. s \in Seq(A) /\ e \in A
  BY DEF IsList
<1> HIDE DEF A
<1>2. /\ r \in Seq(A) /\ Len(r) = Len(s) + 1 /\ Len(s) \in Nat
      /\ \A i \in 1 .. Len(s) + 1 : r[i] = IF i <= Len(s) THEN s[i] ELSE e
  BY <1>1
<1>3. \A i \in 1 .. Len(r) : r[i] = e \/ \E j \in 1 .. Len(s) : r[i] = s[j]
  BY <1>2
<1>4. IsList(r)
  <2>1. r \in Seq(A)
    BY <1>2
  <2> QED
    BY ONLY <2>1, SeqOfItsElements
<1>5. r # << >>
  BY <1>2
<1> QED
  BY <1>3, <1>4, <1>5

LEMMA TailApproved ==
  ASSUME NEW s, IsList(s), s # << >>
  PROVE  /\ IsList(Tail(s))
         /\ \A i \in 1 .. Len(Tail(s)) : \E j \in 1 .. Len(s) : Tail(s)[i] = s[j]
<1> DEFINE r == Tail(s)
<1> DEFINE A == {s[i] : i \in 1 .. Len(s)}
<1> HIDE DEF A
<1>1. s \in Seq(A)
  BY DEF A, IsList
<1>2. /\ r \in Seq(A) /\ Len(r) = Len(s) - 1 /\ Len(s) \in Nat \ {0}
      /\ \A i \in 1 .. Len(s) - 1 : r[i] = s[i + 1]
  BY <1>1
<1>3. \A i \in 1 .. Len(r) : \E j \in 1 .. Len(s) : r[i] = s[j]
  BY <1>2
<1>4. IsList(r)
  <2>1. r \in Seq(A)
    BY <1>2
  <2> QED
    BY ONLY <2>1, SeqOfItsElements
<1> QED
  BY <1>3, <1>4

-----------------------------------------------------------------------------
(* The places of the commands.                                             *)

LEMMA InitPlaces == Init => Places
  BY TasksAssumption DEF Init, GateInit, MediaInit, DiscoveryInit, TorrentInit, NoExchange,
     Places, PastGateHasTurn, MediaPlaces, TorrentPlaces, Tasks

(* The gate's steps concern neither the media's nor the torrent's things.  *)
LEMMA CoordinatorPlaces == TypeOK /\ Places /\ Coordinator => Places'
<1> SUFFICES ASSUME TypeOK, Places, Coordinator PROVE Places'
  OBVIOUS
<1> USE TasksAssumption DEF Tasks, TypeOK, GateTypeOK, Places, PastGateHasTurn, MediaPlaces, TorrentPlaces, Goes
<1>0. UNCHANGED <<active, flag, child, helper, exchange, session, entry>>
  BY DEF Coordinator, media, discovery, torrent
<1>1. CASE \E t \in Tasks : Register(t) \/ CancelControl(t)
  BY <1>0, <1>1 DEF Register, CancelControl
<1>2. ASSUME NEW t \in Tasks, Claim(t) PROVE Places'
  BY <1>0, <1>2 DEF Claim
<1>3. ASSUME NEW t \in Tasks, GetTurn(t) PROVE Places'
  BY <1>0, <1>3 DEF GetTurn
<1>4. ASSUME NEW t \in Tasks, Return(t) PROVE Places'
  BY <1>0, <1>4 DEF Return
<1> QED
  BY <1>1, <1>2, <1>3, <1>4 DEF Coordinator

(* The media's things are only there between the insertion of the entry    *)
(* and its removal, and the processes until the diagnostics have ended.    *)
LEMMA MediaPlacesStep ==
  TypeOK /\ Places /\ MediaNext /\ UNCHANGED <<discovery, torrent>> => Places'
<1> SUFFICES ASSUME TypeOK, Places, MediaNext, UNCHANGED <<discovery, torrent>> PROVE Places'
  OBVIOUS
<1> USE TasksAssumption DEF Tasks, TypeOK, GateTypeOK, Places, PastGateHasTurn, MediaPlaces, TorrentPlaces,
        Goes, Step, media, gate
<1>0. UNCHANGED <<exchange, session, entry>>
  BY DEF discovery, torrent
<1>1. CASE MediaPrepares
  BY <1>0, <1>1 DEF MediaPrepares
<1>2. CASE InsertActive
  BY <1>0, <1>2 DEF InsertActive
<1>3. CASE SpawnFails
  BY <1>0, <1>3 DEF SpawnFails
<1>4. CASE Spawn
  BY <1>0, <1>4 DEF Spawn
<1>5. CASE ReadFlag
  BY <1>0, <1>5 DEF ReadFlag, Kill
<1>6. CASE ReadLine
  BY <1>0, <1>6 DEF ReadLine, Kill
<1>7. CASE ReadEnd
  BY <1>0, <1>7 DEF ReadEnd
<1>8. CASE Drain
  BY <1>0, <1>8 DEF Drain
<1>9. CASE RemoveActive
  BY <1>0, <1>9 DEF RemoveActive
<1>10. CASE ChildWrites \/ ChildEnds \/ HelperEnds \/ DiagnosticsFull \/ CancelMedia
  BY <1>0, <1>10 DEF ChildWrites, ChildEnds, HelperEnds, DiagnosticsFull, CancelMedia
<1>11. CASE ChildStartsHelper
  BY <1>0, <1>11 DEF ChildStartsHelper
<1>12. CASE SpawnBreaks
  BY <1>0, <1>12 DEF SpawnBreaks
<1> QED
  BY <1>1, <1>2, <1>3, <1>4, <1>5, <1>6, <1>7, <1>8, <1>9, <1>10, <1>11, <1>12 DEF MediaNext, MediaCommand

(* An exchange is only there while the trackers are asked.                 *)
LEMMA DiscoveryPlaces ==
  TypeOK /\ Places /\ DiscoveryNext /\ UNCHANGED <<media, torrent>> => Places'
<1> SUFFICES ASSUME TypeOK, Places, DiscoveryNext, UNCHANGED <<media, torrent>> PROVE Places'
  OBVIOUS
<1> USE TasksAssumption DEF Tasks, TypeOK, GateTypeOK, Places, PastGateHasTurn, MediaPlaces, TorrentPlaces,
        Goes, Step, gate
<1>0. UNCHANGED <<active, flag, child, helper, session, entry>>
  BY DEF media, torrent
<1>1. CASE TorrentPrepares
  BY <1>0, <1>1 DEF TorrentPrepares
<1>2. CASE Resolve
  BY <1>0, <1>2 DEF Resolve
<1>3. CASE ResolveStops
  BY <1>0, <1>3 DEF ResolveStops, Forget
<1>4. CASE Resolved
  BY <1>0, <1>4 DEF Resolved, discovery
<1>5. CASE SkipTracker \/ StopExchange \/ HttpAnswer
  BY <1>0, <1>5 DEF SkipTracker, StopExchange, HttpAnswer, Asked, Asking
<1>6. CASE AskTracker
  BY <1>0, <1>6 DEF AskTracker, Begin, Asking
<1>7. CASE AskedAll
  BY <1>0, <1>7 DEF AskedAll, Forget
<1>8. CASE Receive
  BY <1>0, <1>8 DEF Receive, Udp, Asking, NextAddress, Asked, Begin
<1>9. CASE Tick \/ Retransmit
  BY <1>0, <1>9 DEF Tick, Retransmit, Udp, Asking
<1>10. CASE TimeOut
  BY <1>0, <1>10 DEF TimeOut, Asking, NextAddress, Asked, Begin
<1> QED
  BY <1>1, <1>2, <1>3, <1>4, <1>5, <1>6, <1>7, <1>8, <1>9, <1>10 DEF DiscoveryNext

(* The session is only there from its opening to the removal of the entry, *)
(* although a control may act on it at any time between.                   *)
LEMMA TorrentPlacesStep == TypeOK /\ Places /\ TorrentNext /\ UNCHANGED media => Places'
<1> SUFFICES ASSUME TypeOK, Places, TorrentNext, UNCHANGED media PROVE Places'
  OBVIOUS
<1> USE TasksAssumption DEF Tasks, TypeOK, GateTypeOK, Places, PastGateHasTurn, MediaPlaces, TorrentPlaces,
        Goes, Step, gate, media, discovery, torrent
<1>1. CASE MakeFolder
  BY <1>1 DEF MakeFolder
<1>2. CASE OpenSession
  BY <1>2 DEF OpenSession
<1>3. CASE AddTorrent
  BY <1>3 DEF AddTorrent
<1>4. CASE InsertEntry
  BY <1>4 DEF InsertEntry
<1>5. CASE WatchHeeds \/ WatchEnds
  BY <1>5 DEF WatchHeeds, WatchEnds
<1>6. CASE DeleteTorrent
  BY <1>6 DEF DeleteTorrent
<1>7. CASE RemoveEntry
  BY <1>7 DEF RemoveEntry
<1>8. ASSUME NEW action, FindEntry(action) PROVE Places'
  BY <1>8 DEF FindEntry
<1>9. CASE ActOn
  <2>1. CASE ~Current
    BY <1>9, <2>1 DEF ActOn
  <2>2. CASE Current
    BY <1>9, <2>2 DEF ActOn, Current
  <2> QED
    BY <2>1, <2>2
<1> QED
  BY <1>1, <1>2, <1>3, <1>4, <1>5, <1>6, <1>7, <1>8, <1>9 DEF TorrentNext, TorrentCommand

LEMMA PlacesStep == TypeOK /\ Places /\ [Next]_vars => Places'
<1>1. Places /\ UNCHANGED vars => Places'
  BY DEF vars, gate, media, discovery, torrent, Places, PastGateHasTurn, MediaPlaces, TorrentPlaces
<1> QED
  BY <1>1, CoordinatorPlaces, MediaPlacesStep, DiscoveryPlaces, TorrentPlacesStep DEF Next

-----------------------------------------------------------------------------
(* The control command and the session it may hold.                        *)

LEMMA InitCommanded == Init => Commanded
  BY DEF Init, TorrentInit, Commanded, CommandRuns, KeptByCommand

(* The run of a command stays the last one until the next registration.    *)
LEMMA CoordinatorCommanded == TypeOK /\ Commanded /\ Coordinator => Commanded'
<1> SUFFICES ASSUME TypeOK, Commanded, Coordinator PROVE Commanded'
  OBVIOUS
<1> USE TasksAssumption DEF Tasks, TypeOK, GateTypeOK, Commanded, CommandRuns, KeptByCommand, Current, Goes
<1>0. UNCHANGED <<entry, command, kept>>
  BY DEF Coordinator, torrent
<1>1. ASSUME NEW t \in Tasks, Register(t) PROVE Commanded'
  <2>1. command # NoCommand => command.run \in Nat
    BY DEF TorrentTypeOK, NoCommand
  <2>2. starts' = [starts EXCEPT ![t] = @ + 1] /\ UNCHANGED pc /\ ticket' = [ticket EXCEPT ![t] = "registered"]
    BY <1>1 DEF Register
  <2>3. CASE t = Media
    BY <1>0, <2>2, <2>3
  <2>4. CASE t = Torrent
    <3>1. starts'[Torrent] = starts[Torrent] + 1 /\ starts[Torrent] \in Nat
      BY <2>2, <2>4
    <3>2. command # NoCommand => command.run <= starts'[Torrent] /\ command.run # starts'[Torrent]
      BY <2>1, <3>1
    <3> QED
      BY <1>0, <3>2
  <2> QED
    BY <2>3, <2>4
<1>2. ASSUME NEW t \in Tasks, CancelControl(t) PROVE Commanded'
  BY <1>0, <1>2 DEF CancelControl
<1>3. ASSUME NEW t \in Tasks, Claim(t) PROVE Commanded'
  BY <1>0, <1>3 DEF Claim
<1>4. ASSUME NEW t \in Tasks, GetTurn(t) PROVE Commanded'
  BY <1>0, <1>4 DEF GetTurn
<1>5. ASSUME NEW t \in Tasks, Return(t) PROVE Commanded'
  BY <1>0, <1>5 DEF Return
<1> QED
  BY <1>1, <1>2, <1>3, <1>4, <1>5 DEF Coordinator

(* A command of the media or of the discovery goes on by itself.           *)
LEMMA OthersCommanded ==
  ASSUME TypeOK, Places, Commanded, UNCHANGED torrent,
         NEW t \in Tasks, NEW from, from \notin {"idle", "return"}, NEW to,
         Step(t, from, to) \/ UNCHANGED gate
  PROVE  Commanded'
<1>1. UNCHANGED <<entry, command, kept, starts, ticket>>
  BY DEF torrent, Step, gate
<1>2. pc[Torrent] \in {"idle", "return"} => pc'[Torrent] = pc[Torrent]
  BY DEF Step, Goes, gate, TypeOK, GateTypeOK, Tasks
<1> QED
  BY <1>1, <1>2 DEF Commanded, CommandRuns, KeptByCommand, Current

LEMMA TorrentCommanded == TypeOK /\ Places /\ Commanded /\ TorrentNext => Commanded'
<1> SUFFICES ASSUME TypeOK, Places, Commanded, TorrentNext PROVE Commanded'
  OBVIOUS
<1> USE TasksAssumption DEF Commanded, CommandRuns, KeptByCommand, Current
<1>1. ASSUME NEW from, from \notin {"idle", "return"}, NEW to, Step(Torrent, from, to), UNCHANGED <<entry, command, kept>>
      PROVE  Commanded'
  BY <1>1 DEF Step, Goes
<1>2. CASE MakeFolder \/ OpenSession \/ AddTorrent \/ WatchHeeds \/ WatchEnds \/ DeleteTorrent
  <2>1. PICK from, to : from \notin {"idle", "return"} /\ Step(Torrent, from, to)
    BY <1>2 DEF MakeFolder, OpenSession, AddTorrent, WatchHeeds, WatchEnds, DeleteTorrent
  <2>2. UNCHANGED <<entry, command, kept>>
    BY <1>2 DEF MakeFolder, OpenSession, AddTorrent, WatchHeeds, WatchEnds, DeleteTorrent, torrent
  <2> QED
    BY <1>1, <2>1, <2>2
<1>3. CASE InsertEntry
  <2>1. UNCHANGED <<command, kept, starts>> /\ pc[Torrent] = "added" /\ ~entry
    BY <1>3 DEF InsertEntry, Step, Goes, Places, TorrentPlaces
  <2>2. command # NoCommand => command.run # starts[Torrent]
    BY <2>1
  <2> QED
    BY <2>1, <2>2
<1>4. CASE RemoveEntry
  <2>1. /\ UNCHANGED <<command, starts, ticket>>
        /\ entry' = FALSE /\ pc'[Torrent] = "return" /\ kept' = (kept \/ Current)
    BY <1>4 DEF RemoveEntry, Step, Goes, TypeOK, GateTypeOK, Tasks
  <2> QED
    BY <2>1
<1>5. ASSUME NEW action, FindEntry(action) PROVE Commanded'
  <2>1. /\ entry /\ command = NoCommand /\ command' = [action |-> action, run |-> starts[Torrent]]
        /\ UNCHANGED <<pc, ticket, starts, entry, kept>>
    BY <1>5 DEF FindEntry, gate
  <2>2. command'.run = starts[Torrent] /\ starts[Torrent] \in Nat
    BY <2>1 DEF TypeOK, GateTypeOK, Tasks
  <2> QED
    BY <2>1, <2>2
<1>6. CASE ActOn
  BY <1>6 DEF ActOn
<1> QED
  BY <1>2, <1>3, <1>4, <1>5, <1>6 DEF TorrentNext, TorrentCommand

LEMMA CommandedStep == TypeOK /\ Places /\ Commanded /\ [Next]_vars => Commanded'
<1> SUFFICES ASSUME TypeOK, Places, Commanded, [Next]_vars PROVE Commanded'
  OBVIOUS
<1>1. CASE UNCHANGED vars
  BY <1>1 DEF vars, gate, torrent, Commanded, CommandRuns, KeptByCommand, Current
<1>2. CASE MediaNext /\ UNCHANGED <<discovery, torrent>>
  <2>1. ASSUME NEW from \in {"prepare", "insert", "spawn", "read", "drain", "remove"}, NEW to, Step(Media, from, to)
        PROVE  Commanded'
    BY <1>2, <2>1, OthersCommanded DEF Tasks
  <2>2. ASSUME UNCHANGED gate PROVE Commanded'
    BY <1>2, <2>2 DEF gate, torrent, Commanded, CommandRuns, KeptByCommand, Current
  <2>3. CASE MediaPrepares \/ InsertActive \/ RemoveActive
    BY <2>1, <2>3 DEF MediaPrepares, InsertActive, RemoveActive
  <2>4. CASE SpawnFails \/ Spawn \/ SpawnBreaks
    BY <2>1, <2>4 DEF SpawnFails, Spawn, SpawnBreaks
  <2>5. CASE ReadFlag \/ ReadLine \/ ReadEnd \/ Drain
    BY <2>1, <2>2, <2>5 DEF ReadFlag, ReadLine, Kill, ReadEnd, Drain
  <2>6. CASE ChildWrites \/ ChildStartsHelper \/ ChildEnds \/ HelperEnds \/ DiagnosticsFull \/ CancelMedia
    BY <2>2, <2>6 DEF ChildWrites, ChildStartsHelper, ChildEnds, HelperEnds, DiagnosticsFull, CancelMedia, gate
  <2> QED
    BY <1>2, <2>3, <2>4, <2>5, <2>6 DEF MediaNext, MediaCommand
<1>3. CASE DiscoveryNext /\ UNCHANGED <<media, torrent>>
  <2>1. ASSUME NEW from \in {"prepare", "resolve", "ask"}, NEW to, Step(Torrent, from, to) PROVE Commanded'
    BY <1>3, <2>1, OthersCommanded DEF Tasks
  <2>2. ASSUME UNCHANGED gate PROVE Commanded'
    BY <1>3, <2>2 DEF gate, torrent, Commanded, CommandRuns, KeptByCommand, Current
  <2>3. CASE TorrentPrepares \/ ResolveStops \/ Resolved \/ AskedAll
    BY <2>1, <2>3 DEF TorrentPrepares, ResolveStops, Resolved, AskedAll
  <2>4. CASE Resolve \/ SkipTracker \/ AskTracker \/ StopExchange \/ HttpAnswer
    BY <2>2, <2>4 DEF Resolve, SkipTracker, AskTracker, StopExchange, HttpAnswer, Asked, Begin
  <2>5. CASE Receive \/ Tick \/ Retransmit \/ TimeOut
    BY <2>2, <2>5 DEF Receive, Tick, Retransmit, TimeOut, NextAddress, Asked, Begin
  <2> QED
    BY <1>3, <2>3, <2>4, <2>5 DEF DiscoveryNext
<1> QED
  BY <1>1, <1>2, <1>3, CoordinatorCommanded, TorrentCommanded DEF Next

-----------------------------------------------------------------------------
(* The discovery of peers.                                                 *)

LEMMA InitDiscovered == Init => Discovered
<1> SUFFICES ASSUME Init PROVE Discovered
  OBVIOUS
<1>1. approved = << >> /\ exchange = NoExchange /\ exchange.left = {} /\ peers = {} /\ contacted = {}
  BY DEF Init, DiscoveryInit, NoExchange
<1>2. Cardinality(peers) <= MaxPeers
  BY <1>1, FS_EmptySet, DiscoveryAssumption
<1>3. PublicApproved
  BY <1>1 DEF PublicApproved, IsList
<1> QED
  BY <1>1, <1>2, <1>3 DEF Discovered, OnlyPublicAddresses, PublicLeft, AnswerEndsExchange, ExchangeHasTracker

(* An answer ends the exchange and drops the tracker; its peers are public *)
(* and not too many.                                                       *)
LEMMA AskedDiscovered ==
  ASSUME Discovered, approved # << >>, NEW found, Asked(found), found \subseteq Public,
         Cardinality(found) <= MaxPeers
  PROVE  Discovered'
<1>1. approved' = Tail(approved) /\ IsList(approved)
  BY DEF Asked, Discovered, PublicApproved
<1>2. /\ IsList(approved')
      /\ \A i \in 1 .. Len(approved') : \E j \in 1 .. Len(approved) : approved'[i] = approved[j]
  BY ONLY <1>1, approved # << >>, TailApproved
<1>3. PublicApproved'
  BY <1>2 DEF Discovered, PublicApproved
<1> QED
  BY <1>3 DEF Asked, Discovered, OnlyPublicAddresses, PublicLeft, AnswerEndsExchange,
     ExchangeHasTracker, NoExchange

(* A packet goes to public addresses while there is no answer.             *)
LEMMA BeginDiscovered ==
  ASSUME Discovered, peers = {}, approved # << >>, NEW stage, NEW addresses, NEW left, NEW tries,
         Begin(stage, addresses, left, tries), addresses \subseteq Public, left \subseteq Public
  PROVE  Discovered'
  BY DEF Begin, Discovered, OnlyPublicAddresses, PublicApproved, PublicLeft,
     AnswerEndsExchange, ExchangeHasTracker

LEMMA ForgetDiscovered == Discovered /\ Forget => Discovered'
<1> SUFFICES ASSUME Discovered, Forget PROVE Discovered'
  OBVIOUS
<1>1. approved' = << >> /\ exchange' = NoExchange /\ exchange'.left = {} /\ peers' = {} /\ contacted' = {}
  BY DEF Forget, NoExchange
<1>2. Cardinality(peers') <= MaxPeers
  BY <1>1, FS_EmptySet, DiscoveryAssumption
<1>3. PublicApproved'
  BY <1>1 DEF PublicApproved, IsList
<1> QED
  BY <1>1, <1>2, <1>3 DEF Discovered, OnlyPublicAddresses, PublicLeft, AnswerEndsExchange, ExchangeHasTracker

LEMMA NextAddressDiscovered ==
  ASSUME Discovered, peers = {}, approved # << >>, NextAddress
  PROVE  Discovered'
<1>1. CASE Asked({})
  BY <1>1, AskedDiscovered, FS_EmptySet, DiscoveryAssumption
<1>2. ASSUME NEW a \in exchange.left, Begin("connect", {a}, exchange.left \ {a}, exchange.tries + 1)
      PROVE  Discovered'
  <2>1. {a} \subseteq Public /\ exchange.left \ {a} \subseteq Public
    BY DEF Discovered, PublicLeft
  <2> QED
    BY <1>2, <2>1, BeginDiscovered
<1> QED
  BY <1>1, <1>2 DEF NextAddress

(* What a UDP tracker has named is cut down to public addresses.           *)
LEMMA ParsedIsPublic ==
  ASSUME NEW named, NEW found \in Parsed(named)
  PROVE  found \subseteq Public /\ Cardinality(found) <= MaxPeers
<1>1. /\ found \subseteq named \cap Public
      /\ IF Cardinality(named \cap Public) <= MaxPeers THEN found = named \cap Public
                                                     ELSE Cardinality(found) = MaxPeers
  BY DEF Parsed
<1>2. MaxPeers <= MaxPeers
  BY DiscoveryAssumption
<1>3. found \subseteq Public
  BY <1>1
<1>4. Cardinality(found) <= MaxPeers
  BY <1>1, <1>2
<1> QED
  BY <1>3, <1>4

LEMMA DiscoveryStep == TypeOK /\ Discovered /\ DiscoveryNext => Discovered'
<1> SUFFICES ASSUME TypeOK, Discovered, DiscoveryNext PROVE Discovered'
  OBVIOUS
<1>0. {} \subseteq Public /\ Cardinality({}) <= MaxPeers
  BY FS_EmptySet, DiscoveryAssumption
<1>1. CASE TorrentPrepares
  BY <1>1 DEF TorrentPrepares, Discovered, OnlyPublicAddresses, PublicApproved, PublicLeft,
     AnswerEndsExchange, ExchangeHasTracker
<1>2. CASE Resolve
  <2>1. PICK answer \in SUBSET Addresses :
          approved' = IF Approve(answer) THEN Append(approved, [scheme |-> Head(trackers), to |-> answer])
                                         ELSE approved
    BY <1>2 DEF Resolve
  <2>2. UNCHANGED <<exchange, peers, contacted>>
    BY <1>2 DEF Resolve
  <2>3. CASE ~Approve(answer)
    BY <2>1, <2>2, <2>3 DEF Discovered, OnlyPublicAddresses, PublicApproved, PublicLeft,
       AnswerEndsExchange, ExchangeHasTracker
  <2>4. CASE Approve(answer)
    <3> DEFINE e == [scheme |-> Head(trackers), to |-> answer]
    <3>1. approved' = Append(approved, e) /\ e.to \subseteq Public
      BY <2>1, <2>4 DEF Approve, AllPublic
    <3>2. IsList(approved) /\ \A i \in 1 .. Len(approved) : approved[i].to \subseteq Public
      BY DEF Discovered, PublicApproved
    <3> HIDE DEF e
    <3>3. /\ IsList(approved') /\ approved' # << >>
          /\ \A i \in 1 .. Len(approved') : approved'[i] = e \/ \E j \in 1 .. Len(approved) : approved'[i] = approved[j]
      BY ONLY <3>1, <3>2, AppendApproved
    <3>4. PublicApproved'
      BY <3>1, <3>2, <3>3 DEF PublicApproved
    <3> QED
      BY <2>2, <3>3, <3>4 DEF Discovered, OnlyPublicAddresses, PublicLeft, AnswerEndsExchange,
         ExchangeHasTracker
  <2> QED
    BY <2>3, <2>4
<1>3. CASE ResolveStops \/ AskedAll
  BY <1>3, ForgetDiscovered DEF ResolveStops, AskedAll
<1>4. CASE Resolved
  BY <1>4 DEF Resolved, discovery, Discovered, OnlyPublicAddresses, PublicApproved, PublicLeft,
     AnswerEndsExchange, ExchangeHasTracker
<1>5. CASE SkipTracker
  BY <1>0, <1>5, AskedDiscovered DEF SkipTracker
<1>6. CASE AskTracker
  <2>1. approved # << >> /\ peers = {}
    BY <1>6 DEF AskTracker, Unanswered
  <2>2. Head(approved).to \subseteq Public
    <3>1. approved \in Seq({approved[i] : i \in 1 .. Len(approved)})
      BY DEF Discovered, PublicApproved, IsList
    <3>2. Head(approved) = approved[1] /\ 1 \in 1 .. Len(approved)
      BY <2>1, <3>1
    <3> QED
      BY <3>2 DEF Discovered, PublicApproved
  <2>3. CASE Begin("http", Head(approved).to, {}, 1)
    BY <1>0, <2>1, <2>2, <2>3, BeginDiscovered
  <2>4. ASSUME NEW a \in Head(approved).to, Begin("connect", {a}, Head(approved).to \ {a}, 1)
        PROVE  Discovered'
    <3>1. {a} \subseteq Public /\ Head(approved).to \ {a} \subseteq Public
      BY <2>2
    <3> QED
      BY <2>1, <2>4, <3>1, BeginDiscovered
  <2> QED
    BY <1>6, <2>3, <2>4 DEF AskTracker
<1>7. CASE ~Idle /\ (StopExchange \/ HttpAnswer \/ Receive \/ Tick \/ Retransmit \/ TimeOut)
  <2>1. exchange # NoExchange /\ peers = {} /\ approved # << >>
    BY <1>7 DEF Idle, Discovered, AnswerEndsExchange, ExchangeHasTracker
  <2>2. ASSUME NEW found, found \subseteq Public, Cardinality(found) <= MaxPeers, Asked(found)
        PROVE  Discovered'
    BY <2>1, <2>2, AskedDiscovered
  <2>3. CASE NextAddress
    BY <2>1, <2>3, NextAddressDiscovered
  <2>4. CASE StopExchange
    BY <1>0, <2>2, <2>4 DEF StopExchange
  <2>5. CASE HttpAnswer
    <3>1. PICK named \in SUBSET Addresses :
            Asked(IF AllPublic(named) /\ Cardinality(named) <= MaxPeers THEN named ELSE {})
      BY <2>5 DEF HttpAnswer
    <3> QED
      BY <1>0, <2>2, <3>1 DEF AllPublic
  <2>6. ASSUME UNCHANGED <<approved, peers, contacted>>, exchange'.left = exchange.left PROVE Discovered'
    BY <2>1, <2>6 DEF Discovered, OnlyPublicAddresses, PublicApproved, PublicLeft, AnswerEndsExchange,
       ExchangeHasTracker
  <2>7. CASE Receive
    <3>1. ASSUME exchange' = [exchange EXCEPT !.stage = "announce", !.attempt = 1, !.since = 0],
                 UNCHANGED <<approved, peers, contacted>>
          PROVE  Discovered'
      BY <2>6, <3>1 DEF TypeOK, DiscoveryTypeOK, Exchanges
    <3>2. ASSUME NEW named \in SUBSET Addresses, NEW found \in Parsed(named), Asked(found)
          PROVE  Discovered'
      BY <2>2, <3>2, ParsedIsPublic
    <3> QED
      BY <2>3, <2>7, <3>1, <3>2 DEF Receive
  <2>8. CASE Tick \/ Retransmit
    BY <2>6, <2>8 DEF Tick, Retransmit, TypeOK, DiscoveryTypeOK, Exchanges
  <2>9. CASE TimeOut
    BY <1>0, <2>2, <2>3, <2>9 DEF TimeOut
  <2> QED
    BY <1>7, <2>4, <2>5, <2>7, <2>8, <2>9
<1>8. HttpAnswer \/ Receive \/ Retransmit => ~Idle
  BY DEF HttpAnswer, Receive, Retransmit, Udp, Idle, NoExchange
<1>9. StopExchange \/ Tick \/ TimeOut => ~Idle
  BY DEF StopExchange, Tick, TimeOut
<1> QED
  BY <1>1, <1>2, <1>3, <1>4, <1>5, <1>6, <1>7, <1>8, <1>9 DEF DiscoveryNext

LEMMA DiscoveredStep == TypeOK /\ Discovered /\ [Next]_vars => Discovered'
<1> SUFFICES ASSUME TypeOK, Discovered, [Next]_vars PROVE Discovered'
  OBVIOUS
<1>1. ASSUME UNCHANGED discovery PROVE Discovered'
  BY <1>1 DEF discovery, Discovered, OnlyPublicAddresses, PublicApproved, PublicLeft,
     AnswerEndsExchange, ExchangeHasTracker
<1>2. CASE DiscoveryNext
  BY <1>2, DiscoveryStep
<1>3. CASE TorrentNext
  BY <1>1, <1>3 DEF TorrentNext, TorrentCommand, MakeFolder, OpenSession, AddTorrent, InsertEntry,
     WatchHeeds, WatchEnds, DeleteTorrent, RemoveEntry, FindEntry, ActOn
<1> QED
  BY <1>1, <1>2, <1>3 DEF Next, Coordinator, vars

-----------------------------------------------------------------------------
(* Types.                                                                  *)

LEMMA InitTypes == Init => TypeOK
<1> SUFFICES ASSUME Init PROVE TypeOK
  OBVIOUS
<1>1. GateTypeOK
  BY TasksAssumption DEF Init, GateInit, GateTypeOK, StepsOf, Tasks
<1>2. MediaTypeOK /\ TorrentTypeOK
  BY DEF Init, MediaInit, TorrentInit, MediaTypeOK, TorrentTypeOK
<1>3. DiscoveryTypeOK
  BY DEF Init, DiscoveryInit, DiscoveryTypeOK, Exchanges, NoExchange
<1> QED
  BY <1>1, <1>2, <1>3 DEF TypeOK

(* A command that goes on by itself.                                       *)
LEMMA StepTypes ==
  ASSUME GateTypeOK, NEW t \in Tasks, NEW from, NEW to \in StepsOf(t), Step(t, from, to)
  PROVE  GateTypeOK'
<1>1. pc' = [pc EXCEPT ![t] = to] /\ UNCHANGED <<ticket, stop, turn, starts>>
  BY DEF Step, Goes
<1> QED
  BY <1>1 DEF GateTypeOK

LEMMA CoordinatorTypes == TypeOK /\ Coordinator => TypeOK'
<1> SUFFICES ASSUME TypeOK, Coordinator PROVE TypeOK'
  OBVIOUS
<1>1. ASSUME NEW t \in Tasks, Register(t) \/ CancelControl(t) PROVE GateTypeOK'
  <2>1. CASE Register(t)
    BY <2>1, TasksAssumption DEF Register, TypeOK, GateTypeOK
  <2>2. CASE CancelControl(t)
    BY <2>2 DEF CancelControl, TypeOK, GateTypeOK
  <2> QED
    BY <1>1, <2>1, <2>2
<1>2. ASSUME NEW t \in Tasks, Claim(t) PROVE GateTypeOK'
  BY <1>2 DEF Claim, Goes, TypeOK, GateTypeOK, StepsOf
<1>3. ASSUME NEW t \in Tasks, GetTurn(t) PROVE GateTypeOK'
  BY <1>3 DEF GetTurn, Goes, TypeOK, GateTypeOK, StepsOf
<1>4. ASSUME NEW t \in Tasks, Return(t) PROVE GateTypeOK'
  BY <1>4 DEF Return, Goes, TypeOK, GateTypeOK, StepsOf
<1>5. GateTypeOK'
  BY <1>1, <1>2, <1>3, <1>4 DEF Coordinator
<1> QED
  BY <1>5 DEF Coordinator, media, discovery, torrent, TypeOK, MediaTypeOK, DiscoveryTypeOK, TorrentTypeOK

LEMMA MediaTypes == TypeOK /\ MediaNext /\ UNCHANGED <<discovery, torrent>> => TypeOK'
<1> SUFFICES ASSUME TypeOK, MediaNext, UNCHANGED <<discovery, torrent>> PROVE TypeOK'
  OBVIOUS
<1>1. ASSUME MediaCommand PROVE GateTypeOK' /\ MediaTypeOK'
  <2>1. PICK from, to \in StepsOf(Media) : Step(Media, from, to) \/ UNCHANGED gate
    BY <1>1 DEF MediaCommand, MediaPrepares, InsertActive, SpawnFails, Spawn, SpawnBreaks, ReadFlag, ReadLine,
       Kill, ReadEnd, Drain, RemoveActive, StepsOf
  <2>2. GateTypeOK'
    BY <2>1, StepTypes DEF TypeOK, GateTypeOK, gate, Tasks
  <2>3. MediaTypeOK'
    BY <1>1 DEF MediaCommand, MediaPrepares, InsertActive, SpawnFails, Spawn, SpawnBreaks, ReadFlag, ReadLine,
       Kill, ReadEnd, Drain, RemoveActive, TypeOK, MediaTypeOK, media
  <2> QED
    BY <2>2, <2>3
<1>2. ASSUME ChildWrites \/ ChildStartsHelper \/ ChildEnds \/ HelperEnds \/ DiagnosticsFull \/ CancelMedia
      PROVE  GateTypeOK' /\ MediaTypeOK'
  BY <1>2 DEF ChildWrites, ChildStartsHelper, ChildEnds, HelperEnds, DiagnosticsFull, CancelMedia, gate, TypeOK,
     GateTypeOK, MediaTypeOK
<1>3. GateTypeOK' /\ MediaTypeOK'
  BY <1>1, <1>2 DEF MediaNext
<1> QED
  BY <1>3 DEF discovery, torrent, TypeOK, DiscoveryTypeOK, TorrentTypeOK

(* What is contacted or named is typed because it is public.               *)
LEMMA DiscoveryTypes ==
  TypeOK /\ Discovered /\ Discovered' /\ DiscoveryNext /\ UNCHANGED <<media, torrent>> => TypeOK'
<1> SUFFICES ASSUME TypeOK, Discovered, Discovered', DiscoveryNext, UNCHANGED <<media, torrent>>
             PROVE  TypeOK'
  OBVIOUS
<1>1. PICK from, to \in StepsOf(Torrent) : Step(Torrent, from, to) \/ UNCHANGED gate
  BY TasksAssumption DEF DiscoveryNext, TorrentPrepares, Resolve, ResolveStops, Resolved, SkipTracker, AskTracker,
     AskedAll, StopExchange, HttpAnswer, Receive, Tick, Retransmit, TimeOut, NextAddress, Asked, Begin, StepsOf
<1>2. GateTypeOK'
  BY <1>1, StepTypes DEF TypeOK, GateTypeOK, gate, Tasks
<1>3. peers' \subseteq Addresses /\ contacted' \subseteq Addresses /\ exchange'.left \subseteq Addresses
  BY DiscoveryAssumption DEF Discovered, OnlyPublicAddresses, PublicLeft
<1>4. NoExchange \in Exchanges
  BY DEF NoExchange, Exchanges
<1>5. ASSUME NEW stage \in {"http", "connect"}, NEW addresses, NEW left, NEW tries \in Nat,
             Begin(stage, addresses, left, tries)
      PROVE  exchange' \in Exchanges
  BY <1>3, <1>5 DEF Begin, Exchanges
<1>6. ASSUME NEW found, Asked(found) PROVE exchange' \in Exchanges
  BY <1>4, <1>6 DEF Asked
<1>7. exchange \in Exchanges
  BY DEF TypeOK, DiscoveryTypeOK
<1>8. ASSUME NextAddress PROVE exchange' \in Exchanges
  <2>1. exchange.tries + 1 \in Nat
    BY <1>7 DEF Exchanges
  <2> QED
    BY <1>5, <1>6, <1>8, <2>1 DEF NextAddress
<1>9. exchange' \in Exchanges
  <2>1. CASE TorrentPrepares \/ Resolve \/ Resolved
    BY <1>7, <2>1 DEF TorrentPrepares, Resolve, Resolved, discovery
  <2>2. CASE ResolveStops \/ AskedAll
    BY <1>4, <2>2 DEF ResolveStops, AskedAll, Forget
  <2>3. CASE SkipTracker \/ StopExchange \/ HttpAnswer
    BY <1>6, <2>3 DEF SkipTracker, StopExchange, HttpAnswer
  <2>4. CASE AskTracker
    BY <1>5, <2>4 DEF AskTracker
  <2>5. CASE Receive
    <3>1. ASSUME exchange' = [exchange EXCEPT !.stage = "announce", !.attempt = 1, !.since = 0]
          PROVE  exchange' \in Exchanges
      <4>1. 1 \in 0..2 /\ 0 \in Nat
        OBVIOUS
      <4> QED
        BY ONLY <1>7, <3>1, <4>1 DEF Exchanges
    <3> QED
      BY <1>6, <1>8, <2>5, <3>1 DEF Receive
  <2>6. CASE Tick
    <3>1. exchange' = [exchange EXCEPT !.since = @ + 1, !.spent = @ + 1]
      BY <2>6 DEF Tick
    <3>2. exchange.since + 1 \in Nat /\ exchange.spent + 1 \in Nat
      BY <1>7 DEF Exchanges
    <3> QED
      BY ONLY <1>7, <3>1, <3>2 DEF Exchanges
  <2>8. CASE Retransmit
    <3>1. exchange' = [exchange EXCEPT !.attempt = 2, !.since = 0]
      BY <2>8 DEF Retransmit
    <3>2. 2 \in 0..2 /\ 0 \in Nat
      OBVIOUS
    <3> QED
      BY ONLY <1>7, <3>1, <3>2 DEF Exchanges
  <2>7. CASE TimeOut
    BY <1>6, <1>8, <2>7 DEF TimeOut
  <2> QED
    BY <2>1, <2>2, <2>3, <2>4, <2>5, <2>6, <2>7, <2>8 DEF DiscoveryNext
<1> QED
  BY <1>2, <1>3, <1>9 DEF TypeOK, DiscoveryTypeOK, MediaTypeOK, TorrentTypeOK, media, torrent

LEMMA TorrentTypes == TypeOK /\ TorrentNext /\ UNCHANGED media => TypeOK'
<1> SUFFICES ASSUME TypeOK, TorrentNext, UNCHANGED media PROVE TypeOK'
  OBVIOUS
<1>1. ASSUME TorrentCommand PROVE GateTypeOK' /\ TorrentTypeOK' /\ UNCHANGED discovery
  <2>1. PICK from, to \in StepsOf(Torrent) : Step(Torrent, from, to)
    BY <1>1, TasksAssumption DEF TorrentCommand, MakeFolder, OpenSession, AddTorrent, InsertEntry, WatchHeeds, WatchEnds,
       DeleteTorrent, RemoveEntry, StepsOf
  <2>2. GateTypeOK'
    BY <2>1, StepTypes DEF TypeOK, Tasks
  <2>3. TorrentTypeOK' /\ UNCHANGED discovery
    BY <1>1 DEF TorrentCommand, MakeFolder, OpenSession, AddTorrent, InsertEntry, WatchHeeds, WatchEnds,
       DeleteTorrent, RemoveEntry, TypeOK, TorrentTypeOK, torrent
  <2> QED
    BY <2>2, <2>3
<1>2. ASSUME NEW action \in {"pause", "resume", "cancel"}, FindEntry(action)
      PROVE  GateTypeOK' /\ TorrentTypeOK' /\ UNCHANGED discovery
  <2>1. starts[Torrent] \in 0 .. MaxStarts
    BY DEF TypeOK, GateTypeOK, Tasks
  <2> QED
    BY <1>2, <2>1 DEF FindEntry, TypeOK, GateTypeOK, TorrentTypeOK, gate
<1>3. ASSUME ActOn PROVE GateTypeOK' /\ TorrentTypeOK' /\ UNCHANGED discovery
  <2>1. command.action \in {"pause", "resume", "cancel"}
    BY <1>3 DEF ActOn, TypeOK, TorrentTypeOK
  <2>2. session' \in {"none", "open", "live", "paused", "deleted"}
    BY <1>3, <2>1 DEF ActOn, TypeOK, TorrentTypeOK
  <2>3. raised' \in BOOLEAN
    BY <1>3 DEF ActOn, TypeOK, TorrentTypeOK
  <2> QED
    BY <1>3, <2>2, <2>3 DEF ActOn, TypeOK, GateTypeOK, TorrentTypeOK, gate
<1>4. GateTypeOK' /\ TorrentTypeOK' /\ UNCHANGED discovery
  BY <1>1, <1>2, <1>3 DEF TorrentNext
<1> QED
  BY <1>4 DEF TypeOK, MediaTypeOK, DiscoveryTypeOK, media, discovery

LEMMA TypesStep == TypeOK /\ Discovered /\ Discovered' /\ [Next]_vars => TypeOK'
<1>1. TypeOK /\ UNCHANGED vars => TypeOK'
  BY DEF vars, gate, media, discovery, torrent, TypeOK, GateTypeOK, MediaTypeOK, DiscoveryTypeOK,
     TorrentTypeOK
<1> QED
  BY <1>1, CoordinatorTypes, MediaTypes, DiscoveryTypes, TorrentTypes DEF Next

-----------------------------------------------------------------------------
(* The invariant, and what follows from it.                                *)

THEOREM Invariance == Spec => []IInv
<1>1. Init => IInv
  BY InitTypes, InitPlaces, InitCommanded, InitDiscovered DEF IInv
<1>2. IInv /\ [Next]_vars => IInv'
  BY PlacesStep, CommandedStep, DiscoveredStep, TypesStep DEF IInv
<1> QED
  BY <1>1, <1>2, PTL DEF Spec

(* Types are respected.                                                    *)
THEOREM TypeCorrect == Spec => []TypeOK
  BY Invariance, PTL DEF IInv

(* Only who has the turn in the queue has a bridge it reads from, or that  *)
(* bridge's diagnostics open, an exchange with a tracker, a session, or a  *)
(* place among the active transfers; a session that a control command      *)
(* still holds is that of an earlier run, and goes with the command.       *)
THEOREM OneWorksAtATime == Spec => []OneWorks
<1>1. IInv => OneWorks
  BY TasksAssumption DEF IInv, Places, PastGateHasTurn, MediaPlaces, TorrentPlaces, OneWorks, MediaWorks,
     TorrentWorks, Tasks, Commanded, KeptByCommand
<1> QED
  BY <1>1, Invariance, PTL

(* Whatever name services and trackers answer, only public addresses are   *)
(* contacted or become peers, and no more peers than allowed.              *)
THEOREM ContactsArePublic == Spec => []OnlyPublicAddresses
<1>1. IInv => OnlyPublicAddresses
  BY DEF IInv, Discovered
<1> QED
  BY <1>1, Invariance, PTL

(* After the first tracker that names peers no address is contacted.       *)
THEOREM FirstAnswerSuffices == Spec => FirstAnswerEnds
<1>1. IInv /\ [Next]_vars => [peers # {} => contacted' \subseteq contacted]_discovery
  <2> SUFFICES ASSUME IInv, [Next]_vars, peers # {} PROVE contacted' \subseteq contacted
    BY DEF discovery
  <2>1. exchange = NoExchange
    BY DEF IInv, Discovered, AnswerEndsExchange
  <2>2. CASE DiscoveryNext
    <3>1. ~AskTracker /\ ~Receive /\ ~TimeOut
      BY <2>1 DEF AskTracker, Unanswered, Receive, Udp, TimeOut, Idle, NoExchange
    <3> QED
      BY <2>2, <3>1 DEF DiscoveryNext, TorrentPrepares, Resolve, ResolveStops, Resolved, SkipTracker,
         AskedAll, StopExchange, HttpAnswer, Tick, Retransmit, Asked, Forget, discovery
  <2>3. CASE UNCHANGED discovery
    BY <2>3 DEF discovery
  <2>4. CASE TorrentNext
    BY <2>3, <2>4 DEF TorrentNext, TorrentCommand, MakeFolder, OpenSession, AddTorrent, InsertEntry,
       WatchHeeds, WatchEnds, DeleteTorrent, RemoveEntry, FindEntry, ActOn
  <2> QED
    BY <2>2, <2>3, <2>4 DEF Next, Coordinator, vars
<1> QED
  BY <1>1, Invariance, PTL DEF Spec, FirstAnswerEnds
=============================================================================
