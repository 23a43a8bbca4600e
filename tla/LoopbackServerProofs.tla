-------------------------- MODULE LoopbackServerProofs --------------------------
(***************************************************************************)
(* What holds of the browser inbox and its two transports for any number   *)
(* of requests and any limits: accepted requests stay in the inbox, which  *)
(* no power loss undoes on Unix, listings are whole, and the loopback      *)
(* server keeps the inbox at its limit.                                    *)
(***************************************************************************)
EXTENDS LoopbackServer, FiniteSetTheorems, TLAPS

(* How far the writer of r has come shows in the file, and nothing but the *)
(* desktop's acknowledgement takes a request that got its final name away. *)
FileFollows(r) ==
  /\ writer[r] \in {"idle", "permit", "checks", "create"} => entry[r] = "none" /\ kept[r] = {"none"}
  /\ writer[r] \in {"sync", "rename"} => entry[r] \in {"tmp", "rejected"}
  /\ writer[r] \in {"rename", "flush", "launch"} => r \in synced
  /\ writer[r] # "done" => r \notin torn
  /\ writer[r] = "flush" /\ r \notin acknowledged => entry[r] = "json"

(* What the browser may be told of, or has been told of, is a whole file   *)
(* under its final name, unless a power loss has undone what it was told;  *)
(* on Unix none can.                                                       *)
SafeWhenTold(r) ==
  /\ told[r] = "ok" => writer[r] = "done"
  /\ (writer[r] = "launch" \/ told[r] = "ok") /\ r \notin acknowledged
       => /\ r \notin torn /\ r \in synced
          /\ entry[r] = "json" \/ (told[r] = "ok" /\ r \in undone)
          /\ unix => kept[r] = {"json"} /\ r \notin undone
  /\ r \in undone => told[r] = "ok"

(* What a listing reports is a whole request.                              *)
WholeWhenListed(r) ==
  r \in listing.found \cup listed => r \notin torn /\ writer[r] \in {"flush", "launch", "done"}

Followed == \A r \in Requests : FileFollows(r) /\ SafeWhenTold(r) /\ WholeWhenListed(r)

(* A request whose handling has come to the blocking task holds the permit *)
(* of the loopback server, and one that is about to add a file has found   *)
(* room for it.                                                            *)
PermitHeld ==
  packaged => \A r \in Requests :
    writer[r] \in {"checks", "create", "sync", "rename", "flush"} => permit = r
RoomFound ==
  packaged => \A r \in Requests : writer[r] = "create" => Cardinality(Pending) < QueueLimit

IInv == TypeOK /\ Followed /\ PermitHeld /\ RoomFound

-----------------------------------------------------------------------------
(* Types.                                                                  *)

LEMMA InitTypes == Init => TypeOK
<1> SUFFICES ASSUME Init PROVE TypeOK
  OBVIOUS
<1>1. listing = Idle /\ Cardinality(listing.found) <= MaxResults
  BY FS_EmptySet, LimitsAssumption DEF Init, InboxInit, Idle
<1>2. listing \in [pc: {"idle", "scan", "ready"}, names: SUBSET (Requests \X {"tmp", "json"}),
                  scanned: 0 .. MaxScanned, found: SUBSET Requests]
  <2>1. 0 \in 0 .. MaxScanned
    BY LimitsAssumption
  <2> QED
    BY <1>1, <2>1 DEF Idle
<1>3. InboxTypeOK
  <2>1. /\ "none" \in Names /\ {"none"} \in SUBSET Names /\ "idle" \in Steps
        /\ "waiting" \in {"waiting", "ok", "error", "lost"}
    BY DEF Names, Steps
  <2>2. /\ entry \in [Requests -> Names] /\ kept \in [Requests -> SUBSET Names]
        /\ writer \in [Requests -> Steps] /\ told \in [Requests -> {"waiting", "ok", "error", "lost"}]
        /\ synced = {} /\ torn = {} /\ listed = {} /\ acknowledged = {}
    BY <2>1 DEF Init, InboxInit
  <2> QED
    BY ONLY <1>1, <1>2, <2>2 DEF InboxTypeOK
<1>4. /\ packaged \in BOOLEAN /\ unix \in BOOLEAN /\ bearer = FALSE /\ permit = NoRequest
      /\ losses = 0 /\ undone = {}
  BY DEF Init
<1>5. losses \in 0 .. MaxLosses
  BY <1>4, QueueLimitAssumption
<1> QED
  BY ONLY <1>3, <1>4, <1>5, Zenon DEF TypeOK

(* What Move does to each file.                                            *)
LEMMA MoveFacts ==
  ASSUME InboxTypeOK, NEW r \in Requests, NEW name \in Names, Move(r, name)
  PROVE  /\ entry' \in [Requests -> Names] /\ kept' \in [Requests -> SUBSET Names]
         /\ synced' = synced /\ torn' = torn
         /\ entry'[r] = name
         /\ \A s \in Requests \ {r} : entry'[s] = entry[s] /\ kept'[s] = kept[s]
<1>1. entry' = [entry EXCEPT ![r] = name] /\ entry \in [Requests -> Names]
  BY DEF Move, InboxTypeOK
<1>2. kept' = [kept EXCEPT ![r] = @ \cup {name}] /\ kept \in [Requests -> SUBSET Names]
  BY DEF Move, InboxTypeOK
<1>3. kept[r] \cup {name} \in SUBSET Names
  BY <1>2
<1> QED
  BY <1>1, <1>2, <1>3 DEF Move

(* What the writer's two step operators do.                                *)
LEMMA GoesFacts ==
  ASSUME InboxTypeOK, NEW r \in Requests, NEW from, NEW to \in Steps, Goes(r, from, to)
  PROVE  /\ writer[r] = from /\ writer' \in [Requests -> Steps] /\ writer'[r] = to
         /\ \A s \in Requests \ {r} : writer'[s] = writer[s]
  BY DEF Goes, InboxTypeOK

LEMMA TellFacts ==
  ASSUME InboxTypeOK, NEW r \in Requests, NEW answer \in {"ok", "error", "lost"}, Tell(r, answer)
  PROVE  /\ told' \in [Requests -> {"waiting", "ok", "error", "lost"}]
         /\ told'[r] = IF told[r] = "waiting" THEN answer ELSE told[r]
         /\ \A s \in Requests \ {r} : told'[s] = told[s]
<1>1. told \in [Requests -> {"waiting", "ok", "error", "lost"}]
  BY DEF InboxTypeOK
<1>2. told' = [told EXCEPT ![r] = IF told[r] = "waiting" THEN answer ELSE told[r]]
  BY DEF Tell
<1> QED
  BY <1>1, <1>2

LEMMA EndsFacts ==
  ASSUME InboxTypeOK, NEW r \in Requests, NEW from, NEW answer \in {"ok", "error", "lost"},
         Ends(r, from, answer)
  PROVE  /\ writer[r] = from /\ writer' \in [Requests -> Steps] /\ writer'[r] = "done"
         /\ \A s \in Requests \ {r} : writer'[s] = writer[s]
         /\ told' \in [Requests -> {"waiting", "ok", "error", "lost"}]
         /\ told'[r] = IF told[r] = "waiting" THEN answer ELSE told[r]
         /\ \A s \in Requests \ {r} : told'[s] = told[s]
<1>1. Goes(r, from, "done") /\ Tell(r, answer)
  BY DEF Ends
<1>2. "done" \in Steps
  BY DEF Steps
<1> QED
  BY <1>1, <1>2, GoesFacts, TellFacts

-----------------------------------------------------------------------------
(* Which requests a step is about.  A step of the writer of r moves only   *)
(* r's file and changes only what r's browser is told.                     *)

WriterStep(r) ==
  Receive(r) \/ Refuse(r) \/ Create(r) \/ SyncFile(r) \/ Rename(r) \/ WriteFails(r)
  \/ (\E next \in {"done", "launch"} : Flush(r, next, unix)) \/ Launched(r) \/ LaunchFails(r) \/ HostDies(r)

LEMMA FlushedFacts ==
  ASSUME InboxTypeOK, Flushed
  PROVE  kept' \in [Requests -> SUBSET Names] /\ \A s \in Requests : kept'[s] = {entry[s]}
<1>1. \A s \in Requests : entry[s] \in Names
  BY DEF InboxTypeOK
<1> QED
  BY <1>1 DEF Flushed

(* The writer keeps the types, and what is known of each request.          *)
LEMMA WriterFollows ==
  ASSUME InboxTypeOK, Followed, NEW r \in Requests, WriterStep(r), UNCHANGED <<unix, undone>>
  PROVE  InboxTypeOK' /\ Followed'
<1>0. UNCHANGED <<listing, listed, acknowledged>>
  BY DEF WriterStep, Receive, Refuse, Create, SyncFile, Rename, WriteFails, Flush, Launched, LaunchFails, HostDies
<1>t. /\ writer \in [Requests -> Steps] /\ told \in [Requests -> {"waiting", "ok", "error", "lost"}]
      /\ entry \in [Requests -> Names] /\ kept \in [Requests -> SUBSET Names]
      /\ synced \subseteq Requests /\ torn \subseteq Requests
  BY DEF InboxTypeOK
<1>c. {"idle", "create", "sync", "rename", "flush", "launch", "done"} \subseteq Steps
  BY DEF Steps
<1>f. \A s \in Requests : FileFollows(s) /\ SafeWhenTold(s) /\ WholeWhenListed(s)
  BY DEF Followed
<1> DEFINE Fits(s) == FileFollows(s)' /\ SafeWhenTold(s)' /\ WholeWhenListed(s)'
<1>s. SUFFICES /\ writer' \in [Requests -> Steps]
               /\ told' \in [Requests -> {"waiting", "ok", "error", "lost"}]
               /\ entry' \in [Requests -> Names] /\ kept' \in [Requests -> SUBSET Names]
               /\ synced' \subseteq Requests /\ torn' \subseteq Requests
               /\ \A s \in Requests : Fits(s)
  <2>1. SUFFICES InboxTypeOK' /\ \A s \in Requests : Fits(s)
    BY DEF Followed
  <2> QED
    BY <1>0 DEF InboxTypeOK
<1>1. CASE Receive(r)
  <2>1. UNCHANGED <<directory, told, listing, listed, acknowledged>> /\ Goes(r, "idle", "create")
    BY <1>1 DEF Receive
  <2>2. /\ writer[r] = "idle" /\ writer' \in [Requests -> Steps] /\ writer'[r] = "create"
        /\ \A s \in Requests \ {r} : writer'[s] = writer[s]
    BY <2>1, <1>c, GoesFacts
  <2> QED
    BY <1>t, <1>f, <2>1, <2>2 DEF FileFollows, SafeWhenTold, WholeWhenListed, directory
<1>2. CASE \E step \in Steps \ {"launch"}, answer \in {"error", "lost"} :
             Ends(r, step, answer) /\ UNCHANGED directory
  <2>1. PICK step \in Steps \ {"launch"}, answer \in {"error", "lost"} :
          Ends(r, step, answer) /\ UNCHANGED directory
    BY <1>2
  <2> QED
    BY <1>t, <1>f, <1>0, <2>1, EndsFacts DEF FileFollows, SafeWhenTold, WholeWhenListed, directory
<1>3. CASE Create(r)
  <2>1. Goes(r, "create", "sync") /\ Move(r, "tmp") /\ told' = told
    BY <1>3 DEF Create
  <2>2. "tmp" \in Names
    BY DEF Names
  <2>3. /\ writer[r] = "create" /\ writer' \in [Requests -> Steps] /\ writer'[r] = "sync"
        /\ \A s \in Requests \ {r} : writer'[s] = writer[s]
    BY <2>1, <1>c, GoesFacts
  <2>4. /\ entry' \in [Requests -> Names] /\ kept' \in [Requests -> SUBSET Names]
        /\ synced' = synced /\ torn' = torn /\ entry'[r] = "tmp"
        /\ \A s \in Requests \ {r} : entry'[s] = entry[s] /\ kept'[s] = kept[s]
    BY <2>1, <2>2, MoveFacts
  <2> QED
    BY <1>t, <1>f, <1>0, <2>1, <2>3, <2>4 DEF FileFollows, SafeWhenTold, WholeWhenListed
<1>4. CASE SyncFile(r)
  <2>1. /\ Goes(r, "sync", "rename") /\ synced' = synced \cup {r}
        /\ UNCHANGED <<entry, kept, torn, told>>
    BY <1>4 DEF SyncFile
  <2>2. /\ writer[r] = "sync" /\ writer' \in [Requests -> Steps] /\ writer'[r] = "rename"
        /\ \A s \in Requests \ {r} : writer'[s] = writer[s]
    BY <2>1, <1>c, GoesFacts
  <2> QED
    BY <1>t, <1>f, <1>0, <2>1, <2>2 DEF FileFollows, SafeWhenTold, WholeWhenListed
<1>5. CASE Rename(r) /\ entry[r] = "tmp"
  <2>1. Goes(r, "rename", "flush") /\ Move(r, "json") /\ told' = told
    BY <1>5 DEF Rename
  <2>2. "json" \in Names
    BY DEF Names
  <2>3. /\ writer[r] = "rename" /\ writer' \in [Requests -> Steps] /\ writer'[r] = "flush"
        /\ \A s \in Requests \ {r} : writer'[s] = writer[s]
    BY <2>1, <1>c, GoesFacts
  <2>4. /\ entry' \in [Requests -> Names] /\ kept' \in [Requests -> SUBSET Names]
        /\ synced' = synced /\ torn' = torn /\ entry'[r] = "json"
        /\ \A s \in Requests \ {r} : entry'[s] = entry[s] /\ kept'[s] = kept[s]
    BY <2>1, <2>2, MoveFacts
  <2> QED
    BY <1>t, <1>f, <1>0, <2>1, <2>3, <2>4 DEF FileFollows, SafeWhenTold, WholeWhenListed
<1>6. ASSUME NEW next \in {"done", "launch"}, Flush(r, next, unix) PROVE
        /\ writer' \in [Requests -> Steps]
        /\ told' \in [Requests -> {"waiting", "ok", "error", "lost"}]
        /\ entry' \in [Requests -> Names] /\ kept' \in [Requests -> SUBSET Names]
        /\ synced' \subseteq Requests /\ torn' \subseteq Requests
        /\ \A s \in Requests : Fits(s)
  <2>1. UNCHANGED <<entry, synced, torn>> /\ (IF unix THEN Flushed ELSE UNCHANGED kept)
    BY <1>6 DEF Flush
  <2>2. /\ kept' \in [Requests -> SUBSET Names]
        /\ \A s \in Requests : kept'[s] = IF unix THEN {entry[s]} ELSE kept[s]
    BY <1>t, <2>1, FlushedFacts
  <2>3. /\ writer[r] = "flush" /\ writer' \in [Requests -> Steps] /\ writer'[r] = next
        /\ \A s \in Requests \ {r} : writer'[s] = writer[s]
        /\ told' \in [Requests -> {"waiting", "ok", "error", "lost"}]
        /\ told'[r] = told[r] \/ (told[r] = "waiting" /\ told'[r] = "ok" /\ next = "done")
        /\ \A s \in Requests \ {r} : told'[s] = told[s]
    <3>1. CASE next = "done"
      BY <1>6, <3>1, EndsFacts DEF Flush
    <3>2. CASE next = "launch"
      <4>1. Goes(r, "flush", next) /\ told' = told
        BY <1>6, <3>2 DEF Flush
      <4> QED
        BY <1>t, <1>c, <3>2, <4>1, GoesFacts
    <3> QED
      BY <3>1, <3>2
  <2> QED
    BY <1>t, <1>f, <1>0, <2>1, <2>2, <2>3 DEF FileFollows, SafeWhenTold, WholeWhenListed
<1>7. CASE Launched(r)
  <2>1. Ends(r, "launch", "ok") /\ UNCHANGED directory
    BY <1>7 DEF Launched
  <2> QED
    BY <1>t, <1>f, <1>0, <2>1, EndsFacts DEF FileFollows, SafeWhenTold, WholeWhenListed, directory
<1>8. CASE LaunchFails(r) \/ (\E answer \in {"error", "lost"} : Ends(r, "launch", answer) /\ UNCHANGED directory)
  <2>1. \E answer \in {"error", "lost"} : Ends(r, "launch", answer)
    BY <1>8 DEF LaunchFails
  <2>2. /\ writer[r] = "launch" /\ writer' \in [Requests -> Steps] /\ writer'[r] = "done"
        /\ \A s \in Requests \ {r} : writer'[s] = writer[s]
        /\ told' \in [Requests -> {"waiting", "ok", "error", "lost"}]
        /\ told'[r] = told[r] \/ (told[r] = "waiting" /\ told'[r] \in {"error", "lost"})
        /\ \A s \in Requests \ {r} : told'[s] = told[s]
    BY <2>1, EndsFacts
  <2>3. Move(r, "none") \/ UNCHANGED directory
    BY <1>8 DEF LaunchFails
  <2>4. "none" \in Names
    BY DEF Names
  <2>5. /\ entry' \in [Requests -> Names] /\ kept' \in [Requests -> SUBSET Names]
        /\ synced' = synced /\ torn' = torn
        /\ \A s \in Requests \ {r} : entry'[s] = entry[s] /\ kept'[s] = kept[s]
    BY <1>t, <2>3, <2>4, MoveFacts DEF directory
  <2> QED
    BY <1>t, <1>f, <1>0, <2>2, <2>5 DEF FileFollows, SafeWhenTold, WholeWhenListed
<1> QED
  <2>1. {"idle", "create", "sync", "rename", "flush"} \subseteq Steps \ {"launch"}
    BY DEF Steps
  <2>2. Refuse(r) \/ WriteFails(r) \/ (Rename(r) /\ entry[r] # "tmp") \/ HostDies(r)
          => \E step \in Steps, answer \in {"error", "lost"} : Ends(r, step, answer) /\ UNCHANGED directory
    BY <2>1, <1>c DEF Refuse, WriteFails, Rename, HostDies
  <2>3. ASSUME NEW step \in Steps, NEW answer \in {"error", "lost"}, Ends(r, step, answer), UNCHANGED directory
        PROVE  /\ writer' \in [Requests -> Steps]
               /\ told' \in [Requests -> {"waiting", "ok", "error", "lost"}]
               /\ entry' \in [Requests -> Names] /\ kept' \in [Requests -> SUBSET Names]
               /\ synced' \subseteq Requests /\ torn' \subseteq Requests
               /\ \A s \in Requests : Fits(s)
    <3>1. CASE step = "launch"
      BY <1>8, <2>3, <3>1
    <3> QED
      BY <1>2, <2>3, <3>1
  <2> QED
    BY <1>1, <1>3, <1>4, <1>5, <1>6, <1>7, <1>8, <2>2, <2>3 DEF WriterStep

-----------------------------------------------------------------------------
(* The desktop.                                                            *)

Listings == [pc: {"idle", "scan", "ready"}, names: SUBSET (Requests \X {"tmp", "json"}),
             scanned: 0 .. MaxScanned, found: SUBSET Requests]

LEMMA IdleIsListing == Idle \in Listings /\ Cardinality(Idle.found) <= MaxResults
<1>1. 0 \in 0 .. MaxScanned /\ 0 <= MaxResults /\ Cardinality({}) = 0
  BY LimitsAssumption, FS_EmptySet
<1> QED
  BY <1>1 DEF Idle, Listings

(* Starting a listing, ending it and receiving its answer.                 *)
LEMMA ListingFollows ==
  ASSUME InboxTypeOK, Followed, StartListing \/ EndListing \/ ReceiveListing, UNCHANGED <<unix, undone>>
  PROVE  InboxTypeOK' /\ Followed'
<1>0. UNCHANGED <<entry, kept, synced, torn, writer, told, acknowledged>>
  BY DEF StartListing, EndListing, ReceiveListing, directory
<1>1. listing \in Listings /\ Cardinality(listing.found) <= MaxResults /\ listed \subseteq Requests
  BY DEF InboxTypeOK, Listings
<1>2. /\ listing' \in Listings /\ Cardinality(listing'.found) <= MaxResults /\ listed' \subseteq Requests
      /\ listing'.found \cup listed' \subseteq listing.found \cup listed
  <2>1. CASE StartListing
    <3>1. {n \in Requests \X {"tmp", "json"} : entry[n[1]] = n[2]} \in SUBSET (Requests \X {"tmp", "json"})
      OBVIOUS
    <3>2. /\ listing'.found = Idle.found /\ Idle.found = {} /\ listing' \in Listings /\ listed' = listed
      BY <2>1, <3>1, IdleIsListing DEF StartListing, Listings, Idle
    <3> QED
      BY <1>1, <3>2, IdleIsListing
  <2>2. CASE EndListing
    BY <1>1, <2>2 DEF EndListing, Listings
  <2>3. CASE ReceiveListing
    <3>1. listing' = Idle /\ listed' = listing.found /\ Idle.found = {}
      BY <2>3 DEF ReceiveListing, Idle
    <3> QED
      BY <1>1, <3>1, IdleIsListing DEF Listings
  <2> QED
    BY <2>1, <2>2, <2>3
<1>3. InboxTypeOK'
  BY <1>0, <1>2 DEF InboxTypeOK, Listings
<1> QED
  BY <1>0, <1>2, <1>3 DEF Followed, FileFollows, SafeWhenTold, WholeWhenListed

(* Inspecting an entry takes away no file that is whole under its final    *)
(* name, and reports only such a file.                                     *)
LEMMA InspectFollows ==
  ASSUME InboxTypeOK, Followed, NEW n \in listing.names, InspectEntry(n), UNCHANGED <<unix, undone>>
  PROVE  InboxTypeOK' /\ Followed'
<1> DEFINE r == n[1]
<1>0. UNCHANGED <<writer, told, listed, acknowledged>>
  BY DEF InspectEntry
<1>1. /\ listing \in Listings /\ Cardinality(listing.found) <= MaxResults /\ listed \subseteq Requests
      /\ entry \in [Requests -> Names] /\ kept \in [Requests -> SUBSET Names]
  BY DEF InboxTypeOK, Listings
<1>2. r \in Requests /\ n[2] \in {"tmp", "json"} /\ n = <<r, n[2]>>
  BY <1>1 DEF Listings
<1> HIDE DEF r
<1>3. listing.scanned + 1 \in 0 .. MaxScanned
  BY <1>1, LimitsAssumption DEF InspectEntry, Room, Listings
<1>f. \A s \in Requests : FileFollows(s) /\ SafeWhenTold(s) /\ WholeWhenListed(s)
  BY DEF Followed
<1>4. CASE Acceptable(r, n[2])
  <2>1. /\ listing' = [listing EXCEPT !.names = @ \ {n}, !.scanned = @ + 1, !.found = @ \cup {r}]
        /\ UNCHANGED directory
    BY <1>4 DEF InspectEntry, r
  <2>2. listing' \in Listings /\ listing'.found = listing.found \cup {r}
    BY <1>1, <1>2, <1>3, <2>1 DEF Listings
  <2>3. Cardinality(listing'.found) <= MaxResults
    <3>1. IsFiniteSet(listing.found)
      BY <1>1, LimitsAssumption, FS_Subset DEF Listings
    <3>2. Cardinality(listing.found) \in Nat
      BY <3>1, FS_CardinalityType
    <3>3. Cardinality(listing.found) < MaxResults
      BY DEF InspectEntry, Room
    <3>4. Cardinality(listing.found \cup {r}) =
            IF r \in listing.found THEN Cardinality(listing.found) ELSE Cardinality(listing.found) + 1
      BY <3>1, FS_AddElement
    <3> QED
      BY <2>2, <3>2, <3>3, <3>4, LimitsAssumption
  <2>4. entry[r] = "json" /\ r \notin torn
    BY <1>4 DEF Acceptable
  <2>5. InboxTypeOK'
    BY <1>0, <2>1, <2>2, <2>3 DEF InboxTypeOK, Listings, directory
  <2>6. writer[r] \in {"flush", "launch", "done"}
    BY <1>1, <1>2, <1>f, <2>4 DEF InboxTypeOK, Steps, FileFollows
  <2> QED
    BY <1>0, <1>2, <1>f, <2>1, <2>2, <2>4, <2>5, <2>6
       DEF Followed, FileFollows, SafeWhenTold, WholeWhenListed, directory
<1>5. CASE ~Acceptable(r, n[2]) /\ entry[r] = n[2]
  <2>1. /\ Move(r, "rejected")
        /\ listing' = [listing EXCEPT !.names = @ \ {<<r, n[2]>>}, !.scanned = @ + 1]
    BY <1>5 DEF InspectEntry, Quarantine, r
  <2>2. listing' \in Listings /\ listing'.found = listing.found
    BY <1>1, <1>3, <2>1 DEF Listings
  <2>3. "rejected" \in Names
    BY DEF Names
  <2>4. /\ entry' \in [Requests -> Names] /\ kept' \in [Requests -> SUBSET Names]
        /\ synced' = synced /\ torn' = torn /\ entry'[r] = "rejected"
        /\ \A s \in Requests \ {r} : entry'[s] = entry[s] /\ kept'[s] = kept[s]
    BY <1>2, <2>1, <2>3, MoveFacts
  <2>5. InboxTypeOK'
    BY <1>0, <1>1, <2>2, <2>4 DEF InboxTypeOK, Listings
  <2>6. entry[r] = "tmp" \/ (entry[r] = "json" /\ r \in torn)
    BY <1>2, <1>5 DEF Acceptable
  <2>7. \A s \in Requests : FileFollows(s)'
    BY <1>0, <1>2, <1>f, <2>2, <2>4, <2>6 DEF FileFollows
  <2>8. \A s \in Requests : SafeWhenTold(s)' /\ WholeWhenListed(s)'
    BY <1>0, <1>2, <1>f, <2>2, <2>4, <2>6 DEF SafeWhenTold, WholeWhenListed
  <2> QED
    BY <2>5, <2>7, <2>8 DEF Followed
<1>6. CASE ~Acceptable(r, n[2]) /\ entry[r] # n[2]
  <2>1. listing' = Idle /\ UNCHANGED directory
    BY <1>6 DEF InspectEntry, Quarantine, r
  <2>2. Idle.found = {}
    BY DEF Idle
  <2>3. InboxTypeOK'
    BY <1>0, <2>1, IdleIsListing DEF InboxTypeOK, Listings, directory
  <2> QED
    BY <1>0, <1>f, <2>1, <2>2, <2>3 DEF Followed, FileFollows, SafeWhenTold, WholeWhenListed, directory
<1> QED
  BY <1>4, <1>5, <1>6

(* The acknowledgement removes only what was listed.                       *)
LEMMA AcknowledgeFollows ==
  ASSUME InboxTypeOK, Followed, Acknowledge, UNCHANGED <<unix, undone>>
  PROVE  InboxTypeOK' /\ Followed'
<1>0. PICK r \in listed : Remove(r)
  BY DEF Acknowledge
<1>1. UNCHANGED <<writer, told, listing, listed>> /\ acknowledged' = acknowledged \cup {r} /\ r \in Requests
  BY <1>0 DEF Acknowledge, Remove, InboxTypeOK
<1>f. \A s \in Requests : FileFollows(s) /\ SafeWhenTold(s) /\ WholeWhenListed(s)
  BY DEF Followed
<1>2. Move(r, "none") \/ UNCHANGED directory
  BY <1>0 DEF Remove
<1>3. "none" \in Names /\ entry \in [Requests -> Names] /\ kept \in [Requests -> SUBSET Names]
  BY DEF Names, InboxTypeOK
<1>4. /\ entry' \in [Requests -> Names] /\ kept' \in [Requests -> SUBSET Names]
      /\ synced' = synced /\ torn' = torn
      /\ \A s \in Requests \ {r} : entry'[s] = entry[s] /\ kept'[s] = kept[s]
  BY <1>1, <1>2, <1>3, MoveFacts DEF directory
<1>5. InboxTypeOK'
  BY <1>1, <1>4 DEF InboxTypeOK
<1> QED
  BY <1>1, <1>f, <1>4, <1>5 DEF Followed, FileFollows, SafeWhenTold, WholeWhenListed

(* Who was cut off tells nobody anything, and a power loss leaves what has *)
(* been flushed.                                                           *)
LEMMA CrashFollows ==
  ASSUME InboxTypeOK, Followed, NEW all \in BOOLEAN, CutOff(all), UNCHANGED <<acknowledged, unix>>,
         \/ UNCHANGED <<directory, undone>>
         \/ /\ all /\ DirectoryAfterPowerLoss
            /\ undone' = undone \cup {r \in Requests : told[r] = "ok" /\ r \notin acknowledged /\ entry'[r] # "json"}
  PROVE  InboxTypeOK' /\ Followed'
<1>t. /\ writer \in [Requests -> Steps] /\ told \in [Requests -> {"waiting", "ok", "error", "lost"}]
      /\ entry \in [Requests -> Names] /\ kept \in [Requests -> SUBSET Names]
      /\ synced \subseteq Requests /\ torn \subseteq Requests
  BY DEF InboxTypeOK
<1>f. \A s \in Requests : FileFollows(s) /\ SafeWhenTold(s) /\ WholeWhenListed(s)
  BY DEF Followed
<1>1. /\ writer' \in [Requests -> Steps]
      /\ \A s \in Requests : writer'[s] = IF all /\ writer[s] \notin {"idle", "done"} THEN "done" ELSE writer[s]
  BY <1>t DEF CutOff, Steps
<1>2. /\ told' \in [Requests -> {"waiting", "ok", "error", "lost"}]
      /\ \A s \in Requests : told'[s] = told[s] \/ (told[s] = "waiting" /\ told'[s] = "lost")
  BY <1>t DEF CutOff
<1>3. listing' = Idle /\ listed' = {} /\ Idle.found = {}
  BY DEF CutOff, Idle
<1>4. CASE UNCHANGED <<directory, undone>>
  <2>1. InboxTypeOK'
    BY <1>1, <1>2, <1>3, <1>4, IdleIsListing DEF InboxTypeOK, Listings, directory
  <2> QED
    BY <1>f, <1>1, <1>2, <1>3, <1>4, <2>1 DEF Followed, FileFollows, SafeWhenTold, WholeWhenListed, directory
<1>5. CASE /\ all /\ DirectoryAfterPowerLoss
           /\ undone' = undone \cup {r \in Requests : told[r] = "ok" /\ r \notin acknowledged /\ entry'[r] # "json"}
  <2>1. /\ entry' \in [Requests -> Names] /\ \A s \in Requests : entry'[s] \in kept[s]
        /\ kept' \in [Requests -> SUBSET Names] /\ \A s \in Requests : kept'[s] = {entry'[s]}
        /\ synced' = synced /\ torn' \subseteq Requests
        /\ \A s \in Requests : s \in torn' <=> s \in torn \/ (entry'[s] # "none" /\ s \notin synced)
    BY <1>t, <1>5 DEF DirectoryAfterPowerLoss
  <2>2. InboxTypeOK'
    BY <1>1, <1>2, <1>3, <2>1, IdleIsListing DEF InboxTypeOK, Listings
  <2>3. \A s \in Requests : FileFollows(s)'
    BY <1>t, <1>f, <1>1, <1>5, <2>1 DEF FileFollows
  <2>4. ASSUME NEW s \in Requests PROVE SafeWhenTold(s)' /\ WholeWhenListed(s)'
    <3>1. s \in undone' <=> s \in undone \/ (told[s] = "ok" /\ s \notin acknowledged /\ entry'[s] # "json")
      BY <1>5
    <3>2. (writer'[s] = "launch" \/ told'[s] = "ok") => told[s] = "ok" /\ told'[s] = "ok"
      BY <1>1, <1>2, <1>5
    <3>3. told[s] = "ok" => told'[s] = "ok" /\ writer'[s] = "done"
      BY <1>f, <1>1, <1>2 DEF SafeWhenTold
    <3> QED
      BY <1>f, <1>3, <2>1, <3>1, <3>2, <3>3 DEF SafeWhenTold, WholeWhenListed
  <2> QED
    BY <2>2, <2>3, <2>4 DEF Followed
<1> QED
  BY <1>4, <1>5

-----------------------------------------------------------------------------
(* The steps of the two transports.                                        *)

(* Every step but those of the crashes is one of the handler before the    *)
(* write, of a writer or of the desktop.                                   *)
LEMMA TransportFollows ==
  ASSUME TypeOK, Followed, NEW r \in Requests,
         Arrive(r) \/ TakePermit(r) \/ TurnAway(r) \/ CountInbox(r) \/ Disconnect(r)
  PROVE  InboxTypeOK' /\ Followed'
<1>0. UNCHANGED <<entry, kept, synced, torn, listing, listed, acknowledged, unix, undone>>
  BY DEF Arrive, TakePermit, TurnAway, CountInbox, Disconnect, directory, serverVars, world
<1>t. /\ writer \in [Requests -> Steps] /\ told \in [Requests -> {"waiting", "ok", "error", "lost"}]
      /\ InboxTypeOK
  BY DEF TypeOK, InboxTypeOK
<1>c. {"idle", "permit", "checks", "create", "done"} \subseteq Steps
  BY DEF Steps
<1>f. \A s \in Requests : FileFollows(s) /\ SafeWhenTold(s) /\ WholeWhenListed(s)
  BY DEF Followed
<1>1. /\ writer' \in [Requests -> Steps]
      /\ \A s \in Requests \ {r} : writer'[s] = writer[s]
      /\ \/ writer'[r] = writer[r]
         \/ writer[r] \in {"idle", "permit", "checks"} /\ writer'[r] \in {"permit", "checks", "create", "done"}
      /\ told' \in [Requests -> {"waiting", "ok", "error", "lost"}]
      /\ \A s \in Requests : told'[s] = told[s] \/ (told[s] = "waiting" /\ told'[s] \in {"error", "lost"})
  <2>1. CASE Arrive(r)
    <3>1. Goes(r, "idle", "permit") /\ told' = told
      BY <2>1 DEF Arrive
    <3> QED
      BY <1>t, <1>c, <3>1, GoesFacts
  <2>2. CASE TakePermit(r)
    <3>1. Goes(r, "permit", "checks") /\ told' = told
      BY <2>2 DEF TakePermit
    <3> QED
      BY <1>t, <1>c, <3>1, GoesFacts
  <2>3. CASE \E step \in {"idle", "permit", "checks"} : Ends(r, step, "error")
    BY <1>t, <2>3, EndsFacts
  <2>4. CASE Goes(r, "checks", "create") /\ told' = told
    BY <1>t, <1>c, <2>4, GoesFacts
  <2>5. CASE Disconnect(r)
    <3>1. /\ writer' = [writer EXCEPT ![r] = IF writer[r] \in {"permit", "checks"} THEN "done" ELSE writer[r]]
          /\ Tell(r, "lost")
      BY <2>5 DEF Disconnect
    <3>2. writer' \in [Requests -> Steps] /\ \A s \in Requests \ {r} : writer'[s] = writer[s]
      BY <1>t, <1>c, <3>1
    <3>3. writer'[r] = writer[r] \/ (writer[r] \in {"permit", "checks"} /\ writer'[r] = "done")
      BY <1>t, <3>1
    <3> QED
      BY <1>t, <3>1, <3>2, <3>3, TellFacts
  <2> QED
    BY <2>1, <2>2, <2>3, <2>4, <2>5 DEF TurnAway, CountInbox
<1>2. InboxTypeOK'
  BY <1>0, <1>1, <1>t DEF InboxTypeOK
<1> QED
  BY <1>0, <1>1, <1>2, <1>f DEF Followed, FileFollows, SafeWhenTold, WholeWhenListed

(* The kinds of a step.                                                    *)
LEMMA NextCases ==
  ASSUME Next
  PROVE  \/ \E r \in Requests : Arrive(r) \/ TakePermit(r) \/ TurnAway(r) \/ CountInbox(r) \/ Disconnect(r)
         \/ \E r \in Requests : Writes(r) \/ NativeHost(r)
         \/ StartSession \/ EndSession \/ Expire
         \/ StartListing \/ EndListing \/ ReceiveListing \/ Acknowledge
         \/ \E n \in listing.names : InspectEntry(n)
         \/ DesktopCrashes \/ PowerLoss
  BY DEF Next, Desktop

LEMMA WritersSteps ==
  ASSUME NEW r \in Requests, Writes(r) \/ NativeHost(r)
  PROVE  WriterStep(r)
  BY DEF Writes, NativeHost, WriterStep

(* The types of the server's own variables.                                *)
LEMMA ServerTypes ==
  ASSUME TypeOK, Next
  PROVE  /\ packaged' = packaged /\ unix' = unix /\ bearer' \in BOOLEAN /\ losses' \in 0 .. MaxLosses
         /\ permit' \in Requests \cup {Handshake, NoRequest}
         /\ PowerLoss \/ undone' = undone
<1>1. packaged' = packaged /\ unix' = unix /\ (PowerLoss \/ undone' = undone)
  BY DEF Next, Arrive, TakePermit, TurnAway, CountInbox, Disconnect, Writes, NativeHost, StartSession,
         EndSession, Expire, Desktop, DesktopCrashes, PowerLoss, serverVars, world
<1>2. bearer' \in BOOLEAN
  <2>1. bearer' = bearer \/ bearer' = TRUE \/ bearer' = FALSE
    BY DEF Next, Arrive, TakePermit, TurnAway, CountInbox, Disconnect, Writes, NativeHost, StartSession,
           EndSession, Expire, Desktop, DesktopCrashes, PowerLoss, CutOff, serverVars, world
  <2> QED
    BY <2>1 DEF TypeOK
<1>3. losses' \in 0 .. MaxLosses
  <2>1. losses' = losses \/ (losses < MaxLosses /\ losses' = losses + 1)
    BY DEF Next, Arrive, TakePermit, TurnAway, CountInbox, Disconnect, Writes, NativeHost, StartSession,
           EndSession, Expire, Desktop, DesktopCrashes, PowerLoss, serverVars, world
  <2> QED
    BY <2>1, QueueLimitAssumption DEF TypeOK
<1>4. permit' \in Requests \cup {Handshake, NoRequest}
  <2>1. permit' = permit \/ permit' \in Requests \/ permit' = Handshake \/ permit' = NoRequest
    BY DEF Next, Arrive, TakePermit, TurnAway, CountInbox, Disconnect, Writes, GiveBack, NativeHost, StartSession,
           EndSession, Expire, Desktop, DesktopCrashes, PowerLoss, CutOff, serverVars, world
  <2> QED
    BY <2>1 DEF TypeOK
<1> QED
  BY <1>1, <1>2, <1>3, <1>4

LEMMA NextFollows ==
  ASSUME TypeOK, Followed, Next
  PROVE  TypeOK' /\ Followed'
<1>1. InboxTypeOK /\ unix' = unix /\ (PowerLoss \/ undone' = undone)
  BY ServerTypes DEF TypeOK
<1>2. InboxTypeOK' /\ Followed'
  <2>1. ASSUME NEW r \in Requests, Writes(r) \/ NativeHost(r) PROVE InboxTypeOK' /\ Followed'
    <3>1. UNCHANGED <<unix, undone>>
      BY <2>1 DEF Writes, NativeHost, serverVars, world
    <3> QED
      BY <1>1, <2>1, <3>1, WritersSteps, WriterFollows
  <2>2. CASE StartSession \/ EndSession \/ Expire
    BY <1>1, <2>2 DEF StartSession, EndSession, Expire, inboxVars, directory, InboxTypeOK, Followed, world,
                      FileFollows, SafeWhenTold, WholeWhenListed
  <2>3. CASE DesktopCrashes
    <3>1. packaged \in BOOLEAN /\ CutOff(packaged) /\ UNCHANGED <<acknowledged, unix>> /\ UNCHANGED <<directory, undone>>
      BY <2>3 DEF DesktopCrashes, TypeOK
    <3> QED
      BY <1>1, <3>1, CrashFollows
  <2>4. CASE PowerLoss
    <3>1. /\ TRUE \in BOOLEAN /\ CutOff(TRUE) /\ UNCHANGED <<acknowledged, unix>> /\ DirectoryAfterPowerLoss
          /\ undone' = undone \cup {r \in Requests : told[r] = "ok" /\ r \notin acknowledged /\ entry'[r] # "json"}
      BY <2>4 DEF PowerLoss
    <3> QED
      BY <1>1, <3>1, CrashFollows
  <2>5. ASSUME NEW r \in Requests,
               Arrive(r) \/ TakePermit(r) \/ TurnAway(r) \/ CountInbox(r) \/ Disconnect(r)
        PROVE  InboxTypeOK' /\ Followed'
    BY <2>5, TransportFollows
  <2>6. CASE Desktop
    <3>1. UNCHANGED <<unix, undone>>
      BY <2>6 DEF Desktop, serverVars, world
    <3> QED
      BY <1>1, <2>6, <3>1, ListingFollows, AcknowledgeFollows, InspectFollows DEF Desktop
  <2> QED
    BY <2>1, <2>2, <2>3, <2>4, <2>5, <2>6 DEF Next
<1>3. packaged' \in BOOLEAN /\ unix' \in BOOLEAN /\ undone' \subseteq Requests
  <2>1. PowerLoss => undone' \subseteq undone \cup Requests
    BY DEF PowerLoss
  <2> QED
    BY <1>1, <2>1, ServerTypes DEF TypeOK
<1> QED
  BY <1>2, <1>3, ServerTypes DEF TypeOK

-----------------------------------------------------------------------------
(* The permit.                                                             *)

Held == {"checks", "create", "sync", "rename", "flush"}

(* What a step of r's handler does to r's place and to the permit.         *)
LEMMA HandlerPlaces ==
  ASSUME TypeOK, PermitHeld, packaged, NEW r \in Requests,
         Arrive(r) \/ TakePermit(r) \/ TurnAway(r) \/ CountInbox(r) \/ Disconnect(r) \/ Writes(r)
  PROVE  /\ \A s \in Requests \ {r} : writer'[s] = writer[s]
         /\ permit' = permit \/ (permit = NoRequest /\ permit' = r) \/ (permit = r /\ permit' = NoRequest)
         /\ writer'[r] \in Held => (writer[r] \in Held /\ permit' = permit) \/ permit' = r
         /\ writer'[r] = "create" =>
              \/ writer[r] = "create" \/ (CountInbox(r) /\ Cardinality(Pending) < QueueLimit)
<1>t. /\ writer \in [Requests -> Steps] /\ InboxTypeOK /\ r # NoRequest
      /\ Cardinality(Pending) \in Nat
  <2>1. IsFiniteSet(Pending)
    BY LimitsAssumption, FS_Subset DEF Pending
  <2> QED
    BY <2>1, FS_CardinalityType, QueueLimitAssumption DEF TypeOK, InboxTypeOK
<1>c. Steps = {"idle", "checks", "permit", "create", "sync", "rename", "flush", "launch", "done"}
  BY DEF Steps
<1>1. CASE Arrive(r)
  <2>1. Goes(r, "idle", "permit") /\ permit' = permit
    BY <1>1 DEF Arrive, serverVars
  <2> QED
    BY <1>t, <1>c, <2>1, GoesFacts DEF Held
<1>2. CASE TakePermit(r)
  <2>1. Goes(r, "permit", "checks") /\ permit = NoRequest /\ permit' = r
    BY <1>2 DEF TakePermit
  <2> QED
    BY <1>t, <1>c, <2>1, GoesFacts DEF Held
<1>3. CASE TurnAway(r)
  <2>1. /\ \E step \in {"idle", "permit", "checks"} : Ends(r, step, "error")
        /\ permit' = IF permit = r THEN NoRequest ELSE permit
    BY <1>3 DEF TurnAway
  <2> QED
    BY <1>t, <2>1, EndsFacts DEF Held
<1>4. CASE CountInbox(r)
  <2>1. CASE Cardinality(Pending) >= QueueLimit
    <3>1. Ends(r, "checks", "error") /\ permit' = NoRequest
      BY <1>4, <2>1 DEF CountInbox
    <3>2. /\ writer[r] = "checks" /\ writer'[r] = "done"
          /\ \A s \in Requests \ {r} : writer'[s] = writer[s]
      BY <1>t, <3>1, EndsFacts
    <3>3. permit = r
      BY <3>2 DEF PermitHeld
    <3> QED
      BY <3>1, <3>2, <3>3 DEF Held
  <2>2. CASE ~(Cardinality(Pending) >= QueueLimit)
    <3>1. Goes(r, "checks", "create") /\ permit' = permit
      BY <1>4, <2>2 DEF CountInbox
    <3>2. Cardinality(Pending) < QueueLimit
      BY <1>t, <2>2, QueueLimitAssumption
    <3> QED
      BY <1>4, <1>t, <1>c, <3>1, <3>2, GoesFacts DEF Held
  <2> QED
    BY <2>1, <2>2
<1>5. CASE Disconnect(r)
  <2>1. /\ writer' = [writer EXCEPT ![r] = IF writer[r] \in {"permit", "checks"} THEN "done" ELSE writer[r]]
        /\ permit' = IF writer'[r] = "done" /\ permit = r THEN NoRequest ELSE permit
        /\ writer[r] # "done"
    BY <1>5 DEF Disconnect, GiveBack
  <2>2. /\ \A s \in Requests \ {r} : writer'[s] = writer[s]
        /\ writer'[r] = IF writer[r] \in {"permit", "checks"} THEN "done" ELSE writer[r]
    BY <1>t, <2>1
  <2> QED
    BY <1>t, <2>1, <2>2 DEF Held
<1>6. CASE Writes(r)
  <2>1. permit' = IF writer'[r] = "done" /\ permit = r THEN NoRequest ELSE permit
    BY <1>6 DEF Writes, GiveBack
  <2>2. \/ Goes(r, "create", "sync") \/ Goes(r, "sync", "rename") \/ Goes(r, "rename", "flush")
        \/ \E step \in Held, answer \in {"ok", "error"} : Ends(r, step, answer)
    BY <1>6 DEF Writes, Create, SyncFile, Rename, Flush, WriteFails, Held
  <2>3. /\ \A s \in Requests \ {r} : writer'[s] = writer[s]
        /\ writer[r] \in Held /\ writer'[r] \in {"sync", "rename", "flush", "done"}
    BY <1>t, <1>c, <2>2, GoesFacts, EndsFacts DEF Held
  <2> QED
    BY <2>1, <2>3 DEF Held
<1> QED
  BY <1>1, <1>2, <1>3, <1>4, <1>5, <1>6

(* While the desktop lists or the permit is taken for a session, no        *)
(* handler's place changes.                                                *)
LEMMA PermitStep ==
  ASSUME TypeOK, PermitHeld, Next
  PROVE  PermitHeld'
<1>0. packaged' = packaged
  BY ServerTypes
<1>1. SUFFICES ASSUME packaged, NEW s \in Requests, writer'[s] \in Held PROVE permit' = s
  BY <1>0 DEF PermitHeld, Held
<1>2. writer[s] \in Held => permit = s
  BY <1>1 DEF PermitHeld, Held
<1>3. s # NoRequest /\ s # Handshake
  BY QueueLimitAssumption
<1>4. ASSUME NEW r \in Requests,
             Arrive(r) \/ TakePermit(r) \/ TurnAway(r) \/ CountInbox(r) \/ Disconnect(r) \/ Writes(r)
      PROVE  permit' = s
  <2>1. /\ \A q \in Requests \ {r} : writer'[q] = writer[q]
        /\ permit' = permit \/ (permit = NoRequest /\ permit' = r) \/ (permit = r /\ permit' = NoRequest)
        /\ writer'[r] \in Held => (writer[r] \in Held /\ permit' = permit) \/ permit' = r
    BY <1>1, <1>4, HandlerPlaces
  <2> QED
    BY <1>1, <1>2, <1>3, <2>1
<1>5. CASE StartSession \/ EndSession \/ Expire
  BY <1>1, <1>2, <1>3, <1>5 DEF StartSession, EndSession, Expire, inboxVars
<1>6. CASE Desktop
  <2>1. writer' = writer
    BY <1>6 DEF Desktop, StartListing, EndListing, ReceiveListing, Acknowledge, InspectEntry
  <2>2. permit' = permit
    BY <1>6 DEF Desktop, serverVars
  <2> QED
    BY <1>1, <1>2, <2>1, <2>2
<1>7. CASE DesktopCrashes \/ PowerLoss
  <2>1. CutOff(TRUE)
    BY <1>1, <1>7 DEF DesktopCrashes, PowerLoss, CutOff
  <2>2. writer'[s] \in {"idle", "done"}
    BY <2>1 DEF CutOff
  <2> QED
    BY <1>1, <2>2 DEF Held
<1>8. ~ \E r \in Requests : NativeHost(r)
  BY <1>1 DEF NativeHost
<1> QED
  BY <1>4, <1>5, <1>6, <1>7, <1>8 DEF Next

-----------------------------------------------------------------------------
(* The room.                                                               *)

LEMMA PendingFinite == IsFiniteSet(Pending) /\ Cardinality(Pending) \in Nat
<1>1. IsFiniteSet(Pending)
  BY LimitsAssumption, FS_Subset DEF Pending
<1> QED
  BY <1>1, FS_CardinalityType

(* Only a writer that creates a file, and a power loss, add to the inbox.  *)
LEMMA PendingGrows ==
  ASSUME TypeOK, Followed, Next
  PROVE  \/ Pending' \subseteq Pending
         \/ \E r \in Requests : Writes(r) /\ Create(r) /\ Pending' \subseteq Pending \cup {r}
         \/ PowerLoss
<1>0. InboxTypeOK
  BY DEF TypeOK
<1>1. ASSUME NEW r \in Requests, NEW name \in {"tmp", "json", "rejected", "none"}, Move(r, name)
      PROVE  /\ Pending' \subseteq Pending \cup {r}
             /\ name \in {"rejected", "none"} \/ r \in Pending => Pending' \subseteq Pending
  <2>1. name \in Names
    BY DEF Names
  <2>2. entry'[r] = name /\ \A s \in Requests \ {r} : entry'[s] = entry[s]
    BY <1>0, <1>1, <2>1, MoveFacts
  <2> QED
    BY <2>2 DEF Pending
<1>2. entry' = entry => Pending' \subseteq Pending
  BY DEF Pending
<1>3. ASSUME NEW r \in Requests, Writes(r) \/ NativeHost(r)
      PROVE  \/ Pending' \subseteq Pending
             \/ Writes(r) /\ Create(r) /\ Pending' \subseteq Pending \cup {r}
  <2>1. CASE Create(r) /\ Writes(r)
    BY <1>1, <2>1 DEF Create
  <2>2. CASE Rename(r) \/ LaunchFails(r)
    <3>1. CASE entry' = entry
      BY <1>2, <3>1
    <3>2. CASE Move(r, "none")
      BY <1>1, <3>2
    <3>3. CASE Move(r, "json") /\ entry[r] = "tmp"
      BY <1>1, <3>3 DEF Pending
    <3> QED
      BY <2>2, <3>1, <3>2, <3>3 DEF Rename, LaunchFails, directory
  <2>3. CASE SyncFile(r) \/ WriteFails(r) \/ (\E next \in {"done", "launch"} : Flush(r, next, unix)) \/ Receive(r)
             \/ Refuse(r) \/ Launched(r) \/ HostDies(r)
    BY <1>2, <2>3 DEF SyncFile, WriteFails, Flush, Receive, Refuse, Launched, HostDies, directory
  <2> QED
    BY <1>3, <2>1, <2>2, <2>3 DEF Writes, NativeHost
<1>4. CASE Acknowledge
  <2>1. PICK r \in listed : Remove(r)
    BY <1>4 DEF Acknowledge
  <2>2. r \in Requests
    BY <1>0 DEF InboxTypeOK
  <2> QED
    BY <1>1, <1>2, <2>1, <2>2 DEF Remove, directory
<1>5. ASSUME NEW n \in listing.names, InspectEntry(n) PROVE Pending' \subseteq Pending
  <2>1. n[1] \in Requests
    BY <1>0 DEF InboxTypeOK
  <2>2. Move(n[1], "rejected") \/ entry' = entry
    BY <1>5 DEF InspectEntry, Quarantine, directory
  <2> QED
    BY <1>1, <1>2, <2>1, <2>2
<1>6. (\E r \in Requests : Arrive(r) \/ TakePermit(r) \/ TurnAway(r) \/ CountInbox(r) \/ Disconnect(r))
      \/ StartSession \/ EndSession \/ Expire \/ StartListing \/ EndListing \/ ReceiveListing \/ DesktopCrashes
        => entry' = entry
  BY DEF Arrive, TakePermit, TurnAway, CountInbox, Disconnect, StartSession, EndSession, Expire,
         StartListing, EndListing, ReceiveListing, DesktopCrashes, inboxVars, directory
<1> QED
  BY <1>2, <1>3, <1>4, <1>5, <1>6, NextCases

(* A writer that found room keeps it: nobody else may add a file.          *)
LEMMA RoomStep ==
  ASSUME TypeOK, Followed, PermitHeld, RoomFound, Next
  PROVE  RoomFound'
<1>0. packaged' = packaged /\ PermitHeld'
  BY ServerTypes, PermitStep
<1>1. SUFFICES ASSUME packaged, NEW s \in Requests, writer'[s] = "create"
               PROVE  Cardinality(Pending') < QueueLimit
  BY <1>0 DEF RoomFound
<1>2. /\ IsFiniteSet(Pending) /\ Cardinality(Pending) \in Nat
      /\ Pending' \subseteq Pending => Cardinality(Pending') \in Nat /\ Cardinality(Pending') <= Cardinality(Pending)
  BY PendingFinite, FS_Subset, FS_CardinalityType
<1>3. CASE PowerLoss
  BY <1>1, <1>3 DEF PowerLoss, CutOff
<1>4. ASSUME NEW r \in Requests, Writes(r), Create(r) PROVE FALSE
  <2>1. writer[r] = "create" /\ writer'[r] = "sync" /\ (s # r => writer[s] = "create")
    BY <1>1, <1>4 DEF Create, Goes, TypeOK, InboxTypeOK
  <2>2. s # r
    BY <1>1, <2>1
  <2> QED
    BY <1>1, <2>1, <2>2 DEF PermitHeld
<1>5. writer[s] = "create" \/ Cardinality(Pending) < QueueLimit
  <2>1. ASSUME NEW r \in Requests,
               Arrive(r) \/ TakePermit(r) \/ TurnAway(r) \/ CountInbox(r) \/ Disconnect(r) \/ Writes(r)
        PROVE  writer[s] = "create" \/ Cardinality(Pending) < QueueLimit
    BY <1>1, <2>1, HandlerPlaces
  <2>2. ~ \E r \in Requests : NativeHost(r)
    BY <1>1 DEF NativeHost
  <2>3. StartSession \/ EndSession \/ Expire \/ Desktop => writer' = writer
    BY DEF StartSession, EndSession, Expire, Desktop, StartListing, EndListing, ReceiveListing, Acknowledge,
           InspectEntry, inboxVars
  <2>4. DesktopCrashes \/ PowerLoss => writer'[s] \in {"idle", "done"}
    BY <1>1 DEF DesktopCrashes, PowerLoss, CutOff
  <2> QED
    BY <1>1, <2>1, <2>2, <2>3, <2>4 DEF Next
<1>6. Cardinality(Pending) < QueueLimit
  BY <1>1, <1>5 DEF RoomFound
<1>7. CASE Pending' \subseteq Pending
  BY <1>2, <1>6, <1>7, QueueLimitAssumption
<1> QED
  BY <1>3, <1>4, <1>7, PendingGrows

-----------------------------------------------------------------------------
(* The invariant is one, and the properties follow from it.                *)
LEMMA InitHolds == Init => IInv
<1> SUFFICES ASSUME Init PROVE IInv
  OBVIOUS
<1>1. \A r \in Requests : FileFollows(r) /\ SafeWhenTold(r) /\ WholeWhenListed(r)
  BY DEF Init, InboxInit, Idle, FileFollows, SafeWhenTold, WholeWhenListed
<1>2. PermitHeld /\ RoomFound
  BY DEF Init, InboxInit, PermitHeld, RoomFound
<1> QED
  BY <1>1, <1>2, InitTypes DEF IInv, Followed

LEMMA NextHolds == IInv /\ [Next]_vars => IInv'
<1> SUFFICES ASSUME IInv, [Next]_vars PROVE IInv'
  OBVIOUS
<1>1. CASE Next
  BY <1>1, NextFollows, PermitStep, RoomStep DEF IInv
<1>2. CASE UNCHANGED vars
  BY <1>2 DEF vars, serverVars, world, inboxVars, directory, IInv, TypeOK, InboxTypeOK, Followed, FileFollows, SafeWhenTold,
              WholeWhenListed, PermitHeld, RoomFound, Pending
<1> QED
  BY <1>1, <1>2

THEOREM Invariance == Spec => []IInv
  BY InitHolds, NextHolds, PTL DEF Spec

(* The variables of the inbox and of the server have their types.          *)
THEOREM TypeCorrect == Spec => []TypeOK
<1>1. IInv => TypeOK
  BY DEF IInv
<1> QED
  BY <1>1, Invariance, PTL

(* A request that the browser was told is accepted is whole under its      *)
(* final name until the desktop acknowledges it: on Unix no power loss     *)
(* undoes the rename, on Windows, where the directory is not flushed, a    *)
(* power loss may, and nothing else does.                                  *)
THEOREM AcceptedStaysDurable == Spec => []AcceptedIsDurable
<1>1. IInv => AcceptedIsDurable
  BY DEF IInv, Followed, SafeWhenTold, AcceptedIsDurable
<1> QED
  BY <1>1, Invariance, PTL

(* No listing, and nothing the front end received, names half a request.   *)
THEOREM ListingsAreWhole == Spec => []ListedIsWhole
<1>1. IInv => ListedIsWhole
  <2>1. IInv => listing.found \cup listed \subseteq Requests
    BY DEF IInv, TypeOK, InboxTypeOK
  <2> QED
    BY <2>1 DEF IInv, Followed, WholeWhenListed, ListedIsWhole
<1> QED
  BY <1>1, Invariance, PTL

(* The packaged server adds no file to an inbox that has reached its limit *)
(* although handlers are dropped while their blocking tasks write.         *)
THEOREM LimitIsKept == Spec => NeverBeyondLimit
<1> DEFINE Kept == packaged /\ losses' = losses /\ ~(Pending' \subseteq Pending)
                     => Cardinality(Pending') <= QueueLimit
<1>1. IInv /\ [Next]_vars => [Kept]_vars
  <2> SUFFICES ASSUME IInv, Next, packaged, losses' = losses, ~(Pending' \subseteq Pending)
               PROVE  Cardinality(Pending') <= QueueLimit
    BY DEF vars
  <2>1. ~PowerLoss
    <3>1. losses \in Nat
      BY QueueLimitAssumption DEF IInv, TypeOK
    <3>2. PowerLoss => losses' = losses + 1
      BY DEF PowerLoss
    <3> QED
      BY <3>1, <3>2
  <2>2. PICK r \in Requests : Writes(r) /\ Create(r) /\ Pending' \subseteq Pending \cup {r}
    BY <2>1, PendingGrows DEF IInv
  <2>3. Cardinality(Pending) < QueueLimit
    BY <2>2 DEF Create, Goes, IInv, RoomFound
  <2>4. IsFiniteSet(Pending) /\ Cardinality(Pending) \in Nat
    BY PendingFinite
  <2>5. /\ IsFiniteSet(Pending \cup {r})
        /\ Cardinality(Pending \cup {r}) = IF r \in Pending THEN Cardinality(Pending) ELSE Cardinality(Pending) + 1
    BY <2>4, FS_AddElement
  <2>6. Cardinality(Pending') \in Nat /\ Cardinality(Pending') <= Cardinality(Pending \cup {r})
    BY <2>2, <2>5, FS_Subset, FS_CardinalityType
  <2> QED
    BY <2>3, <2>4, <2>5, <2>6, QueueLimitAssumption
<1> QED
  BY <1>1, Invariance, PTL DEF Spec, NeverBeyondLimit
=============================================================================
