--------------------- MODULE HostConnectionPolicyProofs ---------------------
(***************************************************************************)
(* Proofs for HostConnectionPolicy, for any number of tasks, origins, caps *)
(* and calls.  Two arguments: the counter of a HostState counts its live   *)
(* permits and its map entry cannot be replaced while somebody refers to   *)
(* it, so the caps hold; and whoever sleeps while there is room has a      *)
(* stored notification ahead of it or somebody awake beside it.            *)
(***************************************************************************)
EXTENDS HostConnectionPolicy, FiniteSetTheorems, SequenceTheorems, TLAPS

-----------------------------------------------------------------------------
(* The inductive invariant.                                                *)

(* A task refers to a HostState from the lookup to the end of the drop.    *)
Referring == \A t \in Tasks : ref[t] = NoState <=> pc[t] \in {"idle", "lock", "lookup"}

(* The counter of a HostState counts the live permits.                     *)
Counted == \A s \in States : active[s] = Cardinality(Holders(s))

(* Who is about to compare and exchange has seen room under its own cap.   *)
SawRoom == \A t \in Tasks : pc[t] = "cas" => seen[t] < cap[t]

(* The list of a Notify holds sleeping users of its HostState, each once.  *)
Registered ==
  \A s \in States : \A i \in 1 .. Len(waiting[s]) :
    /\ ref[waiting[s][i]] = s /\ pc[waiting[s][i]] = "await" /\ ~woken[waiting[s][i]]
    /\ \A j \in 1 .. Len(waiting[s]) : waiting[s][i] = waiting[s][j] => i = j

(* Only a sleeper is woken.                                                *)
WokenSleeps == \A t \in Tasks : woken[t] => pc[t] = "await"

(* A notification is stored only while nobody is registered.               *)
StoredForNobody == \A s \in States : waiting[s] # <<>> => ~stored[s]

(* Who is about to sleep, or sleeps, on a HostState without live permits   *)
(* has a notification ahead of it or somebody awake beside it.             *)
Balanced ==
  \A s \in States :
    /\ (\E t \in Users(s) : pc[t] = "poll") \/ waiting[s] # <<>>
    /\ active[s] = 0
    => OnTheMove(s) \/ stored[s]

Counting == TypeOK /\ Referring /\ Counted /\ SawRoom
Notifying == Registered /\ WokenSleeps /\ StoredForNobody

-----------------------------------------------------------------------------
(* RemoveFirst takes out the one element that equals q[k].                 *)
LEMMA RemoveFirstEffect ==
  ASSUME NEW S, NEW q \in Seq(S), NEW k \in 1 .. Len(q),
         \A i \in 1 .. Len(q) : q[i] = q[k] => i = k
  PROVE  /\ RemoveFirst(q, q[k]) \in Seq(S)
         /\ Len(RemoveFirst(q, q[k])) = Len(q) - 1
         /\ \A j \in 1 .. Len(q) - 1 : RemoveFirst(q, q[k])[j] = IF j < k THEN q[j] ELSE q[j + 1]
<1> DEFINE I == {i \in 1 .. Len(q) : q[i] = q[k]}
           l == SubSeq(q, 1, k - 1)
           r == SubSeq(q, k + 1, Len(q))
<1>0. Len(q) \in Nat /\ k \in Nat /\ \A i \in 1 .. Len(q) : q[i] \in S
  BY LenProperties, ElementOfSeq
<1>1. I = {k}
  OBVIOUS
<1>2. Min(I) = k
  BY <1>1 DEF Min
<1>3. RemoveFirst(q, q[k]) = l \o r
  BY <1>1, <1>2 DEF RemoveFirst, RemoveAt, SelectInSeq
<1>4. l \in Seq(S) /\ Len(l) = k - 1 /\ \A i \in 1 .. k - 1 : l[i] = q[i]
  <2>1. k - 1 \in Int /\ 1 \in Int /\ \A i \in 1 .. k - 1 : q[i] \in S
    BY <1>0
  <2> HIDE DEF l
  <2>2. l \in Seq(S) /\ Len(l) = (IF 1 <= k - 1 THEN k - 1 - 1 + 1 ELSE 0)
        /\ \A i \in 1 .. (k - 1) - 1 + 1 : l[i] = q[1 + i - 1]
    BY <2>1, SubSeqProperties DEF l
  <2> QED BY <1>0, <2>2
<1>5. r \in Seq(S) /\ Len(r) = Len(q) - k /\ \A i \in 1 .. Len(q) - k : r[i] = q[k + i]
  <2>1. k + 1 \in Int /\ Len(q) \in Int /\ \A i \in k + 1 .. Len(q) : q[i] \in S
    BY <1>0
  <2> HIDE DEF r
  <2>2. r \in Seq(S) /\ Len(r) = (IF k + 1 <= Len(q) THEN Len(q) - (k + 1) + 1 ELSE 0)
        /\ \A i \in 1 .. Len(q) - (k + 1) + 1 : r[i] = q[(k + 1) + i - 1]
    BY <2>1, SubSeqProperties DEF r
  <2> QED BY <1>0, <2>2
<1> HIDE DEF l, r
<1>6. /\ l \o r \in Seq(S)
      /\ Len(l \o r) = Len(l) + Len(r)
      /\ \A j \in 1 .. Len(l) + Len(r) : (l \o r)[j] = IF j <= Len(l) THEN l[j] ELSE r[j - Len(l)]
  BY <1>4, <1>5, ConcatProperties
<1>7. ASSUME NEW j \in 1 .. Len(q) - 1
      PROVE  (l \o r)[j] = IF j < k THEN q[j] ELSE q[j + 1]
  <2>1. CASE j < k
    BY <1>0, <1>4, <1>5, <1>6, <2>1
  <2>2. CASE ~(j < k)
    <3>1. j - (k - 1) \in 1 .. Len(q) - k /\ j \in 1 .. Len(l) + Len(r) /\ ~(j <= Len(l))
      BY <1>0, <1>4, <1>5, <2>2
    <3>2. (l \o r)[j] = r[j - (k - 1)]
      BY <1>4, <1>6, <3>1
    <3>3. r[j - (k - 1)] = q[k + (j - (k - 1))]
      BY <1>5, <3>1
    <3>4. k + (j - (k - 1)) = j + 1
      BY <1>0
    <3> QED
      BY <2>2, <3>2, <3>3, <3>4
  <2> QED
    BY <2>1, <2>2
<1>8. Len(l \o r) = Len(q) - 1
  BY <1>0, <1>4, <1>5, <1>6
<1> QED
  BY <1>3, <1>6, <1>7, <1>8

-----------------------------------------------------------------------------
(* Lists of registered futures after a removal.                            *)
LEMMA WithoutIsList ==
  ASSUME TypeOK, Registered, NEW s \in States, NEW t
  PROVE  /\ RemoveFirst(waiting[s], t) \in Seq(Tasks)
         /\ Tail(waiting[s]) \in Seq(Tasks) \/ waiting[s] = <<>>
<1>1. waiting[s] \in Seq(Tasks)
  BY DEF TypeOK
<1>2. CASE \E i \in 1 .. Len(waiting[s]) : waiting[s][i] = t
  <2>1. PICK k \in 1 .. Len(waiting[s]) : waiting[s][k] = t
    BY <1>2
  <2> QED
    BY <1>1, <2>1, RemoveFirstEffect, HeadTailProperties DEF Registered
<1>3. CASE ~\E i \in 1 .. Len(waiting[s]) : waiting[s][i] = t
  BY <1>1, <1>3, HeadTailProperties DEF RemoveFirst
<1> QED
  BY <1>2, <1>3

(* A task between the lookup and the end of the drop has its HostState.    *)
LEMMA HasState ==
  ASSUME TypeOK, Referring, NEW t \in Tasks, pc[t] \notin {"idle", "lock", "lookup"}
  PROVE  ref[t] \in States
BY NullAssumption DEF TypeOK, Referring

(* What notify_one() writes.                                               *)
LEMMA NotifyTypes ==
  ASSUME TypeOK, NEW s \in States, NotifyOne(s)
  PROVE  /\ stored' \in [States -> BOOLEAN]
         /\ waiting' \in [States -> Seq(Tasks)]
         /\ woken' \in [Tasks -> BOOLEAN]
<1>1. CASE waiting[s] # <<>>
  <2>1. Tail(waiting[s]) \in Seq(Tasks)
    BY <1>1, HeadTailProperties DEF TypeOK
  <2> QED
    BY <1>1, <2>1 DEF NotifyOne, TypeOK
<1>2. CASE waiting[s] = <<>>
  BY <1>2 DEF NotifyOne, TypeOK
<1> QED
  BY <1>1, <1>2

(* Types are kept; a permit that is given back was counted.                *)
LEMMA TypeStep ==
  TypeOK /\ Referring /\ Counted /\ Registered /\ [Next]_vars => TypeOK'
<1> SUFFICES ASSUME TypeOK, Referring, Counted, Registered, [Next]_vars PROVE TypeOK'
  OBVIOUS
<1>1. ASSUME NEW t \in Tasks, NEW o \in Origins, NEW c \in Caps, Call(t, o, c) PROVE TypeOK'
  BY <1>1 DEF TypeOK, PCs, Call, Goto, notify
<1>2. ASSUME NEW t \in Tasks, LockHosts(t) PROVE TypeOK'
  BY <1>2 DEF TypeOK, PCs, LockHosts, Goto, notify
<1>3. ASSUME NEW t \in Tasks, Lookup(t) PROVE TypeOK'
  <2>1. PICK s \in States :
          /\ IF Retained(origin[t]) # NoState
             THEN UNCHANGED <<active, stored, waiting>>
             ELSE /\ active' = [active EXCEPT ![s] = 0]
                  /\ stored' = [stored EXCEPT ![s] = FALSE]
                  /\ waiting' = [waiting EXCEPT ![s] = <<>>]
          /\ ref' = [ref EXCEPT ![t] = s]
          /\ hosts' = [o \in Origins |-> IF o = origin[t] THEN s ELSE Retained(o)]
    BY <1>3 DEF Lookup
  <2>2. <<>> \in Seq(Tasks)
    BY EmptySeq
  <2>3. \A o \in Origins : Retained(o) \in States \cup {NoState}
    BY DEF TypeOK, Retained
  <2>4. active' \in [States -> Nat] /\ stored' \in [States -> BOOLEAN] /\ waiting' \in [States -> Seq(Tasks)]
    <3>1. CASE Retained(origin[t]) # NoState
      BY <2>1, <3>1 DEF TypeOK
    <3>2. CASE Retained(origin[t]) = NoState
      <4>1. active' = [active EXCEPT ![s] = 0] /\ stored' = [stored EXCEPT ![s] = FALSE]
            /\ waiting' = [waiting EXCEPT ![s] = <<>>]
        BY <2>1, <3>2
      <4> QED
        BY <4>1, <2>2 DEF TypeOK
    <3> QED
      BY <3>1, <3>2
  <2>5. hosts' \in [Origins -> States \cup {NoState}] /\ ref' \in [Tasks -> States \cup {NoState}]
    BY <2>1, <2>3 DEF TypeOK
  <2> QED
    BY <1>3, <2>4, <2>5 DEF TypeOK, PCs, Lookup, Goto
<1>4. ASSUME NEW t \in Tasks, Load(t) PROVE TypeOK'
  <2>1. ref[t] \in States
    BY <1>4, HasState DEF Load, Goto
  <2>2. seen' \in [Tasks -> Nat]
    BY <1>4, <2>1 DEF Load, TypeOK
  <2> QED
    BY <1>4, <2>2 DEF TypeOK, PCs, Load, Goto, notify
<1>5. ASSUME NEW t \in Tasks, CompareExchange(t) PROVE TypeOK'
  <2>1. ref[t] \in States
    BY <1>5, HasState DEF CompareExchange, Goto
  <2>2. active' \in [States -> Nat]
    BY <1>5, <2>1 DEF CompareExchange, TypeOK
  <2>3. pc' \in [Tasks -> PCs]
    BY <1>5 DEF CompareExchange, TypeOK, PCs, Goto
  <2> QED
    BY <1>5, <2>2, <2>3 DEF TypeOK, CompareExchange, notify
<1>6. ASSUME NEW t \in Tasks, Poll(t) PROVE TypeOK'
  <2>1. ref[t] \in States
    BY <1>6, HasState DEF Poll, Goto
  <2>2. Append(waiting[ref[t]], t) \in Seq(Tasks)
    BY <2>1, AppendProperties DEF TypeOK
  <2>3. stored' \in [States -> BOOLEAN] /\ waiting' \in [States -> Seq(Tasks)]
    BY <1>6, <2>1, <2>2 DEF Poll, TypeOK
  <2> QED
    BY <1>6, <2>3 DEF TypeOK, PCs, Poll, Goto
<1>7. ASSUME NEW t \in Tasks, Awake(t) PROVE TypeOK'
  BY <1>7 DEF TypeOK, PCs, Awake, Goto
<1>8. ASSUME NEW t \in Tasks, NotifyNext(t) PROVE TypeOK'
  <2>1. ref[t] \in States
    BY <1>8, HasState DEF NotifyNext, Goto
  <2>2. /\ stored' \in [States -> BOOLEAN]
        /\ waiting' \in [States -> Seq(Tasks)]
        /\ woken' \in [Tasks -> BOOLEAN]
    BY <1>8, <2>1, NotifyTypes DEF NotifyNext
  <2> QED
    BY <1>8, <2>2 DEF TypeOK, PCs, NotifyNext, Goto
<1>9. ASSUME NEW t \in Tasks, TryLock(t) PROVE TypeOK'
  BY <1>9 DEF TypeOK, PCs, TryLock, Goto, notify
<1>10. ASSUME NEW t \in Tasks, Evict(t) PROVE TypeOK'
  BY <1>10 DEF TypeOK, PCs, Evict, Goto, notify
<1>11. ASSUME NEW t \in Tasks, DropRef(t) PROVE TypeOK'
  BY <1>11 DEF TypeOK, PCs, DropRef, Goto, notify
<1>12. ASSUME NEW t \in Tasks, FetchSub(t) PROVE TypeOK'
  <2>1. ref[t] \in States /\ t \in Holders(ref[t])
    BY <1>12, HasState DEF FetchSub, Goto, Holders, Users
  <2>2. active[ref[t]] \in Nat /\ active[ref[t]] # 0
    BY <2>1, TasksFinite, FS_Subset, FS_EmptySet DEF Counted, TypeOK, Holders, Users
  <2>3. active' \in [States -> Nat]
    BY <1>12, <2>1, <2>2 DEF FetchSub, TypeOK
  <2> QED
    BY <1>12, <2>3 DEF TypeOK, PCs, FetchSub, Goto, notify
<1>13. ASSUME NEW t \in Tasks, AbandonLock(t) PROVE TypeOK'
  BY <1>13 DEF TypeOK, PCs, AbandonLock, Goto, notify
<1>14. ASSUME NEW t \in Tasks, AbandonWait(t) PROVE TypeOK'
  <2>1. ref[t] \in States
    BY <1>14, HasState DEF AbandonWait, Goto
  <2>2. /\ RemoveFirst(waiting[ref[t]], t) \in Seq(Tasks)
        /\ Tail(waiting[ref[t]]) \in Seq(Tasks) \/ waiting[ref[t]] = <<>>
    BY <2>1, WithoutIsList
  <2>3. /\ stored' \in [States -> BOOLEAN]
        /\ waiting' \in [States -> Seq(Tasks)]
        /\ woken' \in [Tasks -> BOOLEAN]
    <3>1. CASE ~woken[t]
      BY <1>14, <2>1, <2>2, <3>1 DEF AbandonWait, TypeOK
    <3>2. CASE woken[t] /\ waiting[ref[t]] # <<>>
      BY <1>14, <2>1, <2>2, <3>2 DEF AbandonWait, TypeOK
    <3>3. CASE woken[t] /\ waiting[ref[t]] = <<>>
      BY <1>14, <2>1, <2>2, <3>3 DEF AbandonWait, TypeOK
    <3> QED
      BY <3>1, <3>2, <3>3
  <2> QED
    BY <1>14, <2>3 DEF TypeOK, PCs, AbandonWait, Goto
<1>15. CASE UNCHANGED vars
  BY <1>15 DEF TypeOK, vars
<1> QED
  BY <1>1, <1>2, <1>3, <1>4, <1>5, <1>6, <1>7, <1>8, <1>9, <1>10, <1>11, <1>12, <1>13, <1>14, <1>15
     DEF Next, Proceed

-----------------------------------------------------------------------------
(* The whole of a step of t concerns t alone in pc, ref, origin, cap, seen. *)
LEMMA OthersStay ==
  ASSUME TypeOK, NEW t \in Tasks, NEW u \in Tasks, u # t,
         \/ \E o \in Origins, c \in Caps : Call(t, o, c)
         \/ Proceed(t) \/ FetchSub(t) \/ AbandonLock(t) \/ AbandonWait(t)
  PROVE  /\ pc'[u] = pc[u] /\ ref'[u] = ref[u] /\ seen'[u] = seen[u]
         /\ cap'[u] = cap[u] /\ origin'[u] = origin[u]
<1>1. CASE \E o \in Origins, c \in Caps : Call(t, o, c)
  BY <1>1 DEF TypeOK, Call, Goto
<1>2. CASE LockHosts(t)
  BY <1>2 DEF TypeOK, LockHosts, Goto
<1>3. CASE Lookup(t)
  BY <1>3 DEF TypeOK, Lookup, Goto
<1>4. CASE Load(t)
  BY <1>4 DEF TypeOK, Load, Goto
<1>5. CASE CompareExchange(t)
  BY <1>5 DEF TypeOK, CompareExchange, Goto
<1>6. CASE Poll(t)
  BY <1>6 DEF TypeOK, Poll, Goto
<1>7. CASE Awake(t)
  BY <1>7 DEF TypeOK, Awake, Goto
<1>8. CASE NotifyNext(t)
  BY <1>8 DEF TypeOK, NotifyNext, Goto
<1>9. CASE TryLock(t)
  BY <1>9 DEF TypeOK, TryLock, Goto
<1>10. CASE Evict(t)
  BY <1>10 DEF TypeOK, Evict, Goto
<1>11. CASE DropRef(t)
  BY <1>11 DEF TypeOK, DropRef, Goto
<1>12. CASE FetchSub(t)
  BY <1>12 DEF TypeOK, FetchSub, Goto
<1>13. CASE AbandonLock(t)
  BY <1>13 DEF TypeOK, AbandonLock, Goto
<1>14. CASE AbandonWait(t)
  BY <1>14 DEF TypeOK, AbandonWait, Goto
<1> QED
  BY <1>1, <1>2, <1>3, <1>4, <1>5, <1>6, <1>7, <1>8, <1>9, <1>10, <1>11, <1>12, <1>13, <1>14 DEF Proceed

(* References are taken in the lookup and given back at the end.           *)
LEMMA ReferringStep == TypeOK /\ Referring /\ [Next]_vars => Referring'
<1> SUFFICES ASSUME TypeOK, Referring, [Next]_vars PROVE Referring'
  OBVIOUS
<1> USE NullAssumption
<1>1. ASSUME NEW t \in Tasks, NEW o \in Origins, NEW c \in Caps, Call(t, o, c) PROVE Referring'
  BY <1>1 DEF TypeOK, Referring, Call, Goto
<1>2. ASSUME NEW t \in Tasks, LockHosts(t) PROVE Referring'
  BY <1>2 DEF TypeOK, Referring, LockHosts, Goto
<1>3. ASSUME NEW t \in Tasks, Lookup(t) PROVE Referring'
  BY <1>3 DEF TypeOK, Referring, Lookup, Goto
<1>4. ASSUME NEW t \in Tasks, Load(t) PROVE Referring'
  BY <1>4 DEF TypeOK, Referring, Load, Goto
<1>5. ASSUME NEW t \in Tasks, CompareExchange(t) PROVE Referring'
  BY <1>5 DEF TypeOK, Referring, CompareExchange, Goto
<1>6. ASSUME NEW t \in Tasks, Poll(t) PROVE Referring'
  BY <1>6 DEF TypeOK, Referring, Poll, Goto
<1>7. ASSUME NEW t \in Tasks, Awake(t) PROVE Referring'
  BY <1>7 DEF TypeOK, Referring, Awake, Goto
<1>8. ASSUME NEW t \in Tasks, NotifyNext(t) PROVE Referring'
  BY <1>8 DEF TypeOK, Referring, NotifyNext, Goto
<1>9. ASSUME NEW t \in Tasks, TryLock(t) PROVE Referring'
  BY <1>9 DEF TypeOK, Referring, TryLock, Goto
<1>10. ASSUME NEW t \in Tasks, Evict(t) PROVE Referring'
  BY <1>10 DEF TypeOK, Referring, Evict, Goto
<1>11. ASSUME NEW t \in Tasks, DropRef(t) PROVE Referring'
  BY <1>11 DEF TypeOK, Referring, DropRef, Goto
<1>12. ASSUME NEW t \in Tasks, FetchSub(t) PROVE Referring'
  BY <1>12 DEF TypeOK, Referring, FetchSub, Goto
<1>13. ASSUME NEW t \in Tasks, AbandonLock(t) PROVE Referring'
  BY <1>13 DEF TypeOK, Referring, AbandonLock, Goto
<1>14. ASSUME NEW t \in Tasks, AbandonWait(t) PROVE Referring'
  BY <1>14 DEF TypeOK, Referring, AbandonWait, Goto
<1>15. CASE UNCHANGED vars
  BY <1>15 DEF Referring, vars
<1> QED
  BY <1>1, <1>2, <1>3, <1>4, <1>5, <1>6, <1>7,
     <1>8, <1>9, <1>10, <1>11, <1>12, <1>13, <1>14, <1>15 DEF Next, Proceed

(* Every step that changes the holders of a HostState changes its counter  *)
(* with them; a new HostState has neither holders nor users.               *)
LEMMA CountedStep == TypeOK /\ Referring /\ Counted /\ [Next]_vars => Counted'
<1> SUFFICES ASSUME TypeOK, Referring, Counted, [Next]_vars, NEW s \in States
             PROVE active'[s] = Cardinality(Holders(s)')
  BY DEF Counted
<1> DEFINE Goal == active'[s] = Cardinality(Holders(s)')
<1>0. ASSUME active'[s] = active[s], Holders(s)' = Holders(s) PROVE Goal
  BY <1>0 DEF Counted
<1>00. IsFiniteSet(Holders(s)) /\ Holders(s) \subseteq Tasks
  BY TasksFinite, FS_Subset DEF Holders, Users
<1> HIDE DEF Goal
<1>1. ASSUME NEW t \in Tasks, NEW o \in Origins, NEW c \in Caps, Call(t, o, c) PROVE Goal
  BY <1>1, <1>0 DEF TypeOK, Call, Goto, Holders, Users
<1>2. ASSUME NEW t \in Tasks, LockHosts(t) PROVE Goal
  BY <1>2, <1>0 DEF TypeOK, LockHosts, Goto, Holders, Users
<1>3. ASSUME NEW t \in Tasks, Lookup(t) PROVE Goal
  <2>1. PICK r \in States :
          /\ IF Retained(origin[t]) # NoState
             THEN UNCHANGED active
             ELSE Unused(r) /\ active' = [active EXCEPT ![r] = 0]
          /\ ref' = [ref EXCEPT ![t] = r]
    BY <1>3 DEF Lookup
  <2>2. Holders(s)' = Holders(s)
    BY <1>3, <2>1 DEF Lookup, Goto, TypeOK, Holders, Users
  <2>3. CASE active' = active
    BY <2>2, <2>3, <1>0
  <2>4. CASE Unused(r) /\ active' = [active EXCEPT ![r] = 0] /\ r = s
    <3>1. active'[s] = 0 /\ Holders(s) = {}
      BY <2>4 DEF TypeOK, Unused, Holders
    <3> QED
      BY <2>2, <3>1, FS_EmptySet DEF Goal
  <2>5. CASE active' = [active EXCEPT ![r] = 0] /\ r # s
    BY <2>2, <2>5, <1>0 DEF TypeOK
  <2> QED
    BY <2>1, <2>3, <2>4, <2>5
<1>4. ASSUME NEW t \in Tasks, Load(t) PROVE Goal
  BY <1>4, <1>0 DEF TypeOK, Load, Goto, Holders, Users
<1>5. ASSUME NEW t \in Tasks, CompareExchange(t) PROVE Goal
  <2>1. ref[t] \in States
    BY <1>5, HasState DEF CompareExchange, Goto
  <2>2. CASE active[ref[t]] = seen[t] /\ ref[t] = s
    <3>1. Holders(s)' = Holders(s) \cup {t} /\ t \notin Holders(s)
      BY <1>5, <2>2 DEF CompareExchange, Goto, TypeOK, Holders, Users
    <3>2. active'[s] = active[s] + 1
      BY <1>5, <2>2 DEF CompareExchange, TypeOK
    <3>3. Cardinality(Holders(s) \cup {t}) = Cardinality(Holders(s)) + 1
      BY <1>00, <3>1, FS_AddElement
    <3>4. active[s] = Cardinality(Holders(s))
      BY DEF Counted
    <3> QED
      BY <3>1, <3>2, <3>3, <3>4 DEF Goal
  <2>3. CASE ~(active[ref[t]] = seen[t] /\ ref[t] = s)
    BY <1>5, <2>3, <1>0 DEF CompareExchange, Goto, TypeOK, Holders, Users
  <2> QED
    BY <2>2, <2>3
<1>6. ASSUME NEW t \in Tasks, Poll(t) PROVE Goal
  BY <1>6, <1>0 DEF TypeOK, Poll, Goto, Holders, Users
<1>7. ASSUME NEW t \in Tasks, Awake(t) PROVE Goal
  BY <1>7, <1>0 DEF TypeOK, Awake, Goto, Holders, Users
<1>8. ASSUME NEW t \in Tasks, NotifyNext(t) PROVE Goal
  BY <1>8, <1>0 DEF TypeOK, NotifyNext, Goto, Holders, Users
<1>9. ASSUME NEW t \in Tasks, TryLock(t) PROVE Goal
  BY <1>9, <1>0 DEF TypeOK, TryLock, Goto, Holders, Users
<1>10. ASSUME NEW t \in Tasks, Evict(t) PROVE Goal
  BY <1>10, <1>0 DEF TypeOK, Evict, Goto, Holders, Users
<1>11. ASSUME NEW t \in Tasks, DropRef(t) PROVE Goal
  BY <1>11, <1>0 DEF TypeOK, DropRef, Goto, Holders, Users
<1>12. ASSUME NEW t \in Tasks, FetchSub(t) PROVE Goal
  <2>1. ref[t] \in States
    BY <1>12, HasState DEF FetchSub, Goto
  <2>2. CASE ref[t] = s
    <3>1. Holders(s)' = Holders(s) \ {t} /\ t \in Holders(s)
      BY <1>12, <2>2 DEF FetchSub, Goto, TypeOK, Holders, Users
    <3>2. active'[s] = active[s] - 1
      BY <1>12, <2>2 DEF FetchSub, TypeOK
    <3>3. Cardinality(Holders(s) \ {t}) = Cardinality(Holders(s)) - 1
      BY <1>00, <3>1, FS_RemoveElement
    <3>4. active[s] = Cardinality(Holders(s))
      BY DEF Counted
    <3> QED
      BY <3>1, <3>2, <3>3, <3>4 DEF Goal
  <2>3. CASE ref[t] # s
    BY <1>12, <2>3, <1>0 DEF FetchSub, Goto, TypeOK, Holders, Users
  <2> QED
    BY <2>2, <2>3
<1>13. ASSUME NEW t \in Tasks, AbandonLock(t) PROVE Goal
  BY <1>13, <1>0 DEF TypeOK, AbandonLock, Goto, Holders, Users
<1>14. ASSUME NEW t \in Tasks, AbandonWait(t) PROVE Goal
  BY <1>14, <1>0 DEF TypeOK, AbandonWait, Goto, Holders, Users
<1>15. ASSUME UNCHANGED vars PROVE Goal
  BY <1>15, <1>0 DEF vars, Holders, Users
<1>g. Goal
  BY <1>1, <1>2, <1>3, <1>4, <1>5, <1>6, <1>7,
     <1>8, <1>9, <1>10, <1>11, <1>12, <1>13, <1>14, <1>15 DEF Next, Proceed
<1> QED
  BY <1>g DEF Goal

(* What a task saw when it loaded the counter is below its cap.            *)
LEMMA SawRoomStep == TypeOK /\ SawRoom /\ [Next]_vars => SawRoom'
<1> SUFFICES ASSUME TypeOK, SawRoom, [Next]_vars PROVE SawRoom'
  OBVIOUS
<1>1. ASSUME NEW t \in Tasks, NEW o \in Origins, NEW c \in Caps, Call(t, o, c) PROVE SawRoom'
  BY <1>1 DEF TypeOK, SawRoom, Call, Goto
<1>2. ASSUME NEW t \in Tasks, LockHosts(t) PROVE SawRoom'
  BY <1>2 DEF LockHosts, TypeOK, SawRoom, Goto
<1>3. ASSUME NEW t \in Tasks, Lookup(t) PROVE SawRoom'
  BY <1>3 DEF Lookup, TypeOK, SawRoom, Goto
<1>4. ASSUME NEW t \in Tasks, Load(t) PROVE SawRoom'
  BY <1>4 DEF Load, TypeOK, SawRoom, Goto
<1>5. ASSUME NEW t \in Tasks, CompareExchange(t) PROVE SawRoom'
  BY <1>5 DEF CompareExchange, TypeOK, SawRoom, Goto
<1>6. ASSUME NEW t \in Tasks, Poll(t) PROVE SawRoom'
  BY <1>6 DEF Poll, TypeOK, SawRoom, Goto
<1>7. ASSUME NEW t \in Tasks, Awake(t) PROVE SawRoom'
  BY <1>7 DEF Awake, TypeOK, SawRoom, Goto
<1>8. ASSUME NEW t \in Tasks, NotifyNext(t) PROVE SawRoom'
  BY <1>8 DEF NotifyNext, TypeOK, SawRoom, Goto
<1>9. ASSUME NEW t \in Tasks, TryLock(t) PROVE SawRoom'
  BY <1>9 DEF TryLock, TypeOK, SawRoom, Goto
<1>10. ASSUME NEW t \in Tasks, Evict(t) PROVE SawRoom'
  BY <1>10 DEF Evict, TypeOK, SawRoom, Goto
<1>11. ASSUME NEW t \in Tasks, DropRef(t) PROVE SawRoom'
  BY <1>11 DEF DropRef, TypeOK, SawRoom, Goto
<1>12. ASSUME NEW t \in Tasks, FetchSub(t) PROVE SawRoom'
  BY <1>12 DEF FetchSub, TypeOK, SawRoom, Goto
<1>13. ASSUME NEW t \in Tasks, AbandonLock(t) PROVE SawRoom'
  BY <1>13 DEF AbandonLock, TypeOK, SawRoom, Goto
<1>14. ASSUME NEW t \in Tasks, AbandonWait(t) PROVE SawRoom'
  BY <1>14 DEF AbandonWait, TypeOK, SawRoom, Goto
<1>15. ASSUME UNCHANGED vars PROVE SawRoom'
  BY <1>15 DEF vars, TypeOK, SawRoom, Goto
<1> QED
  BY <1>1, <1>2, <1>3, <1>4, <1>5, <1>6, <1>7,
     <1>8, <1>9, <1>10, <1>11, <1>12, <1>13, <1>14, <1>15 DEF Next, Proceed

-----------------------------------------------------------------------------
(* An entry that a task refers to survives the sweep of a lookup.          *)
LEMMA UsedIsRetained ==
  ASSUME TypeOK, NEW o \in Origins, hosts[o] \in States, NEW u \in Tasks, ref[u] = hosts[o]
  PROVE  Retained(o) = hosts[o] /\ Retained(o) # NoState
BY NullAssumption DEF Retained, Unused, Users

(* Neither the sweep of a lookup nor an eviction parts the tasks of an     *)
(* origin.                                                                 *)
LEMMA OneStateStep ==
  TypeOK /\ Referring /\ OneStatePerOrigin /\ [Next]_vars => OneStatePerOrigin'
<1> SUFFICES ASSUME TypeOK, Referring, OneStatePerOrigin, [Next]_vars PROVE OneStatePerOrigin'
  OBVIOUS
<1> DEFINE Inside == {"load", "cas", "poll", "await", "holding"}
<1>1. ASSUME NEW t \in Tasks, NEW o \in Origins, NEW c \in Caps, Call(t, o, c) PROVE OneStatePerOrigin'
  BY <1>1 DEF TypeOK, OneStatePerOrigin, Call, Goto
<1>2. ASSUME NEW t \in Tasks, LockHosts(t) PROVE OneStatePerOrigin'
  BY <1>2 DEF LockHosts, TypeOK, OneStatePerOrigin, Goto
<1>3. ASSUME NEW t \in Tasks, Lookup(t) PROVE OneStatePerOrigin'
  <2>1. PICK s \in States :
          /\ Retained(origin[t]) # NoState => s = Retained(origin[t])
          /\ ref' = [ref EXCEPT ![t] = s]
          /\ hosts' = [o \in Origins |-> IF o = origin[t] THEN s ELSE Retained(o)]
    BY <1>3 DEF Lookup
  <2>2. origin' = origin /\ pc' = [pc EXCEPT ![t] = "load"]
    BY <1>3 DEF Lookup, Goto
  <2>3. ASSUME NEW u \in Tasks, pc'[u] \in Inside PROVE hosts'[origin'[u]] = ref'[u]
    <3>1. origin[u] \in Origins
      BY DEF TypeOK
    <3>2. CASE u = t
      BY <2>1, <2>2, <3>1, <3>2 DEF TypeOK
    <3>3. CASE u # t
      <4>1. pc[u] \in Inside /\ ref'[u] = ref[u]
        BY <2>1, <2>2, <2>3, <3>3 DEF TypeOK
      <4>2. hosts[origin[u]] = ref[u] /\ ref[u] \in States
        BY <4>1, HasState DEF OneStatePerOrigin
      <4>3. Retained(origin[u]) = ref[u] /\ Retained(origin[u]) # NoState
        BY <3>1, <4>2, UsedIsRetained
      <4> QED
        BY <2>1, <2>2, <3>1, <4>1, <4>3
    <3> QED
      BY <3>2, <3>3
  <2> QED
    BY <2>3 DEF OneStatePerOrigin
<1>4. ASSUME NEW t \in Tasks, Load(t) PROVE OneStatePerOrigin'
  BY <1>4 DEF Load, TypeOK, OneStatePerOrigin, Goto
<1>5. ASSUME NEW t \in Tasks, CompareExchange(t) PROVE OneStatePerOrigin'
  BY <1>5 DEF CompareExchange, TypeOK, OneStatePerOrigin, Goto
<1>6. ASSUME NEW t \in Tasks, Poll(t) PROVE OneStatePerOrigin'
  BY <1>6 DEF Poll, TypeOK, OneStatePerOrigin, Goto
<1>7. ASSUME NEW t \in Tasks, Awake(t) PROVE OneStatePerOrigin'
  BY <1>7 DEF Awake, TypeOK, OneStatePerOrigin, Goto
<1>8. ASSUME NEW t \in Tasks, NotifyNext(t) PROVE OneStatePerOrigin'
  BY <1>8 DEF NotifyNext, TypeOK, OneStatePerOrigin, Goto
<1>9. ASSUME NEW t \in Tasks, TryLock(t) PROVE OneStatePerOrigin'
  BY <1>9 DEF TryLock, TypeOK, OneStatePerOrigin, Goto
<1>10. ASSUME NEW t \in Tasks, Evict(t) PROVE OneStatePerOrigin'
  <2>1. ASSUME NEW u \in Tasks, pc'[u] \in Inside PROVE hosts'[origin'[u]] = ref'[u]
    <3>1. u # t /\ pc[u] \in Inside /\ ref' = ref /\ origin' = origin
      BY <1>10, <2>1 DEF Evict, Goto, TypeOK
    <3>2. hosts[origin[u]] = ref[u]
      BY <3>1 DEF OneStatePerOrigin
    <3>3. CASE Evictable(t) /\ origin[u] = origin[t]
      BY <3>1, <3>2, <3>3 DEF Evictable, Users
    <3>4. CASE ~(Evictable(t) /\ origin[u] = origin[t])
      BY <1>10, <3>1, <3>2, <3>4 DEF Evict, TypeOK
    <3> QED
      BY <3>3, <3>4
  <2> QED
    BY <2>1 DEF OneStatePerOrigin
<1>11. ASSUME NEW t \in Tasks, DropRef(t) PROVE OneStatePerOrigin'
  BY <1>11 DEF DropRef, TypeOK, OneStatePerOrigin, Goto
<1>12. ASSUME NEW t \in Tasks, FetchSub(t) PROVE OneStatePerOrigin'
  BY <1>12 DEF FetchSub, TypeOK, OneStatePerOrigin, Goto
<1>13. ASSUME NEW t \in Tasks, AbandonLock(t) PROVE OneStatePerOrigin'
  BY <1>13 DEF AbandonLock, TypeOK, OneStatePerOrigin, Goto
<1>14. ASSUME NEW t \in Tasks, AbandonWait(t) PROVE OneStatePerOrigin'
  BY <1>14 DEF AbandonWait, TypeOK, OneStatePerOrigin, Goto
<1>15. ASSUME UNCHANGED vars PROVE OneStatePerOrigin'
  BY <1>15 DEF vars, TypeOK, OneStatePerOrigin, Goto
<1> QED
  BY <1>1, <1>2, <1>3, <1>4, <1>5, <1>6, <1>7,
     <1>8, <1>9, <1>10, <1>11, <1>12, <1>13, <1>14, <1>15 DEF Next, Proceed

-----------------------------------------------------------------------------
(* Fewer holders with the same caps need no more room.                     *)
LEMMA FewerHoldersFit ==
  ASSUME CapRespected,
         \A u \in Tasks : pc'[u] = "holding" => pc[u] = "holding" /\ origin'[u] = origin[u] /\ cap'[u] = cap[u]
  PROVE  CapRespected'
<1> SUFFICES ASSUME NEW o \in Origins,
                    NEW group \in SUBSET {u \in Tasks : pc'[u] = "holding" /\ origin'[u] = o},
                    group # {}
             PROVE  \E u \in group : Cardinality(group) <= cap'[u]
  BY DEF CapRespected
<1>1. group \in SUBSET {u \in Tasks : pc[u] = "holding" /\ origin[u] = o}
  OBVIOUS
<1>2. PICK u \in group : Cardinality(group) <= cap[u]
  BY <1>1 DEF CapRespected
<1> QED
  BY <1>2

(* The task that takes a permit has compared the number of all of them     *)
(* with its own cap; it is the witness for every group it belongs to.      *)
LEMMA TakerFits ==
  ASSUME TypeOK, Referring, Counted, SawRoom, OneStatePerOrigin, CapRespected,
         NEW t \in Tasks, CompareExchange(t), active[ref[t]] = seen[t]
  PROVE  CapRespected'
<1> SUFFICES ASSUME NEW o \in Origins,
                    NEW group \in SUBSET {u \in Tasks : pc'[u] = "holding" /\ origin'[u] = o},
                    group # {}
             PROVE  \E u \in group : Cardinality(group) <= cap'[u]
  BY DEF CapRespected
<1>1. pc[t] = "cas" /\ pc' = [pc EXCEPT ![t] = "holding"] /\ origin' = origin /\ cap' = cap
  BY DEF CompareExchange, Goto
<1>2. CASE t \notin group
  <2>1. group \in SUBSET {u \in Tasks : pc[u] = "holding" /\ origin[u] = o}
    BY <1>1, <1>2 DEF TypeOK
  <2> QED
    BY <1>1, <2>1 DEF CapRespected
<1>3. CASE t \in group
  <2>1. ref[t] \in States /\ ref[t] = hosts[o] /\ origin[t] = o
    BY <1>1, <1>3, HasState DEF OneStatePerOrigin
  <2>2. group \subseteq Holders(ref[t]) \cup {t}
    <3>1. ASSUME NEW u \in group, u # t PROVE u \in Holders(ref[t])
      <4>1. pc[u] = "holding" /\ origin[u] = o
        BY <1>1, <3>1 DEF TypeOK
      <4>2. ref[u] = hosts[o]
        BY <4>1 DEF OneStatePerOrigin
      <4> QED
        BY <2>1, <4>1, <4>2 DEF Holders, Users
    <3> QED
      BY <3>1
  <2>3. IsFiniteSet(Holders(ref[t])) /\ Cardinality(Holders(ref[t])) \in Nat
    BY TasksFinite, FS_Subset, FS_CardinalityType DEF Holders, Users
  <2>4. /\ IsFiniteSet(Holders(ref[t]) \cup {t})
        /\ Cardinality(Holders(ref[t]) \cup {t}) = Cardinality(Holders(ref[t])) + 1
    <3>1. t \notin Holders(ref[t])
      BY <1>1 DEF Holders
    <3> QED
      BY <2>3, <3>1, FS_AddElement
  <2>5. Cardinality(group) <= Cardinality(Holders(ref[t])) + 1 /\ Cardinality(group) \in Nat
    BY <2>2, <2>4, FS_Subset, FS_CardinalityType
  <2>6. Cardinality(Holders(ref[t])) = seen[t] /\ seen[t] < cap[t]
    BY <1>1, <2>1 DEF Counted, SawRoom
  <2>7. cap[t] \in Nat
    BY CapAssumption DEF TypeOK
  <2>8. Cardinality(group) <= cap[t]
    BY <2>3, <2>5, <2>6, <2>7
  <2> QED
    BY <1>1, <1>3, <2>8
<1> QED
  BY <1>2, <1>3

(* Only a taker adds to the holders.                                       *)
LEMMA CapStep ==
  TypeOK /\ Referring /\ Counted /\ SawRoom /\ OneStatePerOrigin /\ CapRespected /\ [Next]_vars
  => CapRespected'
<1> SUFFICES ASSUME TypeOK, Referring, Counted, SawRoom, OneStatePerOrigin, CapRespected, [Next]_vars
             PROVE CapRespected'
  OBVIOUS
<1>1. ASSUME NEW t \in Tasks, NEW o \in Origins, NEW c \in Caps, Call(t, o, c) PROVE CapRespected'
  BY <1>1, FewerHoldersFit DEF TypeOK, Call, Goto
<1>2. ASSUME NEW t \in Tasks, LockHosts(t) PROVE CapRespected'
  BY <1>2, FewerHoldersFit DEF LockHosts, TypeOK, Goto
<1>3. ASSUME NEW t \in Tasks, Lookup(t) PROVE CapRespected'
  BY <1>3, FewerHoldersFit DEF Lookup, TypeOK, Goto
<1>4. ASSUME NEW t \in Tasks, Load(t) PROVE CapRespected'
  BY <1>4, FewerHoldersFit DEF Load, TypeOK, Goto
<1>5. ASSUME NEW t \in Tasks, CompareExchange(t) PROVE CapRespected'
  <2>1. CASE active[ref[t]] = seen[t]
    BY <1>5, <2>1, TakerFits
  <2>2. CASE active[ref[t]] # seen[t]
    BY <1>5, <2>2, FewerHoldersFit DEF CompareExchange, TypeOK, Goto
  <2> QED
    BY <2>1, <2>2
<1>6. ASSUME NEW t \in Tasks, Poll(t) PROVE CapRespected'
  BY <1>6, FewerHoldersFit DEF Poll, TypeOK, Goto
<1>7. ASSUME NEW t \in Tasks, Awake(t) PROVE CapRespected'
  BY <1>7, FewerHoldersFit DEF Awake, TypeOK, Goto
<1>8. ASSUME NEW t \in Tasks, NotifyNext(t) PROVE CapRespected'
  BY <1>8, FewerHoldersFit DEF NotifyNext, TypeOK, Goto
<1>9. ASSUME NEW t \in Tasks, TryLock(t) PROVE CapRespected'
  BY <1>9, FewerHoldersFit DEF TryLock, TypeOK, Goto
<1>10. ASSUME NEW t \in Tasks, Evict(t) PROVE CapRespected'
  BY <1>10, FewerHoldersFit DEF Evict, TypeOK, Goto
<1>11. ASSUME NEW t \in Tasks, DropRef(t) PROVE CapRespected'
  BY <1>11, FewerHoldersFit DEF DropRef, TypeOK, Goto
<1>12. ASSUME NEW t \in Tasks, FetchSub(t) PROVE CapRespected'
  BY <1>12, FewerHoldersFit DEF FetchSub, TypeOK, Goto
<1>13. ASSUME NEW t \in Tasks, AbandonLock(t) PROVE CapRespected'
  BY <1>13, FewerHoldersFit DEF AbandonLock, TypeOK, Goto
<1>14. ASSUME NEW t \in Tasks, AbandonWait(t) PROVE CapRespected'
  BY <1>14, FewerHoldersFit DEF AbandonWait, TypeOK, Goto
<1>15. ASSUME UNCHANGED vars PROVE CapRespected'
  BY <1>15, FewerHoldersFit DEF vars, TypeOK, Goto
<1> QED
  BY <1>1, <1>2, <1>3, <1>4, <1>5, <1>6, <1>7,
     <1>8, <1>9, <1>10, <1>11, <1>12, <1>13, <1>14, <1>15 DEF Next, Proceed

-----------------------------------------------------------------------------
(* Notifications.                                                          *)

(* Steps that leave the lists alone and do not disturb a sleeper.          *)
LEMMA SameLists ==
  ASSUME TypeOK, Registered, waiting' = waiting,
         \A u \in Tasks : pc[u] = "await" /\ ~woken[u] => pc'[u] = "await" /\ ~woken'[u] /\ ref'[u] = ref[u]
  PROVE  Registered'
<1> SUFFICES ASSUME NEW s \in States, NEW i \in 1 .. Len(waiting[s])
             PROVE  /\ ref'[waiting[s][i]] = s /\ pc'[waiting[s][i]] = "await" /\ ~woken'[waiting[s][i]]
                    /\ \A j \in 1 .. Len(waiting[s]) : waiting[s][i] = waiting[s][j] => i = j
  BY DEF Registered
<1>1. waiting[s][i] \in Tasks
  BY ElementOfSeq DEF TypeOK
<1> QED
  BY <1>1 DEF Registered

(* The first of a list leaves it.                                          *)
LEMMA HeadLeaves ==
  ASSUME TypeOK, Registered, NEW s \in States, waiting[s] # <<>>,
         waiting' = [waiting EXCEPT ![s] = Tail(@)],
         \A u \in Tasks : pc[u] = "await" /\ ~woken[u] /\ u # Head(waiting[s])
                          => pc'[u] = "await" /\ ~woken'[u] /\ ref'[u] = ref[u]
  PROVE  Registered'
<1>1. /\ Head(waiting[s]) = waiting[s][1] /\ Len(waiting[s]) \in Nat
      /\ Len(Tail(waiting[s])) = Len(waiting[s]) - 1 /\ 1 \in 1 .. Len(waiting[s])
      /\ \A i \in 1 .. Len(Tail(waiting[s])) : Tail(waiting[s])[i] = waiting[s][i + 1]
  <2>1. waiting[s] \in Seq(Tasks)
    BY DEF TypeOK
  <2>2. Len(waiting[s]) \in Nat /\ Len(waiting[s]) # 0
    BY <2>1, LenProperties, EmptySeq
  <2> QED
    BY <2>1, <2>2, HeadTailProperties
<1>2. ASSUME NEW r \in States, NEW i \in 1 .. Len(waiting'[r])
      PROVE  /\ ref'[waiting'[r][i]] = r /\ pc'[waiting'[r][i]] = "await" /\ ~woken'[waiting'[r][i]]
             /\ \A j \in 1 .. Len(waiting'[r]) : waiting'[r][i] = waiting'[r][j] => i = j
  <2>1. CASE r = s
    <3>1. waiting'[r] = Tail(waiting[s])
      BY <2>1 DEF TypeOK
    <3>0. Len(waiting'[r]) = Len(waiting[s]) - 1
      BY <1>1, <3>1
    <3>4. ASSUME NEW j \in 1 .. Len(waiting'[r])
          PROVE  j + 1 \in 1 .. Len(waiting[s]) /\ j + 1 # 1 /\ waiting'[r][j] = waiting[s][j + 1]
      <4>1. j \in 1 .. Len(waiting[s]) - 1 /\ j \in 1 .. Len(Tail(waiting[s]))
        BY <1>1, <3>0
      <4>2. j + 1 \in 1 .. Len(waiting[s]) /\ j + 1 # 1
        BY <1>1, <4>1
      <4> QED
        BY <1>1, <3>1, <4>1, <4>2
    <3>2. i + 1 \in 1 .. Len(waiting[s]) /\ i + 1 # 1 /\ waiting'[r][i] = waiting[s][i + 1]
      BY <3>4
    <3>3. waiting[s][i + 1] \in Tasks /\ waiting[s][i + 1] # Head(waiting[s])
      <4>1. waiting[s][i + 1] \in Tasks
        BY <3>2, ElementOfSeq DEF TypeOK
      <4>2. waiting[s][i + 1] # waiting[s][1]
        BY <1>1, <3>2 DEF Registered
      <4> QED
        BY <1>1, <4>1, <4>2
    <3>5. ASSUME NEW j \in 1 .. Len(waiting'[r]), waiting'[r][i] = waiting'[r][j] PROVE i = j
      <4>1. waiting[s][i + 1] = waiting[s][j + 1] /\ j + 1 \in 1 .. Len(waiting[s])
        BY <3>2, <3>4, <3>5
      <4>2. i + 1 = j + 1
        BY <3>2, <4>1 DEF Registered
      <4>3. i \in Nat /\ j \in Nat
        BY <1>1, <3>0
      <4> QED
        BY <4>2, <4>3
    <3>6. ref[waiting[s][i + 1]] = s /\ pc[waiting[s][i + 1]] = "await" /\ ~woken[waiting[s][i + 1]]
      BY <3>2 DEF Registered
    <3>7. ref'[waiting[s][i + 1]] = s /\ pc'[waiting[s][i + 1]] = "await" /\ ~woken'[waiting[s][i + 1]]
      BY <3>3, <3>6
    <3> QED
      BY <2>1, <3>2, <3>5, <3>7
  <2>2. CASE r # s
    <3>1. waiting'[r] = waiting[r]
      BY <2>2 DEF TypeOK
    <3>2. ref[waiting[r][i]] = r /\ pc[waiting[r][i]] = "await" /\ ~woken[waiting[r][i]]
      BY <3>1 DEF Registered
    <3>3. ref[Head(waiting[s])] = s
      BY <1>1 DEF Registered
    <3>4. waiting[r][i] \in Tasks
      BY <3>1, ElementOfSeq DEF TypeOK
    <3> QED
      BY <2>2, <3>1, <3>2, <3>3, <3>4 DEF Registered
  <2> QED
    BY <2>1, <2>2
<1> QED
  BY <1>2 DEF Registered

(* A future that is polled for the first time is last in the list.         *)
LEMMA PollRegisters ==
  ASSUME TypeOK, Referring, Registered, WokenSleeps, NEW t \in Tasks, Poll(t), ~stored[ref[t]]
  PROVE  Registered'
<1> DEFINE s == ref[t]
<1>1. s \in States /\ pc[t] = "poll" /\ ~woken[t]
  BY HasState DEF Poll, Goto, WokenSleeps
<1>2. /\ pc' = [pc EXCEPT ![t] = "await"] /\ waiting' = [waiting EXCEPT ![s] = Append(@, t)]
      /\ ref' = ref /\ woken' = woken
  BY DEF Poll, Goto
<1>3. /\ Len(Append(waiting[s], t)) = Len(waiting[s]) + 1 /\ Len(waiting[s]) \in Nat
      /\ \A i \in 1 .. Len(waiting[s]) : Append(waiting[s], t)[i] = waiting[s][i]
      /\ Append(waiting[s], t)[Len(waiting[s]) + 1] = t
  <2>1. waiting[s] \in Seq(Tasks)
    BY <1>1 DEF TypeOK
  <2> QED
    BY <2>1, AppendProperties, LenProperties
<1> HIDE DEF s
<1>4. ASSUME NEW r \in States, NEW i \in 1 .. Len(waiting[r])
      PROVE  /\ waiting[r][i] \in Tasks /\ waiting[r][i] # t
             /\ ref'[waiting[r][i]] = r /\ pc'[waiting[r][i]] = "await" /\ ~woken'[waiting[r][i]]
  <2>1. waiting[r][i] \in Tasks
    BY ElementOfSeq DEF TypeOK
  <2>2. ref[waiting[r][i]] = r /\ pc[waiting[r][i]] = "await" /\ ~woken[waiting[r][i]]
    BY DEF Registered
  <2> QED
    BY <1>1, <1>2, <2>1, <2>2 DEF TypeOK
<1>5. ASSUME NEW r \in States, NEW i \in 1 .. Len(waiting'[r])
      PROVE  /\ ref'[waiting'[r][i]] = r /\ pc'[waiting'[r][i]] = "await" /\ ~woken'[waiting'[r][i]]
             /\ \A j \in 1 .. Len(waiting'[r]) : waiting'[r][i] = waiting'[r][j] => i = j
  <2>1. CASE r # s
    <3>1. waiting'[r] = waiting[r]
      BY <1>2, <2>1 DEF TypeOK
    <3> QED
      BY <1>4, <3>1 DEF Registered
  <2>2. CASE r = s
    <3>1. waiting'[r] = Append(waiting[s], t)
      BY <1>1, <1>2, <2>2 DEF TypeOK
    <3>2. \A j \in 1 .. Len(waiting'[r]) :
            \/ j \in 1 .. Len(waiting[s]) /\ waiting'[r][j] = waiting[s][j]
            \/ j = Len(waiting[s]) + 1 /\ waiting'[r][j] = t
      BY <1>3, <3>1
    <3>3. CASE i = Len(waiting[s]) + 1 /\ waiting'[r][i] = t
      <4>1. ref'[t] = s /\ pc'[t] = "await" /\ ~woken'[t]
        BY <1>1, <1>2 DEF TypeOK, s
      <4> QED
        BY <1>1, <1>4, <2>2, <3>2, <3>3, <4>1
    <3>4. CASE i \in 1 .. Len(waiting[s]) /\ waiting'[r][i] = waiting[s][i]
      <4>1. \A j \in 1 .. Len(waiting'[r]) : waiting'[r][i] = waiting'[r][j] => i = j
        BY <1>1, <1>4, <3>2, <3>4 DEF Registered
      <4> QED
        BY <1>1, <1>4, <2>2, <3>4, <4>1
    <3> QED
      BY <3>2, <3>3, <3>4
  <2> QED
    BY <2>1, <2>2
<1> QED
  BY <1>5 DEF Registered

(* A dropped future that was not notified is taken off its list.           *)
LEMMA AbandonUnregisters ==
  ASSUME TypeOK, Referring, Registered, NEW t \in Tasks, AbandonWait(t), ~woken[t]
  PROVE  Registered'
<1> DEFINE s == ref[t]
<1>1. s \in States /\ pc[t] = "await"
  BY HasState DEF AbandonWait, Goto
<1>2. /\ pc' = [pc EXCEPT ![t] = "idle"] /\ waiting' = [waiting EXCEPT ![s] = RemoveFirst(@, t)]
      /\ ref' = [ref EXCEPT ![t] = NoState] /\ woken' = woken
  BY DEF AbandonWait, Goto
<1> HIDE DEF s
<1>3. ASSUME NEW r \in States, NEW i \in 1 .. Len(waiting[r]), waiting[r][i] # t
      PROVE  ref'[waiting[r][i]] = r /\ pc'[waiting[r][i]] = "await" /\ ~woken'[waiting[r][i]]
  <2>1. waiting[r][i] \in Tasks
    BY ElementOfSeq DEF TypeOK
  <2>2. ref[waiting[r][i]] = r /\ pc[waiting[r][i]] = "await" /\ ~woken[waiting[r][i]]
    BY DEF Registered
  <2> QED
    BY <1>2, <1>3, <2>1, <2>2 DEF TypeOK
<1>4. ASSUME NEW r \in States, waiting'[r] = waiting[r], \A i \in 1 .. Len(waiting[r]) : waiting[r][i] # t,
             NEW i \in 1 .. Len(waiting'[r])
      PROVE  /\ ref'[waiting'[r][i]] = r /\ pc'[waiting'[r][i]] = "await" /\ ~woken'[waiting'[r][i]]
             /\ \A j \in 1 .. Len(waiting'[r]) : waiting'[r][i] = waiting'[r][j] => i = j
  BY <1>3, <1>4 DEF Registered
<1>5. ASSUME NEW r \in States, NEW i \in 1 .. Len(waiting'[r])
      PROVE  /\ ref'[waiting'[r][i]] = r /\ pc'[waiting'[r][i]] = "await" /\ ~woken'[waiting'[r][i]]
             /\ \A j \in 1 .. Len(waiting'[r]) : waiting'[r][i] = waiting'[r][j] => i = j
  <2>1. CASE r # s
    <3>1. waiting'[r] = waiting[r]
      BY <1>2, <2>1 DEF TypeOK
    <3>2. \A j \in 1 .. Len(waiting[r]) : waiting[r][j] # t
      BY <2>1 DEF Registered, s
    <3> QED
      BY <1>4, <3>1, <3>2
  <2>2. CASE r = s /\ \A j \in 1 .. Len(waiting[s]) : waiting[s][j] # t
    <3>1. waiting'[r] = waiting[r]
      BY <1>1, <1>2, <2>2 DEF TypeOK, RemoveFirst
    <3> QED
      BY <1>4, <2>2, <3>1
  <2>3. CASE r = s /\ \E k \in 1 .. Len(waiting[s]) : waiting[s][k] = t
    <3>1. PICK k \in 1 .. Len(waiting[s]) : waiting[s][k] = t
      BY <2>3
    <3>2. /\ Len(RemoveFirst(waiting[s], t)) = Len(waiting[s]) - 1 /\ Len(waiting[s]) \in Nat
          /\ \A j \in 1 .. Len(waiting[s]) - 1 :
               RemoveFirst(waiting[s], t)[j] = IF j < k THEN waiting[s][j] ELSE waiting[s][j + 1]
      <4>1. waiting[s] \in Seq(Tasks)
        BY <1>1 DEF TypeOK
      <4>2. \A j \in 1 .. Len(waiting[s]) : waiting[s][j] = waiting[s][k] => j = k
        BY <1>1, <3>1 DEF Registered
      <4> QED
        BY <3>1, <4>1, <4>2, RemoveFirstEffect, LenProperties
    <3>3. waiting'[r] = RemoveFirst(waiting[s], t)
      BY <1>1, <1>2, <2>3 DEF TypeOK
    <3> DEFINE from(j) == IF j < k THEN j ELSE j + 1
    <3>4. \A j \in 1 .. Len(waiting'[r]) :
            from(j) \in 1 .. Len(waiting[s]) /\ from(j) # k /\ waiting'[r][j] = waiting[s][from(j)]
      BY <3>1, <3>2, <3>3
    <3>5. \A j \in 1 .. Len(waiting'[r]) : waiting[s][from(j)] # t
      BY <1>1, <3>1, <3>4 DEF Registered
    <3>6. ASSUME NEW j \in 1 .. Len(waiting'[r]), waiting'[r][i] = waiting'[r][j] PROVE from(i) = from(j)
      <4> HIDE DEF from
      <4>1. waiting[s][from(i)] = waiting[s][from(j)]
        BY <3>4, <3>6
      <4>2. from(i) \in 1 .. Len(waiting[s]) /\ from(j) \in 1 .. Len(waiting[s])
        BY <3>4
      <4> QED
        BY <1>1, <4>1, <4>2 DEF Registered
    <3>7. \A j \in 1 .. Len(waiting'[r]) : from(i) = from(j) => i = j
      BY <3>2, <3>3
    <3>8. ref'[waiting'[r][i]] = r /\ pc'[waiting'[r][i]] = "await" /\ ~woken'[waiting'[r][i]]
      <4> HIDE DEF from
      <4>1. from(i) \in 1 .. Len(waiting[s]) /\ waiting'[r][i] = waiting[s][from(i)]
        BY <3>4
      <4>2. waiting[s][from(i)] # t
        BY <3>5
      <4> QED
        BY <1>1, <1>3, <2>3, <4>1, <4>2
    <3> QED
      BY <3>6, <3>7, <3>8
  <2> QED
    BY <2>1, <2>2, <2>3
<1> QED
  BY <1>5 DEF Registered

(* Every step keeps the lists of sleepers exact.                           *)
LEMMA RegisteredStep ==
  TypeOK /\ Referring /\ Registered /\ WokenSleeps /\ [Next]_vars => Registered'
<1> SUFFICES ASSUME TypeOK, Referring, Registered, WokenSleeps, [Next]_vars PROVE Registered'
  OBVIOUS
<1>1. ASSUME NEW t \in Tasks, NEW o \in Origins, NEW c \in Caps, Call(t, o, c) PROVE Registered'
  BY <1>1, SameLists DEF TypeOK, Call, Goto, notify
<1>2. ASSUME NEW t \in Tasks, LockHosts(t) PROVE Registered'
  BY <1>2, SameLists DEF LockHosts, TypeOK, Goto, notify
<1>3. ASSUME NEW t \in Tasks, Lookup(t) PROVE Registered'
  <2>1. PICK s \in States :
          waiting' = waiting \/ (Unused(s) /\ waiting' = [waiting EXCEPT ![s] = <<>>])
    BY <1>3 DEF Lookup
  <2>2. \A u \in Tasks : pc[u] = "await" /\ ~woken[u] => pc'[u] = "await" /\ ~woken'[u] /\ ref'[u] = ref[u]
    BY <1>3 DEF Lookup, Goto, TypeOK
  <2>3. CASE waiting' = waiting
    BY <2>2, <2>3, SameLists
  <2>4. CASE waiting' = [waiting EXCEPT ![s] = <<>>]
    <3>1. ASSUME NEW r \in States, NEW i \in 1 .. Len(waiting'[r])
          PROVE  waiting'[r] = waiting[r] /\ waiting[r][i] \in Tasks
      <4>1. waiting'[r] = waiting[r]
        BY <2>4, <3>1 DEF TypeOK
      <4> QED
        BY <3>1, <4>1, ElementOfSeq DEF TypeOK
    <3> QED
      BY <2>2, <3>1 DEF Registered
  <2> QED
    BY <2>1, <2>3, <2>4
<1>4. ASSUME NEW t \in Tasks, Load(t) PROVE Registered'
  BY <1>4, SameLists DEF Load, TypeOK, Goto, notify
<1>5. ASSUME NEW t \in Tasks, CompareExchange(t) PROVE Registered'
  BY <1>5, SameLists DEF CompareExchange, TypeOK, Goto, notify
<1>6. ASSUME NEW t \in Tasks, Poll(t) PROVE Registered'
  <2>1. CASE stored[ref[t]]
    BY <1>6, <2>1, SameLists DEF Poll, TypeOK, Goto
  <2>2. CASE ~stored[ref[t]]
    BY <1>6, <2>2, PollRegisters
  <2> QED
    BY <2>1, <2>2
<1>7. ASSUME NEW t \in Tasks, Awake(t) PROVE Registered'
  BY <1>7, SameLists DEF Awake, TypeOK, Goto, notify
<1>8. ASSUME NEW t \in Tasks, NotifyNext(t) PROVE Registered'
  <2>1. ref[t] \in States
    BY <1>8, HasState DEF NotifyNext, Goto
  <2>2. CASE waiting[ref[t]] # <<>>
    BY <1>8, <2>1, <2>2, HeadLeaves DEF NotifyNext, NotifyOne, Goto, TypeOK
  <2>3. CASE waiting[ref[t]] = <<>>
    BY <1>8, <2>3, SameLists DEF NotifyNext, NotifyOne, Goto, TypeOK
  <2> QED
    BY <2>2, <2>3
<1>9. ASSUME NEW t \in Tasks, TryLock(t) PROVE Registered'
  BY <1>9, SameLists DEF TryLock, TypeOK, Goto, notify
<1>10. ASSUME NEW t \in Tasks, Evict(t) PROVE Registered'
  BY <1>10, SameLists DEF Evict, TypeOK, Goto, notify
<1>11. ASSUME NEW t \in Tasks, DropRef(t) PROVE Registered'
  BY <1>11, SameLists DEF DropRef, TypeOK, Goto, notify
<1>12. ASSUME NEW t \in Tasks, FetchSub(t) PROVE Registered'
  BY <1>12, SameLists DEF FetchSub, TypeOK, Goto, notify
<1>13. ASSUME NEW t \in Tasks, AbandonLock(t) PROVE Registered'
  BY <1>13, SameLists DEF AbandonLock, TypeOK, Goto, notify
<1>14. ASSUME NEW t \in Tasks, AbandonWait(t) PROVE Registered'
  <2>1. ref[t] \in States
    BY <1>14, HasState DEF AbandonWait, Goto
  <2>2. CASE ~woken[t]
    BY <1>14, <2>2, AbandonUnregisters
  <2>3. CASE woken[t] /\ waiting[ref[t]] # <<>>
    BY <1>14, <2>1, <2>3, HeadLeaves DEF AbandonWait, Goto, TypeOK
  <2>4. CASE woken[t] /\ waiting[ref[t]] = <<>>
    BY <1>14, <2>4, SameLists DEF AbandonWait, Goto, TypeOK
  <2> QED
    BY <2>2, <2>3, <2>4
<1>15. ASSUME UNCHANGED vars PROVE Registered'
  BY <1>15, SameLists DEF vars, TypeOK
<1> QED
  BY <1>1, <1>2, <1>3, <1>4, <1>5, <1>6, <1>7,
     <1>8, <1>9, <1>10, <1>11, <1>12, <1>13, <1>14, <1>15 DEF Next, Proceed

(* The first of a list is one of the sleeping users.                       *)
LEMMA HeadSleeps ==
  ASSUME TypeOK, Registered, NEW s \in States, waiting[s] # <<>>
  PROVE  /\ Head(waiting[s]) \in Tasks
         /\ ref[Head(waiting[s])] = s /\ pc[Head(waiting[s])] = "await" /\ ~woken[Head(waiting[s])]
<1>1. waiting[s] \in Seq(Tasks)
  BY DEF TypeOK
<1>2. Head(waiting[s]) = waiting[s][1] /\ 1 \in 1 .. Len(waiting[s])
  <2>1. Len(waiting[s]) \in Nat /\ Len(waiting[s]) # 0
    BY <1>1, LenProperties, EmptySeq
  <2> QED
    BY <2>1
<1> QED
  BY <1>1, <1>2, HeadTailProperties DEF Registered

(* Notifications go to the first of a list, who sleeps.                    *)
LEMMA WokenSleepsStep ==
  TypeOK /\ Referring /\ Registered /\ WokenSleeps /\ [Next]_vars => WokenSleeps'
<1> SUFFICES ASSUME TypeOK, Referring, Registered, WokenSleeps, [Next]_vars PROVE WokenSleeps'
  OBVIOUS
<1>1. ASSUME NEW t \in Tasks, NEW o \in Origins, NEW c \in Caps, Call(t, o, c) PROVE WokenSleeps'
  BY <1>1 DEF TypeOK, Call, Goto, notify, WokenSleeps
<1>2. ASSUME NEW t \in Tasks, LockHosts(t) PROVE WokenSleeps'
  BY <1>2 DEF LockHosts, TypeOK, Goto, notify, WokenSleeps
<1>3. ASSUME NEW t \in Tasks, Lookup(t) PROVE WokenSleeps'
  BY <1>3 DEF Lookup, TypeOK, Goto, notify, WokenSleeps
<1>4. ASSUME NEW t \in Tasks, Load(t) PROVE WokenSleeps'
  BY <1>4 DEF Load, TypeOK, Goto, notify, WokenSleeps
<1>5. ASSUME NEW t \in Tasks, CompareExchange(t) PROVE WokenSleeps'
  BY <1>5 DEF CompareExchange, TypeOK, Goto, notify, WokenSleeps
<1>6. ASSUME NEW t \in Tasks, Poll(t) PROVE WokenSleeps'
  BY <1>6 DEF Poll, TypeOK, Goto, notify, WokenSleeps
<1>7. ASSUME NEW t \in Tasks, Awake(t) PROVE WokenSleeps'
  BY <1>7 DEF Awake, TypeOK, Goto, notify, WokenSleeps
<1>8. ASSUME NEW t \in Tasks, NotifyNext(t) PROVE WokenSleeps'
  <2>1. ref[t] \in States
    BY <1>8, HasState DEF NotifyNext, Goto
  <2>2. CASE waiting[ref[t]] # <<>>
    <3>1. pc[t] = "notify" /\ \A u \in Tasks : u # t => pc'[u] = pc[u]
      BY <1>8, <2>2 DEF NotifyNext, NotifyOne, Goto, TypeOK
    <3>2. \A u \in Tasks : woken'[u] => u = Head(waiting[ref[t]]) \/ woken[u]
      BY <1>8, <2>2 DEF NotifyNext, NotifyOne, Goto, TypeOK
    <3>3. /\ Head(waiting[ref[t]]) \in Tasks /\ Head(waiting[ref[t]]) # t
          /\ pc[Head(waiting[ref[t]])] = "await"
      BY <2>1, <2>2, <3>1, HeadSleeps
    <3> QED
      BY <3>1, <3>2, <3>3 DEF WokenSleeps
  <2>3. CASE waiting[ref[t]] = <<>>
    BY <1>8, <2>3 DEF NotifyNext, NotifyOne, Goto, TypeOK, WokenSleeps
  <2> QED
    BY <2>2, <2>3
<1>9. ASSUME NEW t \in Tasks, TryLock(t) PROVE WokenSleeps'
  BY <1>9 DEF TryLock, TypeOK, Goto, notify, WokenSleeps
<1>10. ASSUME NEW t \in Tasks, Evict(t) PROVE WokenSleeps'
  BY <1>10 DEF Evict, TypeOK, Goto, notify, WokenSleeps
<1>11. ASSUME NEW t \in Tasks, DropRef(t) PROVE WokenSleeps'
  BY <1>11 DEF DropRef, TypeOK, Goto, notify, WokenSleeps
<1>12. ASSUME NEW t \in Tasks, FetchSub(t) PROVE WokenSleeps'
  BY <1>12 DEF FetchSub, TypeOK, Goto, notify, WokenSleeps
<1>13. ASSUME NEW t \in Tasks, AbandonLock(t) PROVE WokenSleeps'
  BY <1>13 DEF AbandonLock, TypeOK, Goto, notify, WokenSleeps
<1>14. ASSUME NEW t \in Tasks, AbandonWait(t) PROVE WokenSleeps'
  <2>1. ref[t] \in States
    BY <1>14, HasState DEF AbandonWait, Goto
  <2>2. CASE woken[t] /\ waiting[ref[t]] # <<>>
    <3>1. woken[t] /\ \A u \in Tasks : u # t => pc'[u] = pc[u]
      BY <1>14, <2>2 DEF AbandonWait, Goto, TypeOK
    <3>2. \A u \in Tasks : woken'[u] => u = Head(waiting[ref[t]]) \/ (woken[u] /\ u # t)
      BY <1>14, <2>2 DEF AbandonWait, Goto, TypeOK
    <3>3. /\ Head(waiting[ref[t]]) \in Tasks /\ Head(waiting[ref[t]]) # t
          /\ pc[Head(waiting[ref[t]])] = "await"
      BY <2>1, <2>2, <3>1, HeadSleeps
    <3> QED
      BY <3>1, <3>2, <3>3 DEF WokenSleeps
  <2>3. CASE ~(woken[t] /\ waiting[ref[t]] # <<>>)
    BY <1>14, <2>3 DEF AbandonWait, Goto, TypeOK, WokenSleeps
  <2> QED
    BY <2>2, <2>3
<1>15. ASSUME UNCHANGED vars PROVE WokenSleeps'
  BY <1>15 DEF vars, TypeOK, Goto, notify, WokenSleeps
<1> QED
  BY <1>1, <1>2, <1>3, <1>4, <1>5, <1>6, <1>7,
     <1>8, <1>9, <1>10, <1>11, <1>12, <1>13, <1>14, <1>15 DEF Next, Proceed

(* Removing an element does not make a list non-empty.                     *)
LEMMA EmptyStaysEmpty == \A t : RemoveFirst(<<>>, t) = <<>>
BY EmptySeq DEF RemoveFirst

(* A future registers only when nothing is stored, and conversely.         *)
LEMMA StoredForNobodyStep ==
  TypeOK /\ Referring /\ StoredForNobody /\ [Next]_vars => StoredForNobody'
<1> SUFFICES ASSUME TypeOK, Referring, StoredForNobody, [Next]_vars PROVE StoredForNobody'
  OBVIOUS
<1>1. ASSUME NEW t \in Tasks, NEW o \in Origins, NEW c \in Caps, Call(t, o, c) PROVE StoredForNobody'
  BY <1>1 DEF TypeOK, Call, Goto, notify, StoredForNobody
<1>2. ASSUME NEW t \in Tasks, LockHosts(t) PROVE StoredForNobody'
  BY <1>2 DEF LockHosts, TypeOK, Goto, notify, StoredForNobody
<1>3. ASSUME NEW t \in Tasks, Lookup(t) PROVE StoredForNobody'
  <2>1. PICK s \in States :
          \/ UNCHANGED <<stored, waiting>>
          \/ stored' = [stored EXCEPT ![s] = FALSE] /\ waiting' = [waiting EXCEPT ![s] = <<>>]
    BY <1>3 DEF Lookup
  <2> QED
    BY <2>1 DEF TypeOK, StoredForNobody
<1>4. ASSUME NEW t \in Tasks, Load(t) PROVE StoredForNobody'
  BY <1>4 DEF Load, TypeOK, Goto, notify, StoredForNobody
<1>5. ASSUME NEW t \in Tasks, CompareExchange(t) PROVE StoredForNobody'
  BY <1>5 DEF CompareExchange, TypeOK, Goto, notify, StoredForNobody
<1>6. ASSUME NEW t \in Tasks, Poll(t) PROVE StoredForNobody'
  <2>1. ref[t] \in States
    BY <1>6, HasState DEF Poll, Goto
  <2> QED
    BY <1>6, <2>1 DEF Poll, TypeOK, StoredForNobody
<1>7. ASSUME NEW t \in Tasks, Awake(t) PROVE StoredForNobody'
  BY <1>7 DEF Awake, TypeOK, Goto, notify, StoredForNobody
<1>8. ASSUME NEW t \in Tasks, NotifyNext(t) PROVE StoredForNobody'
  <2>1. ref[t] \in States
    BY <1>8, HasState DEF NotifyNext, Goto
  <2>2. CASE waiting[ref[t]] # <<>>
    <3>1. stored' = stored /\ \A r \in States : r # ref[t] => waiting'[r] = waiting[r]
      BY <1>8, <2>2 DEF NotifyNext, NotifyOne, TypeOK
    <3> QED
      BY <2>1, <2>2, <3>1 DEF StoredForNobody
  <2>3. CASE waiting[ref[t]] = <<>>
    BY <1>8, <2>3 DEF NotifyNext, NotifyOne, TypeOK, StoredForNobody
  <2> QED
    BY <2>2, <2>3
<1>9. ASSUME NEW t \in Tasks, TryLock(t) PROVE StoredForNobody'
  BY <1>9 DEF TryLock, TypeOK, Goto, notify, StoredForNobody
<1>10. ASSUME NEW t \in Tasks, Evict(t) PROVE StoredForNobody'
  BY <1>10 DEF Evict, TypeOK, Goto, notify, StoredForNobody
<1>11. ASSUME NEW t \in Tasks, DropRef(t) PROVE StoredForNobody'
  BY <1>11 DEF DropRef, TypeOK, Goto, notify, StoredForNobody
<1>12. ASSUME NEW t \in Tasks, FetchSub(t) PROVE StoredForNobody'
  BY <1>12 DEF FetchSub, TypeOK, Goto, notify, StoredForNobody
<1>13. ASSUME NEW t \in Tasks, AbandonLock(t) PROVE StoredForNobody'
  BY <1>13 DEF AbandonLock, TypeOK, Goto, notify, StoredForNobody
<1>14. ASSUME NEW t \in Tasks, AbandonWait(t) PROVE StoredForNobody'
  <2>1. ref[t] \in States
    BY <1>14, HasState DEF AbandonWait, Goto
  <2>2. CASE ~woken[t] \/ waiting[ref[t]] # <<>>
    <3>1. stored' = stored /\ \A r \in States : r # ref[t] => waiting'[r] = waiting[r]
      BY <1>14, <2>2 DEF AbandonWait, TypeOK
    <3>2. waiting[ref[t]] = <<>> => waiting'[ref[t]] = <<>>
      BY <1>14, <2>1, <2>2, EmptyStaysEmpty DEF AbandonWait, TypeOK
    <3> QED
      BY <2>1, <2>2, <3>1, <3>2 DEF StoredForNobody
  <2>3. CASE woken[t] /\ waiting[ref[t]] = <<>>
    BY <1>14, <2>3 DEF AbandonWait, TypeOK, StoredForNobody
  <2> QED
    BY <2>2, <2>3
<1>15. ASSUME UNCHANGED vars PROVE StoredForNobody'
  BY <1>15 DEF vars, TypeOK, Goto, notify, StoredForNobody
<1> QED
  BY <1>1, <1>2, <1>3, <1>4, <1>5, <1>6, <1>7,
     <1>8, <1>9, <1>10, <1>11, <1>12, <1>13, <1>14, <1>15 DEF Next, Proceed

-----------------------------------------------------------------------------
(* Somebody who is awake on s and is not the task of the step remains so.  *)
LEMMA StaysOnTheMove ==
  ASSUME NEW s \in States, NEW u \in Tasks, ref[u] = s,
         pc[u] \in {"load", "cas", "notify"} \/ (pc[u] = "await" /\ woken[u]),
         pc'[u] = pc[u], ref'[u] = ref[u], woken[u] => woken'[u]
  PROVE  OnTheMove(s)'
BY DEF OnTheMove, Users

(* A step that gives s no new reason to worry and takes no help from it.   *)
LEMMA BalanceKept ==
  ASSUME Balanced, NEW s \in States, NEW t \in Tasks,
         active'[s] = 0 => active[s] = 0,
         (\E u \in Users(s)' : pc'[u] = "poll") => \E u \in Users(s) : pc[u] = "poll",
         waiting'[s] # <<>> => waiting[s] # <<>>,
         stored[s] => stored'[s],
         ~(t \in Users(s) /\ (pc[t] \in {"load", "cas", "notify"} \/ (pc[t] = "await" /\ woken[t]))),
         \A u \in Tasks : u # t => pc'[u] = pc[u] /\ ref'[u] = ref[u] /\ (woken[u] => woken'[u]),
         (\E u \in Users(s)' : pc'[u] = "poll") \/ waiting'[s] # <<>>,
         active'[s] = 0
  PROVE  OnTheMove(s)' \/ stored'[s]
<1>1. OnTheMove(s) \/ stored[s]
  BY DEF Balanced
<1>2. CASE OnTheMove(s)
  <2>1. PICK u \in Users(s) : pc[u] \in {"load", "cas", "notify"} \/ (pc[u] = "await" /\ woken[u])
    BY <1>2 DEF OnTheMove
  <2>2. u # t
    BY <2>1
  <2> QED
    BY <2>1, <2>2, StaysOnTheMove DEF Users
<1> QED
  BY <1>1, <1>2

(* Whoever stops being awake beside a sleeper has taken or passed on what  *)
(* there was, or leaves no room.                                           *)
LEMMA BalancedStep ==
  Counting /\ Notifying /\ Balanced /\ [Next]_vars => Balanced'
<1> SUFFICES ASSUME Counting, Notifying, Balanced, [Next]_vars, NEW s \in States,
                    (\E u \in Users(s)' : pc'[u] = "poll") \/ waiting'[s] # <<>>,
                    active'[s] = 0
             PROVE  OnTheMove(s)' \/ stored'[s]
  BY DEF Balanced
<1> DEFINE Goal == OnTheMove(s)' \/ stored'[s]
<1>0. TypeOK /\ Referring /\ Counted /\ Registered /\ WokenSleeps /\ StoredForNobody
  BY DEF Counting, Notifying
<1> HIDE DEF Goal
<1>1. ASSUME NEW t \in Tasks, NEW o \in Origins, NEW c \in Caps, Call(t, o, c) PROVE Goal
  BY <1>0, <1>1, BalanceKept DEF Call, TypeOK, Goto, notify, Users, Goal
<1>2. ASSUME NEW t \in Tasks, LockHosts(t) PROVE Goal
  BY <1>0, <1>2, BalanceKept DEF LockHosts, TypeOK, Goto, notify, Users, Goal
<1>3. ASSUME NEW t \in Tasks, Lookup(t) PROVE Goal
  <2>1. PICK r \in States :
          /\ \/ UNCHANGED <<active, stored, waiting>>
             \/ /\ active' = [active EXCEPT ![r] = 0]
                /\ stored' = [stored EXCEPT ![r] = FALSE]
                /\ waiting' = [waiting EXCEPT ![r] = <<>>]
          /\ ref' = [ref EXCEPT ![t] = r]
    BY <1>3 DEF Lookup
  <2>2. pc[t] = "lookup" /\ pc' = [pc EXCEPT ![t] = "load"] /\ woken' = woken
    BY <1>3 DEF Lookup, Goto
  <2>3. CASE r = s
    <3>1. t \in Users(s)' /\ pc'[t] = "load"
      BY <1>0, <2>1, <2>2, <2>3 DEF TypeOK, Users
    <3> QED
      BY <3>1 DEF OnTheMove, Goal
  <2>4. CASE r # s
    <3>1. active'[s] = active[s] /\ stored'[s] = stored[s] /\ waiting'[s] = waiting[s]
      BY <1>0, <2>1, <2>4 DEF TypeOK
    <3>2. \A u \in Tasks : u # t => pc'[u] = pc[u] /\ ref'[u] = ref[u]
      BY <1>0, <2>1, <2>2 DEF TypeOK
    <3>3. pc'[t] = "load"
      BY <1>0, <2>2 DEF TypeOK
    <3> QED
      BY <2>2, <3>1, <3>2, <3>3, BalanceKept DEF Users, Goal
  <2> QED
    BY <2>3, <2>4
<1>4. ASSUME NEW t \in Tasks, Load(t) PROVE Goal
  <2>1. ref[t] \in States /\ ref' = ref /\ active' = active /\ stored' = stored /\ waiting' = waiting
        /\ woken' = woken /\ pc[t] = "load"
    BY <1>0, <1>4, HasState DEF Load, Goto, notify
  <2>2. \A u \in Tasks : u # t => pc'[u] = pc[u]
    BY <1>0, <1>4 DEF Load, Goto, TypeOK
  <2>3. CASE ref[t] = s
    <3>1. active[s] = 0 /\ cap[t] \in Nat \ {0}
      BY <1>0, <2>1, CapAssumption DEF TypeOK
    <3>2. pc'[t] = "cas"
      BY <1>0, <1>4, <2>3, <3>1 DEF Load, Goto, TypeOK
    <3> QED
      BY <2>1, <2>3, <3>2 DEF OnTheMove, Users, Goal
  <2>4. CASE ref[t] # s
    BY <2>1, <2>2, <2>4, BalanceKept DEF Users, Goal
  <2> QED
    BY <2>3, <2>4
<1>5. ASSUME NEW t \in Tasks, CompareExchange(t) PROVE Goal
  <2>1. ref[t] \in States /\ ref' = ref /\ stored' = stored /\ waiting' = waiting
        /\ woken' = woken /\ pc[t] = "cas"
    BY <1>0, <1>5, HasState DEF CompareExchange, Goto, notify
  <2>2. \A u \in Tasks : u # t => pc'[u] = pc[u]
    BY <1>0, <1>5 DEF CompareExchange, Goto, TypeOK
  <2>3. CASE ref[t] = s
    <3>1. active[s] # seen[t]
      <4>1. CASE active[s] = seen[t]
        <5>1. active'[s] = active[s] + 1 /\ active[s] \in Nat
          BY <1>0, <1>5, <2>3, <4>1 DEF CompareExchange, TypeOK
        <5> QED
          BY <5>1
      <4> QED
        BY <4>1
    <3>2. pc'[t] = "load"
      BY <1>0, <1>5, <2>3, <3>1 DEF CompareExchange, Goto, TypeOK
    <3> QED
      BY <2>1, <2>3, <3>2 DEF OnTheMove, Users, Goal
  <2>4. CASE ref[t] # s
    <3>1. active'[s] = active[s]
      BY <1>0, <1>5, <2>4 DEF CompareExchange, TypeOK
    <3> QED
      BY <2>1, <2>2, <2>4, <3>1, BalanceKept DEF Users, Goal
  <2> QED
    BY <2>3, <2>4
<1>6. ASSUME NEW t \in Tasks, Poll(t) PROVE Goal
  <2>1. ref[t] \in States /\ ref' = ref /\ active' = active /\ woken' = woken /\ pc[t] = "poll"
    BY <1>0, <1>6, HasState DEF Poll, Goto
  <2>2. \A u \in Tasks : u # t => pc'[u] = pc[u]
    BY <1>0, <1>6 DEF Poll, Goto, TypeOK
  <2>3. CASE ref[t] = s /\ stored[s]
    <3>1. pc'[t] = "load"
      BY <1>0, <1>6, <2>3 DEF Poll, Goto, TypeOK
    <3> QED
      BY <2>1, <2>3, <3>1 DEF OnTheMove, Users, Goal
  <2>4. CASE ref[t] = s /\ ~stored[s]
    <3>1. t \in Users(s) /\ active[s] = 0
      BY <2>1, <2>4 DEF Users
    <3>2. OnTheMove(s)
      BY <2>1, <2>4, <3>1 DEF Balanced
    <3>3. PICK u \in Users(s) : pc[u] \in {"load", "cas", "notify"} \/ (pc[u] = "await" /\ woken[u])
      BY <3>2 DEF OnTheMove
    <3> QED
      BY <2>1, <2>2, <3>3, StaysOnTheMove DEF Users, Goal
  <2>5. CASE ref[t] # s
    <3>1. stored'[s] = stored[s] /\ waiting'[s] = waiting[s]
      BY <1>0, <1>6, <2>5 DEF Poll, TypeOK
    <3> QED
      BY <2>1, <2>2, <2>5, <3>1, BalanceKept DEF Users, Goal
  <2> QED
    BY <2>3, <2>4, <2>5
<1>7. ASSUME NEW t \in Tasks, Awake(t) PROVE Goal
  <2>1. ref[t] \in States /\ ref' = ref /\ active' = active /\ stored' = stored /\ waiting' = waiting
    BY <1>0, <1>7, HasState DEF Awake, Goto
  <2>2. /\ pc'[t] = "load"
        /\ \A u \in Tasks : u # t => pc'[u] = pc[u] /\ woken'[u] = woken[u]
    BY <1>0, <1>7 DEF Awake, Goto, TypeOK
  <2>3. CASE ref[t] = s
    BY <2>1, <2>2, <2>3 DEF OnTheMove, Users, Goal
  <2>4. CASE ref[t] # s
    BY <2>1, <2>2, <2>4, BalanceKept DEF Users, Goal
  <2> QED
    BY <2>3, <2>4
<1>8. ASSUME NEW t \in Tasks, NotifyNext(t) PROVE Goal
  <2>1. ref[t] \in States /\ ref' = ref /\ active' = active /\ pc[t] = "notify" /\ NotifyOne(ref[t])
    BY <1>0, <1>8, HasState DEF NotifyNext, Goto
  <2>2. pc'[t] # "poll" /\ \A u \in Tasks : u # t => pc'[u] = pc[u]
    BY <1>0, <1>8 DEF NotifyNext, Goto, TypeOK
  <2>3. CASE ref[t] = s /\ waiting[s] # <<>>
    <3> DEFINE h == Head(waiting[s])
    <3>1. h \in Tasks /\ ref[h] = s /\ pc[h] = "await"
      BY <1>0, <2>3, HeadSleeps
    <3>2. woken'[h]
      BY <1>0, <2>1, <2>3, <3>1 DEF NotifyOne, TypeOK
    <3>3. h # t
      BY <2>1, <3>1
    <3> HIDE DEF h
    <3> QED
      BY <2>1, <2>2, <3>1, <3>2, <3>3 DEF OnTheMove, Users, Goal
  <2>4. CASE ref[t] = s /\ waiting[s] = <<>>
    BY <1>0, <2>1, <2>4 DEF NotifyOne, TypeOK, Goal
  <2>5. CASE ref[t] # s
    <3>1. stored'[s] = stored[s] /\ waiting'[s] = waiting[s] /\ \A u \in Tasks : woken[u] => woken'[u]
      BY <1>0, <2>1, <2>5 DEF NotifyOne, TypeOK
    <3> QED
      BY <2>1, <2>2, <2>5, <3>1, BalanceKept DEF Users, Goal
  <2> QED
    BY <2>3, <2>4, <2>5
<1>9. ASSUME NEW t \in Tasks, TryLock(t) PROVE Goal
  BY <1>0, <1>9, BalanceKept DEF TryLock, TypeOK, Goto, notify, Users, Goal
<1>10. ASSUME NEW t \in Tasks, Evict(t) PROVE Goal
  BY <1>0, <1>10, BalanceKept DEF Evict, TypeOK, Goto, notify, Users, Goal
<1>11. ASSUME NEW t \in Tasks, DropRef(t) PROVE Goal
  BY <1>0, <1>11, BalanceKept DEF DropRef, TypeOK, Goto, notify, Users, Goal
<1>12. ASSUME NEW t \in Tasks, FetchSub(t) PROVE Goal
  <2>1. ref[t] \in States /\ ref' = ref /\ stored' = stored /\ waiting' = waiting /\ woken' = woken
    BY <1>0, <1>12, HasState DEF FetchSub, Goto, notify
  <2>2. pc'[t] = "notify" /\ \A u \in Tasks : u # t => pc'[u] = pc[u]
    BY <1>0, <1>12 DEF FetchSub, Goto, TypeOK
  <2>3. CASE ref[t] = s
    BY <2>1, <2>2, <2>3 DEF OnTheMove, Users, Goal
  <2>4. CASE ref[t] # s
    <3>1. active'[s] = active[s]
      BY <1>0, <1>12, <2>4 DEF FetchSub, TypeOK
    <3> QED
      BY <2>1, <2>2, <2>4, <3>1, BalanceKept DEF Users, Goal
  <2> QED
    BY <2>3, <2>4
<1>13. ASSUME NEW t \in Tasks, AbandonLock(t) PROVE Goal
  BY <1>0, <1>13, BalanceKept DEF AbandonLock, TypeOK, Goto, notify, Users, Goal
<1>14. ASSUME NEW t \in Tasks, AbandonWait(t) PROVE Goal
  <2>1. ref[t] \in States /\ active' = active /\ pc[t] = "await"
    BY <1>0, <1>14, HasState DEF AbandonWait, Goto
  <2>2. /\ pc'[t] = "idle"
        /\ \A u \in Tasks : u # t => pc'[u] = pc[u] /\ ref'[u] = ref[u] /\ (woken[u] => woken'[u])
    BY <1>0, <1>14 DEF AbandonWait, Goto, TypeOK
  <2>3. CASE ref[t] # s
    <3>1. stored'[s] = stored[s] /\ waiting'[s] = waiting[s]
      BY <1>0, <1>14, <2>3 DEF AbandonWait, TypeOK
    <3> QED
      BY <2>1, <2>2, <2>3, <3>1, BalanceKept DEF Users, Goal
  <2>4. CASE ref[t] = s /\ ~woken[t]
    <3>1. stored' = stored /\ (waiting[s] = <<>> => waiting'[s] = <<>>)
      BY <1>0, <1>14, <2>4, EmptyStaysEmpty DEF AbandonWait, TypeOK
    <3> QED
      BY <2>1, <2>2, <2>4, <3>1, BalanceKept DEF Users, Goal
  <2>5. CASE ref[t] = s /\ woken[t] /\ waiting[s] # <<>>
    <3> DEFINE h == Head(waiting[s])
    <3>1. h \in Tasks /\ ref[h] = s /\ pc[h] = "await" /\ ~woken[h]
      BY <1>0, <2>5, HeadSleeps
    <3>2. woken'[h]
      BY <1>0, <1>14, <2>5, <3>1 DEF AbandonWait, TypeOK
    <3>3. h # t
      BY <2>5, <3>1
    <3> HIDE DEF h
    <3> QED
      BY <2>2, <3>1, <3>2, <3>3 DEF OnTheMove, Users, Goal
  <2>6. CASE ref[t] = s /\ woken[t] /\ waiting[s] = <<>>
    BY <1>0, <1>14, <2>6 DEF AbandonWait, TypeOK, Goal
  <2> QED
    BY <2>3, <2>4, <2>5, <2>6
<1>15. ASSUME UNCHANGED vars PROVE Goal
  BY <1>15 DEF vars, Balanced, OnTheMove, Users, Goal
<1>g. Goal
  BY <1>1, <1>2, <1>3, <1>4, <1>5, <1>6, <1>7,
     <1>8, <1>9, <1>10, <1>11, <1>12, <1>13, <1>14, <1>15 DEF Next, Proceed
<1> QED
  BY <1>g DEF Goal

-----------------------------------------------------------------------------
(* The invariant without Balanced.                                         *)
CountingInv == Counting /\ Notifying /\ OneStatePerOrigin /\ CapRespected

(* All parts but Balanced are inductive together.                          *)
LEMMA CountingIsInvariant == Spec => []CountingInv
<1>1. Init => CountingInv
  <2> SUFFICES ASSUME Init PROVE CountingInv
    OBVIOUS
  <2>1. <<>> \in Seq(Tasks) /\ Len(<<>>) = 0
    BY EmptySeq
  <2>2. TypeOK
    BY <2>1, NullAssumption DEF Init, TypeOK, PCs
  <2>3. Referring /\ SawRoom /\ WokenSleeps /\ StoredForNobody /\ OneStatePerOrigin /\ CapRespected
    BY DEF Init, Referring, SawRoom, WokenSleeps, StoredForNobody, OneStatePerOrigin, CapRespected
  <2>4. Counted
    <3>1. \A s \in States : Holders(s) = {}
      BY DEF Init, Holders, Users
    <3> QED
      BY <3>1, FS_EmptySet DEF Init, Counted
  <2>5. Registered
    BY <2>1 DEF Init, Registered
  <2> QED
    BY <2>2, <2>3, <2>4, <2>5 DEF CountingInv, Counting, Notifying
<1>2. CountingInv /\ [Next]_vars => CountingInv'
  BY TypeStep, ReferringStep, CountedStep, SawRoomStep, OneStateStep, CapStep,
     RegisteredStep, WokenSleepsStep, StoredForNobodyStep
     DEF CountingInv, Counting, Notifying
<1> QED
  BY <1>1, <1>2, PTL DEF Spec

(***************************************************************************)
(* The types; in particular the counter of live permits never runs below   *)
(* zero in drop(), for any number of tasks, origins and caps.              *)
(***************************************************************************)
THEOREM TypeCorrect == Spec => []TypeOK
<1>1. CountingInv => TypeOK
  BY DEF CountingInv, Counting
<1> QED
  BY <1>1, CountingIsInvariant, PTL

(***************************************************************************)
(* retain() and the eviction in drop() never part two tasks of one origin: *)
(* whoever waits for or holds a permit refers to the entry of the map.     *)
(***************************************************************************)
THEOREM EntriesAreShared == Spec => []OneStatePerOrigin
<1>1. CountingInv => OneStatePerOrigin
  BY DEF CountingInv
<1> QED
  BY <1>1, CountingIsInvariant, PTL

(***************************************************************************)
(* The load and compare-exchange loop never lets more tasks in than a cap  *)
(* allows, whatever different caps the tasks of an origin bring.           *)
(***************************************************************************)
THEOREM CapsHold == Spec => []CapRespected
<1>1. CountingInv => CapRespected
  BY DEF CountingInv
<1> QED
  BY <1>1, CountingIsInvariant, PTL

(***************************************************************************)
(* No future sleeps on a HostState without live permits unless somebody    *)
(* awake is on the way, although notify_one() stores one notification and  *)
(* a notified future may be dropped.                                       *)
(***************************************************************************)
THEOREM WaitersAreNotStranded == Spec => []NoStrandedWaiter
<1>1. Init => Balanced
  BY DEF Init, Balanced, Users
<1>2. CountingInv /\ Balanced /\ [Next]_vars => Balanced'
  BY BalancedStep DEF CountingInv
<1>3. CountingInv /\ Balanced => NoStrandedWaiter
  BY DEF CountingInv, Notifying, StoredForNobody, Balanced, NoStrandedWaiter
<1> QED
  BY <1>1, <1>2, <1>3, CountingIsInvariant, PTL DEF Spec
=============================================================================
