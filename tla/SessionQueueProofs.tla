------------------------------ MODULE SessionQueueProofs ------------------------------
(***************************************************************************)
(* What TLAPS proves of the front end's queue (SessionQueue), for every    *)
(* set of requests and downloads, every queue that the first session finds *)
(* and every number of restarts, failures and clicks.                      *)
(*                                                                         *)
(* The lemmas on the list and the page come first, then one that says what *)
(* each action does (Facts), then the parts of the inductive invariant,    *)
(* each with the lemma that every step keeps it, then the theorems.        *)
(***************************************************************************)
EXTENDS SessionQueue, TLAPS, WellFoundedInduction

-----------------------------------------------------------------------------
(* Natural numbers, and the queue as a list.                               *)

\* The natural numbers' order.
Less == {ss \in Nat \X Nat: ss[1] < ss[2]}

\* The order of the natural numbers is well founded, stated of a set so that it can be
\* cited.
LEMMA LessFounded == IsWellFoundedOn(Less, Nat)
<1>1. IsWellFoundedOn(OpToRel(<, Nat), Nat)
  BY NatLessThanWellFounded
<1>2. OpToRel(<, Nat) = Less
  BY DEF OpToRel, Less
<1>3. QED
  BY <1>1, <1>2

\* A set of numbers that is not empty has a least element.
LEMMA LeastNatural ==
  ASSUME NEW T, T \subseteq Nat, T # {}
  PROVE  \E x \in T: \A y \in T: x <= y
<1>1. ASSUME NEW x \in Nat, NEW y \in Nat, y < x
      PROVE  <<y, x>> \in Less
  <2>1. <<y, x>> \in Nat \X Nat /\ <<y, x>>[1] < <<y, x>>[2]
    BY <1>1
  <2>2. QED
    BY <2>1 DEF Less
<1>2. PICK x \in T: \A y \in T: <<y, x>> \notin Less
  BY LessFounded, WFMin
<1>3. ASSUME NEW y \in T PROVE x <= y
  <2>1. x \in Nat /\ y \in Nat
    OBVIOUS
  <2>2. ~(y < x)
    BY <1>1, <1>2, <2>1
  <2>3. QED
    BY <2>1, <2>2
<1>4. QED
  BY <1>3

\* Induction, with the property as the set of the numbers that have it.
LEMMA Induction ==
  ASSUME NEW S, 0 \in S, \A n \in Nat: n \in S => n + 1 \in S
  PROVE  Nat \subseteq S
<1>1. SUFFICES ASSUME Nat \ S # {}
               PROVE  FALSE
  OBVIOUS
<1>2. PICK x \in Nat \ S: \A y \in Nat \ S: x <= y
  BY <1>1, LeastNatural
<1>3. x # 0 /\ x - 1 \in Nat /\ ~(x <= x - 1) /\ x = (x - 1) + 1
  BY <1>2
<1>4. x - 1 \in S
  BY <1>2, <1>3
<1>5. QED
  BY <1>2, <1>3, <1>4

\* The download i, if it is there, has one of these statuses.
Within(l, i, S) == \A k \in DOMAIN l: l[k].id = i => l[k].status \in S
\* All places are below n.
Below(l, n) == \A k \in DOMAIN l: l[k].place < n
\* m is l but for the status s of the downloads I.
Recast(l, m, I, s) ==
  /\ DOMAIN m = DOMAIN l
  /\ \A k \in DOMAIN l: /\ m[k].id = l[k].id /\ m[k].place = l[k].place
                        /\ m[k].status = IF l[k].id \in I THEN s ELSE l[k].status

\* What the items of a queue are.
LEMMA ListFacts ==
  ASSUME NEW l \in Lists
  PROVE  /\ DOMAIN l = 1 .. Len(l) /\ Len(l) \in Nat
         /\ \A k \in DOMAIN l: /\ l[k] \in Items
                                /\ l[k].id \in Ids /\ l[k].place \in Nat /\ l[k].status \in Statuses
<1>1. DOMAIN l = 1 .. Len(l) /\ Len(l) \in Nat /\ \A k \in DOMAIN l: l[k] \in Items
  BY DEF Lists
<1>2. \A x \in Items: x.id \in Ids /\ x.place \in Nat /\ x.status \in Statuses
  BY DEF Items
<1>3. QED
  BY <1>1, <1>2

\* Another status leaves an item what it is otherwise.
LEMMA ItemRecast ==
  ASSUME NEW x \in Items, NEW s \in Statuses
  PROVE  /\ [x EXCEPT !.status = s] \in Items
         /\ [x EXCEPT !.status = s].id = x.id
         /\ [x EXCEPT !.status = s].place = x.place
         /\ [x EXCEPT !.status = s].status = s
BY DEF Items

\* updateDownload gives one download a status, and touches nothing else of the queue.
LEMMA WithStatusRecasts ==
  ASSUME NEW l \in Lists, NEW i, NEW s \in Statuses
  PROVE  WithStatus(l, i, s) \in Lists /\ Recast(l, WithStatus(l, i, s), {i}, s)
<1>1. \A k \in DOMAIN l: l[k] \in Items
  BY DEF Lists
<1>2. \A k \in DOMAIN l: /\ [l[k] EXCEPT !.status = s] \in Items
                         /\ [l[k] EXCEPT !.status = s].id = l[k].id
                         /\ [l[k] EXCEPT !.status = s].place = l[k].place
                         /\ [l[k] EXCEPT !.status = s].status = s
  BY <1>1, ItemRecast
<1>3. WithStatus(l, i, s) \in Lists
  BY <1>1, <1>2 DEF Lists, WithStatus
<1>4. Recast(l, WithStatus(l, i, s), {i}, s)
  BY <1>1, <1>2 DEF Lists, WithStatus, Recast
<1>5. QED
  BY <1>3, <1>4

\* So does executeDownload, for several downloads.
LEMMA QueuedRecasts ==
  ASSUME NEW l \in Lists, NEW I,
         NEW m, m = [k \in DOMAIN l |-> IF l[k].id \in I THEN [l[k] EXCEPT !.status = "queued"] ELSE l[k]]
  PROVE  m \in Lists /\ Recast(l, m, I, "queued")
<1>1. \A k \in DOMAIN l: l[k] \in Items
  BY DEF Lists
<1>2. \A k \in DOMAIN l: /\ [l[k] EXCEPT !.status = "queued"] \in Items
                         /\ [l[k] EXCEPT !.status = "queued"].id = l[k].id
                         /\ [l[k] EXCEPT !.status = "queued"].place = l[k].place
                         /\ [l[k] EXCEPT !.status = "queued"].status = "queued"
  <2>1. "queued" \in Statuses
    BY DEF Statuses
  <2>2. QED
    BY <1>1, <2>1, ItemRecast
<1>3. m \in Lists
  BY <1>1, <1>2 DEF Lists
<1>4. Recast(l, m, I, "queued")
  BY <1>1, <1>2 DEF Lists, Recast
<1>5. QED
  BY <1>3, <1>4

\* Giving statuses keeps the downloads of a queue, their places and that none comes
\* twice.
LEMMA RecastFacts ==
  ASSUME NEW l \in Lists, NEW m \in Lists, NEW I, NEW s, Recast(l, m, I, s)
  PROVE  /\ \A i: Has(m, i) <=> Has(l, i)
         /\ Distinct(m) <=> Distinct(l)
         /\ \A n: Below(m, n) <=> Below(l, n)
         /\ l = << >> => m = << >>
         /\ \A i, S: i \notin I => (Within(m, i, S) <=> Within(l, i, S))
         /\ \A i, S: s \in S /\ Within(l, i, S) => Within(m, i, S)
         /\ \A i, S: i \in I /\ s \in S => Within(m, i, S)
<1>1. (\A i: Has(m, i) <=> Has(l, i)) /\ (Distinct(m) <=> Distinct(l)) /\ \A n: Below(m, n) <=> Below(l, n)
  BY DEF Recast, Has, Distinct, Below
<1>2. l = << >> => m = << >>
  BY DEF Recast, Lists
<1>3. (\A i, S: i \notin I => (Within(m, i, S) <=> Within(l, i, S)))
   /\ (\A i, S: s \in S /\ Within(l, i, S) => Within(m, i, S))
   /\ (\A i, S: i \in I /\ s \in S => Within(m, i, S))
  BY DEF Recast, Within
<1>4. QED
  BY <1>1, <1>2, <1>3

\* What the store hands out names the downloads of the file, each once.
LEMMA ReopenedFacts ==
  ASSUME NEW l \in Lists
  PROVE  /\ Reopened(l) \in Lists
         /\ \A i: Has(Reopened(l), i) <=> Has(l, i)
         /\ Distinct(l) => Distinct(Reopened(l))
<1>1. \A k \in DOMAIN l: l[k] \in Items
  BY DEF Lists
<1>2. \A k \in DOMAIN l: /\ [l[k] EXCEPT !.status = "paused"] \in Items
                         /\ [l[k] EXCEPT !.status = "paused"].id = l[k].id
                         /\ [l[k] EXCEPT !.status = "paused"].place = l[k].place
  <2>1. "paused" \in Statuses
    BY DEF Statuses
  <2>2. QED
    BY <1>1, <2>1, ItemRecast
<1>3. Reopened(l) \in Lists
  BY <1>1, <1>2 DEF Lists, Reopened
<1>4. DOMAIN Reopened(l) = DOMAIN l /\ \A k \in DOMAIN l: Reopened(l)[k].id = l[k].id /\ Reopened(l)[k].place = l[k].place
  BY <1>1, <1>2 DEF Lists, Reopened
<1>5. QED
  BY <1>3, <1>4 DEF Has, Distinct

\* setDownloads with an item: its download is in the queue afterwards, the others are
\* what they were, and a place that is above all of the queue stays unique.
LEMMA WithItemFacts ==
  ASSUME NEW l \in Lists, NEW item \in Items
  PROVE  /\ WithItem(l, item) \in Lists
         /\ \A i: Has(WithItem(l, item), i) <=> Has(l, i) \/ i = item.id
         /\ Distinct(l) /\ Below(l, item.place) => Distinct(WithItem(l, item))
         /\ Below(l, item.place) => Below(WithItem(l, item), item.place + 1)
         /\ Within(WithItem(l, item), item.id, {item.status})
         /\ \A i, S: i # item.id => (Within(WithItem(l, item), i, S) <=> Within(l, i, S))
<1> DEFINE m == WithItem(l, item)
<1>1. CASE Has(l, item.id)
  <2>1. m = [k \in DOMAIN l |-> IF l[k].id = item.id THEN item ELSE l[k]]
    BY <1>1 DEF WithItem
  <2>2. m \in Lists /\ DOMAIN m = DOMAIN l /\ \A k \in DOMAIN l: m[k] = IF l[k].id = item.id THEN item ELSE l[k]
    BY <2>1 DEF Lists
  <2>3. \A k \in DOMAIN l: l[k] \in Items /\ l[k].place \in Nat
    BY ListFacts
  <2>4. item.place \in Nat
    BY DEF Items
  <2> HIDE DEF m
  <2>5. \A k \in DOMAIN l: m[k].id = l[k].id /\ (m[k] = l[k] \/ m[k] = item)
    BY <2>2
  <2>6. \A i: Has(m, i) <=> Has(l, i) \/ i = item.id
    BY <1>1, <2>2, <2>5 DEF Has
  <2>7. Below(l, item.place) => Below(m, item.place + 1)
    BY <2>2, <2>3, <2>4, <2>5 DEF Below
  <2>8. ASSUME Distinct(l), Below(l, item.place), NEW j \in DOMAIN m, NEW k \in DOMAIN m,
               m[j].place = m[k].place \/ m[j].id = m[k].id
        PROVE  j = k
    <3>1. CASE m[j].id = m[k].id
      BY <2>2, <2>5, <2>8, <3>1 DEF Distinct
    <3>2. CASE m[j].id # m[k].id
      <4>1. l[j].place < item.place /\ l[k].place < item.place
        BY <2>2, <2>8 DEF Below
      <4>2. l[j].place # item.place /\ l[k].place # item.place
        BY <4>1, <2>2, <2>3, <2>4
      <4>3. ~(l[j].id = item.id /\ l[k].id = item.id)
        BY <2>2, <2>5, <3>2
      <4>4. l[j].place = l[k].place
        BY <2>2, <2>8, <3>2, <4>2, <4>3
      <4>5. QED
        BY <2>2, <2>8, <4>4 DEF Distinct
    <3>3. QED
      BY <3>1, <3>2
  <2>9. Within(m, item.id, {item.status}) /\ \A i, S: i # item.id => (Within(m, i, S) <=> Within(l, i, S))
    BY <2>2 DEF Within
  <2>10. QED
    BY <2>2, <2>6, <2>7, <2>8, <2>9 DEF Distinct, m
<1>2. CASE ~Has(l, item.id)
  <2>1. m = <<item>> \o l
    BY <1>2 DEF WithItem
  <2>2. m \in Lists /\ DOMAIN m = 1 .. Len(l) + 1 /\ m[1] = item /\ \A k \in DOMAIN l: m[k + 1] = l[k]
    BY <2>1 DEF Lists
  <2>3. DOMAIN l = 1 .. Len(l) /\ Len(l) \in Nat /\ \A k \in DOMAIN l: l[k] \in Items /\ l[k].place \in Nat
    BY ListFacts
  <2>4. item.place \in Nat
    BY DEF Items
  <2> HIDE DEF m
  <2>5. \A k \in DOMAIN m: (k = 1 /\ m[k] = item) \/ (k - 1 \in DOMAIN l /\ m[k] = l[k - 1])
    BY <2>2, <2>3
  <2>6. \A k \in DOMAIN l: k + 1 \in DOMAIN m /\ m[k + 1] = l[k]
    BY <2>2, <2>3
  <2>6a. 1 \in DOMAIN m /\ m[1] = item
    BY <2>2, <2>3
  <2>7. \A i: Has(m, i) <=> Has(l, i) \/ i = item.id
    BY <2>5, <2>6, <2>6a DEF Has
  <2>8. Below(l, item.place) => Below(m, item.place + 1)
    BY <2>3, <2>4, <2>5 DEF Below
  <2>9. ASSUME Distinct(l), Below(l, item.place), NEW j \in DOMAIN m, NEW k \in DOMAIN m,
               m[j].place = m[k].place \/ m[j].id = m[k].id
        PROVE  j = k
    <3>1. \A n \in DOMAIN l: l[n].place # item.place /\ l[n].id # item.id
      BY <1>2, <2>3, <2>4, <2>9 DEF Below, Has
    <3>2. j \in Int /\ k \in Int
      BY <2>2, <2>3
    <3>3. j - 1 \in DOMAIN l /\ k - 1 \in DOMAIN l /\ m[j] = l[j - 1] /\ m[k] = l[k - 1] => j - 1 = k - 1
      BY <2>9 DEF Distinct
    <3>4. QED
      BY <2>5, <2>9, <3>1, <3>2, <3>3
  <2>10. Within(m, item.id, {item.status}) /\ \A i, S: i # item.id => (Within(m, i, S) <=> Within(l, i, S))
    BY <1>2, <2>5, <2>6, <2>6a DEF Within, Has
  <2>11. QED
    BY <2>2, <2>7, <2>8, <2>9, <2>10 DEF Distinct, m
<1>3. QED
  BY <1>1, <1>2

\* A download that is in a queue once is the one that a search finds.
LEMMA Unique ==
  ASSUME NEW l \in Lists, Distinct(l), NEW k \in DOMAIN l
  PROVE  ItemOf(l, l[k].id) = l[k]
<1>1. \A j \in DOMAIN l: l[j].id = l[k].id => j = k
  BY DEF Distinct
<1>2. (CHOOSE j \in DOMAIN l: l[j].id = l[k].id) = k
  BY <1>1
<1>3. QED
  BY <1>2 DEF ItemOf

\* The next place is above all that the queue has (the greatest place of a list
\* exists: by induction on its bounds).
LEMMA NextPlaceFacts ==
  ASSUME NEW l \in Lists
  PROVE  NextPlace(l) \in Nat /\ Below(l, NextPlace(l))
<1>1. DOMAIN l = 1 .. Len(l) /\ Len(l) \in Nat /\ \A k \in DOMAIN l: l[k].place \in Nat
  BY ListFacts
<1>2. CASE l = << >>
  BY <1>1, <1>2 DEF NextPlace, Below
<1>3. CASE l # << >>
  <2> DEFINE Bounds(n) == {b \in Nat: \A k \in DOMAIN l: k <= n => l[k].place <= b}
             S == {n \in Nat: Bounds(n) # {}}
             Places == {l[k].place: k \in DOMAIN l}
  <2>1. 0 \in S
    <3>1. 0 \in Bounds(0)
      BY <1>1
    <3>2. QED
      BY <3>1
  <2>2. ASSUME NEW n \in Nat, n \in S PROVE n + 1 \in S
    <3>1. PICK b \in Nat: \A k \in DOMAIN l: k <= n => l[k].place <= b
      BY <2>2
    <3>2. CASE n + 1 \in DOMAIN l
      <4>1. PICK c \in Nat: b <= c /\ l[n + 1].place <= c
        <5>0. l[n + 1].place \in Nat
          BY <1>1, <3>2
        <5>1. b + l[n + 1].place \in Nat /\ b <= b + l[n + 1].place /\ l[n + 1].place <= b + l[n + 1].place
          BY <5>0
        <5>2. QED
          BY <5>1
      <4>2. ASSUME NEW k \in DOMAIN l, k <= n + 1 PROVE l[k].place <= c
        BY <1>1, <3>1, <3>2, <4>1, <4>2
      <4>3. c \in Bounds(n + 1)
        BY <4>2
      <4>4. QED
        <5> HIDE DEF Bounds
        <5>1. QED
          BY <4>3
    <3>3. CASE n + 1 \notin DOMAIN l
      <4>1. \A k \in DOMAIN l: k <= n + 1 => l[k].place <= b
        BY <1>1, <3>1, <3>3
      <4>2. QED
        BY <4>1
    <3>4. QED
      BY <3>2, <3>3
  <2>3. Len(l) \in S
    <3> HIDE DEF S
    <3>1. Nat \subseteq S
      BY <2>1, <2>2, Induction
    <3>2. QED
      BY <1>1, <3>1
  <2>4. Bounds(Len(l)) # {} /\ Bounds(Len(l)) \subseteq Nat
    BY <2>3
  <2>5. PICK b \in Bounds(Len(l)): \A c \in Bounds(Len(l)): b <= c
    <3> HIDE DEF Bounds
    <3>1. QED
      BY <2>4, LeastNatural
  <2>6. b \in Nat /\ \A k \in DOMAIN l: l[k].place <= b
    BY <1>1, <2>5
  <2>7. b \in Places
    <3>1. SUFFICES ASSUME \A k \in DOMAIN l: l[k].place # b
                   PROVE  FALSE
      OBVIOUS
    <3>2. 1 \in DOMAIN l
      BY <1>1, <1>3 DEF Lists
    <3>3. b - 1 \in Nat /\ \A k \in DOMAIN l: l[k].place <= b - 1
      BY <1>1, <2>6, <3>1, <3>2
    <3>4. b - 1 \in Bounds(Len(l))
      BY <3>3
    <3>5. QED
      BY <2>5, <2>6, <3>4
  <2>8. \E n \in Places: \A k \in DOMAIN l: n >= l[k].place
    BY <1>1, <2>6, <2>7
  <2>9. PICK n \in Places: /\ n = CHOOSE m \in Places: \A k \in DOMAIN l: m >= l[k].place
                           /\ \A k \in DOMAIN l: n >= l[k].place
    <3> HIDE DEF Places
    <3>1. QED
      BY <2>8
  <2>10. NextPlace(l) = 1 + n /\ n \in Nat
    BY <1>1, <1>3, <2>9 DEF NextPlace
  <2>11. ASSUME NEW k \in DOMAIN l PROVE l[k].place < NextPlace(l)
    <3>1. l[k].place \in Nat /\ n >= l[k].place
      BY <1>1, <2>9
    <3>2. QED
      BY <2>10, <3>1
  <2>12. QED
    BY <2>10, <2>11 DEF Below
<1>4. QED
  BY <1>2, <1>3

\* The part of a queue that Without has kept after n items.
Filtered(l, i, m, n) ==
  /\ m \in Lists /\ Distinct(m)
  /\ \A k \in DOMAIN m: \E j \in 1 .. n: m[k] = l[j] /\ l[j].id # i
  /\ \A j \in 1 .. n: l[j].id # i => \E k \in DOMAIN m: m[k] = l[j]

\* One more item of the queue is kept, or is the one to leave out.
LEMMA FilteredGrows ==
  ASSUME NEW l \in Lists, Distinct(l), NEW i, NEW n \in Nat, n + 1 \in DOMAIN l,
         NEW m, Filtered(l, i, m, n)
  PROVE  Filtered(l, i, IF l[n + 1].id = i THEN m ELSE Append(m, l[n + 1]), n + 1)
<1>1. DOMAIN l = 1 .. Len(l) /\ Len(l) \in Nat /\ DOMAIN m = 1 .. Len(m) /\ Len(m) \in Nat /\ l[n + 1] \in Items
  BY ListFacts DEF Filtered
<1>2. \A j \in 1 .. n + 1: j = n + 1 \/ j \in 1 .. n
  OBVIOUS
<1>3. CASE l[n + 1].id = i
  BY <1>2, <1>3 DEF Filtered
<1>4. CASE l[n + 1].id # i
  <2> DEFINE a == Append(m, l[n + 1])
  <2>1. a \in Lists /\ DOMAIN a = 1 .. Len(m) + 1 /\ a[Len(m) + 1] = l[n + 1] /\ \A k \in DOMAIN m: a[k] = m[k]
    BY <1>1 DEF Filtered, Lists
  <2> HIDE DEF a
  <2>2. \A k \in DOMAIN a: (k = Len(m) + 1 /\ a[k] = l[n + 1]) \/ (k \in DOMAIN m /\ a[k] = m[k])
    BY <1>1, <2>1
  <2>3. \A k \in DOMAIN m: k \in DOMAIN a
    BY <1>1, <2>1
  <2>4. Len(m) + 1 \in DOMAIN a
    BY <1>1, <2>1
  <2>5. \A k \in DOMAIN m: m[k].place # l[n + 1].place /\ m[k].id # l[n + 1].id
    <3>1. SUFFICES ASSUME NEW k \in DOMAIN m
                   PROVE  m[k].place # l[n + 1].place /\ m[k].id # l[n + 1].id
      OBVIOUS
    <3>2. PICK j \in 1 .. n: m[k] = l[j]
      BY DEF Filtered
    <3>3. j \in DOMAIN l /\ j # n + 1
      BY <1>1
    <3>4. QED
      BY <3>2, <3>3 DEF Distinct
  <2>6. Distinct(a)
    BY <2>2, <2>5 DEF Filtered, Distinct
  <2>7. \A k \in DOMAIN a: \E j \in 1 .. n + 1: a[k] = l[j] /\ l[j].id # i
    <3>1. \A j \in 1 .. n: j \in 1 .. n + 1
      OBVIOUS
    <3>2. n + 1 \in 1 .. n + 1
      OBVIOUS
    <3>3. QED
      BY <1>4, <2>2, <3>1, <3>2 DEF Filtered
  <2>8. \A j \in 1 .. n + 1: l[j].id # i => \E k \in DOMAIN a: a[k] = l[j]
    BY <1>2, <2>1, <2>3, <2>4 DEF Filtered
  <2>9. QED
    BY <1>4, <2>1, <2>6, <2>7, <2>8 DEF Filtered, a
<1>5. QED
  BY <1>3, <1>4

\* f is the recursive function of Without, up to n.
Keeping(f, l, i, n) ==
  f = [k \in 0 .. n |-> IF k = 0 THEN << >> ELSE IF l[k].id = i THEN f[k - 1] ELSE Append(f[k - 1], l[k])]

\* The recursive function of Without exists: it is built up item by item.
LEMMA KeepingExists ==
  ASSUME NEW l, NEW i, NEW n \in Nat
  PROVE  \E f: Keeping(f, l, i, n)
<1> DEFINE S == {m \in Nat: \E f: Keeping(f, l, i, m)}
<1>1. 0 \in S
  <2>1. Keeping([k \in 0 .. 0 |-> << >>], l, i, 0)
    BY DEF Keeping
  <2>2. QED
    BY <2>1
<1>2. ASSUME NEW m \in Nat, m \in S PROVE m + 1 \in S
  <2>1. PICK f: Keeping(f, l, i, m)
    BY <1>2
  <2> DEFINE g == [k \in 0 .. m + 1 |->
         IF k = m + 1 THEN (IF l[k].id = i THEN f[k - 1] ELSE Append(f[k - 1], l[k])) ELSE f[k]]
  <2>2. ASSUME NEW k \in 0 .. m + 1
        PROVE  g[k] = IF k = 0 THEN << >> ELSE IF l[k].id = i THEN g[k - 1] ELSE Append(g[k - 1], l[k])
    <3>1. CASE k = m + 1
      <4>1. k # 0 /\ k - 1 \in 0 .. m + 1 /\ k - 1 # m + 1
        BY <3>1
      <4>2. g[k - 1] = f[k - 1]
        BY <4>1
      <4>3. QED
        BY <3>1, <4>1, <4>2
    <3>2. CASE k # m + 1 /\ k # 0
      <4>1. k \in 0 .. m /\ k - 1 \in 0 .. m + 1 /\ k - 1 # m + 1
        BY <3>2
      <4>2. g[k] = f[k] /\ g[k - 1] = f[k - 1]
        BY <3>2, <4>1
      <4>3. f[k] = IF l[k].id = i THEN f[k - 1] ELSE Append(f[k - 1], l[k])
        BY <2>1, <3>2, <4>1 DEF Keeping
      <4>4. QED
        BY <3>2, <4>2, <4>3
    <3>3. CASE k # m + 1 /\ k = 0
      <4>1. g[k] = f[k] /\ 0 \in 0 .. m
        BY <3>3
      <4>2. f[0] = << >>
        BY <2>1, <4>1 DEF Keeping
      <4>3. QED
        BY <3>3, <4>1, <4>2
    <3>4. QED
      BY <3>1, <3>2, <3>3
  <2>3. Keeping(g, l, i, m + 1)
    <3>1. g = [k \in 0 .. m + 1 |-> g[k]]
      OBVIOUS
    <3> HIDE DEF g
    <3>2. QED
      BY <2>2, <3>1 DEF Keeping
  <2>4. QED
    <3> HIDE DEF g
    <3>1. m + 1 \in Nat
      OBVIOUS
    <3>2. QED
      BY <2>3, <3>1
<1>3. Nat \subseteq S
  <2> HIDE DEF S
  <2>1. QED
    BY <1>1, <1>2, Induction
<1>4. QED
  BY <1>3

\* Removing a download removes it and nothing else.
LEMMA WithoutFacts ==
  ASSUME NEW l \in Lists, Distinct(l), NEW i
  PROVE  /\ Without(l, i) \in Lists
         /\ Distinct(Without(l, i))
         /\ \A j: Has(Without(l, i), j) <=> Has(l, j) /\ j # i
         /\ \A n: Below(l, n) => Below(Without(l, i), n)
         /\ \A j, S: Within(l, j, S) => Within(Without(l, i), j, S)
<1> DEFINE kept == CHOOSE f: Keeping(f, l, i, Len(l))
<1>1. DOMAIN l = 1 .. Len(l) /\ Len(l) \in Nat
  BY ListFacts
<1>2. Without(l, i) = kept[Len(l)]
  BY DEF Without, Keeping
<1>3. Keeping(kept, l, i, Len(l))
  BY <1>1, KeepingExists
<1> HIDE DEF kept
<1> DEFINE S == {n \in Nat: n <= Len(l) => Filtered(l, i, kept[n], n)}
<1>4. 0 \in S
  <2>1. kept[0] = << >>
    BY <1>1, <1>3 DEF Keeping
  <2>2. Filtered(l, i, << >>, 0)
    BY DEF Filtered, Lists, Distinct
  <2>3. QED
    BY <2>1, <2>2
<1>5. ASSUME NEW n \in Nat, n \in S PROVE n + 1 \in S
  <2>1. SUFFICES ASSUME n + 1 <= Len(l)
                 PROVE  Filtered(l, i, kept[n + 1], n + 1)
    OBVIOUS
  <2>2. n + 1 \in DOMAIN l /\ Filtered(l, i, kept[n], n)
    BY <1>1, <1>5, <2>1
  <2>3. n + 1 \in 0 .. Len(l) /\ n + 1 # 0 /\ (n + 1) - 1 = n
    BY <1>1, <2>1
  <2>4. kept[n + 1] = IF l[n + 1].id = i THEN kept[n] ELSE Append(kept[n], l[n + 1])
    BY <1>3, <2>3 DEF Keeping
  <2>5. QED
    BY <2>2, <2>4, FilteredGrows
<1>6. Filtered(l, i, Without(l, i), Len(l))
  <2> HIDE DEF S
  <2>1. Nat \subseteq S
    BY <1>4, <1>5, Induction
  <2> USE DEF S
  <2>2. QED
    BY <1>1, <1>2, <2>1
<1> DEFINE m == Without(l, i)
<1> HIDE DEF m
<1>7. /\ m \in Lists /\ Distinct(m)
      /\ \A k \in DOMAIN m: \E j \in DOMAIN l: m[k] = l[j] /\ l[j].id # i
      /\ \A j \in DOMAIN l: l[j].id # i => \E k \in DOMAIN m: m[k] = l[j]
  BY <1>1, <1>6 DEF Filtered, m
<1>8. \A j: Has(m, j) <=> Has(l, j) /\ j # i
  BY <1>7 DEF Has
<1>9. (\A n: Below(l, n) => Below(m, n)) /\ (\A j, T: Within(l, j, T) => Within(m, j, T))
  BY <1>7 DEF Below, Within
<1>10. QED
  BY <1>7, <1>8, <1>9 DEF m

-----------------------------------------------------------------------------
(* The page, the runs and the calls of the store.                          *)

\* The fields of a page.
Fields == {"ready", "list", "latest", "changed", "listing", "answered", "requests", "handled", "next",
           "timer", "saver", "again", "recovery", "open", "cancelling", "registered", "quit"}
IsPage(pg) == DOMAIN pg = Fields /\ pg = [f \in Fields |-> pg[f]]
FieldsTyped(pg) ==
  /\ pg.ready \in {"loading", "loaded", "ready"} /\ pg.list \in Lists /\ pg.latest \in Lists
  /\ pg.changed \in SUBSET {"list", "requests", "ready"} /\ pg.listing \in SUBSET Requests
  /\ pg.answered \in BOOLEAN /\ pg.requests \in SUBSET Requests /\ pg.handled \in SUBSET Requests
  /\ pg.next \in Nat /\ pg.timer \in BOOLEAN /\ pg.saver \in Runs \cup {Timer, Nobody}
  /\ pg.again \in BOOLEAN /\ pg.recovery \in SUBSET Ids /\ pg.open \in BOOLEAN
  /\ pg.cancelling \in SUBSET Ids /\ pg.registered \in SUBSET Ids /\ pg.quit \in {"no", "wait", "save"}
\* q is pg but for the fields in X.
Same(pg, q, X) ==
  /\ "ready" \in X \/ q.ready = pg.ready
  /\ "list" \in X \/ q.list = pg.list
  /\ "latest" \in X \/ q.latest = pg.latest
  /\ "changed" \in X \/ q.changed = pg.changed
  /\ "listing" \in X \/ q.listing = pg.listing
  /\ "answered" \in X \/ q.answered = pg.answered
  /\ "requests" \in X \/ q.requests = pg.requests
  /\ "handled" \in X \/ q.handled = pg.handled
  /\ "next" \in X \/ q.next = pg.next
  /\ "timer" \in X \/ q.timer = pg.timer
  /\ "saver" \in X \/ q.saver = pg.saver
  /\ "again" \in X \/ q.again = pg.again
  /\ "recovery" \in X \/ q.recovery = pg.recovery
  /\ "open" \in X \/ q.open = pg.open
  /\ "cancelling" \in X \/ q.cancelling = pg.cancelling
  /\ "registered" \in X \/ q.registered = pg.registered
  /\ "quit" \in X \/ q.quit = pg.quit

\* A page is a record with these fields, each of its type.
LEMMA PagesAre == \A pg: pg \in Pages <=> IsPage(pg) /\ FieldsTyped(pg)
<1>1. ASSUME NEW pg \in Pages PROVE IsPage(pg) /\ FieldsTyped(pg)
  <2>1. IsPage(pg)
    BY DEF Pages, IsPage, Fields
  <2>2. FieldsTyped(pg)
    BY DEF Pages, FieldsTyped
  <2>3. QED
    BY <2>1, <2>2
<1>2. ASSUME NEW pg, IsPage(pg), FieldsTyped(pg) PROVE pg \in Pages
  BY <1>2 DEF Pages, IsPage, Fields, FieldsTyped
<1>3. QED
  BY <1>1, <1>2

\* setDownloads changes the list and marks it for the next rendering.
LEMMA ListedFacts ==
  ASSUME NEW pg \in Pages, NEW l \in Lists
  PROVE  /\ Listed(pg, l) \in Pages /\ Same(pg, Listed(pg, l), {"list", "changed"})
         /\ Listed(pg, l).list = l /\ Listed(pg, l).changed = pg.changed \cup {"list"}
<1> DEFINE q == Listed(pg, l)
<1>1. IsPage(pg) /\ FieldsTyped(pg)
  BY PagesAre
<1>2. /\ IsPage(q) /\ Same(pg, q, {"list", "changed"})
      /\ q.list = l /\ q.changed = pg.changed \cup {"list"}
  BY <1>1 DEF IsPage, Fields, Same, Listed
<1>3. FieldsTyped(q)
  <2> HIDE DEF q
  <2>1. QED
    BY <1>1, <1>2 DEF FieldsTyped, Same
<1>4. QED
  BY <1>2, <1>3, PagesAre

\* q shows the downloads I with the status s.
Shows(pg, q, I, s) ==
  q.list \in Lists /\ Recast(pg.list, q.list, I, s) /\ "list" \in q.changed

\* updateDownload on a page.
LEMMA ShownFacts ==
  ASSUME NEW pg \in Pages, NEW i, NEW s \in Statuses
  PROVE  /\ Shown(pg, i, s) \in Pages /\ Same(pg, Shown(pg, i, s), {"list", "changed"})
         /\ Shows(pg, Shown(pg, i, s), {i}, s)
<1>1. pg.list \in Lists
  BY PagesAre DEF FieldsTyped
<1>2. WithStatus(pg.list, i, s) \in Lists /\ Recast(pg.list, WithStatus(pg.list, i, s), {i}, s)
  BY <1>1, WithStatusRecasts
<1>3. QED
  BY <1>2, ListedFacts DEF Shown, Shows

\* executeDownload on a page, up to its call of the coordinator.
LEMMA ShowQueuedFacts ==
  ASSUME NEW pg \in Pages, NEW I
  PROVE  /\ ShowQueued(pg, I) \in Pages /\ Same(pg, ShowQueued(pg, I), {"list", "changed"})
         /\ Shows(pg, ShowQueued(pg, I), I, "queued")
<1> DEFINE m == [k \in DOMAIN pg.list |->
                   IF pg.list[k].id \in I THEN [pg.list[k] EXCEPT !.status = "queued"] ELSE pg.list[k]]
<1>1. pg.list \in Lists
  BY PagesAre DEF FieldsTyped
<1>2. m \in Lists /\ Recast(pg.list, m, I, "queued")
  BY <1>1, QueuedRecasts
<1>3. ShowQueued(pg, I) = Listed(pg, m)
  BY DEF ShowQueued
<1> HIDE DEF m
<1>4. QED
  BY <1>2, <1>3, ListedFacts DEF Shows

\* The run p goes to s.
Goes(p, s) == run' \in [Runs -> Steps] /\ run'[p] = s /\ \A q \in Runs: q # p => run'[q] = run[q]
\* The call c comes to s, with the queue v.
CallIs(c, s, v) ==
  /\ call' \in [Calls -> [pc: Store!Pcs, value: Lists]]
  /\ call'[c].pc = s /\ call'[c].value = v /\ \A d \in Calls: d # c => call'[d] = call[d]

\* An assignment to one run leaves the others where they are.
LEMMA GoesFacts ==
  ASSUME TypeOK, NEW p \in Runs, NEW s \in Steps, run' = [run EXCEPT ![p] = s]
  PROVE  Goes(p, s)
BY DEF TypeOK, Goes

\* An assignment to one call of the store leaves the others alone.
LEMMA BecomesFacts ==
  ASSUME TypeOK, NEW c \in Calls, NEW s \in Store!Pcs, NEW v \in Lists,
         call' = [call EXCEPT ![c] = [pc |-> s, value |-> v]]
  PROVE  CallIs(c, s, v)
<1> DEFINE R == [pc: Store!Pcs, value: Lists]
           e == [pc |-> s, value |-> v]
<1>1. e \in R /\ e.pc = s /\ e.value = v
  OBVIOUS
<1>2. call \in [Calls -> R] /\ call' = [call EXCEPT ![c] = e]
  BY DEF TypeOK
<1> HIDE DEF R, e
<1>3. call' \in [Calls -> R] /\ call'[c] = e /\ \A d \in Calls: d # c => call'[d] = call[d]
  BY <1>1, <1>2
<1>4. QED
  BY <1>1, <1>3 DEF R, CallIs

\* A call of the store has a state and a queue.
LEMMA CallTyped ==
  ASSUME TypeOK, NEW c \in Calls
  PROVE  call[c].pc \in Store!Pcs /\ call[c].value \in Lists
BY DEF TypeOK

\* The empty queue.
LEMMA EmptyList == << >> \in Lists /\ Distinct(<< >>) /\ (\A i: ~Has(<< >>, i)) /\ \A n: Below(<< >>, n)
BY DEF Lists, Distinct, Has, Below

\* save_snapshot, asked for.
LEMMA AskSaveFacts ==
  ASSUME TypeOK, NEW c \in Calls, NEW v \in Lists, Store!AskSave(c, v)
  PROVE  /\ call[c].pc \in {"idle", "ok", "loaded", "error"}
         /\ CallIs(c, "saving", v) /\ UNCHANGED <<value, possible>>
<1>1. "saving" \in Store!Pcs
  BY DEF Store!Pcs
<1>2. QED
  BY <1>1, BecomesFacts DEF Store!AskSave, Store!Becomes

\* The answer of the store, taken.
LEMMA CollectFacts ==
  ASSUME TypeOK, NEW c \in Calls, Store!Collect(c)
  PROVE  /\ call[c].pc \in {"ok", "loaded", "error"}
         /\ CallIs(c, "idle", << >>) /\ UNCHANGED <<value, possible>>
<1>1. "idle" \in Store!Pcs
  BY DEF Store!Pcs
<1>2. call' = [call EXCEPT ![c] = [pc |-> "idle", value |-> << >>]]
  BY DEF Store!Collect, Store!Idle
<1>3. QED
  BY <1>1, <1>2, BecomesFacts, EmptyList DEF Store!Collect

\* The rename of the new file over the old one.
LEMMA ReplaceFacts ==
  ASSUME TypeOK, NEW c \in Calls, Store!Replace(c)
  PROVE  /\ call[c].pc = "saving" /\ \A d \in Calls: call[d].pc # "replaced"
         /\ CallIs(c, "replaced", call[c].value)
         /\ value' = call[c].value /\ possible' = possible \cup {call[c].value}
<1>1. "replaced" \in Store!Pcs /\ call[c].value \in Lists
  BY CallTyped DEF Store!Pcs
<1>2. CallIs(c, "replaced", call[c].value)
  BY <1>1, BecomesFacts DEF Store!Replace, Store!Becomes
<1>3. QED
  BY <1>2 DEF Store!Replace, Store!At, Store!Quiet

\* The directory is synced: the file that will be found after a power loss is the one
\* that is there.
LEMMA SucceedFacts ==
  ASSUME TypeOK, NEW c \in Calls, Store!Succeed(c)
  PROVE  /\ call[c].pc = "replaced" /\ CallIs(c, "ok", call[c].value)
         /\ value' = value /\ possible' = {value}
<1>1. "ok" \in Store!Pcs /\ call[c].value \in Lists
  BY CallTyped DEF Store!Pcs
<1>2. CallIs(c, "ok", call[c].value)
  BY <1>1, BecomesFacts DEF Store!Succeed, Store!Becomes
<1>3. QED
  BY <1>2 DEF Store!Succeed, Store!At

\* A call of the store fails.
LEMMA FailFacts ==
  ASSUME TypeOK, NEW c \in Calls, Store!Fail(c)
  PROVE  /\ call[c].pc \in {"saving", "replaced", "loading"} /\ CallIs(c, "error", << >>)
         /\ UNCHANGED <<value, possible>>
<1>1. "error" \in Store!Pcs
  BY DEF Store!Pcs
<1>2. CallIs(c, "error", << >>)
  BY <1>1, BecomesFacts, EmptyList DEF Store!Fail, Store!Becomes
<1>3. QED
  BY <1>2 DEF Store!Fail

\* load_snapshot reads the file.
LEMMA LoadFacts ==
  ASSUME TypeOK, Store!Load(Load)
  PROVE  /\ call[Load].pc = "loading" /\ \A d \in Calls: call[d].pc # "replaced"
         /\ CallIs(Load, "loaded", Reopened(value)) /\ UNCHANGED <<value, possible>>
<1>1. "loaded" \in Store!Pcs /\ Load \in Calls
  BY DEF Store!Pcs, Calls
<1>2. value \in Lists /\ Reopened(value) \in Lists
  BY ReopenedFacts DEF TypeOK
<1>3. [l \in Lists |-> Reopened(l)][value] = Reopened(value)
  BY <1>2
<1>4. CallIs(Load, "loaded", Reopened(value))
  BY <1>1, <1>2, <1>3, BecomesFacts DEF Store!Load, Store!Becomes
<1>5. QED
  BY <1>4 DEF Store!Load, Store!At, Store!Quiet

-----------------------------------------------------------------------------
(* What each action does.                                                  *)

\* A run is that of a download by itself or that of its request.
LEMMA RunShapes ==
  /\ \A p \in Runs: Id(p) \in Ids /\ (p = Own(Id(p)) \/ (p = Bridge(Id(p)) /\ Id(p) \in Requests))
  /\ \A i \in Ids: Own(i) \in Runs /\ Id(Own(i)) = i
  /\ \A r \in Requests: Bridge(r) \in Runs /\ Id(Bridge(r)) = r /\ r \in Ids
  /\ \A i, j: Own(i) # Bridge(j)
  /\ \A i, j: (Own(i) = Own(j) => i = j) /\ (Bridge(i) = Bridge(j) => i = j)
  /\ Runs \subseteq Calls /\ {Load, Timer, Quitting} \subseteq Calls
BY DEF Runs, Ids, Own, Bridge, Id, Calls

\* The page's own calls are none of a run.
LEMMA Marks ==
  /\ Load \notin Runs /\ Timer \notin Runs /\ Quitting \notin Runs /\ Nobody \notin Runs
  /\ Load # Timer /\ Load # Quitting /\ Load # Nobody
  /\ Timer # Quitting /\ Timer # Nobody /\ Quitting # Nobody
BY DEF Runs, Load, Timer, Quitting, Nobody

\* The page of a typed state.
LEMMA PageFields == TypeOK => page \in Pages /\ IsPage(page) /\ FieldsTyped(page)
BY PagesAre DEF TypeOK

\* What Loaded does.
LEMMA LoadedFacts ==
  ASSUME TypeOK, Loaded
  PROVE  /\ call[Load].pc = "loaded" /\ CallIs(Load, "idle", << >>)
         /\ page' \in Pages /\ Same(page, page', {"ready", "list", "changed", "next", "recovery"})
         /\ page'.ready = "loaded" /\ page'.list = call[Load].value
         /\ page'.changed = page.changed \cup {"list", "ready"}
         /\ Below(page'.list, page'.next)
         /\ page'.recovery = {i \in Ids: Has(page'.list, i) /\ StatusOf(page'.list, i) \in Waiting}
         /\ UNCHANGED <<value, possible, bridge, run, host, past>>
<1> DEFINE l == call[Load].value
           q == Listed(page, l)
           R == {i \in Ids: Has(l, i) /\ StatusOf(l, i) \in Waiting}
           q2 == [q EXCEPT !.ready = "loaded", !.changed = @ \cup {"ready"}, !.next = NextPlace(l),
                           !.recovery = R]
<1>1. l \in Lists /\ Load \in Calls
  BY RunShapes, CallTyped
<1>2. q \in Pages /\ Same(page, q, {"list", "changed"}) /\ q.list = l /\ q.changed = page.changed \cup {"list"}
  BY <1>1, PageFields, ListedFacts
<1>3. NextPlace(l) \in Nat /\ Below(l, NextPlace(l))
  BY <1>1, NextPlaceFacts
<1>4. R \in SUBSET Ids
  OBVIOUS
<1>5. page' = q2
  BY DEF Loaded
<1>6. call[Load].pc = "loaded" /\ CallIs(Load, "idle", << >>) /\ UNCHANGED <<value, possible, bridge, run, host, past>>
  BY <1>1, CollectFacts DEF Loaded
<1> HIDE DEF q, R, l
<1>7. IsPage(q) /\ FieldsTyped(q)
  BY <1>2, PagesAre
<1>8. /\ IsPage(q2) /\ Same(q, q2, {"ready", "changed", "next", "recovery"})
      /\ q2.ready = "loaded" /\ q2.changed = q.changed \cup {"ready"} /\ q2.next = NextPlace(l) /\ q2.recovery = R
  BY <1>7 DEF IsPage, Fields, Same
<1> HIDE DEF q2
<1>9. FieldsTyped(q2)
  BY <1>3, <1>4, <1>7, <1>8 DEF FieldsTyped, Same
<1>10. q2 \in Pages
  BY <1>8, <1>9, PagesAre
<1>11. Same(page, q2, {"ready", "list", "changed", "next", "recovery"})
  BY <1>2, <1>8 DEF Same
<1>12. q2.list = l
  BY <1>2, <1>8 DEF Same
<1>13. q2.changed = page.changed \cup {"list", "ready"}
  BY <1>2, <1>8
<1>14. Below(q2.list, q2.next)
  BY <1>3, <1>8, <1>12
<1>15. q2.recovery = {i \in Ids: Has(q2.list, i) /\ StatusOf(q2.list, i) \in Waiting}
  BY <1>8, <1>12 DEF R
<1>16. q2.ready = "loaded"
  BY <1>8
<1>17. QED
  BY <1>5, <1>6, <1>10, <1>11, <1>12, <1>13, <1>14, <1>15, <1>16 DEF l

\* What LoadFailed does.
LEMMA LoadFailedFacts ==
  ASSUME TypeOK, LoadFailed
  PROVE  /\ call[Load].pc = "error" /\ CallIs(Load, "idle", << >>)
         /\ page' \in Pages /\ Same(page, page', {"ready", "changed"})
         /\ page'.ready = "loaded" /\ page'.changed = page.changed \cup {"ready"}
         /\ forfeited' = TRUE /\ unsaved' = TRUE
         /\ UNCHANGED <<value, possible, bridge, run, host, handed, wanted, early>>
<1>1. /\ call[Load].pc = "error" /\ CallIs(Load, "idle", << >>) /\ forfeited' = TRUE /\ unsaved' = TRUE
      /\ UNCHANGED <<value, possible, bridge, run, host, handed, wanted, early>>
  BY RunShapes, CollectFacts DEF LoadFailed
<1>2. IsPage(page) /\ FieldsTyped(page)
  BY PageFields
<1>3. /\ IsPage(page') /\ Same(page, page', {"ready", "changed"})
      /\ page'.ready = "loaded" /\ page'.changed = page.changed \cup {"ready"}
  BY <1>2 DEF LoadFailed, IsPage, Fields, Same
<1>4. FieldsTyped(page')
  BY <1>2, <1>3 DEF FieldsTyped, Same
<1>5. QED
  BY <1>1, <1>3, <1>4, PagesAre

\* What Render does: the list takes effect, and perhaps one request is opened.
LEMMA RenderFacts ==
  ASSUME TypeOK, Render
  PROVE  /\ page' \in Pages /\ Same(page, page', {"latest", "timer", "changed", "ready", "handled"})
         /\ page'.changed = {}
         /\ page'.ready = IF page.ready = "loaded" THEN "ready" ELSE page.ready
         /\ "list" \in page.changed =>
              page'.latest = page.list /\ page'.timer = (page.timer \/ (page.ready # "loading" /\ page.quit = "no"))
         /\ "list" \notin page.changed => page'.latest = page.latest /\ page'.timer = page.timer
         /\ \/ page'.handled = page.handled /\ run' = run
            \/ \E r \in page.requests \ page.handled:
                 /\ page.ready # "loading" /\ ~Busy
                 /\ page'.handled = page.handled \cup {r}
                 /\ Goes(Bridge(r), IF Has(page.latest, r) THEN "known" ELSE "inspect")
         /\ UNCHANGED <<value, possible, call, bridge, host, past>>
<1> DEFINE q == Follow(page)
           s == [q EXCEPT !.changed = {}, !.ready = IF @ = "loaded" THEN "ready" ELSE @]
           R == IF page.ready = "loaded" THEN "ready" ELSE page.ready
<1>1. IsPage(page) /\ FieldsTyped(page)
  BY PageFields
<1>2. /\ IsPage(q) /\ Same(page, q, {"latest", "timer"})
      /\ "list" \in page.changed =>
           q.latest = page.list /\ q.timer = (page.timer \/ (page.ready # "loading" /\ page.quit = "no"))
      /\ "list" \notin page.changed => q.latest = page.latest /\ q.timer = page.timer
  BY <1>1 DEF Follow, IsPage, Fields, Same
<1>3. FieldsTyped(q)
  <2>1. (page.timer \/ (page.ready # "loading" /\ page.quit = "no")) \in BOOLEAN
    OBVIOUS
  <2> HIDE DEF q
  <2>2. q.timer \in BOOLEAN /\ q.latest \in Lists
    BY <1>1, <1>2, <2>1 DEF FieldsTyped
  <2>3. QED
    BY <1>1, <1>2, <2>2 DEF FieldsTyped, Same
<1> HIDE DEF q
<1>4. q.ready = page.ready
  BY <1>2 DEF Same
<1>5. IsPage(s) /\ Same(q, s, {"changed", "ready"}) /\ s.changed = {} /\ s.ready = R
  BY <1>2, <1>4 DEF IsPage, Fields, Same
<1> HIDE DEF s
<1>6. FieldsTyped(s)
  <2>1. R \in {"loading", "loaded", "ready"}
    BY <1>1 DEF FieldsTyped
  <2> HIDE DEF R
  <2>2. QED
    BY <1>3, <1>5, <2>1 DEF FieldsTyped, Same
<1> HIDE DEF R
<1>7. /\ Same(page, s, {"latest", "timer", "changed", "ready"}) /\ s.latest = q.latest /\ s.timer = q.timer
  BY <1>2, <1>5 DEF Same
<1>8. UNCHANGED <<value, possible, call, bridge, host, past>>
  BY DEF Render, store
<1>9. CASE page' = s /\ run' = run
  <2>1. page' \in Pages /\ page'.handled = page.handled
    BY <1>5, <1>6, <1>7, <1>9, PagesAre DEF Same
  <2>2. Same(page, page', {"latest", "timer", "changed", "ready", "handled"})
    BY <1>7, <1>9 DEF Same
  <2>3. QED
    BY <1>2, <1>5, <1>7, <1>8, <1>9, <2>1, <2>2 DEF R
<1>10. ASSUME NEW r \in page.requests \ page.handled, page.ready # "loading", ~Busy,
              page' = [s EXCEPT !.handled = @ \cup {r}],
              run' = [run EXCEPT ![Bridge(r)] = FirstStep(r)]
       PROVE  /\ page' \in Pages /\ Same(page, page', {"latest", "timer", "changed", "ready", "handled"})
              /\ page'.changed = {} /\ page'.ready = R /\ page'.latest = q.latest /\ page'.timer = q.timer
              /\ page'.handled = page.handled \cup {r}
              /\ Goes(Bridge(r), IF Has(page.latest, r) THEN "known" ELSE "inspect")
  <2>1. r \in Requests /\ Bridge(r) \in Runs
    BY <1>1, RunShapes DEF FieldsTyped
  <2>2. IsPage(page') /\ Same(s, page', {"handled"}) /\ page'.handled = s.handled \cup {r}
    BY <1>5, <1>10 DEF IsPage, Fields, Same
  <2>3. FieldsTyped(page')
    BY <1>6, <2>1, <2>2 DEF FieldsTyped, Same
  <2>4. FirstStep(r) \in Steps
    BY DEF FirstStep, Steps
  <2>5. Goes(Bridge(r), FirstStep(r))
    BY <1>10, <2>1, <2>4, GoesFacts
  <2>6. Same(page, page', {"latest", "timer", "changed", "ready", "handled"})
    BY <1>7, <2>2 DEF Same
  <2>7. page'.changed = {} /\ page'.ready = R /\ page'.latest = q.latest /\ page'.timer = q.timer
    BY <1>5, <1>7, <2>2 DEF Same
  <2>8. page'.handled = page.handled \cup {r}
    BY <1>7, <2>2 DEF Same
  <2>9. QED
    BY <2>2, <2>3, <2>5, <2>6, <2>7, <2>8, PagesAre DEF FirstStep
<1>11. \/ page' = s /\ run' = run
       \/ \E r \in page.requests \ page.handled:
            /\ page.ready # "loading" /\ ~Busy
            /\ page' = [s EXCEPT !.handled = @ \cup {r}]
            /\ run' = [run EXCEPT ![Bridge(r)] = FirstStep(r)]
  BY DEF Render, s, q
<1>12. CASE \E r \in page.requests \ page.handled:
              /\ page.ready # "loading" /\ ~Busy
              /\ page' = [s EXCEPT !.handled = @ \cup {r}]
              /\ run' = [run EXCEPT ![Bridge(r)] = FirstStep(r)]
  <2>1. PICK r \in page.requests \ page.handled:
              /\ page.ready # "loading" /\ ~Busy
              /\ page' = [s EXCEPT !.handled = @ \cup {r}]
              /\ run' = [run EXCEPT ![Bridge(r)] = FirstStep(r)]
    BY <1>12
  <2>2. /\ page' \in Pages /\ Same(page, page', {"latest", "timer", "changed", "ready", "handled"})
              /\ page'.changed = {} /\ page'.ready = R /\ page'.latest = q.latest /\ page'.timer = q.timer
              /\ page'.handled = page.handled \cup {r}
              /\ Goes(Bridge(r), IF Has(page.latest, r) THEN "known" ELSE "inspect")
    BY <1>10, <2>1
  <2>3. QED
    BY <1>2, <1>8, <2>1, <2>2 DEF R
<1>13. QED
  BY <1>9, <1>11, <1>12

\* registerDownload: the run ends on a cancellation that came before, or asks the
\* coordinator.
LEMMA RegisterFacts ==
  ASSUME TypeOK, NEW pg \in Pages, NEW p \in Runs, Register(pg, p)
  PROVE  \/ /\ Id(p) \in pg.cancelling
            /\ page' \in Pages /\ Same(pg, page', {"list", "changed", "cancelling"})
            /\ page'.cancelling = pg.cancelling \ {Id(p)} /\ Shows(pg, page', {Id(p)}, "ended")
            /\ Goes(p, "idle")
         \/ /\ Id(p) \notin pg.cancelling
            /\ page' = pg
            /\ Goes(p, "asked")
<1> DEFINE q == [pg EXCEPT !.cancelling = @ \ {Id(p)}]
<1>1. IsPage(pg) /\ FieldsTyped(pg)
  BY PagesAre
<1>2. IsPage(q) /\ Same(pg, q, {"cancelling"}) /\ q.cancelling = pg.cancelling \ {Id(p)}
  BY <1>1 DEF IsPage, Fields, Same
<1>3. CASE Id(p) \in pg.cancelling
  <2>1. page' = Shown(q, Id(p), "ended") /\ run' = [run EXCEPT ![p] = "idle"]
    BY <1>3 DEF Register
  <2> HIDE DEF q
  <2>2. FieldsTyped(q)
    BY <1>1, <1>2 DEF FieldsTyped, Same
  <2>3. q \in Pages
    BY <1>2, <2>2, PagesAre
  <2>4. page' \in Pages /\ Same(q, page', {"list", "changed"}) /\ Shows(q, page', {Id(p)}, "ended")
    <3>1. "ended" \in Statuses
      BY DEF Statuses
    <3>2. QED
      BY <2>1, <2>3, <3>1, ShownFacts
  <2>5. Goes(p, "idle")
    BY <2>1, GoesFacts DEF Steps
  <2>6. q.list = pg.list /\ q.changed = pg.changed
    BY <1>2 DEF Same
  <2>7. Same(pg, page', {"list", "changed", "cancelling"}) /\ page'.cancelling = q.cancelling
    BY <1>2, <2>4 DEF Same
  <2>8. QED
    BY <1>2, <1>3, <2>4, <2>5, <2>6, <2>7 DEF Shows
<1>4. CASE Id(p) \notin pg.cancelling
  <2>1. page' = pg /\ run' = [run EXCEPT ![p] = "asked"]
    BY <1>4 DEF Register
  <2>2. QED
    BY <1>4, <2>1, GoesFacts DEF Steps
<1>5. QED
  BY <1>3, <1>4

\* A recovered download that the coordinator is asked about.
Asking == {"asked", "answered", "refused"}

\* What Recover does: the first of those that wait is registered, or the gate opens.
LEMMA RecoverFacts ==
  ASSUME TypeOK, Recover
  PROVE  /\ page.ready = "ready" /\ ~page.open /\ \A i \in Ids: run[Own(i)] \notin Asking
         /\ page' \in Pages
         /\ \/ \E i \in page.recovery:
                 /\ First(i) /\ page'.recovery = page.recovery \ {i}
                 /\ \/ /\ i \in page.cancelling
                       /\ Same(page, page', {"recovery", "list", "changed", "cancelling"})
                       /\ page'.cancelling = page.cancelling \ {i}
                       /\ Shows(page, page', {i}, "ended") /\ Goes(Own(i), "idle")
                    \/ /\ i \notin page.cancelling
                       /\ Same(page, page', {"recovery"}) /\ Goes(Own(i), "asked")
            \/ /\ page.recovery = {} /\ Same(page, page', {"open", "list", "changed"}) /\ page'.open = TRUE
               /\ \/ page'.list = page.list /\ page'.changed = page.changed
                  \/ Shows(page, page', {i \in Ids: run[Own(i)] = "recovered"}, "queued")
               /\ run' \in [Runs -> Steps]
               /\ \A p \in Runs: run'[p] = IF run[p] = "recovered" THEN "calling" ELSE run[p]
         /\ UNCHANGED <<value, possible, call, bridge, host, past>>
<1>1. IsPage(page) /\ FieldsTyped(page) /\ page \in Pages
  BY PageFields
<1>2. /\ page.ready = "ready" /\ ~page.open /\ \A i \in Ids: run[Own(i)] \notin Asking
      /\ UNCHANGED <<value, possible, call, bridge, host, past>>
  BY DEF Recover, Asking, store
<1>3. ASSUME NEW i \in page.recovery, First(i), Register([page EXCEPT !.recovery = @ \ {i}], Own(i))
      PROVE  /\ page' \in Pages /\ page'.recovery = page.recovery \ {i}
             /\ \/ /\ i \in page.cancelling
                   /\ Same(page, page', {"recovery", "list", "changed", "cancelling"})
                   /\ page'.cancelling = page.cancelling \ {i}
                   /\ Shows(page, page', {i}, "ended") /\ Goes(Own(i), "idle")
                \/ /\ i \notin page.cancelling
                   /\ Same(page, page', {"recovery"}) /\ Goes(Own(i), "asked")
  <2> DEFINE q == [page EXCEPT !.recovery = @ \ {i}]
  <2>1. IsPage(q) /\ Same(page, q, {"recovery"}) /\ q.recovery = page.recovery \ {i}
    BY <1>1 DEF IsPage, Fields, Same
  <2>2. Register(q, Own(i)) /\ i \in Ids /\ Own(i) \in Runs /\ Id(Own(i)) = i
    BY <1>1, <1>3, RunShapes DEF FieldsTyped
  <2> HIDE DEF q
  <2>3. FieldsTyped(q)
    BY <1>1, <2>1 DEF FieldsTyped, Same
  <2>4. q \in Pages
    BY <2>1, <2>3, PagesAre
  <2>5. q.list = page.list /\ q.changed = page.changed /\ q.cancelling = page.cancelling
    BY <2>1 DEF Same
  <2>6. CASE /\ i \in q.cancelling
             /\ page' \in Pages /\ Same(q, page', {"list", "changed", "cancelling"})
             /\ page'.cancelling = q.cancelling \ {i} /\ Shows(q, page', {i}, "ended")
             /\ Goes(Own(i), "idle")
    <3>1. Same(page, page', {"recovery", "list", "changed", "cancelling"}) /\ page'.recovery = q.recovery
      BY <2>1, <2>6 DEF Same
    <3>2. QED
      BY <2>1, <2>5, <2>6, <3>1 DEF Shows
  <2>7. CASE i \notin q.cancelling /\ page' = q /\ Goes(Own(i), "asked")
    BY <2>1, <2>4, <2>5, <2>7
  <2>8. QED
    BY <2>2, <2>4, <2>6, <2>7, RegisterFacts
<1>4. ASSUME page.recovery = {},
             page' = [IF {i \in Ids: run[Own(i)] = "recovered"} = {} THEN page
                      ELSE ShowQueued(page, {i \in Ids: run[Own(i)] = "recovered"}) EXCEPT !.open = TRUE],
             run' = [p \in Runs |-> IF run[p] = "recovered" THEN "calling" ELSE run[p]]
      PROVE  /\ page' \in Pages /\ Same(page, page', {"open", "list", "changed"}) /\ page'.open = TRUE
             /\ \/ page'.list = page.list /\ page'.changed = page.changed
                \/ Shows(page, page', {i \in Ids: run[Own(i)] = "recovered"}, "queued")
             /\ run' \in [Runs -> Steps]
             /\ \A p \in Runs: run'[p] = IF run[p] = "recovered" THEN "calling" ELSE run[p]
  <2> DEFINE D == {i \in Ids: run[Own(i)] = "recovered"}
             q == IF D = {} THEN page ELSE ShowQueued(page, D)
  <2>1. /\ q \in Pages /\ Same(page, q, {"list", "changed"})
        /\ (q.list = page.list /\ q.changed = page.changed) \/ Shows(page, q, D, "queued")
    <3>1. CASE D = {}
      <4>1. q = page
        BY <3>1
      <4> HIDE DEF q, D
      <4>2. QED
        BY <1>1, <4>1 DEF Same
    <3>2. CASE D # {}
      <4>1. q = ShowQueued(page, D)
        BY <3>2
      <4> HIDE DEF q, D
      <4>2. QED
        BY <1>1, <4>1, ShowQueuedFacts
    <3>3. QED
      BY <3>1, <3>2
  <2>2. page' = [q EXCEPT !.open = TRUE]
    BY <1>4
  <2>3. run' \in [Runs -> Steps] /\ \A p \in Runs: run'[p] = IF run[p] = "recovered" THEN "calling" ELSE run[p]
    BY <1>4 DEF TypeOK, Steps
  <2> HIDE DEF q, D
  <2>4. IsPage(q) /\ FieldsTyped(q)
    BY <2>1, PagesAre
  <2>5. IsPage(page') /\ Same(q, page', {"open"}) /\ page'.open = TRUE
    BY <2>2, <2>4 DEF IsPage, Fields, Same
  <2>6. FieldsTyped(page')
    BY <2>4, <2>5 DEF FieldsTyped, Same
  <2>7. page'.list = q.list /\ page'.changed = q.changed
    BY <2>5 DEF Same
  <2>8. Same(page, page', {"open", "list", "changed"})
    BY <2>1, <2>5 DEF Same
  <2>9. (page'.list = page.list /\ page'.changed = page.changed) \/ Shows(page, page', D, "queued")
    BY <2>1, <2>7 DEF Shows
  <2>10. page' \in Pages
    BY <2>5, <2>6, PagesAre
  <2>11. QED
    BY <2>3, <2>5, <2>8, <2>9, <2>10 DEF D
<1>5. CASE \E i \in page.recovery: First(i) /\ Register([page EXCEPT !.recovery = @ \ {i}], Own(i))
  BY <1>2, <1>3, <1>5
<1>6. CASE /\ page.recovery = {}
           /\ page' = [IF {i \in Ids: run[Own(i)] = "recovered"} = {} THEN page
                      ELSE ShowQueued(page, {i \in Ids: run[Own(i)] = "recovered"}) EXCEPT !.open = TRUE]
           /\ run' = [p \in Runs |-> IF run[p] = "recovered" THEN "calling" ELSE run[p]]
  BY <1>2, <1>4, <1>6
<1>7. QED
  BY <1>5, <1>6 DEF Recover

\* What ListInbox does.
LEMMA ListInboxFacts ==
  ASSUME TypeOK, ListInbox
  PROVE  /\ page' \in Pages /\ Same(page, page', {"listing", "answered"})
         /\ page'.listing = inbox
         /\ UNCHANGED <<value, possible, call, bridge, run, host, past>>
<1>1. IsPage(page) /\ FieldsTyped(page) /\ inbox \in SUBSET Requests
  BY PageFields DEF TypeOK
<1>2. /\ IsPage(page') /\ Same(page, page', {"listing", "answered"})
      /\ page'.listing = inbox /\ page'.answered = TRUE
  BY <1>1 DEF ListInbox, IsPage, Fields, Same
<1>3. FieldsTyped(page')
  BY <1>1, <1>2 DEF FieldsTyped, Same
<1>4. QED
  BY <1>2, <1>3, PagesAre DEF ListInbox, store

\* What ReceiveListing does.
LEMMA ReceiveListingFacts ==
  ASSUME TypeOK, ReceiveListing
  PROVE  /\ EarlyAnswers \/ page.ready = "ready"
         /\ page' \in Pages /\ Same(page, page', {"requests", "listing", "answered", "changed"})
         /\ page'.requests = page.listing /\ page'.listing = {}
         /\ page'.changed = page.changed \cup {"requests"}
         /\ UNCHANGED <<value, possible, call, bridge, run, host, past>>
<1>1. IsPage(page) /\ FieldsTyped(page)
  BY PageFields
<1>2. /\ IsPage(page') /\ Same(page, page', {"requests", "listing", "answered", "changed"})
      /\ page'.requests = page.listing /\ page'.listing = {} /\ page'.answered = FALSE
      /\ page'.changed = page.changed \cup {"requests"}
  BY <1>1 DEF ReceiveListing, IsPage, Fields, Same
<1>3. FieldsTyped(page')
  BY <1>1, <1>2 DEF FieldsTyped, Same
<1>4. QED
  BY <1>2, <1>3, PagesAre DEF ReceiveListing, store

\* A save starts.
LEMMA AskSaveStep ==
  ASSUME TypeOK, NEW pg \in Pages, NEW c \in Runs \cup {Timer}, AskSave(c, pg)
  PROVE  /\ page' \in Pages /\ Same(pg, page', {"saver", "again"})
         /\ page'.saver = c /\ page'.again = FALSE
         /\ call[c].pc \in {"idle", "ok", "loaded", "error"} /\ CallIs(c, "saving", pg.latest)
         /\ forfeited' = (forfeited \/ pg.quit = "save") /\ UNCHANGED <<value, possible>>
<1>1. IsPage(pg) /\ FieldsTyped(pg)
  BY PagesAre
<1>2. IsPage(page') /\ Same(pg, page', {"saver", "again"}) /\ page'.saver = c /\ page'.again = FALSE
  BY <1>1 DEF AskSave, IsPage, Fields, Same
<1>3. FieldsTyped(page')
  BY <1>1, <1>2 DEF FieldsTyped, Same
<1>4. c \in Calls /\ pg.latest \in Lists
  BY <1>1, RunShapes DEF FieldsTyped
<1>5. call[c].pc \in {"idle", "ok", "loaded", "error"} /\ CallIs(c, "saving", pg.latest) /\ UNCHANGED <<value, possible>>
  BY <1>4, AskSaveFacts DEF AskSave
<1>6. forfeited' = (forfeited \/ pg.quit = "save")
  BY DEF AskSave
<1>7. QED
  BY <1>2, <1>3, <1>5, <1>6, PagesAre

\* The item that Enqueue makes.
QueuedItem(i) == [id |-> i, status |-> "queued", place |-> page.next]

\* What Enqueue does.
LEMMA EnqueueFacts ==
  ASSUME TypeOK, NEW p \in Runs, Enqueue(p)
  PROVE  /\ page.open /\ run[p] = "gate"
         /\ QueuedItem(Id(p)) \in Items
         /\ page' \in Pages
         /\ Same(page, page', {"list", "latest", "changed", "next", "timer", "saver", "again", "cancelling"})
         /\ page'.changed = page.changed \cup {"list"} /\ page'.next = page.next + 1 /\ page'.timer = FALSE
         /\ page'.cancelling = page.cancelling \ {Id(p)}
         /\ page'.latest = WithItem(page.latest, QueuedItem(Id(p)))
         /\ \/ page'.list = page.list /\ Has(page.list, Id(p)) /\ p = Bridge(Id(p))
            \/ page'.list = WithItem(page.list, QueuedItem(Id(p))) /\ ~(Has(page.list, Id(p)) /\ p = Bridge(Id(p)))
         /\ \/ /\ page.saver = Nobody /\ page'.saver = p /\ page'.again = FALSE
               /\ Goes(p, "save") /\ CallIs(p, "saving", page'.latest)
               /\ forfeited' = (forfeited \/ page.quit = "save")
            \/ /\ page.saver # Nobody /\ page'.saver = page.saver /\ page'.again = TRUE
               /\ Goes(p, "wait") /\ call' = call /\ forfeited' = forfeited
         /\ UNCHANGED <<value, possible, bridge, host, handed, wanted, early, unsaved>>
<1> DEFINE i == Id(p)
           item == QueuedItem(i)
           list == IF Has(page.list, i) /\ p = Bridge(i) THEN page.list ELSE WithItem(page.list, item)
           q == Listed(page, list)
           g == [q EXCEPT !.next = @ + 1, !.timer = FALSE, !.cancelling = @ \ {i}, !.latest = WithItem(@, item)]
<1>1. IsPage(page) /\ FieldsTyped(page) /\ page \in Pages /\ i \in Ids
  BY PageFields, RunShapes
<1>2. item \in Items /\ item.id = i
  BY <1>1 DEF Items, Statuses, FieldsTyped, QueuedItem
<1>3. page.list \in Lists /\ page.latest \in Lists
  BY <1>1 DEF FieldsTyped
<1>4. WithItem(page.list, item) \in Lists /\ WithItem(page.latest, item) \in Lists
  BY <1>2, <1>3, WithItemFacts
<1>5. list \in Lists
  BY <1>3, <1>4
<1>6. /\ page.open /\ run[p] = "gate"
      /\ UNCHANGED <<bridge, host, handed, wanted, early, unsaved>>
      /\ \/ page.saver = Nobody /\ AskSave(p, g) /\ run' = [run EXCEPT ![p] = "save"]
         \/ /\ page.saver # Nobody /\ page' = [g EXCEPT !.again = TRUE]
            /\ run' = [run EXCEPT ![p] = "wait"] /\ UNCHANGED <<store, forfeited>>
  BY DEF Enqueue, QueuedItem, NoSave
<1>7. /\ q \in Pages /\ Same(page, q, {"list", "changed"}) /\ q.list = list
      /\ q.changed = page.changed \cup {"list"}
  <2> HIDE DEF list
  <2>1. QED
    BY <1>1, <1>5, ListedFacts
<1>8. \/ list = page.list /\ Has(page.list, i) /\ p = Bridge(i)
      \/ list = WithItem(page.list, item) /\ ~(Has(page.list, i) /\ p = Bridge(i))
  OBVIOUS
<1> HIDE DEF list, q, item
<1>9. IsPage(q) /\ FieldsTyped(q) /\ q.latest = page.latest /\ q.next = page.next
  BY <1>7, PagesAre DEF Same
<1>10. /\ IsPage(g) /\ Same(q, g, {"next", "timer", "cancelling", "latest"})
       /\ g.next = q.next + 1 /\ g.timer = FALSE /\ g.cancelling = q.cancelling \ {i}
       /\ g.latest = WithItem(q.latest, item)
  BY <1>9 DEF IsPage, Fields, Same
<1> HIDE DEF g
<1>11. FieldsTyped(g)
  <2>1. g.latest \in Lists /\ g.timer \in BOOLEAN
    BY <1>4, <1>9, <1>10
  <2>2. q.next \in Nat /\ q.cancelling \in SUBSET Ids
    BY <1>9 DEF FieldsTyped
  <2>3. g.next \in Nat /\ g.cancelling \in SUBSET Ids
    BY <1>10, <2>2
  <2>4. QED
    BY <1>9, <1>10, <2>1, <2>3 DEF FieldsTyped, Same
<1>12. /\ g \in Pages /\ Same(page, g, {"list", "latest", "changed", "next", "timer", "cancelling"})
       /\ g.list = list /\ g.changed = page.changed \cup {"list"} /\ g.next = page.next + 1
       /\ g.timer = FALSE /\ g.cancelling = page.cancelling \ {i}
       /\ g.latest = WithItem(page.latest, item) /\ g.quit = page.quit
  <2>1. g \in Pages
    BY <1>10, <1>11, PagesAre
  <2>2. q.cancelling = page.cancelling
    BY <1>7 DEF Same
  <2>3. Same(page, g, {"list", "latest", "changed", "next", "timer", "cancelling"}) /\ g.list = list
    BY <1>7, <1>10 DEF Same
  <2>4. g.changed = page.changed \cup {"list"} /\ g.quit = page.quit
    BY <1>7, <1>10 DEF Same
  <2>5. QED
    BY <1>9, <1>10, <2>1, <2>2, <2>3, <2>4
<1> DEFINE Common ==
  /\ page' \in Pages
  /\ Same(page, page', {"list", "latest", "changed", "next", "timer", "saver", "again", "cancelling"})
  /\ page'.changed = page.changed \cup {"list"} /\ page'.next = page.next + 1 /\ page'.timer = FALSE
  /\ page'.cancelling = page.cancelling \ {i}
  /\ page'.latest = WithItem(page.latest, item) /\ page'.list = list
<1>13. ASSUME page' \in Pages, Same(g, page', {"saver", "again"})
       PROVE  Common
  <2>1. /\ page'.list = g.list /\ page'.latest = g.latest /\ page'.changed = g.changed /\ page'.next = g.next
        /\ page'.timer = g.timer /\ page'.cancelling = g.cancelling
    BY <1>13 DEF Same
  <2>2. Same(page, page', {"list", "latest", "changed", "next", "timer", "saver", "again", "cancelling"})
    BY <1>12, <1>13 DEF Same
  <2>3. QED
    BY <1>12, <1>13, <2>1, <2>2
<1> HIDE DEF Common
<1>14. CASE page.saver = Nobody /\ AskSave(p, g) /\ run' = [run EXCEPT ![p] = "save"]
  <2>1. /\ page' \in Pages /\ Same(g, page', {"saver", "again"})
        /\ page'.saver = p /\ page'.again = FALSE
        /\ CallIs(p, "saving", g.latest)
        /\ forfeited' = (forfeited \/ page.quit = "save") /\ UNCHANGED <<value, possible>>
    BY <1>12, <1>14, AskSaveStep
  <2>2. Common
    BY <1>13, <2>1
  <2>3. page'.latest = g.latest
    BY <1>12, <2>2 DEF Common
  <2>4. Goes(p, "save")
    BY <1>14, GoesFacts DEF Steps
  <2>5. QED
    BY <1>2, <1>6, <1>8, <1>14, <2>1, <2>2, <2>3, <2>4 DEF Common, item
<1>15. CASE /\ page.saver # Nobody /\ page' = [g EXCEPT !.again = TRUE]
            /\ run' = [run EXCEPT ![p] = "wait"] /\ UNCHANGED <<store, forfeited>>
  <2>1. IsPage(page') /\ Same(g, page', {"again"}) /\ page'.again = TRUE
    BY <1>10, <1>15 DEF IsPage, Fields, Same
  <2>2. FieldsTyped(page')
    BY <1>11, <2>1 DEF FieldsTyped, Same
  <2>3. page' \in Pages /\ Same(g, page', {"saver", "again"})
    BY <2>1, <2>2, PagesAre DEF Same
  <2>4. Common
    BY <1>13, <2>3
  <2>5. page'.saver = page.saver
    BY <1>12, <2>1 DEF Same
  <2>6. Goes(p, "wait")
    BY <1>15, GoesFacts DEF Steps
  <2>7. QED
    BY <1>2, <1>6, <1>8, <1>15, <2>1, <2>4, <2>5, <2>6 DEF Common, item, store
<1>16. QED
  BY <1>6, <1>14, <1>15

\* What StopWaiting does.
LEMMA StopWaitingFacts ==
  ASSUME TypeOK, NEW p \in Runs, StopWaiting(p)
  PROVE  /\ run[p] = "wait" /\ Goes(p, "save") /\ page.saver = Nobody
         /\ page' \in Pages /\ Same(page, page', {"saver", "again"}) /\ page'.saver = p /\ page'.again = FALSE
         /\ CallIs(p, "saving", page.latest) /\ forfeited' = (forfeited \/ page.quit = "save")
         /\ UNCHANGED <<value, possible, bridge, host, handed, wanted, early, unsaved>>
<1>1. page \in Pages
  BY PageFields
<1>2. run[p] = "wait" /\ Goes(p, "save")
  BY GoesFacts DEF StopWaiting, RunGoes, Steps
<1>3. QED
  BY <1>1, <1>2, AskSaveStep DEF StopWaiting

\* What TimerFires does.
LEMMA TimerFiresFacts ==
  ASSUME TypeOK, TimerFires
  PROVE  /\ page.timer /\ page' \in Pages
         /\ Same(page, page', {"timer", "saver", "again"}) /\ page'.timer = FALSE
         /\ \/ /\ page.saver = Nobody /\ page'.saver = Timer
               /\ CallIs(Timer, "saving", page.latest) /\ forfeited' = (forfeited \/ page.quit = "save")
            \/ /\ page.saver # Nobody /\ page'.saver = page.saver /\ page'.again = TRUE
               /\ call' = call /\ forfeited' = forfeited
         /\ UNCHANGED <<value, possible, bridge, run, host, handed, wanted, early, unsaved>>
<1> DEFINE q == [page EXCEPT !.timer = FALSE]
<1>1. IsPage(page) /\ FieldsTyped(page)
  BY PageFields
<1>2. IsPage(q) /\ Same(page, q, {"timer"}) /\ q.timer = FALSE
  BY <1>1 DEF IsPage, Fields, Same
<1>3. /\ page.timer /\ UNCHANGED <<bridge, run, host, handed, wanted, early, unsaved>>
      /\ \/ page.saver = Nobody /\ AskSave(Timer, q)
         \/ page.saver # Nobody /\ page' = [page EXCEPT !.timer = FALSE, !.again = TRUE] /\ UNCHANGED <<store, forfeited>>
  BY DEF TimerFires, NoSave
<1> HIDE DEF q
<1>4. FieldsTyped(q)
  BY <1>1, <1>2 DEF FieldsTyped, Same
<1>5. q \in Pages /\ q.latest = page.latest /\ q.quit = page.quit
  BY <1>2, <1>4, PagesAre DEF Same
<1>6. CASE page.saver = Nobody /\ AskSave(Timer, q)
  <2>1. /\ page' \in Pages /\ Same(q, page', {"saver", "again"}) /\ page'.saver = Timer
        /\ CallIs(Timer, "saving", q.latest) /\ forfeited' = (forfeited \/ q.quit = "save")
        /\ UNCHANGED <<value, possible>>
    BY <1>5, <1>6, AskSaveStep
  <2>2. Same(page, page', {"timer", "saver", "again"}) /\ page'.timer = FALSE
    BY <1>2, <2>1 DEF Same
  <2>3. QED
    BY <1>3, <1>5, <1>6, <2>1, <2>2
<1>7. CASE page.saver # Nobody /\ page' = [page EXCEPT !.timer = FALSE, !.again = TRUE] /\ UNCHANGED <<store, forfeited>>
  <2>1. IsPage(page') /\ Same(page, page', {"timer", "again"}) /\ page'.timer = FALSE /\ page'.again = TRUE
    BY <1>1, <1>7 DEF IsPage, Fields, Same
  <2>2. FieldsTyped(page')
    BY <1>1, <2>1 DEF FieldsTyped, Same
  <2>3. page' \in Pages /\ Same(page, page', {"timer", "saver", "again"}) /\ page'.saver = page.saver
    BY <2>1, <2>2, PagesAre DEF Same
  <2>4. QED
    BY <1>3, <1>7, <2>1, <2>3 DEF store
<1>8. QED
  BY <1>3, <1>6, <1>7

\* What SaveAgain does.
LEMMA SaveAgainFacts ==
  ASSUME TypeOK, NEW c \in Runs \cup {Timer}, SaveAgain(c)
  PROVE  /\ page.saver = c /\ call[c].pc = "ok" /\ page' \in Pages
         /\ Same(page, page', {"again"})
         /\ CallIs(c, "saving", page.latest) /\ forfeited' = (forfeited \/ page.quit = "save")
         /\ UNCHANGED <<value, possible, bridge, run, host, handed, wanted, early, unsaved>>
<1>1. page \in Pages
  BY PageFields
<1>2. /\ page' \in Pages /\ Same(page, page', {"saver", "again"}) /\ page'.saver = c
      /\ CallIs(c, "saving", page.latest) /\ forfeited' = (forfeited \/ page.quit = "save")
      /\ UNCHANGED <<value, possible>>
  BY <1>1, AskSaveStep DEF SaveAgain
<1>3. Same(page, page', {"again"})
  BY <1>2 DEF Same, SaveAgain
<1>4. QED
  BY <1>2, <1>3 DEF SaveAgain

\* The page with no save in flight.
LEMMA SaverFree ==
  ASSUME TypeOK
  PROVE  LET q == [page EXCEPT !.saver = Nobody]
         IN  /\ q \in Pages /\ Same(page, q, {"saver"}) /\ q.saver = Nobody
             /\ q.list = page.list /\ q.changed = page.changed /\ q.cancelling = page.cancelling
<1> DEFINE q == [page EXCEPT !.saver = Nobody]
<1>1. IsPage(page) /\ FieldsTyped(page)
  BY PageFields
<1>2. IsPage(q) /\ Same(page, q, {"saver"}) /\ q.saver = Nobody
  BY <1>1 DEF IsPage, Fields, Same
<1> HIDE DEF q
<1>3. FieldsTyped(q)
  BY <1>1, <1>2 DEF FieldsTyped, Same
<1>4. q \in Pages /\ q.list = page.list /\ q.changed = page.changed /\ q.cancelling = page.cancelling
  BY <1>2, <1>3, PagesAre DEF Same
<1>5. QED
  BY <1>2, <1>4 DEF q

\* What Saved does.
LEMMA SavedFacts ==
  ASSUME TypeOK, NEW c \in Runs \cup {Timer}, Saved(c)
  PROVE  /\ page.saver = c /\ call[c].pc = "ok" /\ ~page.again
         /\ CallIs(c, "idle", << >>) /\ page' \in Pages /\ page'.saver = Nobody
         /\ \/ c = Timer /\ run' = run /\ Same(page, page', {"saver"})
            \/ /\ c \in Runs /\ Id(c) \in page.cancelling
               /\ Same(page, page', {"saver", "list", "changed", "cancelling"})
               /\ page'.cancelling = page.cancelling \ {Id(c)} /\ Shows(page, page', {Id(c)}, "ended")
               /\ Goes(c, "idle")
            \/ /\ c \in Runs /\ Id(c) \notin page.cancelling
               /\ Same(page, page', {"saver"}) /\ Goes(c, "asked")
         /\ unsaved' = FALSE
         /\ UNCHANGED <<value, possible, bridge, host, handed, wanted, early, forfeited>>
<1> DEFINE q == [page EXCEPT !.saver = Nobody]
<1>1. /\ page.saver = c /\ call[c].pc = "ok" /\ ~page.again /\ unsaved' = FALSE
      /\ UNCHANGED <<bridge, host, handed, wanted, early, forfeited>>
  BY DEF Saved
<1>2. CallIs(c, "idle", << >>) /\ UNCHANGED <<value, possible>>
  <2>1. c \in Calls
    BY RunShapes
  <2>2. QED
    BY <2>1, CollectFacts DEF Saved
<1>3. /\ q \in Pages /\ Same(page, q, {"saver"}) /\ q.saver = Nobody
      /\ q.list = page.list /\ q.changed = page.changed /\ q.cancelling = page.cancelling
  BY SaverFree
<1>4. \/ c = Timer /\ page' = q /\ run' = run
      \/ c \in Runs /\ Register(q, c)
  BY DEF Saved
<1> HIDE DEF q
<1>5. CASE c = Timer /\ page' = q /\ run' = run
  BY <1>1, <1>2, <1>3, <1>5
<1>6. CASE c \in Runs /\ Register(q, c)
  <2>1. CASE /\ Id(c) \in q.cancelling
             /\ page' \in Pages /\ Same(q, page', {"list", "changed", "cancelling"})
             /\ page'.cancelling = q.cancelling \ {Id(c)} /\ Shows(q, page', {Id(c)}, "ended")
             /\ Goes(c, "idle")
    <3>1. Same(page, page', {"saver", "list", "changed", "cancelling"}) /\ page'.saver = Nobody
      BY <1>3, <2>1 DEF Same
    <3>2. Shows(page, page', {Id(c)}, "ended")
      BY <1>3, <2>1 DEF Shows
    <3>3. QED
      BY <1>1, <1>2, <1>3, <1>6, <2>1, <3>1, <3>2
  <2>2. CASE Id(c) \notin q.cancelling /\ page' = q /\ Goes(c, "asked")
    BY <1>1, <1>2, <1>3, <1>6, <2>2
  <2>3. QED
    BY <1>3, <1>6, <2>1, <2>2, RegisterFacts
<1>7. QED
  BY <1>4, <1>5, <1>6

\* What SaveFailed does.
LEMMA SaveFailedFacts ==
  ASSUME TypeOK, Distinct(page.list), NEW c \in Runs \cup {Timer}, SaveFailed(c)
  PROVE  /\ page.saver = c /\ call[c].pc = "error"
         /\ CallIs(c, "idle", << >>) /\ page' \in Pages /\ page'.saver = Nobody
         /\ \/ c = Timer /\ run' = run /\ Same(page, page', {"saver"})
            \/ /\ c \in Runs /\ c = Bridge(Id(c)) /\ Goes(c, "idle")
               /\ Same(page, page', {"saver", "list", "changed"})
               /\ page'.changed = page.changed \cup {"list"} /\ page'.list = Without(page.list, Id(c))
            \/ /\ c \in Runs /\ c # Bridge(Id(c)) /\ Goes(c, "idle")
               /\ Same(page, page', {"saver", "list", "changed"}) /\ Shows(page, page', {Id(c)}, "ended")
         /\ unsaved' = TRUE
         /\ UNCHANGED <<value, possible, bridge, host, handed, wanted, early, forfeited>>
<1> DEFINE q == [page EXCEPT !.saver = Nobody]
<1>1. /\ page.saver = c /\ call[c].pc = "error" /\ unsaved' = TRUE
      /\ UNCHANGED <<bridge, host, handed, wanted, early, forfeited>>
  BY DEF SaveFailed
<1>2. CallIs(c, "idle", << >>) /\ UNCHANGED <<value, possible>>
  <2>1. c \in Calls
    BY RunShapes
  <2>2. QED
    BY <2>1, CollectFacts DEF SaveFailed
<1>3. /\ q \in Pages /\ Same(page, q, {"saver"}) /\ q.saver = Nobody
      /\ q.list = page.list /\ q.changed = page.changed /\ q.cancelling = page.cancelling
  BY SaverFree
<1>4. \/ c = Timer /\ page' = q /\ run' = run
      \/ /\ c \in Runs /\ run' = [run EXCEPT ![c] = "idle"]
         /\ \/ c = Bridge(Id(c)) /\ page' = Listed(q, Without(q.list, Id(c)))
            \/ c # Bridge(Id(c)) /\ page' = Shown(q, Id(c), "ended")
  BY DEF SaveFailed
<1>5. page.list \in Lists
  BY PageFields DEF FieldsTyped
<1> HIDE DEF q
<1>6. CASE c = Timer /\ page' = q /\ run' = run
  BY <1>1, <1>2, <1>3, <1>6
<1>7. ASSUME c \in Runs, run' = [run EXCEPT ![c] = "idle"]
      PROVE  Goes(c, "idle")
  BY <1>7, GoesFacts DEF Steps
<1>8. CASE c \in Runs /\ run' = [run EXCEPT ![c] = "idle"]
           /\ c = Bridge(Id(c)) /\ page' = Listed(q, Without(q.list, Id(c)))
  <2>1. Without(page.list, Id(c)) \in Lists
    BY <1>5, WithoutFacts
  <2>2. /\ page' \in Pages /\ Same(q, page', {"list", "changed"})
        /\ page'.list = Without(page.list, Id(c)) /\ page'.changed = q.changed \cup {"list"}
    BY <1>3, <1>8, <2>1, ListedFacts
  <2>3. Same(page, page', {"saver", "list", "changed"}) /\ page'.saver = Nobody
    BY <1>3, <2>2 DEF Same
  <2>4. QED
    BY <1>1, <1>2, <1>3, <1>7, <1>8, <2>2, <2>3
<1>9. CASE c \in Runs /\ run' = [run EXCEPT ![c] = "idle"]
           /\ c # Bridge(Id(c)) /\ page' = Shown(q, Id(c), "ended")
  <2>1. "ended" \in Statuses
    BY DEF Statuses
  <2>2. page' \in Pages /\ Same(q, page', {"list", "changed"}) /\ Shows(q, page', {Id(c)}, "ended")
    BY <1>3, <1>9, <2>1, ShownFacts
  <2>3. Same(page, page', {"saver", "list", "changed"}) /\ page'.saver = Nobody
    BY <1>3, <2>2 DEF Same
  <2>4. Shows(page, page', {Id(c)}, "ended")
    BY <1>3, <2>2 DEF Shows
  <2>5. QED
    BY <1>1, <1>2, <1>7, <1>9, <2>2, <2>3, <2>4
<1>10. QED
  BY <1>4, <1>6, <1>8, <1>9

\* The ticket of i becomes s.
TicketIs(i, s) ==
  /\ ticket' \in [Ids -> {"none", "registered", "started"}]
  /\ ticket'[i] = s /\ \A j \in Ids: j # i => ticket'[j] = ticket[j]

\* An assignment to one ticket leaves the others alone.
LEMMA TicketFacts ==
  ASSUME TypeOK, NEW i \in Ids, NEW s \in {"none", "registered", "started"},
         ticket' = [ticket EXCEPT ![i] = s]
  PROVE  TicketIs(i, s)
BY DEF TypeOK, TicketIs

\* What discard_registered_download does to the coordinator.
Discards(i) ==
  /\ ticket' \in [Ids -> {"none", "registered", "started"}]
  /\ ticket'[i] = (IF ticket[i] = "registered" THEN "none" ELSE ticket[i])
  /\ \A j \in Ids: j # i => ticket'[j] = ticket[j]
  /\ cancelled' \subseteq cancelled /\ cancelled \ {i} \subseteq cancelled'

\* discard_registered_download gives back what is registered, and leaves alone what
\* has started.
LEMMA DiscardFacts ==
  ASSUME TypeOK, NEW i \in Ids, Discard(i)
  PROVE  Discards(i)
BY DEF TypeOK, Discard, Discards

\* What HostRegisters does.
LEMMA HostRegistersFacts ==
  ASSUME TypeOK, NEW p \in Runs, HostRegisters(p)
  PROVE  /\ run[p] = "asked"
         /\ \/ /\ ticket[Id(p)] = "none" /\ Goes(p, "answered") /\ TicketIs(Id(p), "registered")
               /\ cancelled' = cancelled \ {Id(p)} /\ handed' \in [Requests -> Nat]
               /\ \A r \in Requests: handed'[r] = IF p = Bridge(r) THEN handed[r] + 1 ELSE handed[r]
            \/ Goes(p, "refused") /\ UNCHANGED <<host, handed>>
         /\ UNCHANGED <<value, possible, call, bridge, page, wanted, early, unsaved, forfeited>>
<1>1. Id(p) \in Ids /\ (p = Bridge(Id(p)) => Id(p) \in Requests) /\ \A r: p = Bridge(r) => r = Id(p)
  BY RunShapes DEF Bridge, Id
<1>2. UNCHANGED <<value, possible, call, bridge, page, wanted, early, unsaved, forfeited>> /\ run[p] = "asked"
  BY DEF HostRegisters, RunGoes, store
<1>3. CASE /\ ticket[Id(p)] = "none" /\ RunGoes(p, "asked", "answered")
           /\ ticket' = [ticket EXCEPT ![Id(p)] = "registered"] /\ cancelled' = cancelled \ {Id(p)}
           /\ handed' = IF p = Bridge(Id(p)) THEN [handed EXCEPT ![Id(p)] = @ + 1] ELSE handed
  <2>1. Goes(p, "answered")
    BY <1>3, GoesFacts DEF RunGoes, Steps
  <2>2. TicketIs(Id(p), "registered")
    BY <1>1, <1>3, TicketFacts
  <2>3. handed \in [Requests -> Nat]
    BY DEF TypeOK
  <2>4. CASE p = Bridge(Id(p))
    <3>1. handed' = [handed EXCEPT ![Id(p)] = @ + 1] /\ Id(p) \in Requests
      BY <1>1, <1>3, <2>4
    <3>2. handed' \in [Requests -> Nat] /\ \A r \in Requests: handed'[r] = IF r = Id(p) THEN handed[r] + 1 ELSE handed[r]
      BY <2>3, <3>1
    <3>3. \A r \in Requests: p = Bridge(r) <=> r = Id(p)
      BY <1>1, <2>4
    <3>4. QED
      BY <1>2, <1>3, <2>1, <2>2, <3>2, <3>3
  <2>5. CASE p # Bridge(Id(p))
    <3>1. \A r \in Requests: p # Bridge(r)
      BY <1>1, <2>5
    <3>2. handed' = handed
      BY <1>3, <2>5
    <3>3. QED
      BY <1>2, <1>3, <2>1, <2>2, <2>3, <3>1, <3>2
  <2>6. QED
    BY <2>4, <2>5
<1>4. CASE RunGoes(p, "asked", "refused") /\ UNCHANGED <<host, handed>>
  <2>1. Goes(p, "refused")
    BY <1>4, GoesFacts DEF RunGoes, Steps
  <2>2. QED
    BY <1>2, <1>4, <2>1
<1>5. QED
  BY <1>3, <1>4 DEF HostRegisters

\* What Answered and Refused do to the page when the run ends there.
LEMMA DroppedFacts ==
  ASSUME TypeOK, NEW i \in Ids,
         page' = Shown([page EXCEPT !.cancelling = @ \ {i}, !.registered = @ \ {i}], i, "ended")
  PROVE  /\ page' \in Pages /\ Same(page, page', {"list", "changed", "cancelling", "registered"})
         /\ page'.cancelling = page.cancelling \ {i} /\ page'.registered = page.registered \ {i}
         /\ Shows(page, page', {i}, "ended")
<1> DEFINE q == [page EXCEPT !.cancelling = @ \ {i}, !.registered = @ \ {i}]
<1>1. IsPage(page) /\ FieldsTyped(page)
  BY PageFields
<1>2. /\ IsPage(q) /\ Same(page, q, {"cancelling", "registered"})
      /\ q.cancelling = page.cancelling \ {i} /\ q.registered = page.registered \ {i}
  BY <1>1 DEF IsPage, Fields, Same
<1>3. page' = Shown(q, i, "ended")
  OBVIOUS
<1> HIDE DEF q
<1>4. FieldsTyped(q)
  <2>1. page.cancelling \in SUBSET Ids /\ page.registered \in SUBSET Ids
    BY <1>1 DEF FieldsTyped
  <2>2. q.cancelling \in SUBSET Ids /\ q.registered \in SUBSET Ids
    BY <1>2, <2>1
  <2>3. QED
    BY <1>1, <1>2, <2>2 DEF FieldsTyped, Same
<1>5. q \in Pages /\ q.list = page.list
  BY <1>2, <1>4, PagesAre DEF Same
<1>6. "ended" \in Statuses
  BY DEF Statuses
<1>7. page' \in Pages /\ Same(q, page', {"list", "changed"}) /\ Shows(q, page', {i}, "ended")
  BY <1>3, <1>5, <1>6, ShownFacts
<1>8. /\ Same(page, page', {"list", "changed", "cancelling", "registered"})
      /\ page'.cancelling = q.cancelling /\ page'.registered = q.registered
  BY <1>2, <1>7 DEF Same
<1>9. QED
  BY <1>2, <1>5, <1>7, <1>8 DEF Shows

\* What Answered does.
LEMMA AnsweredFacts ==
  ASSUME TypeOK, NEW p \in Runs, Answered(p)
  PROVE  /\ run[p] = "answered" /\ page' \in Pages
         /\ \/ /\ Id(p) \in page.cancelling
               /\ Same(page, page', {"list", "changed", "cancelling", "registered"})
               /\ page'.cancelling = page.cancelling \ {Id(p)} /\ page'.registered = page.registered \ {Id(p)}
               /\ Shows(page, page', {Id(p)}, "ended") /\ Discards(Id(p)) /\ Goes(p, "idle")
            \/ /\ Id(p) \notin page.cancelling /\ Goes(p, Registered(p)) /\ UNCHANGED host
               /\ page'.registered = page.registered \cup {Id(p)}
               /\ \/ Registered(p) = "calling" /\ Same(page, page', {"list", "changed", "registered"})
                     /\ Shows(page, page', {Id(p)}, "queued")
                  \/ Registered(p) # "calling" /\ Same(page, page', {"registered"})
         /\ UNCHANGED <<value, possible, call, bridge, past>>
<1> DEFINE i == Id(p)
           q == [page EXCEPT !.registered = @ \cup {i}]
<1>1. IsPage(page) /\ FieldsTyped(page) /\ i \in Ids
  BY PageFields, RunShapes
<1>2. run[p] = "answered" /\ UNCHANGED <<value, possible, call, bridge, past>>
  BY DEF Answered, store
<1>3. CASE i \in page.cancelling
  <2>1. /\ page' = Shown([page EXCEPT !.cancelling = @ \ {i}, !.registered = @ \ {i}], i, "ended")
        /\ Discard(i) /\ run' = [run EXCEPT ![p] = "idle"]
    BY <1>3 DEF Answered
  <2>2. Goes(p, "idle")
    BY <2>1, GoesFacts DEF Steps
  <2>3. QED
    BY <1>1, <1>2, <1>3, <2>1, <2>2, DiscardFacts, DroppedFacts
<1>4. CASE i \notin page.cancelling
  <2>1. /\ page' = IF Registered(p) = "calling" THEN ShowQueued(q, {i}) ELSE q
        /\ run' = [run EXCEPT ![p] = Registered(p)] /\ UNCHANGED host
    BY <1>4 DEF Answered
  <2>2. Goes(p, Registered(p))
    <3>1. Registered(p) \in Steps
      BY DEF Registered, Steps
    <3>2. QED
      BY <2>1, <3>1, GoesFacts
  <2>3. IsPage(q) /\ Same(page, q, {"registered"}) /\ q.registered = page.registered \cup {i}
    BY <1>1 DEF IsPage, Fields, Same
  <2> HIDE DEF q
  <2>4. FieldsTyped(q)
    BY <1>1, <2>3 DEF FieldsTyped, Same
  <2>5. q \in Pages /\ q.list = page.list
    BY <2>3, <2>4, PagesAre DEF Same
  <2>6. CASE Registered(p) = "calling"
    <3>1. page' \in Pages /\ Same(q, page', {"list", "changed"}) /\ Shows(q, page', {i}, "queued")
      BY <2>1, <2>5, <2>6, ShowQueuedFacts
    <3>2. Same(page, page', {"list", "changed", "registered"}) /\ page'.registered = q.registered
      BY <2>3, <3>1 DEF Same
    <3>3. Shows(page, page', {i}, "queued")
      BY <2>5, <3>1 DEF Shows
    <3>4. QED
      BY <1>2, <1>4, <2>1, <2>2, <2>3, <2>6, <3>1, <3>2, <3>3
  <2>7. CASE Registered(p) # "calling"
    BY <1>2, <1>4, <2>1, <2>2, <2>3, <2>5, <2>7
  <2>8. QED
    BY <2>6, <2>7
<1>5. QED
  BY <1>3, <1>4

\* What Refused does.
LEMMA RefusedFacts ==
  ASSUME TypeOK, NEW p \in Runs, Refused(p)
  PROVE  /\ run[p] = "refused" /\ Goes(p, "idle") /\ page' \in Pages
         /\ Same(page, page', {"list", "changed", "cancelling", "registered"})
         /\ page'.cancelling = page.cancelling \ {Id(p)} /\ page'.registered = page.registered \ {Id(p)}
         /\ Shows(page, page', {Id(p)}, "ended") /\ Discards(Id(p))
         /\ UNCHANGED <<value, possible, call, bridge, past>>
<1>1. Id(p) \in Ids
  BY RunShapes
<1>2. run[p] = "refused" /\ Goes(p, "idle")
  BY GoesFacts DEF Refused, RunGoes, Steps
<1>3. /\ page' = Shown([page EXCEPT !.cancelling = @ \ {Id(p)}, !.registered = @ \ {Id(p)}], Id(p), "ended")
      /\ Discard(Id(p)) /\ UNCHANGED <<value, possible, call, bridge, past>>
  BY DEF Refused, store
<1>4. QED
  BY <1>1, <1>2, <1>3, DiscardFacts, DroppedFacts

\* What Acknowledge does.
LEMMA AcknowledgeFacts ==
  ASSUME TypeOK, NEW r \in Requests, Acknowledge(r)
  PROVE  /\ run[Bridge(r)] = "acknowledge" /\ Goes(Bridge(r), "calling") /\ page' \in Pages
         /\ Shows(page, page', {r}, "queued")
         /\ \/ /\ Remove(r) /\ Same(page, page', {"list", "changed", "requests"})
               /\ page'.requests = page.requests \ {r}
            \/ UNCHANGED bridge /\ Same(page, page', {"list", "changed"})
         /\ UNCHANGED <<value, possible, call, host, past>>
<1> DEFINE q == ShowQueued(page, {r})
           q2 == [q EXCEPT !.requests = @ \ {r}, !.changed = @ \cup {"requests"}]
<1>1. /\ run[Bridge(r)] = "acknowledge" /\ Goes(Bridge(r), "calling")
      /\ UNCHANGED <<value, possible, call, host, past>>
  BY RunShapes, GoesFacts DEF Acknowledge, RunGoes, Steps, store
<1>2. q \in Pages /\ Same(page, q, {"list", "changed"}) /\ Shows(page, q, {r}, "queued")
  BY PageFields, ShowQueuedFacts
<1>3. \/ Remove(r) /\ page' = q2
      \/ UNCHANGED bridge /\ page' = q
  BY DEF Acknowledge
<1> HIDE DEF q
<1>4. CASE Remove(r) /\ page' = q2
  <2>1. IsPage(q) /\ FieldsTyped(q)
    BY <1>2, PagesAre
  <2>2. /\ IsPage(q2) /\ Same(q, q2, {"requests", "changed"})
        /\ q2.requests = q.requests \ {r} /\ q2.changed = q.changed \cup {"requests"}
    BY <2>1 DEF IsPage, Fields, Same
  <2> HIDE DEF q2
  <2>3. FieldsTyped(q2)
    BY <2>1, <2>2 DEF FieldsTyped, Same
  <2>4. /\ Same(page, q2, {"list", "changed", "requests"}) /\ q2.list = q.list
        /\ q2.requests = page.requests \ {r}
    BY <1>2, <2>2 DEF Same
  <2>5. Shows(page, q2, {r}, "queued")
    BY <1>2, <2>2, <2>4 DEF Shows
  <2>6. QED
    BY <1>1, <1>4, <2>2, <2>3, <2>4, <2>5, PagesAre
<1>5. CASE UNCHANGED bridge /\ page' = q
  BY <1>1, <1>2, <1>5
<1>6. QED
  BY <1>3, <1>4, <1>5

\* What Claim does.
LEMMA ClaimFacts ==
  ASSUME TypeOK, NEW p \in Runs, Claim(p)
  PROVE  /\ run[p] = "calling" /\ page' \in Pages
         /\ \/ /\ ticket[Id(p)] = "registered" /\ Goes(p, "running") /\ TicketIs(Id(p), "started")
               /\ \/ Same(page, page', {"list", "changed"}) /\ Shows(page, page', {Id(p)}, "downloading")
                  \/ page' = page
            \/ ticket[Id(p)] # "registered" /\ Goes(p, "ended") /\ UNCHANGED <<page, ticket>>
         /\ UNCHANGED <<value, possible, call, bridge, cancelled, past>>
<1>1. Id(p) \in Ids /\ page \in Pages
  BY RunShapes, PageFields
<1>2. run[p] = "calling" /\ UNCHANGED <<value, possible, call, bridge, cancelled, past>>
  BY DEF Claim, RunGoes, store
<1>3. CASE ticket[Id(p)] = "registered"
  <2>1. Goes(p, "running") /\ TicketIs(Id(p), "started")
    BY <1>1, <1>3, GoesFacts, TicketFacts DEF Claim, RunGoes, Steps
  <2>2. page' = Shown(page, Id(p), "downloading") \/ page' = page
    BY <1>3 DEF Claim
  <2>3. "downloading" \in Statuses
    BY DEF Statuses
  <2>4. QED
    BY <1>1, <1>2, <1>3, <2>1, <2>2, <2>3, ShownFacts
<1>4. CASE ticket[Id(p)] # "registered"
  <2>1. Goes(p, "ended") /\ UNCHANGED <<page, ticket>>
    BY <1>4, GoesFacts DEF Claim, RunGoes, Steps
  <2>2. QED
    BY <1>1, <1>2, <1>4, <2>1
<1>5. QED
  BY <1>3, <1>4

\* What Finish does.
LEMMA FinishFacts ==
  ASSUME TypeOK, NEW p \in Runs, Finish(p)
  PROVE  /\ run[p] = "running" /\ Goes(p, "ended") /\ TicketIs(Id(p), "none")
         /\ cancelled' = cancelled \ {Id(p)}
         /\ UNCHANGED <<value, possible, call, bridge, page, past>>
BY RunShapes, GoesFacts, TicketFacts DEF Finish, RunGoes, Steps, store

\* What Ended does.
LEMMA EndedFacts ==
  ASSUME TypeOK, NEW p \in Runs, Ended(p)
  PROVE  /\ run[p] = "ended" /\ Goes(p, "idle") /\ page' \in Pages
         /\ Same(page, page', {"list", "changed", "registered"})
         /\ page'.registered = page.registered \ {Id(p)}
         /\ Shows(page, page', {Id(p)}, "ended") /\ Discards(Id(p))
         /\ wanted' = wanted \ {Id(p)}
         /\ UNCHANGED <<value, possible, call, bridge, handed, early, unsaved, forfeited>>
<1> DEFINE i == Id(p)
           q == Shown(page, i, "ended")
<1>1. i \in Ids /\ page \in Pages /\ "ended" \in Statuses
  BY RunShapes, PageFields DEF Statuses
<1>2. /\ run[p] = "ended" /\ Goes(p, "idle") /\ Discards(i) /\ wanted' = wanted \ {i}
      /\ UNCHANGED <<value, possible, call, bridge, handed, early, unsaved, forfeited>>
  BY <1>1, GoesFacts, DiscardFacts DEF Ended, RunGoes, Steps, store
<1>3. q \in Pages /\ Same(page, q, {"list", "changed"}) /\ Shows(page, q, {i}, "ended")
  BY <1>1, ShownFacts
<1>4. page' = [q EXCEPT !.registered = @ \ {i}]
  BY DEF Ended
<1> HIDE DEF q
<1>5. IsPage(q) /\ FieldsTyped(q)
  BY <1>3, PagesAre
<1>6. IsPage(page') /\ Same(q, page', {"registered"}) /\ page'.registered = q.registered \ {i}
  BY <1>4, <1>5 DEF IsPage, Fields, Same
<1>7. FieldsTyped(page')
  BY <1>5, <1>6 DEF FieldsTyped, Same
<1>8. /\ Same(page, page', {"list", "changed", "registered"}) /\ page'.list = q.list /\ page'.changed = q.changed
      /\ page'.registered = page.registered \ {i}
  BY <1>3, <1>6 DEF Same
<1>9. Shows(page, page', {i}, "ended")
  BY <1>3, <1>8 DEF Shows
<1>10. QED
  BY <1>2, <1>6, <1>7, <1>8, <1>9, PagesAre

\* What Cancel does.
LEMMA CancelFacts ==
  ASSUME TypeOK, NEW i \in Ids, Cancel(i)
  PROVE  /\ Has(page.list, i) /\ StatusOf(page.list, i) \in Unfinished /\ page' \in Pages
         /\ \/ /\ i \notin page.registered /\ Same(page, page', {"list", "changed", "cancelling"})
               /\ page'.cancelling = page.cancelling \cup {i} /\ Shows(page, page', {i}, "cancelling")
               /\ Wants(i) /\ UNCHANGED host
            \/ UNCHANGED <<page, host, wanted, early>>
            \/ /\ i \in page.registered /\ Same(page, page', {"list", "changed"})
               /\ Shows(page, page', {i}, "cancelling")
               /\ cancelled' = cancelled \cup {i} /\ Wants(i) /\ ticket' = ticket
         /\ UNCHANGED <<value, possible, call, bridge, run, handed, unsaved, forfeited>>
<1> DEFINE q == [page EXCEPT !.cancelling = @ \cup {i}]
<1>1. IsPage(page) /\ FieldsTyped(page) /\ page \in Pages /\ "cancelling" \in Statuses
  BY PageFields DEF Statuses
<1>2. /\ Has(page.list, i) /\ StatusOf(page.list, i) \in Unfinished
      /\ UNCHANGED <<value, possible, call, bridge, run, handed, unsaved, forfeited>>
  BY DEF Cancel, store
<1>3. CASE i \notin page.registered /\ page' = Shown(q, i, "cancelling") /\ Wants(i) /\ UNCHANGED host
  <2>1. IsPage(q) /\ Same(page, q, {"cancelling"}) /\ q.cancelling = page.cancelling \cup {i}
    BY <1>1 DEF IsPage, Fields, Same
  <2> HIDE DEF q
  <2>2. FieldsTyped(q)
    BY <1>1, <2>1 DEF FieldsTyped, Same
  <2>3. q \in Pages /\ q.list = page.list
    BY <2>1, <2>2, PagesAre DEF Same
  <2>4. page' \in Pages /\ Same(q, page', {"list", "changed"}) /\ Shows(q, page', {i}, "cancelling")
    BY <1>1, <1>3, <2>3, ShownFacts
  <2>5. Same(page, page', {"list", "changed", "cancelling"}) /\ page'.cancelling = q.cancelling
    BY <2>1, <2>4 DEF Same
  <2>6. Shows(page, page', {i}, "cancelling")
    BY <2>3, <2>4 DEF Shows
  <2>7. QED
    BY <1>2, <1>3, <2>1, <2>4, <2>5, <2>6
<1>4. CASE UNCHANGED <<page, host, wanted, early>>
  BY <1>1, <1>2, <1>4
<1>5. CASE /\ i \in page.registered /\ page' = Shown(page, i, "cancelling") /\ cancelled' = cancelled \cup {i}
           /\ Wants(i) /\ ticket' = ticket
  <2>1. page' \in Pages /\ Same(page, page', {"list", "changed"}) /\ Shows(page, page', {i}, "cancelling")
    BY <1>1, <1>5, ShownFacts
  <2>2. QED
    BY <1>2, <1>5, <2>1
<1>6. QED
  BY <1>3, <1>4, <1>5 DEF Cancel

\* What the steps of a quit do.
LEMMA QuitFacts ==
  ASSUME TypeOK
  PROVE  /\ RequestQuit => /\ page' \in Pages /\ Same(page, page', {"quit", "timer"})
                           /\ page.quit = "no" /\ page'.quit = "wait" /\ page'.timer = FALSE
                           /\ UNCHANGED <<value, possible, call, bridge, run, host, past>>
         /\ QuitSaves => /\ page' \in Pages /\ Same(page, page', {"quit"})
                         /\ page.quit = "wait" /\ page'.quit = "save" /\ page.saver = Nobody
                         /\ call[Quitting].pc \in {"idle", "ok", "loaded", "error"}
                         /\ CallIs(Quitting, "saving", page.latest)
                         /\ forfeited' = (forfeited \/ page.ready # "ready")
                         /\ UNCHANGED <<value, possible, bridge, run, host, handed, wanted, early, unsaved>>
         /\ QuitFails => /\ page' \in Pages /\ Same(page, page', {"quit"})
                         /\ page.quit = "save" /\ page'.quit = "no" /\ call[Quitting].pc = "error"
                         /\ CallIs(Quitting, "idle", << >>) /\ unsaved' = TRUE
                         /\ UNCHANGED <<value, possible, bridge, run, host, handed, wanted, early, forfeited>>
<1>1. IsPage(page) /\ FieldsTyped(page) /\ page.latest \in Lists /\ Quitting \in Calls
  BY PageFields, RunShapes DEF FieldsTyped
<1>2. ASSUME RequestQuit
      PROVE  /\ page' \in Pages /\ Same(page, page', {"quit", "timer"})
             /\ page.quit = "no" /\ page'.quit = "wait" /\ page'.timer = FALSE
             /\ UNCHANGED <<value, possible, call, bridge, run, host, past>>
  <2>1. /\ IsPage(page') /\ Same(page, page', {"quit", "timer"}) /\ page'.quit = "wait" /\ page'.timer = FALSE
    BY <1>1, <1>2 DEF RequestQuit, IsPage, Fields, Same
  <2>2. FieldsTyped(page')
    BY <1>1, <2>1 DEF FieldsTyped, Same
  <2>3. QED
    BY <1>2, <2>1, <2>2, PagesAre DEF RequestQuit, store
<1>3. ASSUME QuitSaves
      PROVE  /\ page' \in Pages /\ Same(page, page', {"quit"})
             /\ page.quit = "wait" /\ page'.quit = "save" /\ page.saver = Nobody
             /\ call[Quitting].pc \in {"idle", "ok", "loaded", "error"}
             /\ CallIs(Quitting, "saving", page.latest)
             /\ forfeited' = (forfeited \/ page.ready # "ready")
             /\ UNCHANGED <<value, possible, bridge, run, host, handed, wanted, early, unsaved>>
  <2>1. IsPage(page') /\ Same(page, page', {"quit"}) /\ page'.quit = "save"
    BY <1>1, <1>3 DEF QuitSaves, IsPage, Fields, Same
  <2>2. FieldsTyped(page')
    BY <1>1, <2>1 DEF FieldsTyped, Same
  <2>3. /\ call[Quitting].pc \in {"idle", "ok", "loaded", "error"}
        /\ CallIs(Quitting, "saving", page.latest) /\ UNCHANGED <<value, possible>>
    BY <1>1, <1>3, AskSaveFacts DEF QuitSaves
  <2>4. QED
    BY <1>3, <2>1, <2>2, <2>3, PagesAre DEF QuitSaves
<1>4. ASSUME QuitFails
      PROVE  /\ page' \in Pages /\ Same(page, page', {"quit"})
             /\ page.quit = "save" /\ page'.quit = "no" /\ call[Quitting].pc = "error"
             /\ CallIs(Quitting, "idle", << >>) /\ unsaved' = TRUE
             /\ UNCHANGED <<value, possible, bridge, run, host, handed, wanted, early, forfeited>>
  <2>1. IsPage(page') /\ Same(page, page', {"quit"}) /\ page'.quit = "no"
    BY <1>1, <1>4 DEF QuitFails, IsPage, Fields, Same
  <2>2. FieldsTyped(page')
    BY <1>1, <2>1 DEF FieldsTyped, Same
  <2>3. CallIs(Quitting, "idle", << >>) /\ UNCHANGED <<value, possible>>
    BY <1>1, <1>4, CollectFacts DEF QuitFails
  <2>4. QED
    BY <1>4, <2>1, <2>2, <2>3, PagesAre DEF QuitFails
<1>5. QED
  BY <1>2, <1>3, <1>4

\* The page of a new session.
LEMMA NewPageFacts ==
  /\ NewPage \in Pages
  /\ NewPage.ready = "loading" /\ NewPage.list = << >> /\ NewPage.latest = << >> /\ NewPage.changed = {}
  /\ NewPage.listing = {} /\ NewPage.answered = FALSE /\ NewPage.requests = {} /\ NewPage.handled = {}
  /\ NewPage.next = 0 /\ NewPage.timer = FALSE /\ NewPage.saver = Nobody /\ NewPage.again = FALSE
  /\ NewPage.recovery = {} /\ NewPage.open = FALSE /\ NewPage.cancelling = {} /\ NewPage.registered = {}
  /\ NewPage.quit = "no"
BY EmptyList DEF NewPage, Pages

\* The calls of a new session: the load.
LEMMA NewCallsFacts ==
  /\ NewCalls \in [Calls -> [pc: Store!Pcs, value: Lists]]
  /\ \A c \in Calls: NewCalls[c].value = << >> /\ NewCalls[c].pc = IF c = Load THEN "loading" ELSE "idle"
<1> DEFINE R == [pc: Store!Pcs, value: Lists]
           a == [pc |-> "loading", value |-> << >>]
           b == [pc |-> "idle", value |-> << >>]
<1>1. a \in R /\ b \in R /\ a.pc = "loading" /\ b.pc = "idle" /\ a.value = << >> /\ b.value = << >>
  BY EmptyList DEF Store!Pcs
<1>2. NewCalls = [c \in Calls |-> IF c = Load THEN a ELSE b]
  BY DEF NewCalls, Store!Idle
<1> HIDE DEF R, a, b
<1>3. NewCalls \in [Calls -> R]
  BY <1>1, <1>2
<1>4. QED
  BY <1>1, <1>2, <1>3 DEF R

\* What the end of a session, by a quit, a crash or a power loss, leaves.
LEMMA SessionFacts ==
  ASSUME TypeOK, Quit \/ Crash \/ PowerLoss
  PROVE  /\ call' \in [Calls -> [pc: Store!Pcs, value: Lists]]
         /\ \A c \in Calls: call'[c].value = << >> /\ call'[c].pc = IF c = Load THEN "loading" ELSE "idle"
         /\ page' \in Pages /\ page' = NewPage
         /\ run' \in [Runs -> Steps] /\ \A p \in Runs: run'[p] = "idle"
         /\ ticket' \in [Ids -> {"none", "registered", "started"}] /\ \A i \in Ids: ticket'[i] = "none"
         /\ cancelled' = {} /\ wanted' = {} /\ early' = {} /\ unsaved' = FALSE
         /\ \/ page.quit = "save" /\ call[Quitting].pc = "ok" /\ UNCHANGED <<value, possible>>
            \/ value' \in possible \cup {value} /\ possible' = {value'}
         /\ inbox \subseteq inbox' /\ inbox' \subseteq Requests /\ unsure' \subseteq Requests
         /\ UNCHANGED <<given, handed, forfeited>>
<1>1. NewSession
  BY DEF Quit, Crash, PowerLoss
<1>2. call' = NewCalls /\ page' = NewPage /\ cancelled' = {} /\ wanted' = {} /\ early' = {} /\ unsaved' = FALSE
      /\ UNCHANGED <<given, handed, forfeited>>
  BY <1>1 DEF NewSession
<1>3. run' \in [Runs -> Steps] /\ \A p \in Runs: run'[p] = "idle"
  <2>1. run' = [p \in Runs |-> "idle"] /\ "idle" \in Steps
    BY <1>1 DEF NewSession, Steps
  <2> QED
    BY <2>1
<1>4. ticket' \in [Ids -> {"none", "registered", "started"}] /\ \A i \in Ids: ticket'[i] = "none"
  BY <1>1 DEF NewSession
<1>5. /\ \/ page.quit = "save" /\ call[Quitting].pc = "ok" /\ UNCHANGED <<value, possible>>
         \/ value' \in possible \cup {value} /\ possible' = {value'}
      /\ inbox \subseteq inbox' /\ inbox' \subseteq Requests /\ unsure' \subseteq Requests
  <2>1. inbox \subseteq Requests /\ unsure \subseteq Requests
    BY DEF TypeOK
  <2> QED
    BY <2>1 DEF Quit, Crash, PowerLoss
<1> QED
  BY <1>2, <1>3, <1>4, <1>5, NewPageFacts, NewCallsFacts

\* What the store does on behalf of one call.
LEMMA StoreFacts ==
  ASSUME TypeOK, StoreWorks
  PROVE  /\ \E c \in Calls:
              \/ /\ c = Load /\ call[Load].pc = "loading" /\ \A d \in Calls: call[d].pc # "replaced"
                 /\ CallIs(Load, "loaded", Reopened(value)) /\ UNCHANGED <<value, possible>>
              \/ /\ call[c].pc = "saving" /\ \A d \in Calls: call[d].pc # "replaced"
                 /\ CallIs(c, "replaced", call[c].value)
                 /\ value' = call[c].value /\ possible' = possible \cup {call[c].value}
              \/ /\ call[c].pc = "replaced" /\ CallIs(c, "ok", call[c].value)
                 /\ value' = value /\ possible' = {value}
              \/ /\ call[c].pc \in {"saving", "replaced", "loading"} /\ CallIs(c, "error", << >>)
                 /\ UNCHANGED <<value, possible>>
         /\ UNCHANGED <<bridge, page, run, host, past>>
<1>1. CASE Store!Load(Load)
  BY <1>1, LoadFacts, RunShapes DEF StoreWorks
<1>2. CASE \E c \in Calls: Store!Replace(c)
  <2>1. PICK c \in Calls: Store!Replace(c)
    BY <1>2
  <2> QED
    BY <2>1, ReplaceFacts DEF StoreWorks
<1>3. CASE \E c \in Calls: Store!Succeed(c)
  <2>1. PICK c \in Calls: Store!Succeed(c)
    BY <1>3
  <2> QED
    BY <2>1, SucceedFacts DEF StoreWorks
<1>4. CASE \E c \in Calls: Store!Fail(c)
  <2>1. PICK c \in Calls: Store!Fail(c)
    BY <1>4
  <2> QED
    BY <2>1, FailFacts DEF StoreWorks
<1> QED
  BY <1>1, <1>2, <1>3, <1>4 DEF StoreWorks

\* What the steps of a request before its download do.
LEMMA RequestFacts ==
  ASSUME TypeOK, NEW r \in Requests
  PROVE  /\ Accept(r) => /\ given' = given \cup {r} /\ inbox' = inbox \cup {r} /\ unsure' = unsure
                         /\ UNCHANGED <<store, page, run, host, past>>
         /\ AcknowledgeKnown(r) => /\ run[Bridge(r)] = "known" /\ Goes(Bridge(r), "idle")
                                   /\ Remove(r) \/ UNCHANGED bridge
                                   /\ UNCHANGED <<store, page, host, past>>
         /\ Inspect(r) => /\ run[Bridge(r)] = "inspect" /\ (Goes(Bridge(r), "gate") \/ Goes(Bridge(r), "idle"))
                          /\ UNCHANGED <<store, bridge, page, host, past>>
<1>1. Bridge(r) \in Runs
  BY RunShapes
<1>2. Accept(r) => /\ given' = given \cup {r} /\ inbox' = inbox \cup {r} /\ unsure' = unsure
                   /\ UNCHANGED <<store, page, run, host, past>>
  BY DEF Accept
<1>3. AcknowledgeKnown(r) => /\ run[Bridge(r)] = "known" /\ Goes(Bridge(r), "idle")
                             /\ Remove(r) \/ UNCHANGED bridge
                             /\ UNCHANGED <<store, page, host, past>>
  <2>1. "idle" \in Steps
    BY DEF Steps
  <2> QED
    BY <1>1, <2>1, GoesFacts DEF AcknowledgeKnown, RunGoes
<1>4. Inspect(r) => /\ run[Bridge(r)] = "inspect" /\ (Goes(Bridge(r), "gate") \/ Goes(Bridge(r), "idle"))
                    /\ UNCHANGED <<store, bridge, page, host, past>>
  <2>1. "idle" \in Steps /\ "gate" \in Steps
    BY DEF Steps
  <2> QED
    BY <1>1, <2>1, GoesFacts DEF Inspect, RunGoes
<1> QED
  BY <1>2, <1>3, <1>4

\* What adding and retrying do.
LEMMA GateFacts ==
  ASSUME TypeOK, NEW i \in Ids
  PROVE  /\ Add(i) => /\ ~Has(page.list, i) /\ ~Has(value, i) /\ ~Has(call[Load].value, i)
                      /\ run[Own(i)] = "idle" /\ Goes(Own(i), "gate") /\ wanted' = wanted \ {i}
                      /\ UNCHANGED <<store, bridge, page, host, handed, early, unsaved, forfeited>>
         /\ Retry(i) => /\ Has(page.list, i) /\ StatusOf(page.list, i) \in {"ended", "paused"}
                        /\ run[Own(i)] = "idle" /\ Goes(Own(i), "gate") /\ wanted' = wanted \ {i}
                        /\ UNCHANGED <<store, bridge, page, host, handed, early, unsaved, forfeited>>
<1>1. Own(i) \in Runs /\ "gate" \in Steps
  BY RunShapes DEF Steps
<1> QED
  BY <1>1, GoesFacts DEF Add, Retry, RunGoes

-----------------------------------------------------------------------------
(* Types.                                                                  *)

\* Every step keeps the types.
LEMMA TypeKept ==
  ASSUME TypeOK, Distinct(page.list), [Next]_vars
  PROVE  TypeOK'
<1> USE DEF TypeOK, CallIs, Goes, TicketIs, Discards, store, bridge, host, past, Remove
<1>1. CASE StoreWorks
  BY <1>1, StoreFacts, CallTyped, ReopenedFacts
<1>2. CASE Loaded
  BY <1>2, LoadedFacts
<1>3. CASE LoadFailed
  BY <1>3, LoadFailedFacts
<1>4. CASE Render
  BY <1>4, RenderFacts
<1>5. CASE Recover
  BY <1>5, RecoverFacts
<1>6. CASE ListInbox
  BY <1>6, ListInboxFacts
<1>7. CASE ReceiveListing
  BY <1>7, ReceiveListingFacts
<1>8. CASE TimerFires
  BY <1>8, TimerFiresFacts
<1>9. ASSUME NEW r \in Requests, Accept(r) PROVE TypeOK'
  BY <1>9, RequestFacts
<1>10. ASSUME NEW r \in Requests, AcknowledgeKnown(r) PROVE TypeOK'
  BY <1>10, RequestFacts
<1>11. ASSUME NEW r \in Requests, Inspect(r) PROVE TypeOK'
  BY <1>11, RequestFacts
<1>12. ASSUME NEW r \in Requests, Acknowledge(r) PROVE TypeOK'
  BY <1>12, AcknowledgeFacts
<1>13. ASSUME NEW p \in Runs, Enqueue(p) PROVE TypeOK'
  BY <1>13, EnqueueFacts
<1>14. ASSUME NEW p \in Runs, StopWaiting(p) PROVE TypeOK'
  BY <1>14, StopWaitingFacts
<1>15. ASSUME NEW p \in Runs, HostRegisters(p) PROVE TypeOK'
  BY <1>15, HostRegistersFacts
<1>16. ASSUME NEW p \in Runs, Answered(p) PROVE TypeOK'
  BY <1>16, AnsweredFacts
<1>17. ASSUME NEW p \in Runs, Refused(p) PROVE TypeOK'
  BY <1>17, RefusedFacts
<1>18. ASSUME NEW p \in Runs, Claim(p) PROVE TypeOK'
  BY <1>18, ClaimFacts
<1>19. ASSUME NEW p \in Runs, Finish(p) PROVE TypeOK'
  BY <1>19, FinishFacts
<1>20. ASSUME NEW p \in Runs, Ended(p) PROVE TypeOK'
  BY <1>20, EndedFacts
<1>21. ASSUME NEW c \in Runs \cup {Timer}, SaveAgain(c) PROVE TypeOK'
  BY <1>21, SaveAgainFacts
<1>22. ASSUME NEW c \in Runs \cup {Timer}, Saved(c) PROVE TypeOK'
  BY <1>22, SavedFacts
<1>23. ASSUME NEW c \in Runs \cup {Timer}, SaveFailed(c) PROVE TypeOK'
  BY <1>23, SaveFailedFacts
<1>24. ASSUME NEW i \in Ids, Cancel(i) PROVE TypeOK'
  BY <1>24, CancelFacts DEF Wants
<1>25. ASSUME NEW i \in Ids, Retry(i) PROVE TypeOK'
  BY <1>25, GateFacts
<1>26. ASSUME NEW i \in Ids, Add(i) PROVE TypeOK'
  BY <1>26, GateFacts
<1>27. CASE RequestQuit
  BY <1>27, QuitFacts
<1>28. CASE QuitSaves
  BY <1>28, QuitFacts
<1>29. CASE QuitFails
  BY <1>29, QuitFacts
<1>30. CASE Quit \/ Crash \/ PowerLoss
  BY <1>30, SessionFacts
<1>31. CASE UNCHANGED vars
  BY <1>31 DEF vars
<1> QED
  BY <1>1, <1>2, <1>3, <1>4, <1>5, <1>6, <1>7, <1>8, <1>9, <1>10, <1>11, <1>12, <1>13, <1>14,
     <1>15, <1>16, <1>17, <1>18, <1>19, <1>20, <1>21, <1>22, <1>23, <1>24, <1>25, <1>26, <1>27,
     <1>28, <1>29, <1>30, <1>31 DEF Next, Ids

-----------------------------------------------------------------------------
(* The queues, and the start of the page.                                  *)

\* What showing a status does to the queue on the screen.
LEMMA ShowsFacts ==
  ASSUME NEW pg \in Pages, NEW q, NEW I, NEW s, Shows(pg, q, I, s)
  PROVE  /\ q.list \in Lists /\ "list" \in q.changed
         /\ \A i: Has(q.list, i) <=> Has(pg.list, i)
         /\ Distinct(q.list) <=> Distinct(pg.list)
         /\ \A n: Below(q.list, n) <=> Below(pg.list, n)
         /\ pg.list = << >> => q.list = << >>
         /\ \A i, S: i \notin I => (Within(q.list, i, S) <=> Within(pg.list, i, S))
         /\ \A i, S: s \in S /\ Within(pg.list, i, S) => Within(q.list, i, S)
         /\ \A i, S: i \in I /\ s \in S => Within(q.list, i, S)
<1>1. pg.list \in Lists /\ q.list \in Lists /\ Recast(pg.list, q.list, I, s) /\ "list" \in q.changed
  BY PagesAre DEF Shows, FieldsTyped
<1> QED
  BY <1>1, RecastFacts

\* The queues of the page.
LEMMA PageTyped ==
  ASSUME TypeOK
  PROVE  page \in Pages /\ page.list \in Lists /\ page.latest \in Lists /\ page.next \in Nat
BY PageFields DEF FieldsTyped

\* No queue has a place or a download twice, and the next place is above all.
Queues ==
  /\ Distinct(page.list) /\ Distinct(page.latest) /\ Distinct(value)
  /\ \A v \in possible: Distinct(v)
  /\ \A c \in Calls: Distinct(call[c].value)
  /\ Below(page.list, page.next) /\ Below(page.latest, page.next)

\* What may happen before the gate opens.
Inert == {"idle", "known", "inspect", "gate"}
\* The page is loading while the load is under way.
Loading ==
  /\ call[Load].pc \in {"idle", "loading", "loaded", "error"}
  /\ page.ready = "loading" <=> call[Load].pc # "idle"
  /\ \A c \in Calls \ {Load}: call[c].pc \notin {"loading", "loaded"}
\* A page that is loading shows nothing; what the user has added waits at the gate.
Unshown == page.ready = "loading" =>
  /\ page.list = << >> /\ page.latest = << >> /\ page.recovery = {} /\ call[Quitting].value = << >>
  /\ \A p \in Runs: run[p] # "idle" => run[p] = "gate" /\ ~Has(value, Id(p)) /\ ~Has(call[Load].value, Id(p))
\* Before the gate opens only recovered downloads go beyond it.
Opening ==
  /\ page.open \/ page.timer \/ page.saver # Nobody => page.ready = "ready"
  /\ ~page.open => \A p \in Runs:
       run[p] \in Inert \/ (run[p] \in {"asked","answered","refused","recovered"} /\ p = Own(Id(p)) /\ page.ready = "ready")
\* i waits to be recovered.
Recoverable(i) ==
  ~page.open /\ Has(page.list, i) /\ Within(page.list, i, {"queued", "cancelling"}) /\ run[Own(i)] = "idle"
Recovering == \A i \in page.recovery: Recoverable(i)
\* The start of the page.
Mounting == Loading /\ Unshown /\ Opening /\ Recovering

\* What is below a place is below the next one.
LEMMA BelowGrows == \A l \in Lists, n \in Nat: Below(l, n) => Below(l, n + 1)
<1> SUFFICES ASSUME NEW l \in Lists, NEW n \in Nat, Below(l, n) PROVE Below(l, n + 1)
  OBVIOUS
<1>1. \A k \in DOMAIN l: l[k].place \in Nat /\ l[k].place < n
  BY ListFacts DEF Below
<1> QED
  BY <1>1 DEF Below

\* Every step keeps the queues free of a place or a download that comes twice: on the
\* screen, in what the next save takes, in every call and in every file that a power
\* loss may bring back.
LEMMA QueuesKept ==
  ASSUME TypeOK, Queues, Mounting, [Next]_vars
  PROVE  Queues'
<1> USE DEF Queues, CallIs, Same, store
<1>1. CASE StoreWorks
  <2>1. PICK c \in Calls:
          \/ /\ c = Load /\ CallIs(Load, "loaded", Reopened(value)) /\ UNCHANGED <<value, possible>>
          \/ CallIs(c, "replaced", call[c].value) /\ value' = call[c].value /\ possible' = possible \cup {call[c].value}
          \/ CallIs(c, "ok", call[c].value) /\ value' = value /\ possible' = {value}
          \/ CallIs(c, "error", << >>) /\ UNCHANGED <<value, possible>>
    BY <1>1, StoreFacts
  <2>2. page' = page
    BY <1>1, StoreFacts
  <2>3. value \in Lists
    BY DEF TypeOK
  <2>4. Distinct(Reopened(value)) /\ Distinct(call[c].value) /\ Distinct(<< >>)
    BY <2>3, ReopenedFacts, EmptyList
  <2>5. \A d \in Calls: Distinct(call'[d].value)
    BY <2>1, <2>4
  <2> QED
    BY <2>1, <2>2, <2>4, <2>5
<1>2. CASE Loaded
  BY <1>2, LoadedFacts, EmptyList, RunShapes DEF Mounting, Loading, Unshown
<1>3. CASE LoadFailed
  BY <1>3, LoadFailedFacts, EmptyList
<1>4. CASE Render
  BY <1>4, RenderFacts
<1>5. CASE Recover
  BY <1>5, RecoverFacts, ShowsFacts, PageTyped
<1>6. CASE ListInbox
  BY <1>6, ListInboxFacts
<1>7. CASE ReceiveListing
  BY <1>7, ReceiveListingFacts
<1>8. CASE TimerFires
  BY <1>8, TimerFiresFacts
<1>9. ASSUME NEW r \in Requests, Accept(r) PROVE Queues'
  BY <1>9, RequestFacts
<1>10. ASSUME NEW r \in Requests, AcknowledgeKnown(r) PROVE Queues'
  BY <1>10, RequestFacts
<1>11. ASSUME NEW r \in Requests, Inspect(r) PROVE Queues'
  BY <1>11, RequestFacts
<1>12. ASSUME NEW r \in Requests, Acknowledge(r) PROVE Queues'
  BY <1>12, AcknowledgeFacts, ShowsFacts, PageTyped
<1>13. ASSUME NEW p \in Runs, Enqueue(p) PROVE Queues'
  <2> DEFINE item == QueuedItem(Id(p))
  <2>1. item \in Items /\ item.place = page.next
    BY <1>13, EnqueueFacts DEF QueuedItem
  <2>2. /\ page'.list = page.list \/ page'.list = WithItem(page.list, item)
        /\ page'.latest = WithItem(page.latest, item) /\ page'.next = page.next + 1
        /\ UNCHANGED <<value, possible>> /\ (call' = call \/ CallIs(p, "saving", page'.latest))
    BY <1>13, EnqueueFacts
  <2> HIDE DEF item
  <2>3. \A l \in Lists: Distinct(l) /\ Below(l, page.next)
          => Distinct(WithItem(l, item)) /\ Below(WithItem(l, item), page.next + 1) /\ Below(l, page.next + 1)
    BY <2>1, PageTyped, WithItemFacts, BelowGrows
  <2>4. Distinct(page'.list) /\ Distinct(page'.latest) /\ Below(page'.list, page'.next) /\ Below(page'.latest, page'.next)
    BY <2>2, <2>3, PageTyped
  <2> QED
    BY <2>2, <2>4
<1>14. ASSUME NEW p \in Runs, StopWaiting(p) PROVE Queues'
  BY <1>14, StopWaitingFacts
<1>15. ASSUME NEW p \in Runs, HostRegisters(p) PROVE Queues'
  BY <1>15, HostRegistersFacts
<1>16. ASSUME NEW p \in Runs, Answered(p) PROVE Queues'
  BY <1>16, AnsweredFacts, ShowsFacts, PageTyped
<1>17. ASSUME NEW p \in Runs, Refused(p) PROVE Queues'
  BY <1>17, RefusedFacts, ShowsFacts, PageTyped
<1>18. ASSUME NEW p \in Runs, Claim(p) PROVE Queues'
  BY <1>18, ClaimFacts, ShowsFacts, PageTyped
<1>19. ASSUME NEW p \in Runs, Finish(p) PROVE Queues'
  BY <1>19, FinishFacts
<1>20. ASSUME NEW p \in Runs, Ended(p) PROVE Queues'
  BY <1>20, EndedFacts, ShowsFacts, PageTyped
<1>21. ASSUME NEW c \in Runs \cup {Timer}, SaveAgain(c) PROVE Queues'
  BY <1>21, SaveAgainFacts
<1>22. ASSUME NEW c \in Runs \cup {Timer}, Saved(c) PROVE Queues'
  BY <1>22, SavedFacts, EmptyList, ShowsFacts, PageTyped
<1>23. ASSUME NEW c \in Runs \cup {Timer}, SaveFailed(c) PROVE Queues'
  <2>1. CallIs(c, "idle", << >>) /\ UNCHANGED <<value, possible>>
    BY <1>23, SaveFailedFacts
  <2>2. page'.list = page.list \/ Shows(page, page', {Id(c)}, "ended") \/ page'.list = Without(page.list, Id(c))
    BY <1>23, SaveFailedFacts
  <2>3. page'.latest = page.latest /\ page'.next = page.next
    BY <1>23, SaveFailedFacts
  <2>4. Distinct(page'.list) /\ Below(page'.list, page'.next)
    BY <2>2, <2>3, ShowsFacts, PageTyped, WithoutFacts
  <2> QED
    BY <2>1, <2>3, <2>4, EmptyList
<1>24. ASSUME NEW i \in Ids, Cancel(i) PROVE Queues'
  BY <1>24, CancelFacts, ShowsFacts, PageTyped
<1>25. ASSUME NEW i \in Ids, Retry(i) PROVE Queues'
  BY <1>25, GateFacts
<1>26. ASSUME NEW i \in Ids, Add(i) PROVE Queues'
  BY <1>26, GateFacts
<1>27. CASE RequestQuit
  BY <1>27, QuitFacts
<1>28. CASE QuitSaves
  BY <1>28, QuitFacts
<1>29. CASE QuitFails
  BY <1>29, QuitFacts, EmptyList
<1>30. CASE Quit \/ Crash \/ PowerLoss
  <2>1. page'.list = << >> /\ page'.latest = << >>
    BY <1>30, SessionFacts, NewPageFacts
  <2>2. value' \in possible \cup {value} /\ \A v \in possible': v \in possible \cup {value}
    BY <1>30, SessionFacts
  <2>3. \A c \in Calls: call'[c].value = << >>
    BY <1>30, SessionFacts
  <2> QED
    BY <2>1, <2>2, <2>3, EmptyList
<1>31. CASE UNCHANGED vars
  BY <1>31 DEF vars
<1> QED
  BY <1>1, <1>2, <1>3, <1>4, <1>5, <1>6, <1>7, <1>8, <1>9, <1>10, <1>11, <1>12, <1>13, <1>14,
     <1>15, <1>16, <1>17, <1>18, <1>19, <1>20, <1>21, <1>22, <1>23, <1>24, <1>25, <1>26, <1>27,
     <1>28, <1>29, <1>30, <1>31 DEF Next, Ids

-----------------------------------------------------------------------------
(* The saves.                                                              *)

\* A save that is under way, or whose answer is there.
Saving == {"saving", "replaced", "ok", "error"}
\* The file is that of the last call that replaced it.
Writing ==
  /\ value \in possible
  /\ \A c \in Calls: call[c].pc = "replaced" => value = call[c].value /\ \A d \in Calls \ {c}: call[d].pc # "replaced"
\* Whose save is in flight.
Saver ==
  /\ \A p \in Runs: run[p] = "save" <=> page.saver = p
  /\ \A c \in Calls: call[c].pc # "idle" => c = Load \/ c = page.saver \/ (c = Quitting /\ page.quit = "save")
  /\ page.saver # Nobody => call[page.saver].pc \in Saving
  /\ page.quit = "save" => call[Quitting].pc \in Saving
\* What has been saved stays.
Settled == ~forfeited =>
  /\ page.saver = Nobody \/ page.quit # "save"
  /\ \A c \in Calls: call[c].pc = "ok" => value = call[c].value /\ possible = {value}
  /\ page.ready = "loading" => possible = {value} /\ call[Quitting].pc = "idle"
  /\ call[Load].pc = "loaded" => \A i \in Ids: Has(call[Load].value, i) => Has(value, i)
\* The saves.
Saves == Writing /\ Saver /\ Settled

\* The calls, told apart.
LEMMA CallMarks ==
  /\ Runs \subseteq Calls /\ Load \in Calls /\ Timer \in Calls /\ Quitting \in Calls
  /\ Load \notin Runs /\ Timer \notin Runs /\ Quitting \notin Runs /\ Nobody \notin Calls
  /\ Load # Timer /\ Load # Quitting /\ Load # Nobody
  /\ Timer # Quitting /\ Timer # Nobody /\ Quitting # Nobody
BY Marks DEF Calls

\* The status of a download that is in the queue once.
LEMMA StatusFacts ==
  ASSUME NEW l \in Lists, Distinct(l), NEW i, Has(l, i)
  PROVE  \A S: StatusOf(l, i) \in S <=> Within(l, i, S)
<1>1. PICK k \in DOMAIN l: l[k].id = i
  BY DEF Has
<1>2. ItemOf(l, i) = l[k]
  BY <1>1, Unique
<1>3. \A j \in DOMAIN l: l[j].id = i => j = k
  BY <1>1 DEF Distinct
<1> QED
  BY <1>1, <1>2, <1>3 DEF StatusOf, Within

\* The load is under way exactly until the page is there.
LEMMA LoadingKept ==
  ASSUME TypeOK, Queues, Mounting, [Next]_vars
  PROVE  Loading'
<1> USE DEF Loading, CallIs, Same, store
<1>0. Loading /\ Distinct(page.list)
  BY DEF Mounting, Queues
<1>1. CASE StoreWorks
  BY <1>1, StoreFacts, <1>0, CallMarks
<1>2. CASE Loaded
  BY <1>2, LoadedFacts, <1>0, CallMarks
<1>3. CASE LoadFailed
  BY <1>3, LoadFailedFacts, <1>0, CallMarks
<1>4. CASE Render
  BY <1>4, RenderFacts, <1>0, CallMarks
<1>5. CASE Recover
  BY <1>5, RecoverFacts, <1>0, CallMarks
<1>6. CASE ListInbox
  BY <1>6, ListInboxFacts, <1>0, CallMarks
<1>7. CASE ReceiveListing
  BY <1>7, ReceiveListingFacts, <1>0, CallMarks
<1>8. CASE TimerFires
  BY <1>8, TimerFiresFacts, <1>0, CallMarks
<1>9. ASSUME NEW r \in Requests, Accept(r) PROVE Loading'
  BY <1>9, RequestFacts, <1>0, CallMarks
<1>10. ASSUME NEW r \in Requests, AcknowledgeKnown(r) PROVE Loading'
  BY <1>10, RequestFacts, <1>0, CallMarks
<1>11. ASSUME NEW r \in Requests, Inspect(r) PROVE Loading'
  BY <1>11, RequestFacts, <1>0, CallMarks
<1>12. ASSUME NEW r \in Requests, Acknowledge(r) PROVE Loading'
  BY <1>12, AcknowledgeFacts, <1>0, CallMarks
<1>13. ASSUME NEW p \in Runs, Enqueue(p) PROVE Loading'
  BY <1>13, EnqueueFacts, <1>0, CallMarks
<1>14. ASSUME NEW p \in Runs, StopWaiting(p) PROVE Loading'
  BY <1>14, StopWaitingFacts, <1>0, CallMarks
<1>15. ASSUME NEW p \in Runs, HostRegisters(p) PROVE Loading'
  BY <1>15, HostRegistersFacts, <1>0, CallMarks
<1>16. ASSUME NEW p \in Runs, Answered(p) PROVE Loading'
  BY <1>16, AnsweredFacts, <1>0, CallMarks
<1>17. ASSUME NEW p \in Runs, Refused(p) PROVE Loading'
  BY <1>17, RefusedFacts, <1>0, CallMarks
<1>18. ASSUME NEW p \in Runs, Claim(p) PROVE Loading'
  BY <1>18, ClaimFacts, <1>0, CallMarks
<1>19. ASSUME NEW p \in Runs, Finish(p) PROVE Loading'
  BY <1>19, FinishFacts, <1>0, CallMarks
<1>20. ASSUME NEW p \in Runs, Ended(p) PROVE Loading'
  BY <1>20, EndedFacts, <1>0, CallMarks
<1>21. ASSUME NEW c \in Runs \cup {Timer}, SaveAgain(c) PROVE Loading'
  BY <1>21, SaveAgainFacts, <1>0, CallMarks
<1>22. ASSUME NEW c \in Runs \cup {Timer}, Saved(c) PROVE Loading'
  BY <1>22, SavedFacts, <1>0, CallMarks
<1>23. ASSUME NEW c \in Runs \cup {Timer}, SaveFailed(c) PROVE Loading'
  BY <1>23, SaveFailedFacts, <1>0, CallMarks
<1>24. ASSUME NEW i \in Ids, Cancel(i) PROVE Loading'
  BY <1>24, CancelFacts, <1>0, CallMarks
<1>25. ASSUME NEW i \in Ids, Retry(i) PROVE Loading'
  BY <1>25, GateFacts, <1>0, CallMarks
<1>26. ASSUME NEW i \in Ids, Add(i) PROVE Loading'
  BY <1>26, GateFacts, <1>0, CallMarks
<1>27. CASE RequestQuit
  BY <1>27, QuitFacts, <1>0, CallMarks
<1>28. CASE QuitSaves
  BY <1>28, QuitFacts, <1>0, CallMarks
<1>29. CASE QuitFails
  BY <1>29, QuitFacts, <1>0, CallMarks
<1>30. CASE Quit \/ Crash \/ PowerLoss
  BY <1>30, SessionFacts, NewPageFacts, <1>0, CallMarks
<1>31. CASE UNCHANGED vars
  BY <1>31, <1>0 DEF vars
<1> QED
  BY <1>1, <1>2, <1>3, <1>4, <1>5, <1>6, <1>7, <1>8, <1>9, <1>10, <1>11, <1>12, <1>13, <1>14,
     <1>15, <1>16, <1>17, <1>18, <1>19, <1>20, <1>21, <1>22, <1>23, <1>24, <1>25, <1>26, <1>27,
     <1>28, <1>29, <1>30, <1>31 DEF Next, Ids

\* Until the queue is there nothing has happened but that the user has added
\* downloads.
LEMMA UnshownKept ==
  ASSUME TypeOK, Queues, Mounting, Saves, [Next]_vars
  PROVE  Unshown'
<1> USE DEF CallIs, Same, store, Goes
<1>0. /\ Unshown /\ Loading /\ Distinct(page.list)
      /\ page.ready = "loading" => page.saver = Nobody /\ ~page.timer /\ ~page.open
  BY DEF Mounting, Queues, Opening
<1> USE DEF Unshown
<1>1. CASE StoreWorks
  <2> SUFFICES ASSUME page.ready = "loading" PROVE Unshown'
    BY <1>1, StoreFacts
  <2>1. /\ page' = page /\ run' = run /\ call'[Quitting].value = << >>
        /\ call'[Load].value \in {call[Load].value, << >>, Reopened(value)}
    BY <1>1, StoreFacts, <1>0, CallMarks
  <2>2. value' = value \/ value' = << >>
    <3>1. \A c \in Calls: call[c].pc = "saving" => c = Quitting
      BY <1>0, CallMarks DEF Saves, Saver, Loading
    <3> QED
      BY <1>1, <3>1, StoreFacts, <1>0
  <2>3. \A i: (Has(Reopened(value), i) => Has(value, i)) /\ ~Has(<< >>, i)
    BY ReopenedFacts, EmptyList DEF TypeOK
  <2> QED
    BY <2>1, <2>2, <2>3, <1>0
<1>2. CASE Loaded
  BY <1>2, LoadedFacts, <1>0, CallMarks
<1>3. CASE LoadFailed
  BY <1>3, LoadFailedFacts, <1>0, CallMarks
<1>4. CASE Render
  BY <1>4, RenderFacts, <1>0, CallMarks
<1>5. CASE Recover
  BY <1>5, RecoverFacts, <1>0, CallMarks
<1>6. CASE ListInbox
  BY <1>6, ListInboxFacts, <1>0, CallMarks
<1>7. CASE ReceiveListing
  BY <1>7, ReceiveListingFacts, <1>0, CallMarks
<1>8. CASE TimerFires
  BY <1>8, TimerFiresFacts, <1>0, CallMarks
<1>9. ASSUME NEW r \in Requests, Accept(r) PROVE Unshown'
  BY <1>9, RequestFacts, <1>0, CallMarks
<1>10. ASSUME NEW r \in Requests, AcknowledgeKnown(r) PROVE Unshown'
  BY <1>10, RequestFacts, RunShapes, EmptyList, <1>0, CallMarks
<1>11. ASSUME NEW r \in Requests, Inspect(r) PROVE Unshown'
  BY <1>11, RequestFacts, RunShapes, EmptyList, <1>0, CallMarks
<1>12. ASSUME NEW r \in Requests, Acknowledge(r) PROVE Unshown'
  BY <1>12, AcknowledgeFacts, RunShapes, EmptyList, <1>0, CallMarks
<1>13. ASSUME NEW p \in Runs, Enqueue(p) PROVE Unshown'
  BY <1>13, EnqueueFacts, RunShapes, EmptyList, <1>0, CallMarks
<1>14. ASSUME NEW p \in Runs, StopWaiting(p) PROVE Unshown'
  BY <1>14, StopWaitingFacts, RunShapes, EmptyList, <1>0, CallMarks
<1>15. ASSUME NEW p \in Runs, HostRegisters(p) PROVE Unshown'
  BY <1>15, HostRegistersFacts, RunShapes, EmptyList, <1>0, CallMarks
<1>16. ASSUME NEW p \in Runs, Answered(p) PROVE Unshown'
  BY <1>16, AnsweredFacts, RunShapes, EmptyList, <1>0, CallMarks
<1>17. ASSUME NEW p \in Runs, Refused(p) PROVE Unshown'
  BY <1>17, RefusedFacts, RunShapes, EmptyList, <1>0, CallMarks
<1>18. ASSUME NEW p \in Runs, Claim(p) PROVE Unshown'
  BY <1>18, ClaimFacts, RunShapes, EmptyList, <1>0, CallMarks
<1>19. ASSUME NEW p \in Runs, Finish(p) PROVE Unshown'
  BY <1>19, FinishFacts, RunShapes, EmptyList, <1>0, CallMarks
<1>20. ASSUME NEW p \in Runs, Ended(p) PROVE Unshown'
  BY <1>20, EndedFacts, RunShapes, EmptyList, <1>0, CallMarks
<1>21. ASSUME NEW c \in Runs \cup {Timer}, SaveAgain(c) PROVE Unshown'
  BY <1>21, SaveAgainFacts, RunShapes, EmptyList, <1>0, CallMarks
<1>22. ASSUME NEW c \in Runs \cup {Timer}, Saved(c) PROVE Unshown'
  <2>1. page.ready # "loading"
    BY <1>22, SavedFacts, <1>0, CallMarks
  <2>2. page'.ready = page.ready
    BY <1>22, SavedFacts, <1>0
  <2> QED
    BY <2>1, <2>2
<1>23. ASSUME NEW c \in Runs \cup {Timer}, SaveFailed(c) PROVE Unshown'
  <2>1. page.ready # "loading"
    BY <1>23, SaveFailedFacts, <1>0, CallMarks
  <2>2. page'.ready = page.ready
    BY <1>23, SaveFailedFacts, <1>0
  <2> QED
    BY <2>1, <2>2
<1>24. ASSUME NEW i \in Ids, Cancel(i) PROVE Unshown'
  BY <1>24, CancelFacts, RunShapes, EmptyList, <1>0, CallMarks
<1>25. ASSUME NEW i \in Ids, Retry(i) PROVE Unshown'
  BY <1>25, GateFacts, RunShapes, EmptyList, <1>0, CallMarks
<1>26. ASSUME NEW i \in Ids, Add(i) PROVE Unshown'
  BY <1>26, GateFacts, RunShapes, EmptyList, <1>0, CallMarks
<1>27. CASE RequestQuit
  BY <1>27, QuitFacts, <1>0, CallMarks
<1>28. CASE QuitSaves
  BY <1>28, QuitFacts, <1>0, CallMarks
<1>29. CASE QuitFails
  BY <1>29, QuitFacts, <1>0, CallMarks
<1>30. CASE Quit \/ Crash \/ PowerLoss
  BY <1>30, SessionFacts, NewPageFacts, EmptyList, <1>0, CallMarks
<1>31. CASE UNCHANGED vars
  BY <1>31, <1>0 DEF vars
<1> QED
  BY <1>1, <1>2, <1>3, <1>4, <1>5, <1>6, <1>7, <1>8, <1>9, <1>10, <1>11, <1>12, <1>13, <1>14,
     <1>15, <1>16, <1>17, <1>18, <1>19, <1>20, <1>21, <1>22, <1>23, <1>24, <1>25, <1>26, <1>27,
     <1>28, <1>29, <1>30, <1>31 DEF Next, Ids

\* Until the gate opens the only runs beyond it are those of recovered downloads.
LEMMA OpeningKept ==
  ASSUME TypeOK, Queues, Mounting, Saves, [Next]_vars
  PROVE  Opening'
<1> USE DEF Same, store, Goes
<1>0. /\ Opening /\ Distinct(page.list) /\ \A p \in Runs: run[p] = "save" <=> page.saver = p
      /\ call[Load].pc # "idle" => page.ready = "loading"
  BY DEF Mounting, Queues, Saves, Saver, Loading
<1> USE DEF Opening, Inert
<1>1. CASE StoreWorks
  BY <1>1, StoreFacts, <1>0, RunShapes, Marks
<1>2. CASE Loaded
  BY <1>2, LoadedFacts, <1>0, RunShapes, Marks
<1>3. CASE LoadFailed
  BY <1>3, LoadFailedFacts, <1>0, RunShapes, Marks
<1>4. CASE Render
  <2>1. page'.open = page.open /\ page'.saver = page.saver /\ (page.ready = "ready" => page'.ready = "ready")
    BY <1>4, RenderFacts
  <2>2. page'.timer => page'.ready = "ready"
    BY <1>4, <1>0, RenderFacts, PageFields DEF FieldsTyped
  <2>3. \A p \in Runs: run'[p] = run[p] \/ run'[p] \in Inert
    BY <1>4, RenderFacts, RunShapes
  <2> QED
    BY <1>0, <2>1, <2>2, <2>3
<1>5. CASE Recover
  <2>1. page.ready = "ready" /\ page'.ready = "ready"
    BY <1>5, RecoverFacts
  <2>2. ~page'.open => \A p \in Runs: run'[p] = run[p] \/ run'[p] = "idle" \/ (run'[p] = "asked" /\ p = Own(Id(p)))
    <3>1. CASE page'.open
      BY <3>1
    <3>2. CASE ~page'.open
      <4>1. PICK i \in page.recovery: Goes(Own(i), "idle") \/ Goes(Own(i), "asked")
        BY <1>5, <3>2, RecoverFacts
      <4>2. i \in Ids /\ Own(i) \in Runs /\ Id(Own(i)) = i
        BY RunShapes, PageFields DEF FieldsTyped
      <4> QED
        BY <4>1, <4>2
    <3> QED
      BY <3>1, <3>2
  <2>3. ~page.open
    BY <1>5, RecoverFacts
  <2> QED
    BY <1>0, <2>1, <2>2, <2>3
<1>6. CASE ListInbox
  BY <1>6, ListInboxFacts, <1>0, RunShapes, Marks
<1>7. CASE ReceiveListing
  BY <1>7, ReceiveListingFacts, <1>0, RunShapes, Marks
<1>8. CASE TimerFires
  BY <1>8, TimerFiresFacts, <1>0, RunShapes, Marks
<1>9. ASSUME NEW r \in Requests, Accept(r) PROVE Opening'
  BY <1>9, RequestFacts, <1>0, RunShapes, Marks
<1>10. ASSUME NEW r \in Requests, AcknowledgeKnown(r) PROVE Opening'
  BY <1>10, RequestFacts, <1>0, RunShapes, Marks
<1>11. ASSUME NEW r \in Requests, Inspect(r) PROVE Opening'
  BY <1>11, RequestFacts, <1>0, RunShapes, Marks
<1>12. ASSUME NEW r \in Requests, Acknowledge(r) PROVE Opening'
  BY <1>12, AcknowledgeFacts, <1>0, RunShapes, Marks
<1>13. ASSUME NEW p \in Runs, Enqueue(p) PROVE Opening'
  BY <1>13, EnqueueFacts, <1>0, RunShapes, Marks
<1>14. ASSUME NEW p \in Runs, StopWaiting(p) PROVE Opening'
  BY <1>14, StopWaitingFacts, <1>0, RunShapes, Marks
<1>15. ASSUME NEW p \in Runs, HostRegisters(p) PROVE Opening'
  BY <1>15, HostRegistersFacts, <1>0, RunShapes, Marks
<1>16. ASSUME NEW p \in Runs, Answered(p) PROVE Opening'
  <2>1. page'.ready = page.ready /\ page'.open = page.open /\ page'.timer = page.timer /\ page'.saver = page.saver
    BY <1>16, AnsweredFacts
  <2>2. Goes(p, "idle") \/ Goes(p, Registered(p))
    BY <1>16, AnsweredFacts
  <2>3. run[p] = "answered"
    BY <1>16, AnsweredFacts
  <2>4. ~page.open => p = Own(Id(p)) /\ page.ready = "ready" /\ Registered(p) = "recovered"
    BY <1>0, <2>3, RunShapes DEF Registered
  <2> QED
    BY <1>0, <2>1, <2>2, <2>4
<1>17. ASSUME NEW p \in Runs, Refused(p) PROVE Opening'
  BY <1>17, RefusedFacts, <1>0, RunShapes, Marks
<1>18. ASSUME NEW p \in Runs, Claim(p) PROVE Opening'
  BY <1>18, ClaimFacts, <1>0, RunShapes, Marks
<1>19. ASSUME NEW p \in Runs, Finish(p) PROVE Opening'
  BY <1>19, FinishFacts, <1>0, RunShapes, Marks
<1>20. ASSUME NEW p \in Runs, Ended(p) PROVE Opening'
  BY <1>20, EndedFacts, <1>0, RunShapes, Marks
<1>21. ASSUME NEW c \in Runs \cup {Timer}, SaveAgain(c) PROVE Opening'
  BY <1>21, SaveAgainFacts, <1>0, RunShapes, Marks
<1>22. ASSUME NEW c \in Runs \cup {Timer}, Saved(c) PROVE Opening'
  BY <1>22, SavedFacts, <1>0, RunShapes, Marks
<1>23. ASSUME NEW c \in Runs \cup {Timer}, SaveFailed(c) PROVE Opening'
  BY <1>23, SaveFailedFacts, <1>0, RunShapes, Marks
<1>24. ASSUME NEW i \in Ids, Cancel(i) PROVE Opening'
  BY <1>24, CancelFacts, <1>0, RunShapes, Marks
<1>25. ASSUME NEW i \in Ids, Retry(i) PROVE Opening'
  BY <1>25, GateFacts, <1>0, RunShapes, Marks
<1>26. ASSUME NEW i \in Ids, Add(i) PROVE Opening'
  BY <1>26, GateFacts, <1>0, RunShapes, Marks
<1>27. CASE RequestQuit
  BY <1>27, QuitFacts, <1>0, RunShapes, Marks
<1>28. CASE QuitSaves
  BY <1>28, QuitFacts, <1>0, RunShapes, Marks
<1>29. CASE QuitFails
  BY <1>29, QuitFacts, <1>0, RunShapes, Marks
<1>30. CASE Quit \/ Crash \/ PowerLoss
  BY <1>30, SessionFacts, NewPageFacts, <1>0, RunShapes, Marks
<1>31. CASE UNCHANGED vars
  BY <1>31, <1>0 DEF vars
<1> QED
  BY <1>1, <1>2, <1>3, <1>4, <1>5, <1>6, <1>7, <1>8, <1>9, <1>10, <1>11, <1>12, <1>13, <1>14,
     <1>15, <1>16, <1>17, <1>18, <1>19, <1>20, <1>21, <1>22, <1>23, <1>24, <1>25, <1>26, <1>27,
     <1>28, <1>29, <1>30, <1>31 DEF Next, Ids

\* Nothing is taken from the download j.
Intact(j) ==
  /\ Has(page.list, j) => Has(page'.list, j)
  /\ \A S: Within(page.list, j, S) => Within(page'.list, j, S)

\* A step on one download leaves another as it is.
LEMMA IntactFacts ==
  ASSUME TypeOK, Distinct(page.list), NEW i, NEW j,
         \/ page'.list = page.list
         \/ i # j /\ ((\E s: Shows(page, page', {i}, s)) \/ page'.list = Without(page.list, i))
  PROVE  Intact(j)
<1>1. CASE page'.list = page.list
  BY <1>1 DEF Intact
<1>2. CASE i # j /\ \E s: Shows(page, page', {i}, s)
  <2>1. PICK s: Shows(page, page', {i}, s)
    BY <1>2
  <2>2. page \in Pages /\ j \notin {i}
    BY <1>2, PageTyped
  <2>3. Has(page.list, j) => Has(page'.list, j)
    BY <2>1, <2>2, ShowsFacts
  <2>4. ASSUME NEW S PROVE Within(page.list, j, S) => Within(page'.list, j, S)
    BY <2>1, <2>2, ShowsFacts
  <2> QED
    BY <2>3, <2>4 DEF Intact
<1>3. CASE i # j /\ page'.list = Without(page.list, i)
  BY <1>3, PageTyped, WithoutFacts DEF Intact
<1> QED
  BY <1>1, <1>2, <1>3

\* Who waits to be recovered is in the queue, waits, and has no run.
LEMMA RecoveringKept ==
  ASSUME TypeOK, Queues, Mounting, Saves, TypeOK', [Next]_vars
  PROVE  Recovering'
<1> USE DEF Same, store, Goes
<1> SUFFICES ASSUME NEW j \in page'.recovery PROVE Recoverable(j)'
  BY DEF Recovering
<1>0. /\ j \in page.recovery => Recoverable(j)
      /\ j \in Ids /\ Own(j) \in Runs /\ (\A i: i # j => Own(i) # Own(j)) /\ \A r: Own(j) # Bridge(r)
      /\ Distinct(page.list)
  <2>1. page'.recovery \subseteq Ids
    BY PagesAre DEF TypeOK, FieldsTyped
  <2> QED
    BY <2>1, RunShapes DEF Mounting, Recovering, Queues
<1>00. ASSUME NEW p \in Runs, run[p] \notin Inert, j \in page.recovery
       PROVE  Id(p) # j /\ p # Own(j)
  <2>1. ~page.open /\ run[Own(j)] = "idle"
    BY <1>0, <1>00 DEF Recoverable
  <2>2. p = Own(Id(p))
    BY <1>00, <2>1 DEF Mounting, Opening
  <2> QED
    BY <1>00, <2>1, <2>2 DEF Inert
<1> USE DEF Recoverable
<1>1. CASE StoreWorks
  BY <1>1, StoreFacts, <1>0
<1>2. CASE Loaded
  <2>1. /\ page'.list \in Lists /\ Distinct(page'.list) /\ page'.list = call[Load].value
        /\ Has(page'.list, j) /\ StatusOf(page'.list, j) \in Waiting
    <3>1. page'.list \in Lists
      BY <1>2, LoadedFacts, PagesAre DEF FieldsTyped
    <3> QED
      BY <1>2, <3>1, LoadedFacts, CallMarks DEF Queues
  <2>2. Within(page'.list, j, Waiting)
    BY <2>1, StatusFacts
  <2>3. Within(page'.list, j, {"queued", "cancelling"})
    BY <2>1, <2>2, ListFacts DEF Within, Waiting, Statuses
  <2>4. page.ready = "loading" /\ ~page.open /\ page'.open = page.open /\ run' = run
    BY <1>2, LoadedFacts DEF Mounting, Loading, Opening
  <2>5. run[Own(j)] = "idle"
    BY <1>0, <2>1, <2>4, RunShapes DEF Mounting, Unshown
  <2> QED
    BY <2>1, <2>3, <2>4, <2>5
<1>3. CASE LoadFailed
  BY <1>3, LoadFailedFacts, <1>0
<1>4. CASE Render
  BY <1>4, RenderFacts, <1>0
<1>5. CASE Recover
  BY <1>5, RecoverFacts, ShowsFacts, PageTyped, <1>0
<1>6. CASE ListInbox
  BY <1>6, ListInboxFacts, <1>0
<1>7. CASE ReceiveListing
  BY <1>7, ReceiveListingFacts, <1>0
<1>8. CASE TimerFires
  BY <1>8, TimerFiresFacts, <1>0
<1>9. ASSUME NEW r \in Requests, Accept(r) PROVE Recoverable(j)'
  BY <1>9, RequestFacts, <1>0
<1>10. ASSUME NEW r \in Requests, AcknowledgeKnown(r) PROVE Recoverable(j)'
  BY <1>10, RequestFacts, <1>0
<1>11. ASSUME NEW r \in Requests, Inspect(r) PROVE Recoverable(j)'
  BY <1>11, RequestFacts, <1>0
<1>12. ASSUME NEW r \in Requests, Acknowledge(r) PROVE Recoverable(j)'
  BY <1>12, AcknowledgeFacts, ShowsFacts, PageTyped, <1>0
<1>13. ASSUME NEW p \in Runs, Enqueue(p) PROVE Recoverable(j)'
  BY <1>13, EnqueueFacts, <1>00, ShowsFacts, PageTyped, <1>0 DEF Inert
<1>14. ASSUME NEW p \in Runs, StopWaiting(p) PROVE Recoverable(j)'
  BY <1>14, StopWaitingFacts, <1>00, ShowsFacts, PageTyped, <1>0 DEF Inert
<1>15. ASSUME NEW p \in Runs, HostRegisters(p) PROVE Recoverable(j)'
  BY <1>15, HostRegistersFacts, <1>00, ShowsFacts, PageTyped, <1>0 DEF Inert
<1>16. ASSUME NEW p \in Runs, Answered(p) PROVE Recoverable(j)'
  <2>1. Id(p) # j /\ p # Own(j)
    BY <1>16, AnsweredFacts, <1>00 DEF Inert
  <2>2. page'.list = page.list \/ \E s: Shows(page, page', {Id(p)}, s)
    BY <1>16, AnsweredFacts
  <2>3. Intact(j)
    BY <1>0, <2>1, <2>2, IntactFacts
  <2> QED
    BY <1>16, AnsweredFacts, <1>0, <2>1, <2>3 DEF Intact
<1>17. ASSUME NEW p \in Runs, Refused(p) PROVE Recoverable(j)'
  <2>1. Id(p) # j /\ p # Own(j)
    BY <1>17, RefusedFacts, <1>00 DEF Inert
  <2>2. page'.list = page.list \/ \E s: Shows(page, page', {Id(p)}, s)
    BY <1>17, RefusedFacts
  <2>3. Intact(j)
    BY <1>0, <2>1, <2>2, IntactFacts
  <2> QED
    BY <1>17, RefusedFacts, <1>0, <2>1, <2>3 DEF Intact
<1>18. ASSUME NEW p \in Runs, Claim(p) PROVE Recoverable(j)'
  <2>1. Id(p) # j /\ p # Own(j)
    BY <1>18, ClaimFacts, <1>00 DEF Inert
  <2>2. page'.list = page.list \/ \E s: Shows(page, page', {Id(p)}, s)
    BY <1>18, ClaimFacts
  <2>3. Intact(j)
    BY <1>0, <2>1, <2>2, IntactFacts
  <2> QED
    BY <1>18, ClaimFacts, <1>0, <2>1, <2>3 DEF Intact
<1>19. ASSUME NEW p \in Runs, Finish(p) PROVE Recoverable(j)'
  BY <1>19, FinishFacts, <1>00, ShowsFacts, PageTyped, <1>0 DEF Inert
<1>20. ASSUME NEW p \in Runs, Ended(p) PROVE Recoverable(j)'
  <2>1. Id(p) # j /\ p # Own(j)
    BY <1>20, EndedFacts, <1>00 DEF Inert
  <2>2. page'.list = page.list \/ \E s: Shows(page, page', {Id(p)}, s)
    BY <1>20, EndedFacts
  <2>3. Intact(j)
    BY <1>0, <2>1, <2>2, IntactFacts
  <2> QED
    BY <1>20, EndedFacts, <1>0, <2>1, <2>3 DEF Intact
<1>21. ASSUME NEW c \in Runs \cup {Timer}, SaveAgain(c) PROVE Recoverable(j)'
  BY <1>21, SaveAgainFacts, <1>0
<1>22. ASSUME NEW c \in Runs \cup {Timer}, Saved(c) PROVE Recoverable(j)'
  <2>1. c \in Runs => Id(c) # j /\ c # Own(j)
    BY <1>22, <1>00, SavedFacts DEF Saves, Saver, Inert
  <2>2. page'.list = page.list \/ (Id(c) # j /\ \E s: Shows(page, page', {Id(c)}, s))
    BY <1>22, <2>1, SavedFacts
  <2>3. Intact(j)
    BY <1>0, <2>2, IntactFacts
  <2> QED
    BY <1>22, SavedFacts, <1>0, <2>1, <2>3 DEF Intact
<1>23. ASSUME NEW c \in Runs \cup {Timer}, SaveFailed(c) PROVE Recoverable(j)'
  <2>1. c \in Runs => Id(c) # j /\ c # Own(j)
    BY <1>23, <1>0, <1>00, SaveFailedFacts DEF Saves, Saver, Inert
  <2>2. \/ page'.list = page.list
        \/ Id(c) # j /\ \E s: Shows(page, page', {Id(c)}, s)
        \/ Id(c) # j /\ page'.list = Without(page.list, Id(c))
    BY <1>23, <1>0, <2>1, SaveFailedFacts
  <2>3. Intact(j)
    BY <1>0, <2>2, IntactFacts
  <2> QED
    BY <1>23, <1>0, <2>1, <2>3, SaveFailedFacts DEF Intact
<1>24. ASSUME NEW i \in Ids, Cancel(i) PROVE Recoverable(j)'
  BY <1>24, CancelFacts, ShowsFacts, PageTyped, <1>0
<1>25. ASSUME NEW i \in Ids, Retry(i) PROVE Recoverable(j)'
  <2>1. Has(page.list, i) /\ StatusOf(page.list, i) \in {"ended", "paused"} /\ page' = page
    BY <1>25, GateFacts
  <2>2. i # j
    BY <1>0, <2>1, StatusFacts, PageTyped
  <2> QED
    BY <1>25, GateFacts, <1>0, <2>2
<1>26. ASSUME NEW i \in Ids, Add(i) PROVE Recoverable(j)'
  <2>1. i # j \/ j \notin page.recovery
    BY <1>26, GateFacts, <1>0
  <2> QED
    BY <1>26, GateFacts, <1>0, <2>1
<1>27. CASE RequestQuit
  BY <1>27, QuitFacts, <1>0
<1>28. CASE QuitSaves
  BY <1>28, QuitFacts, <1>0
<1>29. CASE QuitFails
  BY <1>29, QuitFacts, <1>0
<1>30. CASE Quit \/ Crash \/ PowerLoss
  BY <1>30, SessionFacts, NewPageFacts, <1>0
<1>31. CASE UNCHANGED vars
  BY <1>31, <1>0 DEF vars
<1> QED
  BY <1>1, <1>2, <1>3, <1>4, <1>5, <1>6, <1>7, <1>8, <1>9, <1>10, <1>11, <1>12, <1>13, <1>14,
     <1>15, <1>16, <1>17, <1>18, <1>19, <1>20, <1>21, <1>22, <1>23, <1>24, <1>25, <1>26, <1>27,
     <1>28, <1>29, <1>30, <1>31 DEF Next, Ids

\* What a step may do to the saves.
SavesNothing ==
  /\ UNCHANGED <<value, possible, call>> /\ page'.saver = page.saver
  /\ page'.quit = "save" <=> page.quit = "save"
  /\ \A p \in Runs: run'[p] = "save" <=> run[p] = "save"
  /\ page'.ready = "loading" <=> page.ready = "loading"
  /\ forfeited' = forfeited
\* The load has been answered.
LoadEnds ==
  /\ CallIs(Load, "idle", << >>) /\ UNCHANGED <<value, possible, run>>
  /\ page'.saver = page.saver /\ page'.quit = page.quit /\ page'.ready # "loading"
  /\ forfeited => forfeited'
\* A save starts on behalf of c.
SaveStarts(c) ==
  /\ page.saver \in {Nobody, c} /\ page'.saver = c
  /\ CallIs(c, "saving", page'.latest) /\ UNCHANGED <<value, possible>>
  /\ page'.quit = page.quit /\ page'.ready = page.ready
  /\ \A p \in Runs: run'[p] = "save" <=> p = c \/ run[p] = "save"
  /\ forfeited' = (forfeited \/ page.quit = "save")
\* The save of c has been answered.
SaveEnds(c) ==
  /\ page.saver = c /\ page'.saver = Nobody
  /\ CallIs(c, "idle", << >>) /\ UNCHANGED <<value, possible>>
  /\ page'.quit = page.quit /\ page'.ready = page.ready
  /\ \A p \in Runs: run'[p] = "save" <=> p # c /\ run[p] = "save"
  /\ forfeited' = forfeited
\* The save of a quit.
QuitAsks ==
  /\ page.saver = Nobody /\ page'.saver = Nobody /\ page'.quit = "save"
  /\ CallIs(Quitting, "saving", page.latest) /\ UNCHANGED <<value, possible, run>>
  /\ page'.ready = page.ready /\ forfeited' = (forfeited \/ page.ready # "ready")
QuitGivesUp ==
  /\ page'.saver = page.saver /\ page'.quit = "no"
  /\ CallIs(Quitting, "idle", << >>) /\ UNCHANGED <<value, possible, run>>
  /\ page'.ready = page.ready /\ forfeited' = forfeited

\* Every step does one of these to the saves.
LEMMA SaveSteps ==
  ASSUME TypeOK, Queues, Mounting, Saver, [Next]_vars
  PROVE  \/ StoreWorks \/ SavesNothing \/ LoadEnds \/ QuitAsks \/ QuitGivesUp \/ Quit \/ Crash \/ PowerLoss
         \/ \E c \in Runs \cup {Timer}: SaveStarts(c) \/ SaveEnds(c)
<1>1. CASE StoreWorks
  BY <1>1
<1>2. Loaded => LoadEnds
  BY LoadedFacts DEF LoadEnds, Same, past
<1>3. LoadFailed => LoadEnds
  BY LoadFailedFacts DEF LoadEnds, Same, past
<1>4. Render => SavesNothing
  BY RenderFacts, RunShapes, PageFields DEF SavesNothing, Same, Goes, past, Busy, FieldsTyped
<1>5. Recover => SavesNothing
  <2> SUFFICES ASSUME Recover PROVE SavesNothing
    OBVIOUS
  <2>1. \A p \in Runs: run'[p] = "save" <=> run[p] = "save"
    <3>1. CASE \E i \in page.recovery: Goes(Own(i), "idle") \/ Goes(Own(i), "asked")
      <4>1. PICK i \in page.recovery: Goes(Own(i), "idle") \/ Goes(Own(i), "asked")
        BY <3>1
      <4>2. Own(i) \in Runs /\ run[Own(i)] = "idle"
        BY RunShapes, PageFields DEF Mounting, Recovering, Recoverable, FieldsTyped
      <4> QED
        BY <4>1, <4>2 DEF Goes
    <3>2. CASE \A p \in Runs: run'[p] = IF run[p] = "recovered" THEN "calling" ELSE run[p]
      BY <3>2
    <3> QED
      BY <3>1, <3>2, RecoverFacts
  <2>2. page'.saver = page.saver /\ page'.quit = page.quit /\ page'.ready = page.ready
    BY RecoverFacts DEF Same
  <2> QED
    BY <2>1, <2>2, RecoverFacts DEF SavesNothing, past
<1>6. ListInbox => SavesNothing
  BY ListInboxFacts DEF SavesNothing, Same, Goes, past, store
<1>7. ReceiveListing => SavesNothing
  BY ReceiveListingFacts DEF SavesNothing, Same, Goes, past, store
<1>8. TimerFires => SavesNothing \/ SaveStarts(Timer)
  BY TimerFiresFacts, Marks DEF SavesNothing, SaveStarts, Same, Goes
<1>9. ASSUME NEW r \in Requests, Accept(r) PROVE SavesNothing
  BY <1>9, RequestFacts DEF SavesNothing, Same, Goes, past, store
<1>10. ASSUME NEW r \in Requests, AcknowledgeKnown(r) PROVE SavesNothing
  BY <1>10, RequestFacts, RunShapes DEF SavesNothing, Same, Goes, past, store
<1>11. ASSUME NEW r \in Requests, Inspect(r) PROVE SavesNothing
  BY <1>11, RequestFacts, RunShapes DEF SavesNothing, Same, Goes, past, store
<1>12. ASSUME NEW r \in Requests, Acknowledge(r) PROVE SavesNothing
  BY <1>12, AcknowledgeFacts, RunShapes DEF SavesNothing, Same, Goes, past, store
<1>13. ASSUME NEW p \in Runs, Enqueue(p) PROVE SavesNothing \/ SaveStarts(p)
  BY <1>13, EnqueueFacts DEF SavesNothing, SaveStarts, Same, Goes
<1>14. ASSUME NEW p \in Runs, StopWaiting(p) PROVE SaveStarts(p)
  BY <1>14, StopWaitingFacts DEF SaveStarts, Same, Goes
<1>15. ASSUME NEW p \in Runs, HostRegisters(p) PROVE SavesNothing
  BY <1>15, HostRegistersFacts DEF SavesNothing, Same, Goes, past, store
<1>16. ASSUME NEW p \in Runs, Answered(p) PROVE SavesNothing
  BY <1>16, AnsweredFacts DEF SavesNothing, Same, Goes, past, Registered
<1>17. ASSUME NEW p \in Runs, Refused(p) PROVE SavesNothing
  BY <1>17, RefusedFacts DEF SavesNothing, Same, Goes, past
<1>18. ASSUME NEW p \in Runs, Claim(p) PROVE SavesNothing
  BY <1>18, ClaimFacts DEF SavesNothing, Same, Goes, past
<1>19. ASSUME NEW p \in Runs, Finish(p) PROVE SavesNothing
  BY <1>19, FinishFacts DEF SavesNothing, Same, Goes, past
<1>20. ASSUME NEW p \in Runs, Ended(p) PROVE SavesNothing
  BY <1>20, EndedFacts DEF SavesNothing, Same, Goes, past
<1>21. ASSUME NEW c \in Runs \cup {Timer}, SaveAgain(c) PROVE SaveStarts(c)
  BY <1>21, SaveAgainFacts DEF SaveStarts, Same, Goes, Saver
<1>22. ASSUME NEW c \in Runs \cup {Timer}, Saved(c) PROVE SaveEnds(c)
  <2>1. \A p \in Runs: run'[p] = "save" <=> p # c /\ run[p] = "save"
    <3>1. CASE c = Timer
      BY <1>22, <3>1, SavedFacts, Marks
    <3>2. CASE c \in Runs
      BY <1>22, <3>2, SavedFacts, Marks DEF Goes
    <3> QED
      BY <3>1, <3>2
  <2>2. page'.quit = page.quit /\ page'.ready = page.ready
    BY <1>22, SavedFacts DEF Same
  <2> QED
    BY <1>22, <2>1, <2>2, SavedFacts DEF SaveEnds
<1>23. ASSUME NEW c \in Runs \cup {Timer}, SaveFailed(c) PROVE SaveEnds(c)
  <2> USE DEF Queues
  <2>1. \A p \in Runs: run'[p] = "save" <=> p # c /\ run[p] = "save"
    <3>1. CASE c = Timer
      BY <1>23, <3>1, SaveFailedFacts, Marks
    <3>2. CASE c \in Runs
      BY <1>23, <3>2, SaveFailedFacts, Marks DEF Goes
    <3> QED
      BY <3>1, <3>2
  <2>2. page'.quit = page.quit /\ page'.ready = page.ready
    BY <1>23, SaveFailedFacts DEF Same
  <2> QED
    BY <1>23, <2>1, <2>2, SaveFailedFacts DEF SaveEnds
<1>24. ASSUME NEW i \in Ids, Cancel(i) PROVE SavesNothing
  BY <1>24, CancelFacts DEF SavesNothing, Same, Goes, past, store
<1>25. ASSUME NEW i \in Ids, Retry(i) PROVE SavesNothing
  BY <1>25, GateFacts, RunShapes DEF SavesNothing, Same, Goes, past, store
<1>26. ASSUME NEW i \in Ids, Add(i) PROVE SavesNothing
  BY <1>26, GateFacts, RunShapes DEF SavesNothing, Same, Goes, past, store
<1>27. RequestQuit => SavesNothing
  BY QuitFacts DEF SavesNothing, Same, Goes, past, store
<1>28. QuitSaves => QuitAsks
  BY QuitFacts DEF QuitAsks, Same
<1>29. QuitFails => QuitGivesUp
  BY QuitFacts DEF QuitGivesUp, Same
<1>30. CASE Quit \/ Crash \/ PowerLoss
  BY <1>30
<1>31. UNCHANGED vars => SavesNothing
  BY DEF SavesNothing, vars, store, past
<1> QED
  BY <1>1, <1>2, <1>3, <1>4, <1>5, <1>6, <1>7, <1>8, <1>9, <1>10, <1>11, <1>12, <1>13, <1>14,
     <1>15, <1>16, <1>17, <1>18, <1>19, <1>20, <1>21, <1>22, <1>23, <1>24, <1>25, <1>26, <1>27,
     <1>28, <1>29, <1>30, <1>31 DEF Next, Ids

\* At most one call has replaced the file and not answered, and the file is the one it
\* wrote.
LEMMA WritingKept ==
  ASSUME TypeOK, Queues, Mounting, Saves, [Next]_vars
  PROVE  Writing'
<1>0. Writing
  BY DEF Saves
<1> USE DEF Writing, CallIs
<1>1. CASE StoreWorks
  BY <1>1, StoreFacts, <1>0, CallMarks
<1>2. CASE SavesNothing
  BY <1>2, <1>0, CallMarks DEF SavesNothing
<1>3. CASE LoadEnds
  BY <1>3, <1>0, CallMarks DEF LoadEnds
<1>4. ASSUME NEW c \in Runs \cup {Timer}, SaveStarts(c) PROVE Writing'
  BY <1>4, <1>0, CallMarks DEF SaveStarts
<1>5. ASSUME NEW c \in Runs \cup {Timer}, SaveEnds(c) PROVE Writing'
  BY <1>5, <1>0, CallMarks DEF SaveEnds
<1>6. CASE QuitAsks
  BY <1>6, <1>0, CallMarks DEF QuitAsks
<1>7. CASE QuitGivesUp
  BY <1>7, <1>0, CallMarks DEF QuitGivesUp
<1>8. CASE Quit \/ Crash \/ PowerLoss
  BY <1>8, SessionFacts, NewPageFacts, <1>0, CallMarks
<1> QED
  BY <1>1, <1>2, <1>3, <1>4, <1>5, <1>6, <1>7, <1>8, SaveSteps DEF Saves

\* One save is in flight at a time, beside the one of a quit.
LEMMA SaverKept ==
  ASSUME TypeOK, Queues, Mounting, Saves, [Next]_vars
  PROVE  Saver'
<1>0. Saver /\ page.saver \in Runs \cup {Timer, Nobody}
  BY PageFields DEF Saves, FieldsTyped
<1> USE DEF Saver, Saving, CallIs
<1>1. CASE StoreWorks
  <2>1. PICK c \in Calls, s \in Store!Pcs:
          /\ call'[c].pc = s /\ call[c].pc # "idle" /\ s # "idle" /\ (call[c].pc \in Saving => s \in Saving)
          /\ \A d \in Calls: d # c => call'[d] = call[d]
    BY <1>1, StoreFacts DEF Store!Pcs
  <2>2. page' = page /\ run' = run
    BY <1>1, StoreFacts
  <2> QED
    BY <2>1, <2>2, <1>0, CallMarks
<1>2. CASE SavesNothing
  BY <1>2, <1>0, CallMarks DEF SavesNothing
<1>3. CASE LoadEnds
  BY <1>3, <1>0, CallMarks DEF LoadEnds
<1>4. ASSUME NEW c \in Runs \cup {Timer}, SaveStarts(c) PROVE Saver'
  BY <1>4, <1>0, CallMarks DEF SaveStarts
<1>5. ASSUME NEW c \in Runs \cup {Timer}, SaveEnds(c) PROVE Saver'
  BY <1>5, <1>0, CallMarks DEF SaveEnds
<1>6. CASE QuitAsks
  BY <1>6, <1>0, CallMarks DEF QuitAsks
<1>7. CASE QuitGivesUp
  BY <1>7, <1>0, CallMarks DEF QuitGivesUp
<1>8. CASE Quit \/ Crash \/ PowerLoss
  <2>1. page'.saver = Nobody /\ page'.quit = "no"
    BY <1>8, SessionFacts, NewPageFacts
  <2>2. \A c \in Calls: call'[c].pc = IF c = Load THEN "loading" ELSE "idle"
    BY <1>8, SessionFacts
  <2>3. \A p \in Runs: run'[p] = "idle"
    BY <1>8, SessionFacts
  <2> QED
    BY <2>1, <2>2, <2>3, CallMarks
<1> QED
  BY <1>1, <1>2, <1>3, <1>4, <1>5, <1>6, <1>7, <1>8, SaveSteps DEF Saves

\* Unless a load has failed or a quit has saved out of turn, a save that has succeeded
\* is what a power loss leaves.
LEMMA SettledKept ==
  ASSUME TypeOK, Queues, Mounting, Saves, [Next]_vars
  PROVE  Settled'
<1>0. /\ Settled /\ Saver /\ Loading /\ Writing
      /\ page.saver \in Runs \cup {Timer, Nobody}
  BY PageFields DEF Saves, Mounting, FieldsTyped
<1> USE DEF Settled, CallIs
<1>1. CASE StoreWorks
  <2> SUFFICES ASSUME ~forfeited PROVE Settled'
    BY <1>1, StoreFacts DEF past
  <2>1. page' = page /\ forfeited' = forfeited
    BY <1>1, StoreFacts DEF past
  <2>2. \A c, d \in Calls \ {Load}: c # d => call[c].pc = "idle" \/ call[d].pc = "idle"
    BY <1>0, CallMarks DEF Saver
  <2>3. \A i: Has(Reopened(value), i) => Has(value, i)
    BY ReopenedFacts DEF TypeOK
  <2>4. page.ready = "loading" => \A c \in Calls \ {Load}: call[c].pc = "idle"
    BY <1>0, CallMarks DEF Saver, Mounting, Opening
  <2>5. call[Load].pc = "loaded" => page.ready = "loading"
    BY <1>0 DEF Loading
  <2>6. PICK c \in Calls:
              \/ /\ c = Load /\ call[Load].pc = "loading" /\ \A d \in Calls: call[d].pc # "replaced"
                 /\ CallIs(Load, "loaded", Reopened(value)) /\ UNCHANGED <<value, possible>>
              \/ /\ call[c].pc = "saving" /\ \A d \in Calls: call[d].pc # "replaced"
                 /\ CallIs(c, "replaced", call[c].value)
                 /\ value' = call[c].value /\ possible' = possible \cup {call[c].value}
              \/ /\ call[c].pc = "replaced" /\ CallIs(c, "ok", call[c].value)
                 /\ value' = value /\ possible' = {value}
              \/ /\ call[c].pc \in {"saving", "replaced", "loading"} /\ CallIs(c, "error", << >>)
                 /\ UNCHANGED <<value, possible>>
    BY <1>1, StoreFacts
  <2>7. CASE c = Load
    BY <1>1, <2>6, <2>7, <2>1, <2>3, <2>4, <2>5, <1>0, CallMarks DEF Loading, Writing
  <2>8. CASE c # Load
    BY <1>1, <2>6, <2>8, <2>1, <2>2, <2>4, <2>5, <1>0, CallMarks DEF Loading, Writing
  <2> QED
    BY <2>7, <2>8
<1>2. CASE SavesNothing
  BY <1>2, <1>0, CallMarks DEF SavesNothing
<1>3. CASE LoadEnds
  BY <1>3, <1>0, CallMarks DEF LoadEnds, Loading
<1>4. ASSUME NEW c \in Runs \cup {Timer}, SaveStarts(c) PROVE Settled'
  <2> SUFFICES ASSUME ~forfeited' PROVE Settled'
    OBVIOUS
  <2>1. ~forfeited /\ page.quit # "save" /\ page'.quit = page.quit /\ page'.ready = page.ready
    BY <1>4 DEF SaveStarts
  <2>2. CallIs(c, "saving", page'.latest) /\ UNCHANGED <<value, possible>>
    BY <1>4 DEF SaveStarts
  <2> QED
    BY <2>1, <2>2, <1>0, CallMarks
<1>5. ASSUME NEW c \in Runs \cup {Timer}, SaveEnds(c) PROVE Settled'
  BY <1>5, <1>0, CallMarks DEF SaveEnds, Saver, Loading
<1>6. CASE QuitAsks
  BY <1>6, <1>0, CallMarks DEF QuitAsks, Loading, Saver
<1>7. CASE QuitGivesUp
  BY <1>7, <1>0, CallMarks DEF QuitGivesUp, Loading
<1>8. CASE Quit \/ Crash \/ PowerLoss
  BY <1>8, SessionFacts, NewPageFacts, <1>0, CallMarks
<1> QED
  BY <1>1, <1>2, <1>3, <1>4, <1>5, <1>6, <1>7, <1>8, SaveSteps DEF Saves

-----------------------------------------------------------------------------
(* The screen and the file.                                                *)

\* What the next save takes is the screen, but for a rendering.
Showing ==
  /\ "list" \notin page.changed => page.latest = page.list
  /\ page.ready = "loaded" /\ ~forfeited => "list" \in page.changed
\* The file is what the next save takes, or a save is to come.
Pace == page.ready = "ready" /\ page.quit = "no" /\ ~forfeited =>
  IF page.saver = Nobody THEN unsaved \/ page.timer \/ value = page.latest \/ \E p \in Runs: run[p] = "wait"
  ELSE call[page.saver].pc = "error" \/ page.timer \/ page.again \/ call[page.saver].value = page.latest
\* The screen and the file.
Screen == Showing /\ Pace

\* What the next save takes differs from the screen only until the next rendering.
LEMMA ShowingKept ==
  ASSUME TypeOK, Queues, Mounting, Showing, [Next]_vars
  PROVE  Showing'
<1> USE DEF Same, Shows, past
<1>0. Showing /\ Distinct(page.list)
  BY DEF Queues
<1> USE DEF Showing
<1>1. CASE StoreWorks
  BY <1>1, StoreFacts, <1>0
<1>2. CASE Loaded
  BY <1>2, LoadedFacts, <1>0 DEF Mounting, Loading, Unshown
<1>3. CASE LoadFailed
  BY <1>3, LoadFailedFacts, <1>0
<1>4. CASE Render
  BY <1>4, RenderFacts, <1>0
<1>5. CASE Recover
  BY <1>5, RecoverFacts, <1>0
<1>6. CASE ListInbox
  BY <1>6, ListInboxFacts, <1>0
<1>7. CASE ReceiveListing
  BY <1>7, ReceiveListingFacts, <1>0
<1>8. CASE TimerFires
  BY <1>8, TimerFiresFacts, <1>0
<1>9. ASSUME NEW r \in Requests, Accept(r) PROVE Showing'
  BY <1>9, RequestFacts, <1>0
<1>10. ASSUME NEW r \in Requests, AcknowledgeKnown(r) PROVE Showing'
  BY <1>10, RequestFacts, <1>0
<1>11. ASSUME NEW r \in Requests, Inspect(r) PROVE Showing'
  BY <1>11, RequestFacts, <1>0
<1>12. ASSUME NEW r \in Requests, Acknowledge(r) PROVE Showing'
  BY <1>12, AcknowledgeFacts, <1>0
<1>13. ASSUME NEW p \in Runs, Enqueue(p) PROVE Showing'
  BY <1>13, EnqueueFacts, <1>0
<1>14. ASSUME NEW p \in Runs, StopWaiting(p) PROVE Showing'
  BY <1>14, <1>0, StopWaitingFacts, PageFields DEF Same, FieldsTyped
<1>15. ASSUME NEW p \in Runs, HostRegisters(p) PROVE Showing'
  BY <1>15, HostRegistersFacts, <1>0
<1>16. ASSUME NEW p \in Runs, Answered(p) PROVE Showing'
  BY <1>16, AnsweredFacts, <1>0
<1>17. ASSUME NEW p \in Runs, Refused(p) PROVE Showing'
  BY <1>17, RefusedFacts, <1>0
<1>18. ASSUME NEW p \in Runs, Claim(p) PROVE Showing'
  BY <1>18, ClaimFacts, <1>0
<1>19. ASSUME NEW p \in Runs, Finish(p) PROVE Showing'
  BY <1>19, FinishFacts, <1>0
<1>20. ASSUME NEW p \in Runs, Ended(p) PROVE Showing'
  BY <1>20, EndedFacts, <1>0
<1>21. ASSUME NEW c \in Runs \cup {Timer}, SaveAgain(c) PROVE Showing'
  BY <1>21, SaveAgainFacts, <1>0
<1>22. ASSUME NEW c \in Runs \cup {Timer}, Saved(c) PROVE Showing'
  BY <1>22, SavedFacts, <1>0
<1>23. ASSUME NEW c \in Runs \cup {Timer}, SaveFailed(c) PROVE Showing'
  BY <1>23, SaveFailedFacts, <1>0
<1>24. ASSUME NEW i \in Ids, Cancel(i) PROVE Showing'
  BY <1>24, CancelFacts, <1>0
<1>25. ASSUME NEW i \in Ids, Retry(i) PROVE Showing'
  BY <1>25, GateFacts, <1>0
<1>26. ASSUME NEW i \in Ids, Add(i) PROVE Showing'
  BY <1>26, GateFacts, <1>0
<1>27. CASE RequestQuit
  BY <1>27, QuitFacts, <1>0
<1>28. CASE QuitSaves
  BY <1>28, QuitFacts, <1>0
<1>29. CASE QuitFails
  BY <1>29, QuitFacts, <1>0
<1>30. CASE Quit \/ Crash \/ PowerLoss
  BY <1>30, SessionFacts, NewPageFacts, <1>0
<1>31. CASE UNCHANGED vars
  BY <1>31, <1>0 DEF vars
<1> QED
  BY <1>1, <1>2, <1>3, <1>4, <1>5, <1>6, <1>7, <1>8, <1>9, <1>10, <1>11, <1>12, <1>13, <1>14,
     <1>15, <1>16, <1>17, <1>18, <1>19, <1>20, <1>21, <1>22, <1>23, <1>24, <1>25, <1>26, <1>27,
     <1>28, <1>29, <1>30, <1>31 DEF Next, Ids

KeepsPace ==
  /\ UNCHANGED <<value, call, unsaved, forfeited>>
  /\ page'.ready = page.ready /\ page'.quit = page.quit /\ page'.saver = page.saver
  /\ page'.latest = page.latest /\ page'.timer = page.timer /\ page'.again = page.again
  /\ \A p \in Runs: run[p] = "wait" => run'[p] = "wait"

\* Every step is one that reads the file or one that keeps pace.
LEMMA PaceSteps ==
  ASSUME TypeOK, Queues, Mounting, Saves, [Next]_vars
  PROVE  \/ KeepsPace \/ StoreWorks \/ Loaded \/ LoadFailed \/ Render \/ TimerFires \/ RequestQuit \/ QuitSaves \/ QuitFails \/ Quit \/ Crash \/ PowerLoss
         \/ \E p \in Runs: Enqueue(p) \/ StopWaiting(p)
         \/ \E c \in Runs \cup {Timer}: SaveAgain(c) \/ Saved(c) \/ SaveFailed(c)
<1>1. ASSUME Recover PROVE KeepsPace
  <2>1. \A p \in Runs: run[p] = "wait" => run'[p] = "wait"
    <3>1. CASE \E i \in page.recovery: Goes(Own(i), "idle") \/ Goes(Own(i), "asked")
      <4>1. PICK i \in page.recovery: Goes(Own(i), "idle") \/ Goes(Own(i), "asked")
        BY <3>1
      <4>2. Own(i) \in Runs /\ run[Own(i)] = "idle"
        BY RunShapes, PageFields DEF Mounting, Recovering, Recoverable, FieldsTyped
      <4> QED
        BY <4>1, <4>2 DEF Goes
    <3>2. CASE \A p \in Runs: run'[p] = IF run[p] = "recovered" THEN "calling" ELSE run[p]
      BY <3>2
    <3> QED
      BY <1>1, <3>1, <3>2, RecoverFacts
  <2>2. /\ page'.ready = page.ready /\ page'.quit = page.quit /\ page'.saver = page.saver
        /\ page'.latest = page.latest /\ page'.timer = page.timer /\ page'.again = page.again
    BY <1>1, RecoverFacts DEF Same
  <2> QED
    BY <1>1, <2>1, <2>2, RecoverFacts DEF KeepsPace, past
<1>2. ASSUME ListInbox PROVE KeepsPace
  BY <1>2, ListInboxFacts DEF KeepsPace, Same, Goes, past, store
<1>3. ASSUME ReceiveListing PROVE KeepsPace
  BY <1>3, ReceiveListingFacts DEF KeepsPace, Same, Goes, past, store
<1>4. ASSUME NEW r \in Requests, Accept(r) PROVE KeepsPace
  BY <1>4, RequestFacts DEF KeepsPace, Same, Goes, past, store
<1>5. ASSUME NEW r \in Requests, AcknowledgeKnown(r) PROVE KeepsPace
  BY <1>5, RequestFacts, RunShapes DEF KeepsPace, Same, Goes, past, store
<1>6. ASSUME NEW r \in Requests, Inspect(r) PROVE KeepsPace
  BY <1>6, RequestFacts, RunShapes DEF KeepsPace, Same, Goes, past, store
<1>7. ASSUME NEW r \in Requests, Acknowledge(r) PROVE KeepsPace
  BY <1>7, AcknowledgeFacts, RunShapes DEF KeepsPace, Same, Goes, past, store
<1>8. ASSUME NEW p \in Runs, HostRegisters(p) PROVE KeepsPace
  BY <1>8, HostRegistersFacts DEF KeepsPace, Same, Goes, past, store
<1>9. ASSUME NEW p \in Runs, Answered(p) PROVE KeepsPace
  BY <1>9, AnsweredFacts DEF KeepsPace, Same, Goes, past
<1>10. ASSUME NEW p \in Runs, Refused(p) PROVE KeepsPace
  BY <1>10, RefusedFacts DEF KeepsPace, Same, Goes, past
<1>11. ASSUME NEW p \in Runs, Claim(p) PROVE KeepsPace
  BY <1>11, ClaimFacts DEF KeepsPace, Same, Goes, past
<1>12. ASSUME NEW p \in Runs, Finish(p) PROVE KeepsPace
  BY <1>12, FinishFacts DEF KeepsPace, Same, Goes, past
<1>13. ASSUME NEW p \in Runs, Ended(p) PROVE KeepsPace
  BY <1>13, EndedFacts DEF KeepsPace, Same, Goes, past
<1>14. ASSUME NEW i \in Ids, Cancel(i) PROVE KeepsPace
  BY <1>14, CancelFacts DEF KeepsPace, Same, Goes, past, store
<1>15. ASSUME NEW i \in Ids, Retry(i) PROVE KeepsPace
  BY <1>15, GateFacts, RunShapes DEF KeepsPace, Same, Goes, past, store
<1>16. ASSUME NEW i \in Ids, Add(i) PROVE KeepsPace
  BY <1>16, GateFacts, RunShapes DEF KeepsPace, Same, Goes, past, store
<1>17. UNCHANGED vars => KeepsPace
  BY DEF KeepsPace, vars, store, past
<1> QED
  BY <1>1, <1>2, <1>3, <1>4, <1>5, <1>6, <1>7, <1>8, <1>9, <1>10, <1>11, <1>12, <1>13, <1>14,
     <1>15, <1>16, <1>17 DEF Next, Ids

\* What is on the screen is on disk, or a save of it is under way or to come.
LEMMA PaceKept ==
  ASSUME TypeOK, Queues, Mounting, Saves, Screen, [Next]_vars
  PROVE  Pace'
<1>0. Pace /\ Showing /\ Settled /\ Saver
  BY DEF Screen, Saves
<1> USE DEF Pace
<1>1. CASE KeepsPace
  BY <1>1, <1>0 DEF KeepsPace
<1>2. CASE StoreWorks
  <2> SUFFICES ASSUME page.ready = "ready", page.quit = "no", ~forfeited PROVE Pace'
    BY <1>2, StoreFacts DEF past
  <2>1. page' = page /\ run' = run /\ unsaved' = unsaved /\ forfeited' = forfeited
    BY <1>2, StoreFacts DEF past
  <2>2. call[Load].pc = "idle" /\ page.saver \in Runs \cup {Timer, Nobody}
    BY PageFields DEF Mounting, Loading, FieldsTyped
  <2>3. PICK c \in Calls: /\ call[c].pc \notin {"idle", "error"}
                          /\ \A d \in Calls: d # c => call'[d] = call[d]
                          /\ call'[c].pc = "error" \/ call'[c].value = call[c].value
    BY <1>2, <2>2, StoreFacts DEF CallIs
  <2>4. c = page.saver
    BY <1>0, <2>2, <2>3 DEF Saver
  <2> QED
    BY <1>0, <2>1, <2>2, <2>3, <2>4, CallMarks
<1>3. CASE Loaded \/ LoadFailed
  BY <1>3, LoadedFacts, LoadFailedFacts
<1>4. CASE Render
  <2>1. /\ page'.quit = page.quit /\ page'.saver = page.saver /\ page'.again = page.again
        /\ UNCHANGED <<value, call, unsaved, forfeited>>
    BY <1>4, RenderFacts DEF Same, past
  <2>2. \A p \in Runs: run[p] = "wait" => run'[p] = "wait"
    BY <1>4, RenderFacts, RunShapes, PageFields DEF Goes, Busy, FieldsTyped
  <2>3. page.ready = "ready" \/ page.ready = "loaded" \/ page'.ready = "loading"
    BY <1>4, RenderFacts, PageFields DEF FieldsTyped
  <2>4. page.quit = "no" /\ page'.ready # "loading" => page'.timer \/ ("list" \notin page.changed /\ page'.timer = page.timer /\ page'.latest = page.latest)
    BY <1>4, RenderFacts, <2>3
  <2> QED
    BY <1>0, <2>1, <2>2, <2>3, <2>4 DEF Showing
<1>5. CASE TimerFires
  <2>1. \/ page'.saver # Nobody /\ page'.again
        \/ page'.saver = Timer /\ call'[Timer].value = page'.latest
    BY <1>5, TimerFiresFacts DEF CallIs, Same
  <2> QED
    BY <2>1, CallMarks
<1>6. CASE RequestQuit \/ QuitSaves \/ QuitFails
  BY <1>6, <1>0, QuitFacts DEF Same, Settled
<1>7. CASE Quit \/ Crash \/ PowerLoss
  BY <1>7, SessionFacts, NewPageFacts
<1>8. ASSUME NEW p \in Runs, Enqueue(p) PROVE Pace'
  <2>1. \/ page'.saver # Nobody /\ page'.again
        \/ page'.saver = p /\ call'[p].value = page'.latest
    BY <1>8, EnqueueFacts DEF CallIs
  <2> QED
    BY <2>1, CallMarks
<1>9. ASSUME NEW p \in Runs, StopWaiting(p) PROVE Pace'
  <2>1. page'.saver = p /\ call'[p].value = page'.latest
    BY <1>9, StopWaitingFacts DEF CallIs, Same
  <2> QED
    BY <2>1, CallMarks
<1>10. ASSUME NEW c \in Runs \cup {Timer}, SaveAgain(c) PROVE Pace'
  BY <1>10, <1>0, SaveAgainFacts, CallMarks DEF CallIs, Same
<1>11. ASSUME NEW c \in Runs \cup {Timer}, Saved(c) PROVE Pace'
  <2>1. page'.ready = page.ready /\ page'.quit = page.quit /\ page'.latest = page.latest /\ page'.timer = page.timer
    BY <1>11, SavedFacts DEF Same
  <2>2. /\ page'.saver = Nobody /\ page.saver = c /\ call[c].pc = "ok" /\ ~page.again
        /\ UNCHANGED <<value, forfeited>>
    BY <1>11, SavedFacts
  <2>3. ~forfeited => value = call[c].value
    BY <1>0, <2>2, CallMarks DEF Settled
  <2> QED
    BY <1>0, <2>1, <2>2, <2>3, CallMarks
<1>12. ASSUME NEW c \in Runs \cup {Timer}, SaveFailed(c) PROVE Pace'
  BY <1>12, <1>0, SaveFailedFacts, CallMarks DEF Same, Queues
<1> QED
  BY <1>1, <1>2, <1>3, <1>4, <1>5, <1>6, <1>7, <1>8, <1>9, <1>10, <1>11, <1>12, PaceSteps

-----------------------------------------------------------------------------
(* The requests that wait, and the order of the recovered ones.            *)

\* A request that is not safe yet is in the inbox; one that is under way is handled.
PendingOf(r) ==
  /\ run[Bridge(r)] # "idle" => r \in page.handled
  /\ r \in page.requests \cup page.listing => r \in page.handled \cup inbox
  /\ run[Bridge(r)] \in {"inspect", "gate", "wait", "save"} => r \in inbox
Pending == \A r \in Requests: PendingOf(r)

\* A request whose download is not yet safe is still in the inbox, and one that is
\* under way is not opened again.
LEMMA PendingKept ==
  ASSUME TypeOK, Queues, Mounting, Saves, Pending, [Next]_vars
  PROVE  Pending'
<1> USE DEF bridge, store
<1> SUFFICES ASSUME NEW q \in Requests PROVE PendingOf(q)'
  BY DEF Pending
<1>0. /\ PendingOf(q) /\ Distinct(page.list) /\ Bridge(q) \in Runs /\ \A i: Own(i) # Bridge(q)
      /\ \A r \in Requests: r # q => Bridge(r) # Bridge(q)
  BY RunShapes DEF Pending, Queues
<1> USE DEF PendingOf
<1>1. CASE StoreWorks
  BY <1>1, StoreFacts, <1>0 DEF past
<1>2. CASE Loaded
  BY <1>2, LoadedFacts, <1>0 DEF Same, Goes
<1>3. CASE LoadFailed
  BY <1>3, LoadFailedFacts, <1>0 DEF Same, Goes
<1>4. CASE Render
  <2>1. page'.requests = page.requests /\ page'.listing = page.listing /\ inbox' = inbox /\ page.handled \subseteq page'.handled
    BY <1>4, RenderFacts DEF Same
  <2>2. run'[Bridge(q)] = run[Bridge(q)] \/ (q \in page'.handled /\ q \in page.requests \ page.handled)
    BY <1>4, <1>0, RenderFacts, PageFields DEF Goes, FieldsTyped
  <2> QED
    BY <1>0, <2>1, <2>2
<1>5. CASE Recover
  BY <1>5, RecoverFacts, PageFields, <1>0 DEF Same, Goes, FieldsTyped
<1>6. CASE ListInbox
  BY <1>6, ListInboxFacts, <1>0 DEF Same, Goes, Remove
<1>7. CASE ReceiveListing
  BY <1>7, ReceiveListingFacts, <1>0 DEF Same, Goes, Remove
<1>8. CASE TimerFires
  BY <1>8, TimerFiresFacts, <1>0 DEF Same, Goes
<1>9. ASSUME NEW r \in Requests, Accept(r) PROVE PendingOf(q)'
  BY <1>9, RequestFacts, <1>0 DEF Same, Goes
<1>10. ASSUME NEW r \in Requests, AcknowledgeKnown(r) PROVE PendingOf(q)'
  BY <1>10, RequestFacts, <1>0 DEF Same, Goes, Remove
<1>11. ASSUME NEW r \in Requests, Inspect(r) PROVE PendingOf(q)'
  BY <1>11, RequestFacts, <1>0 DEF Same, Goes
<1>12. ASSUME NEW r \in Requests, Acknowledge(r) PROVE PendingOf(q)'
  BY <1>12, AcknowledgeFacts, <1>0 DEF Same, Goes, Remove
<1>13. ASSUME NEW p \in Runs, Enqueue(p) PROVE PendingOf(q)'
  BY <1>13, EnqueueFacts, <1>0 DEF Same, Goes
<1>14. ASSUME NEW p \in Runs, StopWaiting(p) PROVE PendingOf(q)'
  BY <1>14, StopWaitingFacts, <1>0 DEF Same, Goes
<1>15. ASSUME NEW p \in Runs, HostRegisters(p) PROVE PendingOf(q)'
  BY <1>15, HostRegistersFacts, <1>0 DEF Same, Goes
<1>16. ASSUME NEW p \in Runs, Answered(p) PROVE PendingOf(q)'
  <2>1. Goes(p, "idle") \/ Goes(p, Registered(p))
    BY <1>16, AnsweredFacts
  <2>2. run[p] = "answered" /\ Registered(p) \in {"acknowledge", "calling", "recovered"}
    BY <1>16, AnsweredFacts DEF Registered
  <2>3. page'.requests = page.requests /\ page'.listing = page.listing /\ inbox' = inbox /\ page'.handled = page.handled
    BY <1>16, AnsweredFacts DEF Same
  <2> QED
    BY <1>0, <2>1, <2>2, <2>3 DEF Goes
<1>17. ASSUME NEW p \in Runs, Refused(p) PROVE PendingOf(q)'
  BY <1>17, RefusedFacts, <1>0 DEF Same, Goes
<1>18. ASSUME NEW p \in Runs, Claim(p) PROVE PendingOf(q)'
  BY <1>18, ClaimFacts, <1>0 DEF Same, Goes
<1>19. ASSUME NEW p \in Runs, Finish(p) PROVE PendingOf(q)'
  BY <1>19, FinishFacts, <1>0 DEF Same, Goes
<1>20. ASSUME NEW p \in Runs, Ended(p) PROVE PendingOf(q)'
  BY <1>20, EndedFacts, <1>0 DEF Same, Goes
<1>21. ASSUME NEW c \in Runs \cup {Timer}, SaveAgain(c) PROVE PendingOf(q)'
  BY <1>21, SaveAgainFacts, <1>0 DEF Same, Goes
<1>22. ASSUME NEW c \in Runs \cup {Timer}, Saved(c) PROVE PendingOf(q)'
  <2>1. c \in Runs => run[c] = "save"
    BY <1>22, SavedFacts DEF Saves, Saver
  <2>2. run' = run \/ (c \in Runs /\ (Goes(c, "idle") \/ Goes(c, "asked")))
    BY <1>22, SavedFacts
  <2>3. page'.requests = page.requests /\ page'.listing = page.listing /\ inbox' = inbox /\ page'.handled = page.handled
    BY <1>22, SavedFacts DEF Same
  <2> QED
    BY <1>0, <2>1, <2>2, <2>3 DEF Goes
<1>23. ASSUME NEW c \in Runs \cup {Timer}, SaveFailed(c) PROVE PendingOf(q)'
  BY <1>23, SaveFailedFacts, <1>0 DEF Same, Goes
<1>24. ASSUME NEW i \in Ids, Cancel(i) PROVE PendingOf(q)'
  BY <1>24, CancelFacts, <1>0 DEF Same, Goes
<1>25. ASSUME NEW i \in Ids, Retry(i) PROVE PendingOf(q)'
  BY <1>25, GateFacts, <1>0 DEF Same, Goes
<1>26. ASSUME NEW i \in Ids, Add(i) PROVE PendingOf(q)'
  BY <1>26, GateFacts, <1>0 DEF Same, Goes
<1>27. CASE RequestQuit
  BY <1>27, QuitFacts, <1>0 DEF Same, Goes
<1>28. CASE QuitSaves
  BY <1>28, QuitFacts, <1>0 DEF Same, Goes
<1>29. CASE QuitFails
  BY <1>29, QuitFacts, <1>0 DEF Same, Goes
<1>30. CASE Quit \/ Crash \/ PowerLoss
  BY <1>30, SessionFacts, NewPageFacts, <1>0
<1>31. CASE UNCHANGED vars
  BY <1>31, <1>0 DEF vars
<1> QED
  BY <1>1, <1>2, <1>3, <1>4, <1>5, <1>6, <1>7, <1>8, <1>9, <1>10, <1>11, <1>12, <1>13, <1>14,
     <1>15, <1>16, <1>17, <1>18, <1>19, <1>20, <1>21, <1>22, <1>23, <1>24, <1>25, <1>26, <1>27,
     <1>28, <1>29, <1>30, <1>31 DEF Next, Ids

\* i, which has asked, comes before j.
InTurnOf(i, j) == run[Own(i)] = "asked" => Has(page.list, i) /\ Place(i) < Place(j)
InTurn == \A i \in Ids, j \in page.recovery: InTurnOf(i, j)

\* The list is as it was but for what its items say of their state.
SameItems == page'.list = page.list \/ \E I, s: Shows(page, page', I, s)

\* A status changes no place.
LEMMA PlaceFacts ==
  ASSUME TypeOK, Queues, SameItems, NEW i, Has(page.list, i)
  PROVE  Has(page'.list, i) /\ Place(i)' = Place(i)
<1>1. CASE page'.list = page.list
  BY <1>1 DEF Place
<1>2. CASE \E I, s: Shows(page, page', I, s)
  <2>1. PICK I, s: Shows(page, page', I, s)
    BY <1>2
  <2>2. page.list \in Lists /\ page'.list \in Lists /\ Recast(page.list, page'.list, I, s)
    BY <2>1, PageTyped DEF Shows
  <2>3. Distinct(page.list) /\ Distinct(page'.list)
    BY <2>2, RecastFacts DEF Queues
  <2>4. PICK k \in DOMAIN page.list: page.list[k].id = i
    BY DEF Has
  <2>5. k \in DOMAIN page'.list /\ page'.list[k].id = i /\ page'.list[k].place = page.list[k].place
    BY <2>2, <2>4 DEF Recast
  <2>6. ItemOf(page.list, i) = page.list[k] /\ ItemOf(page'.list, i) = page'.list[k]
    BY <2>2, <2>3, <2>4, <2>5, Unique
  <2> QED
    BY <2>5, <2>6 DEF Has, Place
<1> QED
  BY <1>1, <1>2 DEF SameItems

\* Two downloads of a queue have two places.
LEMMA PlacesDiffer ==
  ASSUME TypeOK, Queues, NEW i, NEW j, i # j, Has(page.list, i), Has(page.list, j)
  PROVE  Place(i) # Place(j) /\ Place(i) \in Nat /\ Place(j) \in Nat
<1>1. PICK k \in DOMAIN page.list, m \in DOMAIN page.list: page.list[k].id = i /\ page.list[m].id = j
  BY DEF Has
<1>2. Place(i) = page.list[k].place /\ Place(j) = page.list[m].place
  BY <1>1, Unique, PageTyped DEF Place, Queues
<1>3. page.list[k].place # page.list[m].place
  BY <1>1 DEF Queues, Distinct
<1>4. page.list[k].place \in Nat /\ page.list[m].place \in Nat
  BY ListFacts, PageTyped
<1> QED
  BY <1>2, <1>3, <1>4

Waited(n, m) == run[Own(n)] = "asked" /\ m \in page.recovery /\ SameItems

\* A recovered download that has asked the coordinator comes before all that wait to.
LEMMA InTurnKept ==
  ASSUME TypeOK, TypeOK', Queues, Mounting, Saves, InTurn, [Next]_vars
  PROVE  InTurn'
<1> SUFFICES ASSUME NEW n \in Ids, NEW m \in page'.recovery, run'[Own(n)] = "asked"
             PROVE  Has(page'.list, n) /\ (Place(n) < Place(m))'
  BY DEF InTurn, InTurnOf
<1>1. /\ Loading /\ Unshown /\ Opening /\ Distinct(page.list)
      /\ Own(n) \in Runs /\ (\A r: Own(n) # Bridge(r))
      /\ \A p \in Runs: run[p] = "save" <=> page.saver = p
  BY RunShapes DEF Mounting, Queues, Saves, Saver
<1>2. m \in page.recovery => Has(page.list, m) /\ ~page.open /\ \A p \in Runs: run[p] \in Inert \/ (run[p] # "save" /\ p = Own(Id(p)))
  BY DEF Mounting, Opening, Recovering, Recoverable
<1>3. CASE Recover
  <2>1. page.recovery # {}
    BY <1>3, RecoverFacts DEF Same
  <2>2. PICK f \in page.recovery:
          /\ First(f) /\ page'.recovery = page.recovery \ {f}
          /\ \/ Same(page, page', {"recovery", "list", "changed", "cancelling"}) /\ Shows(page, page', {f}, "ended") /\ Goes(Own(f), "idle")
             \/ Same(page, page', {"recovery"}) /\ Goes(Own(f), "asked")
    BY <1>3, <2>1, RecoverFacts
  <2>3. run[Own(n)] # "asked"
    BY <1>3, RecoverFacts DEF Asking
  <2>4. Own(f) = Own(n)
    BY <1>1, <2>2, <2>3 DEF Goes
  <2>5. f = n /\ m \in page.recovery /\ m # n
    BY <2>2, <2>4, RunShapes
  <2>6. Has(page.list, n) /\ Has(page.list, m)
    BY <2>2, <2>5 DEF Mounting, Recovering, Recoverable
  <2>7. Place(n) <= Place(m)
    BY <2>2, <2>5 DEF First
  <2>8. Place(n) < Place(m)
    BY <2>5, <2>6, <2>7, PlacesDiffer
  <2>9. SameItems
    BY <2>2 DEF Same, SameItems
  <2> QED
    BY <2>6, <2>8, <2>9, PlaceFacts
<1>4. CASE ~Recover
  <2> SUFFICES Waited(n, m)
    <3>1. SUFFICES ASSUME Waited(n, m) PROVE Has(page'.list, n) /\ (Place(n) < Place(m))'
      OBVIOUS
    <3>2. Has(page.list, n) /\ Place(n) < Place(m) /\ Has(page.list, m)
      BY <1>2, <3>1 DEF Waited, InTurn, InTurnOf
    <3> QED
      BY <3>1, <3>2, PlaceFacts DEF Waited
  <2> USE DEF Waited, SameItems, store, Inert
  <2>1. CASE StoreWorks
    BY <2>1, StoreFacts, <1>1, <1>2
  <2>2. CASE Loaded
    <3>1. page.ready = "loading" /\ run' = run
      BY <2>2, <1>1, LoadedFacts DEF Loading
    <3> QED
      BY <1>1, <3>1, RunShapes DEF Unshown
  <2>3. CASE LoadFailed
    BY <2>3, LoadFailedFacts, <1>1, <1>2 DEF Same, Goes
  <2>4. CASE Render
    BY <2>4, RenderFacts, RunShapes, PageFields, <1>1, <1>2 DEF Same, Goes, FieldsTyped
  <2>5. CASE Recover
    BY <2>5, <1>4
  <2>6. CASE ListInbox
    BY <2>6, ListInboxFacts, <1>1, <1>2 DEF Same, Goes
  <2>7. CASE ReceiveListing
    BY <2>7, ReceiveListingFacts, <1>1, <1>2 DEF Same, Goes
  <2>8. CASE TimerFires
    BY <2>8, TimerFiresFacts, <1>1, <1>2 DEF Same, Goes
  <2>9. ASSUME NEW r \in Requests, Accept(r) PROVE Waited(n, m)
    BY <2>9, RequestFacts, <1>1, <1>2 DEF Same, Goes
  <2>10. ASSUME NEW r \in Requests, AcknowledgeKnown(r) PROVE Waited(n, m)
    BY <2>10, RequestFacts, RunShapes, PageFields, <1>1, <1>2 DEF Same, Goes, FieldsTyped
  <2>11. ASSUME NEW r \in Requests, Inspect(r) PROVE Waited(n, m)
    BY <2>11, RequestFacts, RunShapes, PageFields, <1>1, <1>2 DEF Same, Goes, FieldsTyped
  <2>12. ASSUME NEW r \in Requests, Acknowledge(r) PROVE Waited(n, m)
    BY <2>12, AcknowledgeFacts, RunShapes, PageFields, <1>1, <1>2 DEF Same, Goes, FieldsTyped
  <2>13. ASSUME NEW p \in Runs, Enqueue(p) PROVE Waited(n, m)
    BY <2>13, EnqueueFacts, <1>1, <1>2 DEF Same, Goes
  <2>14. ASSUME NEW p \in Runs, StopWaiting(p) PROVE Waited(n, m)
    BY <2>14, StopWaitingFacts, <1>1, <1>2 DEF Same, Goes
  <2>15. ASSUME NEW p \in Runs, HostRegisters(p) PROVE Waited(n, m)
    BY <2>15, HostRegistersFacts, <1>1, <1>2 DEF Same, Goes
  <2>16. ASSUME NEW p \in Runs, Answered(p) PROVE Waited(n, m)
    BY <2>16, AnsweredFacts, <1>1, <1>2 DEF Same, Goes, Registered
  <2>17. ASSUME NEW p \in Runs, Refused(p) PROVE Waited(n, m)
    BY <2>17, RefusedFacts, <1>1, <1>2 DEF Same, Goes
  <2>18. ASSUME NEW p \in Runs, Claim(p) PROVE Waited(n, m)
    BY <2>18, ClaimFacts, <1>1, <1>2 DEF Same, Goes
  <2>19. ASSUME NEW p \in Runs, Finish(p) PROVE Waited(n, m)
    BY <2>19, FinishFacts, <1>1, <1>2 DEF Same, Goes
  <2>20. ASSUME NEW p \in Runs, Ended(p) PROVE Waited(n, m)
    BY <2>20, EndedFacts, <1>1, <1>2 DEF Same, Goes
  <2>21. ASSUME NEW c \in Runs \cup {Timer}, SaveAgain(c) PROVE Waited(n, m)
    BY <2>21, SaveAgainFacts, <1>1, <1>2 DEF Same, Goes
  <2>22. ASSUME NEW c \in Runs \cup {Timer}, Saved(c) PROVE Waited(n, m)
    <3>1. m \in page.recovery /\ (c \in Runs => run[c] = "save")
      BY <2>22, <1>1, SavedFacts DEF Same
    <3>2. c = Timer
      BY <1>2, <3>1
    <3> QED
      BY <2>22, <3>1, <3>2, <1>1, SavedFacts, Marks DEF Same
  <2>23. ASSUME NEW c \in Runs \cup {Timer}, SaveFailed(c) PROVE Waited(n, m)
    <3>1. m \in page.recovery /\ (c \in Runs => run[c] = "save")
      BY <2>23, <1>1, SaveFailedFacts DEF Same
    <3>2. c = Timer
      BY <1>2, <3>1
    <3> QED
      BY <2>23, <3>1, <3>2, <1>1, SaveFailedFacts, Marks DEF Same
  <2>24. ASSUME NEW i \in Ids, Cancel(i) PROVE Waited(n, m)
    BY <2>24, CancelFacts, <1>1, <1>2 DEF Same, Goes
  <2>25. ASSUME NEW i \in Ids, Retry(i) PROVE Waited(n, m)
    BY <2>25, GateFacts, <1>1, <1>2 DEF Same, Goes
  <2>26. ASSUME NEW i \in Ids, Add(i) PROVE Waited(n, m)
    BY <2>26, GateFacts, <1>1, <1>2 DEF Same, Goes
  <2>27. CASE RequestQuit
    BY <2>27, QuitFacts, <1>1, <1>2 DEF Same, Goes
  <2>28. CASE QuitSaves
    BY <2>28, QuitFacts, <1>1, <1>2 DEF Same, Goes
  <2>29. CASE QuitFails
    BY <2>29, QuitFacts, <1>1, <1>2 DEF Same, Goes
  <2>30. CASE Quit \/ Crash \/ PowerLoss
    BY <2>30, SessionFacts, NewPageFacts, <1>1, <1>2
  <2>31. CASE UNCHANGED vars
    BY <2>31 DEF vars
  <2> QED
    BY <2>1, <2>2, <2>3, <2>4, <2>5, <2>6, <2>7, <2>8, <2>9, <2>10, <2>11, <2>12, <2>13, <2>14,
       <2>15, <2>16, <2>17, <2>18, <2>19, <2>20, <2>21, <2>22, <2>23, <2>24, <2>25, <2>26,
       <2>27, <2>28, <2>29, <2>30, <2>31 DEF Next, Ids
<1> QED
  BY <1>3, <1>4

-----------------------------------------------------------------------------
(* One run at a time.                                                      *)

\* A run whose download is in the queue.
Queued == {"wait", "save", "asked", "answered", "refused", "acknowledge", "calling", "running", "ended"}
\* Requests wait for the queue; what is on the screen stays in what is saved.
CalmOf(i) ==
  /\ page.requests # {} => page.ready = "ready"
  /\ page.ready = "ready" => (Has(page.list, i) => Has(page.latest, i))
\* At most one of the two runs of a request is under way.
AloneOf(r) ==
  /\ run[Bridge(r)] # "idle" => page.ready = "ready"
  /\ run[Bridge(r)] \in {"idle", "known"} \/ (run[Own(r)] = "idle" /\ r \notin page.recovery)
  /\ run[Own(r)] # "idle" => Has(page.list, r)
  /\ run[Bridge(r)] # "recovered"
  /\ run[Bridge(r)] \in {"inspect", "gate"} => ~Has(page.list, r)
  /\ run[Bridge(r)] \in Queued => Has(page.list, r) /\ Within(page.list, r, {"queued", "downloading", "cancelling"})
Alone == (\A i \in Ids: CalmOf(i)) /\ \A r \in Requests: AloneOf(r)

\* A status changes no download's being there.
LEMMA SameItemsHas ==
  ASSUME TypeOK, SameItems
  PROVE  \A i: Has(page'.list, i) <=> Has(page.list, i)
<1>1. CASE page'.list = page.list
  BY <1>1
<1>2. CASE \E I, s: Shows(page, page', I, s)
  BY <1>2, PageTyped, ShowsFacts
<1> QED
  BY <1>1, <1>2 DEF SameItems

\* Nothing has happened to an item of the list.
Alike(j) ==
  /\ Has(page'.list, j) <=> Has(page.list, j)
  /\ \A S: Within(page.list, j, S) => Within(page'.list, j, S)

\* A step on one download leaves another alike.
LEMMA AlikeFacts ==
  ASSUME TypeOK, Distinct(page.list), NEW i, NEW j,
         \/ page'.list = page.list
         \/ i # j /\ \/ \E s: Shows(page, page', {i}, s)
                     \/ page'.list = Without(page.list, i)
                     \/ \E item \in Items: item.id = i /\ page'.list = WithItem(page.list, item)
  PROVE  Alike(j)
<1>1. CASE page'.list = page.list
  BY <1>1 DEF Alike
<1>2. CASE i # j /\ \E s: Shows(page, page', {i}, s)
  <2>1. PICK s: Shows(page, page', {i}, s)
    BY <1>2
  <2>2. page \in Pages /\ j \notin {i}
    BY <1>2, PageTyped
  <2>3. Has(page'.list, j) <=> Has(page.list, j)
    BY <2>1, <2>2, ShowsFacts
  <2>4. ASSUME NEW S PROVE Within(page.list, j, S) => Within(page'.list, j, S)
    BY <2>1, <2>2, ShowsFacts
  <2> QED
    BY <2>3, <2>4 DEF Alike
<1>3. CASE i # j /\ page'.list = Without(page.list, i)
  BY <1>3, PageTyped, WithoutFacts DEF Alike
<1>4. CASE i # j /\ \E item \in Items: item.id = i /\ page'.list = WithItem(page.list, item)
  <2>1. PICK item \in Items: item.id = i /\ page'.list = WithItem(page.list, item)
    BY <1>4
  <2>2. page.list \in Lists
    BY PageTyped
  <2>3. /\ \A l \in Lists: Has(WithItem(l, item), j) <=> Has(l, j) \/ j = item.id
        /\ \A l \in Lists: \A S: j # item.id => (Within(WithItem(l, item), j, S) <=> Within(l, j, S))
    BY <2>1, WithItemFacts
  <2> QED
    BY <1>4, <2>1, <2>2, <2>3 DEF Alike
<1> QED
  BY <1>1, <1>2, <1>3, <1>4

\* Statuses of a smaller set are statuses of a greater one.
LEMMA WithinGrows ==
  ASSUME NEW l, NEW i, NEW S, NEW T, Within(l, i, S), S \subseteq T
  PROVE  Within(l, i, T)
BY DEF Within

\* What holds of a download's two runs goes on holding while they stay and the item is
\* alike.
LEMMA AloneStays ==
  ASSUME NEW q \in Requests, AloneOf(q), Alike(q), page'.recovery \subseteq page.recovery,
         run'[Own(q)] = run[Own(q)], run'[Bridge(q)] = run[Bridge(q)], page.ready = "ready" => page'.ready = "ready"
  PROVE  AloneOf(q)'
BY DEF AloneOf, Alike

\* When no listing is answered before the queue is shown, requests are opened only
\* with the queue there.
LEMMA CalmOfKept ==
  ASSUME EarlyAnswers = FALSE, TypeOK, Queues, Mounting, Showing, NEW j, CalmOf(j), [Next]_vars
  PROVE  CalmOf(j)'
<1> USE DEF CalmOf, store, past
<1>0. /\ CalmOf(j) /\ Distinct(page.list) /\ Loading
  BY DEF Queues, Mounting
<1>1. CASE StoreWorks
  BY <1>1, StoreFacts, <1>0
<1>2. CASE Loaded
  BY <1>2, LoadedFacts, PageFields, <1>0 DEF Same, Loading, FieldsTyped
<1>3. CASE LoadFailed
  BY <1>3, LoadFailedFacts, <1>0 DEF Same, Loading
<1>4. CASE Render
  BY <1>4, RenderFacts, PageFields, <1>0 DEF Same, FieldsTyped, Showing
<1>5. CASE Recover
  <2>1. SameItems
    BY <1>5, RecoverFacts DEF SameItems, Same
  <2>2. page'.ready = page.ready /\ page'.latest = page.latest /\ page'.requests \subseteq page.requests
    BY <1>5, RecoverFacts DEF Same
  <2> QED
    BY <2>1, <2>2, <1>0, SameItemsHas
<1>6. CASE ListInbox
  BY <1>6, ListInboxFacts, <1>0 DEF Same
<1>7. CASE ReceiveListing
  BY <1>7, ReceiveListingFacts, <1>0 DEF Same
<1>8. CASE TimerFires
  BY <1>8, TimerFiresFacts, <1>0 DEF Same
<1>9. ASSUME NEW r \in Requests, Accept(r) PROVE CalmOf(j)'
  BY <1>9, RequestFacts, <1>0 DEF Same
<1>10. ASSUME NEW r \in Requests, AcknowledgeKnown(r) PROVE CalmOf(j)'
  BY <1>10, RequestFacts, <1>0 DEF Same
<1>11. ASSUME NEW r \in Requests, Inspect(r) PROVE CalmOf(j)'
  BY <1>11, RequestFacts, <1>0 DEF Same
<1>12. ASSUME NEW r \in Requests, Acknowledge(r) PROVE CalmOf(j)'
  <2>1. SameItems
    BY <1>12, AcknowledgeFacts DEF SameItems
  <2>2. page'.ready = page.ready /\ page'.latest = page.latest /\ page'.requests \subseteq page.requests
    BY <1>12, AcknowledgeFacts DEF Same
  <2> QED
    BY <2>1, <2>2, <1>0, SameItemsHas
<1>13. ASSUME NEW p \in Runs, Enqueue(p) PROVE CalmOf(j)'
  <2> DEFINE item == QueuedItem(Id(p))
  <2>1. /\ (page'.list = page.list /\ Has(page.list, Id(p))) \/ page'.list = WithItem(page.list, item)
        /\ page'.latest = WithItem(page.latest, item) /\ item \in Items /\ item.id = Id(p)
    BY <1>13, EnqueueFacts DEF QueuedItem
  <2>2. page'.ready = page.ready /\ page'.requests = page.requests
    BY <1>13, EnqueueFacts DEF Same
  <2> HIDE DEF item
  <2>3. /\ Has(page'.list, j) => Has(page.list, j) \/ j = Id(p)
        /\ Has(page'.latest, j) <=> Has(page.latest, j) \/ j = Id(p)
    <3>1. page.list \in Lists /\ page.latest \in Lists
      BY PageTyped
    <3>2. \A l \in Lists: Has(WithItem(l, item), j) <=> Has(l, j) \/ j = item.id
      BY <2>1, WithItemFacts
    <3> QED
      BY <2>1, <3>1, <3>2
  <2> QED
    BY <2>2, <2>3, <1>0
<1>14. ASSUME NEW p \in Runs, StopWaiting(p) PROVE CalmOf(j)'
  BY <1>14, StopWaitingFacts, <1>0 DEF Same
<1>15. ASSUME NEW p \in Runs, HostRegisters(p) PROVE CalmOf(j)'
  BY <1>15, HostRegistersFacts, <1>0 DEF Same
<1>16. ASSUME NEW p \in Runs, Answered(p) PROVE CalmOf(j)'
  <2>1. SameItems
    BY <1>16, AnsweredFacts DEF SameItems, Same
  <2>2. page'.ready = page.ready /\ page'.latest = page.latest /\ page'.requests \subseteq page.requests
    BY <1>16, AnsweredFacts DEF Same
  <2> QED
    BY <2>1, <2>2, <1>0, SameItemsHas
<1>17. ASSUME NEW p \in Runs, Refused(p) PROVE CalmOf(j)'
  <2>1. SameItems
    BY <1>17, RefusedFacts DEF SameItems
  <2>2. page'.ready = page.ready /\ page'.latest = page.latest /\ page'.requests \subseteq page.requests
    BY <1>17, RefusedFacts DEF Same
  <2> QED
    BY <2>1, <2>2, <1>0, SameItemsHas
<1>18. ASSUME NEW p \in Runs, Claim(p) PROVE CalmOf(j)'
  <2>1. SameItems
    BY <1>18, ClaimFacts DEF SameItems
  <2>2. page'.ready = page.ready /\ page'.latest = page.latest /\ page'.requests \subseteq page.requests
    BY <1>18, ClaimFacts DEF Same
  <2> QED
    BY <2>1, <2>2, <1>0, SameItemsHas
<1>19. ASSUME NEW p \in Runs, Finish(p) PROVE CalmOf(j)'
  BY <1>19, FinishFacts, <1>0 DEF Same
<1>20. ASSUME NEW p \in Runs, Ended(p) PROVE CalmOf(j)'
  <2>1. SameItems
    BY <1>20, EndedFacts DEF SameItems
  <2>2. page'.ready = page.ready /\ page'.latest = page.latest /\ page'.requests \subseteq page.requests
    BY <1>20, EndedFacts DEF Same
  <2> QED
    BY <2>1, <2>2, <1>0, SameItemsHas
<1>21. ASSUME NEW c \in Runs \cup {Timer}, SaveAgain(c) PROVE CalmOf(j)'
  BY <1>21, SaveAgainFacts, <1>0 DEF Same
<1>22. ASSUME NEW c \in Runs \cup {Timer}, Saved(c) PROVE CalmOf(j)'
  <2>1. SameItems
    BY <1>22, SavedFacts DEF SameItems, Same
  <2>2. page'.ready = page.ready /\ page'.latest = page.latest /\ page'.requests \subseteq page.requests
    BY <1>22, SavedFacts DEF Same
  <2> QED
    BY <2>1, <2>2, <1>0, SameItemsHas
<1>23. ASSUME NEW c \in Runs \cup {Timer}, SaveFailed(c) PROVE CalmOf(j)'
  <2>1. page'.ready = page.ready /\ page'.latest = page.latest /\ page'.requests = page.requests
    BY <1>23, <1>0, SaveFailedFacts DEF Same
  <2>2. SameItems \/ page'.list = Without(page.list, Id(c))
    BY <1>23, <1>0, SaveFailedFacts DEF SameItems, Same
  <2>3. Has(page'.list, j) => Has(page.list, j)
    BY <1>0, <2>2, SameItemsHas, WithoutFacts, PageTyped
  <2> QED
    BY <2>1, <2>3, <1>0
<1>24. ASSUME NEW i \in Ids, Cancel(i) PROVE CalmOf(j)'
  <2>1. SameItems
    BY <1>24, CancelFacts DEF SameItems
  <2>2. page'.ready = page.ready /\ page'.latest = page.latest /\ page'.requests \subseteq page.requests
    BY <1>24, CancelFacts DEF Same
  <2> QED
    BY <2>1, <2>2, <1>0, SameItemsHas
<1>25. ASSUME NEW i \in Ids, Retry(i) PROVE CalmOf(j)'
  BY <1>25, GateFacts, <1>0 DEF Same
<1>26. ASSUME NEW i \in Ids, Add(i) PROVE CalmOf(j)'
  BY <1>26, GateFacts, <1>0 DEF Same
<1>27. CASE RequestQuit
  BY <1>27, QuitFacts, <1>0 DEF Same
<1>28. CASE QuitSaves
  BY <1>28, QuitFacts, <1>0 DEF Same
<1>29. CASE QuitFails
  BY <1>29, QuitFacts, <1>0 DEF Same
<1>30. CASE Quit \/ Crash \/ PowerLoss
  BY <1>30, SessionFacts, NewPageFacts, <1>0
<1>31. CASE UNCHANGED vars
  BY <1>31, <1>0 DEF vars
<1> QED
  BY <1>1, <1>2, <1>3, <1>4, <1>5, <1>6, <1>7, <1>8, <1>9, <1>10, <1>11, <1>12, <1>13, <1>14,
     <1>15, <1>16, <1>17, <1>18, <1>19, <1>20, <1>21, <1>22, <1>23, <1>24, <1>25, <1>26, <1>27,
     <1>28, <1>29, <1>30, <1>31 DEF Next, Ids

\* The two runs of a request.
LEMMA TwoRuns ==
  ASSUME NEW q \in Requests
  PROVE  /\ q \in Ids /\ Own(q) \in Runs /\ Bridge(q) \in Runs /\ Own(q) # Bridge(q)
         /\ Id(Own(q)) = q /\ Id(Bridge(q)) = q
         /\ \A p \in Runs: Id(p) = q => p = Own(q) \/ p = Bridge(q)
         /\ \A i \in Ids: Own(i) = Own(q) => i = q
         /\ \A r \in Requests: Bridge(r) = Bridge(q) => r = q
BY RunShapes

\* A run goes on from one await to the next.
Proceeds(p, s) ==
  /\ Goes(p, s) /\ run[p] \notin {"idle", "known"}
  /\ page'.recovery = page.recovery /\ page'.ready = page.ready
  /\ page'.list = page.list \/ \E t: Shows(page, page', {Id(p)}, t)
  /\ p = Bridge(Id(p)) =>
       \/ s = "idle"
       \/ /\ run[p] \in Queued /\ s \in Queued
          /\ page'.list = page.list \/ \E t \in {"queued", "downloading"}: Shows(page, page', {Id(p)}, t)

\* A run that goes on to its next await stays alone.
LEMMA AloneMoves ==
  ASSUME TypeOK, Queues, NEW q \in Requests, AloneOf(q), NEW p \in Runs, NEW s, Proceeds(p, s)
  PROVE  AloneOf(q)'
<1> USE DEF Proceeds
<1>1. CASE Id(p) # q
  <2>1. run'[Own(q)] = run[Own(q)] /\ run'[Bridge(q)] = run[Bridge(q)]
    BY <1>1, TwoRuns DEF Goes
  <2>2. Alike(q)
    BY <1>1, AlikeFacts DEF Queues
  <2> QED
    BY <2>1, <2>2, AloneStays
<1>2. CASE p = Own(q)
  <2>1. run'[Bridge(q)] = run[Bridge(q)] /\ run[Bridge(q)] \in {"idle", "known"}
    BY <1>2, TwoRuns DEF Goes, AloneOf
  <2>2. SameItems
    BY DEF SameItems
  <2>3. Has(page.list, q) /\ Has(page'.list, q)
    BY <1>2, <2>2, SameItemsHas DEF AloneOf
  <2> QED
    BY <2>1, <2>3 DEF AloneOf, Queued
<1>3. CASE p = Bridge(q)
  <2>1. run'[Own(q)] = run[Own(q)] /\ run'[Bridge(q)] = s /\ run[Own(q)] = "idle" /\ q \notin page.recovery /\ page.ready = "ready"
    BY <1>3, TwoRuns DEF Goes, AloneOf
  <2>2. CASE s = "idle"
    BY <2>1, <2>2 DEF AloneOf, Queued
  <2>3. CASE s # "idle"
    <3>1. run[p] \in Queued /\ s \in Queued
      BY <1>3, <2>3, TwoRuns
    <3>2. Has(page.list, q) /\ Within(page.list, q, {"queued", "downloading", "cancelling"})
      BY <1>3, <3>1 DEF AloneOf
    <3>3. Has(page'.list, q) /\ Within(page'.list, q, {"queued", "downloading", "cancelling"})
      <4>1. CASE page'.list = page.list
        BY <3>2, <4>1
      <4>2. CASE \E t \in {"queued", "downloading"}: Shows(page, page', {q}, t)
        <5>1. PICK t \in {"queued", "downloading"}: Shows(page, page', {q}, t)
          BY <4>2
        <5>2. page \in Pages /\ t \in {"queued", "downloading", "cancelling"}
          BY PageTyped
        <5> QED
          BY <3>2, <5>1, <5>2, ShowsFacts
      <4> QED
        BY <1>3, <2>3, <4>1, <4>2, TwoRuns
    <3> QED
      BY <2>1, <3>1, <3>3 DEF AloneOf, Queued
  <2> QED
    BY <2>2, <2>3
<1> QED
  BY <1>1, <1>2, <1>3, TwoRuns

\* These steps are a run's going on.
LEMMA ProceedSteps ==
  ASSUME TypeOK, NEW p \in Runs,
         HostRegisters(p) \/ Answered(p) \/ Refused(p) \/ Claim(p) \/ Finish(p) \/ Ended(p) \/ StopWaiting(p)
  PROVE  \E s: Proceeds(p, s)
<1>1. HostRegisters(p) => Proceeds(p, "answered") \/ Proceeds(p, "refused")
  BY HostRegistersFacts DEF Proceeds, Same, Queued
<1>2. Refused(p) => Proceeds(p, "idle")
  BY RefusedFacts DEF Proceeds, Same, Queued
<1>3. Claim(p) => Proceeds(p, "running") \/ Proceeds(p, "ended")
  BY ClaimFacts DEF Proceeds, Same, Queued
<1>4. Finish(p) => Proceeds(p, "ended")
  BY FinishFacts DEF Proceeds, Same, Queued
<1>5. Ended(p) => Proceeds(p, "idle")
  BY EndedFacts DEF Proceeds, Same, Queued
<1>6. StopWaiting(p) => Proceeds(p, "save")
  BY StopWaitingFacts DEF Proceeds, Same, Queued
<1>7. ASSUME Answered(p) PROVE Proceeds(p, "idle") \/ Proceeds(p, Registered(p))
  <2>1. /\ run[p] = "answered" /\ page'.recovery = page.recovery /\ page'.ready = page.ready
        /\ page'.list = page.list \/ \E t: Shows(page, page', {Id(p)}, t)
    BY <1>7, AnsweredFacts DEF Same
  <2>2. p = Bridge(Id(p)) => Registered(p) = "acknowledge"
    BY DEF Registered
  <2>3. Goes(p, "idle") \/ (Goes(p, Registered(p)) /\ (Registered(p) # "calling" => page'.list = page.list))
    BY <1>7, AnsweredFacts DEF Same
  <2> QED
    BY <2>1, <2>2, <2>3 DEF Proceeds, Queued
<1> QED
  BY <1>1, <1>2, <1>3, <1>4, <1>5, <1>6, <1>7

\* Of the two runs of a request at most one is under way: a request that is in the
\* queue is not opened a second time.
LEMMA AloneOfKept ==
  ASSUME EarlyAnswers = FALSE, TypeOK, Queues, Mounting, Saves, NEW q \in Requests, AloneOf(q), CalmOf(q), [Next]_vars
  PROVE  AloneOf(q)'
<1>0. AloneOf(q) /\ Distinct(page.list)
  BY DEF Queues
<1>1. CASE StoreWorks
  BY <1>1, StoreFacts, <1>0 DEF AloneOf, Same, store
<1>2. CASE Loaded
  <2>1. page.ready = "loading" /\ run' = run
    BY <1>2, LoadedFacts DEF Mounting, Loading
  <2>2. run[Bridge(q)] = "idle" /\ run[Own(q)] = "idle"
    BY <1>0, <2>1, EmptyList DEF Mounting, Unshown, AloneOf
  <2> QED
    BY <2>1, <2>2 DEF AloneOf, Queued
<1>3. CASE LoadFailed
  <2>1. page.ready = "loading" /\ run' = run
    BY <1>3, LoadFailedFacts DEF Mounting, Loading
  <2>2. run[Bridge(q)] = "idle" /\ run[Own(q)] = "idle"
    BY <1>0, <2>1, EmptyList DEF Mounting, Unshown, AloneOf
  <2> QED
    BY <2>1, <2>2 DEF AloneOf, Queued
<1>4. CASE Render
  <2>1. /\ page'.list = page.list /\ page'.recovery = page.recovery
        /\ page.ready = "ready" => page'.ready = "ready"
    BY <1>4, RenderFacts DEF Same
  <2>2. CASE run' = run
    BY <1>0, <2>1, <2>2 DEF AloneOf
  <2>3. CASE run' # run
    <3>1. PICK r \in page.requests: Goes(Bridge(r), IF Has(page.latest, r) THEN "known" ELSE "inspect")
      BY <1>4, <2>3, RenderFacts
    <3>2. r \in Requests /\ page.ready = "ready" /\ ~Busy
      BY <1>4, <2>3, RenderFacts, PageFields DEF FieldsTyped, CalmOf
    <3>3. CASE r # q
      BY <1>0, <2>1, <3>1, <3>2, <3>3, TwoRuns DEF Goes, AloneOf
    <3>4. CASE r = q
      <4>1. run'[Own(q)] = run[Own(q)] /\ run'[Bridge(q)] = IF Has(page.latest, q) THEN "known" ELSE "inspect"
        BY <3>1, <3>4, TwoRuns DEF Goes
      <4>2. ~Has(page.latest, q) => ~Has(page.list, q) /\ run[Own(q)] = "idle" /\ q \notin page.recovery
        BY <3>2 DEF CalmOf, AloneOf, Mounting, Recovering, Recoverable
      <4> QED
        BY <1>0, <2>1, <3>2, <4>1, <4>2 DEF AloneOf, Queued
    <3> QED
      BY <3>3, <3>4
  <2> QED
    BY <2>2, <2>3
<1>5. CASE Recover
  <2>1. page.ready = "ready" /\ page'.ready = "ready" /\ ~page.open
    BY <1>5, RecoverFacts DEF Same
  <2>2. CASE page.recovery # {}
    <3>1. PICK f \in page.recovery: /\ Goes(Own(f), "idle") \/ Goes(Own(f), "asked")
                                    /\ page'.recovery = page.recovery \ {f}
                                    /\ page'.list = page.list \/ Shows(page, page', {f}, "ended")
      BY <1>5, <2>2, RecoverFacts DEF Same
    <3>2. CASE f # q
      <4>1. Alike(q)
        BY <1>0, <3>1, <3>2, AlikeFacts
      <4>2. run'[Own(q)] = run[Own(q)] /\ run'[Bridge(q)] = run[Bridge(q)]
        BY <3>1, <3>2, TwoRuns, RunShapes DEF Goes
      <4> QED
        BY <1>0, <2>1, <3>1, <4>1, <4>2, AloneStays
    <3>3. CASE f = q
      <4>1. SameItems /\ Has(page.list, q)
        BY <3>1, <3>3 DEF SameItems, Mounting, Recovering, Recoverable
      <4>2. Has(page'.list, q)
        BY <4>1, SameItemsHas
      <4>3. run'[Bridge(q)] = run[Bridge(q)] /\ run[Bridge(q)] \in {"idle", "known"}
        BY <1>0, <3>1, <3>3, TwoRuns DEF Goes, AloneOf
      <4> QED
        BY <2>1, <4>2, <4>3 DEF AloneOf, Queued
    <3> QED
      BY <3>2, <3>3
  <2>3. CASE page.recovery = {}
    <3>1. page'.recovery = {} /\ \A p \in Runs: run'[p] = IF run[p] = "recovered" THEN "calling" ELSE run[p]
      BY <1>5, <2>3, RecoverFacts DEF Same
    <3>2. page'.list = page.list \/ \E I: Shows(page, page', I, "queued")
      BY <1>5, <2>3, RecoverFacts
    <3>3. Alike(q) \/ \E I: Shows(page, page', I, "queued")
      BY <1>0, <3>2, AlikeFacts
    <3>4. /\ Has(page'.list, q) <=> Has(page.list, q)
          /\ Within(page.list, q, {"queued", "downloading", "cancelling"}) => Within(page'.list, q, {"queued", "downloading", "cancelling"})
      <4>1. page \in Pages /\ "queued" \in {"queued", "downloading", "cancelling"}
        BY PageTyped
      <4> QED
        BY <3>3, <4>1, ShowsFacts DEF Alike
    <3>5. run'[Bridge(q)] = run[Bridge(q)] /\ (run[Own(q)] # "idle" <=> run'[Own(q)] # "idle")
      BY <1>0, <3>1, TwoRuns DEF AloneOf
    <3> QED
      BY <1>0, <2>1, <2>3, <3>1, <3>4, <3>5 DEF AloneOf
  <2> QED
    BY <2>2, <2>3
<1>6. CASE ListInbox
  BY <1>6, ListInboxFacts, <1>0 DEF AloneOf, Same, store
<1>7. CASE ReceiveListing
  BY <1>7, ReceiveListingFacts, <1>0 DEF AloneOf, Same, store
<1>8. CASE TimerFires
  BY <1>8, TimerFiresFacts, <1>0 DEF AloneOf, Same, store
<1>9. ASSUME NEW r \in Requests, Accept(r) PROVE AloneOf(q)'
  BY <1>9, RequestFacts, <1>0 DEF AloneOf, Same, store
<1>10. ASSUME NEW r \in Requests, AcknowledgeKnown(r) PROVE AloneOf(q)'
  <2>1. page' = page /\ run[Bridge(r)] = "known" /\ Goes(Bridge(r), "idle")
    BY <1>10, RequestFacts
  <2> QED
    BY <1>0, <2>1, TwoRuns DEF Goes, AloneOf, Queued
<1>11. ASSUME NEW r \in Requests, Inspect(r) PROVE AloneOf(q)'
  <2>1. page' = page /\ run[Bridge(r)] = "inspect" /\ (Goes(Bridge(r), "gate") \/ Goes(Bridge(r), "idle"))
    BY <1>11, RequestFacts
  <2> QED
    BY <1>0, <2>1, TwoRuns DEF Goes, AloneOf, Queued
<1>12. ASSUME NEW r \in Requests, Acknowledge(r) PROVE AloneOf(q)'
  <2>1. Proceeds(Bridge(r), "calling")
    BY <1>12, AcknowledgeFacts, TwoRuns DEF Proceeds, Same, Queued
  <2> QED
    BY <2>1, TwoRuns, AloneMoves
<1>13. ASSUME NEW p \in Runs, Enqueue(p) PROVE AloneOf(q)'
  <2>1. page'.recovery = page.recovery /\ page'.ready = page.ready
    BY <1>13, EnqueueFacts DEF Same
  <2>2. run[p] = "gate" /\ (Goes(p, "wait") \/ Goes(p, "save")) /\ QueuedItem(Id(p)) \in Items
    BY <1>13, EnqueueFacts
  <2>3. \/ page'.list = page.list /\ Has(page.list, Id(p)) /\ p = Bridge(Id(p))
        \/ page'.list = WithItem(page.list, QueuedItem(Id(p)))
    BY <1>13, EnqueueFacts
  <2>4. QueuedItem(Id(p)).id = Id(p) /\ QueuedItem(Id(p)).status = "queued"
    BY DEF QueuedItem
  <2>5. CASE Id(p) # q
    <3>1. Alike(q)
      BY <1>0, <2>2, <2>3, <2>4, <2>5, AlikeFacts
    <3>2. run'[Own(q)] = run[Own(q)] /\ run'[Bridge(q)] = run[Bridge(q)]
      BY <2>2, <2>5, TwoRuns DEF Goes
    <3> QED
      BY <1>0, <2>1, <3>1, <3>2, AloneStays
  <2>6. CASE Id(p) = q
    <3>1. \A l \in Lists: /\ Has(WithItem(l, QueuedItem(q)), q)
                          /\ Within(WithItem(l, QueuedItem(q)), q, {"queued"})
      <4>1. \A item \in Items: \A l \in Lists:
              /\ Has(WithItem(l, item), item.id)
              /\ Within(WithItem(l, item), item.id, {item.status})
        BY WithItemFacts
      <4>2. /\ QueuedItem(q) \in Items
            /\ QueuedItem(q).id = q
            /\ QueuedItem(q).status = "queued"
        BY <2>2, <2>4, <2>6
      <4> QED
        BY <4>1, <4>2
    <3>2. CASE p = Bridge(q)
      <4>1. page'.list = WithItem(page.list, QueuedItem(q))
        BY <1>0, <2>2, <2>3, <2>6, <3>2 DEF AloneOf
      <4>2. Has(page'.list, q) /\ Within(page'.list, q, {"queued", "downloading", "cancelling"})
        BY <3>1, <4>1, PageTyped, WithinGrows
      <4> QED
        BY <1>0, <2>1, <2>2, <3>2, <4>2, TwoRuns DEF Goes, AloneOf, Queued
    <3>3. CASE p = Own(q)
      <4>1. Has(page'.list, q)
        BY <2>3, <2>6, <3>1, PageTyped
      <4> QED
        BY <1>0, <2>1, <2>2, <3>3, <4>1, TwoRuns DEF Goes, AloneOf, Queued
    <3> QED
      BY <2>6, <3>2, <3>3, TwoRuns
  <2> QED
    BY <2>5, <2>6
<1>14. ASSUME NEW p \in Runs, StopWaiting(p) PROVE AloneOf(q)'
  BY <1>14, ProceedSteps, AloneMoves
<1>15. ASSUME NEW p \in Runs, HostRegisters(p) PROVE AloneOf(q)'
  BY <1>15, ProceedSteps, AloneMoves
<1>16. ASSUME NEW p \in Runs, Answered(p) PROVE AloneOf(q)'
  BY <1>16, ProceedSteps, AloneMoves
<1>17. ASSUME NEW p \in Runs, Refused(p) PROVE AloneOf(q)'
  BY <1>17, ProceedSteps, AloneMoves
<1>18. ASSUME NEW p \in Runs, Claim(p) PROVE AloneOf(q)'
  BY <1>18, ProceedSteps, AloneMoves
<1>19. ASSUME NEW p \in Runs, Finish(p) PROVE AloneOf(q)'
  BY <1>19, ProceedSteps, AloneMoves
<1>20. ASSUME NEW p \in Runs, Ended(p) PROVE AloneOf(q)'
  BY <1>20, ProceedSteps, AloneMoves
<1>21. ASSUME NEW c \in Runs \cup {Timer}, SaveAgain(c) PROVE AloneOf(q)'
  BY <1>21, SaveAgainFacts, <1>0 DEF AloneOf, Same, store
<1>22. ASSUME NEW c \in Runs \cup {Timer}, Saved(c) PROVE AloneOf(q)'
  <2>1. CASE c = Timer
    BY <1>22, <1>0, <2>1, SavedFacts, Marks DEF AloneOf, Same
  <2>2. CASE c \in Runs
    <3>1. run[c] = "save" /\ c # Timer
      BY <1>22, <2>2, SavedFacts, Marks DEF Saves, Saver
    <3>2. Proceeds(c, "idle") \/ Proceeds(c, "asked")
      BY <1>22, <2>2, <3>1, SavedFacts DEF Proceeds, Same, Queued
    <3> QED
      BY <2>2, <3>2, AloneMoves
  <2> QED
    BY <2>1, <2>2
<1>23. ASSUME NEW c \in Runs \cup {Timer}, SaveFailed(c) PROVE AloneOf(q)'
  <2>1. page'.recovery = page.recovery /\ page'.ready = page.ready
    BY <1>23, <1>0, SaveFailedFacts DEF Same
  <2>2. CASE c = Timer
    BY <1>23, <1>0, <2>2, SaveFailedFacts, Marks DEF AloneOf, Same
  <2>3. CASE c \in Runs
    <3>1. run[c] = "save" /\ c # Timer /\ Goes(c, "idle")
      BY <1>23, <1>0, <2>3, SaveFailedFacts, Marks DEF Saves, Saver
    <3>2. CASE page'.list = Without(page.list, Id(c)) /\ c = Bridge(Id(c))
      <4>1. CASE Id(c) # q
        <5>1. Alike(q)
          BY <1>0, <3>2, <4>1, AlikeFacts
        <5> QED
          BY <1>0, <2>1, <2>3, <3>1, <4>1, <5>1, TwoRuns, AloneStays DEF Goes
      <4>2. CASE Id(c) = q
        BY <1>0, <2>1, <2>3, <3>1, <3>2, <4>2, TwoRuns DEF Goes, AloneOf, Queued
      <4> QED
        BY <4>1, <4>2
    <3>3. CASE Proceeds(c, "idle")
      BY <2>3, <3>3, AloneMoves
    <3> QED
      BY <1>23, <1>0, <2>3, <3>1, <3>2, <3>3, SaveFailedFacts DEF Proceeds, Same
  <2> QED
    BY <2>2, <2>3
<1>24. ASSUME NEW i \in Ids, Cancel(i) PROVE AloneOf(q)'
  <2>1. page'.recovery = page.recovery /\ page'.ready = page.ready /\ run' = run
    BY <1>24, CancelFacts DEF Same
  <2>2. CASE page'.list = page.list
    BY <1>0, <2>1, <2>2 DEF AloneOf
  <2>3. CASE Shows(page, page', {i}, "cancelling")
    <3>1. page \in Pages /\ "cancelling" \in {"queued", "downloading", "cancelling"}
      BY PageTyped
    <3>2. /\ Has(page'.list, q) <=> Has(page.list, q)
          /\ Within(page.list, q, {"queued", "downloading", "cancelling"}) => Within(page'.list, q, {"queued", "downloading", "cancelling"})
      BY <2>3, <3>1, ShowsFacts
    <3> QED
      BY <1>0, <2>1, <3>2 DEF AloneOf
  <2> QED
    BY <1>24, <2>2, <2>3, CancelFacts
<1>25. ASSUME NEW i \in Ids, Retry(i) PROVE AloneOf(q)'
  <2>1. /\ page' = page /\ Has(page.list, i) /\ StatusOf(page.list, i) \in {"ended", "paused"}
        /\ run[Own(i)] = "idle" /\ Goes(Own(i), "gate")
    BY <1>25, GateFacts
  <2>2. ~Within(page.list, i, {"queued", "downloading", "cancelling"}) /\ ~Within(page.list, i, {"queued", "cancelling"})
    BY <1>0, <2>1, PageTyped, StatusFacts
  <2>3. CASE i # q
    BY <1>0, <2>1, <2>3, TwoRuns, RunShapes DEF Goes, AloneOf
  <2>4. CASE i = q
    <3>1. run[Bridge(q)] \in {"idle", "known"} \/ run[Bridge(q)] \in {"inspect", "gate"} \cup Queued
      BY <1>0, TwoRuns DEF TypeOK, Steps, Queued, AloneOf
    <3> QED
      BY <1>0, <2>1, <2>2, <2>4, <3>1, TwoRuns DEF Goes, AloneOf
  <2> QED
    BY <2>3, <2>4
<1>26. ASSUME NEW i \in Locals, Add(i) PROVE AloneOf(q)'
  <2>1. i # q /\ page' = page /\ Goes(Own(i), "gate")
    BY <1>26, GateFacts, BoundsAssumption DEF Ids
  <2> QED
    BY <1>0, <2>1, TwoRuns, RunShapes DEF Goes, AloneOf
<1>27. CASE RequestQuit
  BY <1>27, QuitFacts, <1>0 DEF AloneOf, Same, store
<1>28. CASE QuitSaves
  BY <1>28, QuitFacts, <1>0 DEF AloneOf, Same, store
<1>29. CASE QuitFails
  BY <1>29, QuitFacts, <1>0 DEF AloneOf, Same, store
<1>30. CASE Quit \/ Crash \/ PowerLoss
  BY <1>30, SessionFacts, NewPageFacts, TwoRuns, <1>0 DEF AloneOf, Queued
<1>31. CASE UNCHANGED vars
  BY <1>31, <1>0 DEF vars, AloneOf
<1> QED
  BY <1>1, <1>2, <1>3, <1>4, <1>5, <1>6, <1>7, <1>8, <1>9, <1>10, <1>11, <1>12, <1>13, <1>14,
     <1>15, <1>16, <1>17, <1>18, <1>19, <1>20, <1>21, <1>22, <1>23, <1>24, <1>25, <1>26, <1>27,
     <1>28, <1>29, <1>30, <1>31 DEF Next, Ids

-----------------------------------------------------------------------------
(* Cancellations.                                                          *)

\* A run that the page counts as registered.
Past == {"recovered", "acknowledge", "calling", "running", "ended"}
\* A run whose registration is the coordinator's.
Claimable == {"answered", "recovered", "acknowledge", "calling"}
\* The run p heeds a cancellation.
Heeds(p) ==
  /\ run[p] \in Past => Id(p) \in page.registered
  /\ run[p] \in {"inspect", "gate"} => Id(p) \notin InTime
  /\ run[p] \in {"wait", "save", "asked", "answered"} /\ Id(p) \in InTime => Id(p) \in page.cancelling
  /\ run[p] \in {"recovered", "acknowledge", "calling", "running"} /\ Id(p) \in InTime
       => Id(p) \in cancelled \/ ticket[Id(p)] = "none"
\* A cancellation of a download to be recovered is remembered.
Remembers(i) ==
  /\ page.ready = "loading" => i \notin InTime
  /\ i \in page.recovery /\ i \in InTime => i \in page.cancelling
\* Where a cancellation of i is kept.
CancelsOf(i) ==
  /\ Remembers(i)
  /\ i \in page.registered => \E p \in Runs: Id(p) = i /\ run[p] \in Past
  /\ ticket[i] = "registered" => \E p \in Runs: Id(p) = i /\ run[p] \in Claimable
  /\ ticket[i] = "started" => \E p \in Runs: Id(p) = i /\ run[p] = "running"
  /\ \A p \in Runs: Id(p) = i => Heeds(p)
\* What has been cancelled is in the queue, or its request is not opened again.
Clicked(i) == i \in wanted => Has(page.list, i) \/ i \in page.handled
Cancels == \A i \in Ids: Clicked(i) /\ CancelsOf(i)

\* The other run of the download is at rest.
Rests(p) == \A q \in Runs: Id(q) = Id(p) /\ q # p => run[q] \in {"idle", "known"}
\* What is known of i, said of its only run under way.
Reckoned(p) ==
  /\ Remembers(Id(p)) /\ Heeds(p)
  /\ Id(p) \in page.registered => run[p] \in Past
  /\ ticket[Id(p)] = "registered" => run[p] \in Claimable
  /\ ticket[Id(p)] = "started" => run[p] = "running"

\* When one run of a download is under way the other rests, and the download is not to
\* be recovered.
LEMMA OthersRest ==
  ASSUME Mounting, Alone, NEW p \in Runs, run[p] \notin {"idle", "known"}
  PROVE  Rests(p) /\ Id(p) \notin page.recovery /\ Id(p) \in Ids
<1>1. Id(p) \in Ids
  BY RunShapes
<1>2. CASE Id(p) \notin Requests
  BY <1>1, <1>2, RunShapes DEF Rests, Mounting, Recovering, Recoverable
<1>3. CASE Id(p) \in Requests
  <2>1. AloneOf(Id(p))
    BY <1>3 DEF Alone
  <2>2. p = Own(Id(p)) \/ p = Bridge(Id(p))
    BY RunShapes
  <2>3. CASE p = Own(Id(p))
    <3>1. run[Bridge(Id(p))] \in {"idle", "known"} /\ run[Own(Id(p))] # "idle"
      BY <2>1, <2>3 DEF AloneOf
    <3> QED
      BY <1>1, <1>3, <2>3, <3>1, TwoRuns DEF Rests, Mounting, Recovering, Recoverable
  <2>4. CASE p = Bridge(Id(p))
    <3>1. run[Own(Id(p))] = "idle" /\ Id(p) \notin page.recovery
      BY <2>1, <2>4 DEF AloneOf
    <3> QED
      BY <1>1, <1>3, <2>4, <3>1, TwoRuns DEF Rests
  <2> QED
    BY <2>2, <2>3, <2>4
<1> QED
  BY <1>2, <1>3

\* What is known of a download is known of its only run under way.
LEMMA CancelsRead ==
  ASSUME NEW p \in Runs, Rests(p), CancelsOf(Id(p))
  PROVE  Reckoned(p)
BY DEF Rests, CancelsOf, Reckoned, Past, Claimable

\* And the other way round, after a step of that run.
LEMMA CancelsWritten ==
  ASSUME NEW p \in Runs, Rests(p), NEW s, Goes(p, s), Reckoned(p)'
  PROVE  CancelsOf(Id(p))'
<1>1. \A q \in Runs: Id(q) = Id(p) /\ q # p => run'[q] \in {"idle", "known"}
  BY DEF Rests, Goes
<1>2. \A q \in Runs: Id(q) = Id(p) => Heeds(q)'
  <2>1. SUFFICES ASSUME NEW q \in Runs, Id(q) = Id(p) PROVE Heeds(q)'
    OBVIOUS
  <2>2. CASE q = p
    BY <2>2 DEF Reckoned
  <2>3. CASE q # p
    BY <1>1, <2>1, <2>3 DEF Heeds, Past
  <2> QED
    BY <2>2, <2>3
<1> QED
  BY <1>2 DEF CancelsOf, Reckoned

\* Nothing that concerns i has happened.
Untouched(i) ==
  /\ \A p \in Runs: Id(p) = i => run'[p] = run[p]
  /\ page'.ready = "loading" => page.ready = "loading"
  /\ i \in page'.recovery => i \in page.recovery
  /\ i \in page'.registered <=> i \in page.registered
  /\ i \in page.cancelling => i \in page'.cancelling
  /\ ticket'[i] = ticket[i] /\ (i \in InTime' => i \in InTime) /\ (i \in cancelled => i \in cancelled')

\* What does not concern a download keeps what is known of it.
LEMMA UntouchedKept ==
  ASSUME NEW i, Untouched(i), CancelsOf(i)
  PROVE  CancelsOf(i)'
<1>1. ASSUME NEW p \in Runs, Id(p) = i PROVE Heeds(p)'
  <2>1. Heeds(p) /\ run'[p] = run[p]
    BY <1>1 DEF CancelsOf, Untouched
  <2> QED
    BY <1>1, <2>1 DEF Heeds, Untouched
<1> QED
  BY <1>1 DEF Untouched, CancelsOf, Remembers

\* Runs that begin do not concern a cancellation.
LEMMA Unconcerned ==
  ASSUME NEW i, CancelsOf(i), page'.recovery = page.recovery, page'.registered = page.registered,
         page'.cancelling = page.cancelling, page'.ready = "loading" => page.ready = "loading",
         UNCHANGED host, i \in InTime' => i \in InTime,
         \A p \in Runs: \/ run'[p] = run[p]
                        \/ /\ run[p] \in {"idle", "known", "inspect"}
                           /\ run'[p] \in {"idle", "known", "inspect", "gate"}
                           /\ Id(p) = i /\ run'[p] \in {"inspect", "gate"} => i \notin InTime'
  PROVE  CancelsOf(i)'
<1> USE DEF host
<1>1. ASSUME NEW p \in Runs, Id(p) = i PROVE Heeds(p)'
  <2>1. Heeds(p)
    BY <1>1 DEF CancelsOf
  <2> QED
    BY <1>1, <2>1 DEF Heeds, Past
<1> QED
  BY <1>1 DEF CancelsOf, Remembers, Past, Claimable

\* A cancellation is remembered by the page until the registration has been answered,
\* and by the coordinator from then on.
LEMMA CancelsOfKept ==
  ASSUME TypeOK, Queues, Mounting, Saves, Alone, Pending, NEW i \in Ids, Clicked(i), CancelsOf(i), [Next]_vars
  PROVE  CancelsOf(i)'
<1> USE DEF host, past, InTime
<1>0. CancelsOf(i) /\ Mounting /\ Alone /\ i \in Ids
  OBVIOUS
<1>1. CASE StoreWorks
  BY <1>1, StoreFacts, UntouchedKept, <1>0 DEF Untouched
<1>2. CASE Loaded
  <2>1. page.ready = "loading" /\ run' = run /\ UNCHANGED <<host, wanted, early>> /\ page'.ready = "loaded"
        /\ page'.registered = page.registered /\ page'.cancelling = page.cancelling
    BY <1>2, LoadedFacts DEF Mounting, Loading, Same
  <2>2. i \notin InTime
    BY <1>0, <2>1 DEF CancelsOf, Remembers
  <2> QED
    BY <1>0, <2>1, <2>2 DEF CancelsOf, Remembers, Heeds
<1>3. CASE LoadFailed
  BY <1>3, LoadFailedFacts, UntouchedKept, <1>0 DEF Untouched, Same
<1>4. CASE Render
  <2>1. /\ page'.recovery = page.recovery /\ page'.registered = page.registered /\ page'.cancelling = page.cancelling
        /\ page'.ready = "loading" => page.ready = "loading"
        /\ UNCHANGED <<host, wanted, early>>
    BY <1>4, RenderFacts DEF Same
  <2>2. CASE run' = run
    BY <1>0, <2>1, <2>2, UntouchedKept DEF Untouched
  <2>3. CASE run' # run
    <3>1. PICK r \in page.requests \ page.handled: Goes(Bridge(r), IF Has(page.latest, r) THEN "known" ELSE "inspect")
      BY <1>4, <2>3, RenderFacts
    <3>2. r \in Requests
      BY <3>1, PageFields DEF FieldsTyped
    <3>3. run[Bridge(r)] = "idle"
      BY <3>1, <3>2 DEF Pending, PendingOf
    <3>4. r = i /\ ~Has(page.latest, r) => i \notin wanted
      BY <1>0, <3>1 DEF Alone, CalmOf, Clicked
    <3>5. \A p \in Runs: run'[p] = run[p] \/ (run[p] = "idle" /\ run'[p] \in {"known", "inspect"})
      BY <3>1, <3>3 DEF Goes
    <3>6. \A p \in Runs: run'[p] = run[p] \/ (Id(p) = i /\ run'[p] \in {"inspect", "gate"} => i \notin InTime)
      BY <2>1, <3>1, <3>2, <3>4, TwoRuns DEF Goes
    <3> QED
      BY <1>0, <2>1, <3>5, <3>6, Unconcerned
  <2> QED
    BY <2>2, <2>3
<1>5. CASE Recover
  <2>1. page'.ready = "ready" /\ page'.registered = page.registered /\ UNCHANGED <<ticket, cancelled, wanted, early>>
    BY <1>5, RecoverFacts DEF Same
  <2>2. CASE page.recovery # {}
    <3>1. PICK f \in page.recovery:
            /\ page'.recovery = page.recovery \ {f}
            /\ \/ page'.cancelling = page.cancelling \ {f} /\ Goes(Own(f), "idle")
               \/ f \notin page.cancelling /\ page'.cancelling = page.cancelling /\ Goes(Own(f), "asked")
      BY <1>5, <2>2, RecoverFacts DEF Same
    <3>2. f \in Ids
      BY <3>1, PageFields DEF FieldsTyped
    <3>3. CASE f # i
      <4>1. \A p \in Runs: Id(p) = i => run'[p] = run[p]
        BY <3>1, <3>2, <3>3, RunShapes DEF Goes
      <4> QED
        BY <1>0, <2>1, <3>1, <3>3, <4>1, UntouchedKept DEF Untouched
    <3>4. CASE f = i
      <4>1. Rests(Own(i)) /\ run[Own(i)] = "idle" /\ Own(i) \in Runs /\ Id(Own(i)) = i
        BY <1>0, <3>1, <3>4, RunShapes, TwoRuns DEF Rests, Alone, AloneOf, Mounting, Recovering,
           Recoverable
      <4>2. Reckoned(Own(i))
        BY <1>0, <4>1, CancelsRead
      <4>3. run'[Own(i)] \in {"idle", "asked"} /\ \E s: Goes(Own(i), s)
        BY <3>1, <3>4, <4>1 DEF Goes
      <4>4. i \notin page'.recovery /\ (run'[Own(i)] = "asked" => i \notin page.cancelling)
        BY <3>1, <3>4, <4>1 DEF Goes
      <4>5. Remembers(i) /\ i \notin page.registered /\ ticket[i] \notin {"registered", "started"}
        BY <4>1, <4>2 DEF Reckoned, Past, Claimable
      <4>6. Remembers(i)' /\ Heeds(Own(i))'
        BY <2>1, <3>1, <3>4, <4>1, <4>3, <4>4, <4>5 DEF Remembers, Heeds, Past
      <4>7. Reckoned(Own(i))'
        BY <2>1, <4>1, <4>5, <4>6 DEF Reckoned
      <4> QED
        BY <4>1, <4>3, <4>7, CancelsWritten
    <3> QED
      BY <3>3, <3>4
  <2>3. CASE page.recovery = {}
    <3>1. page'.recovery = {} /\ page'.cancelling = page.cancelling
          /\ \A p \in Runs: run'[p] = IF run[p] = "recovered" THEN "calling" ELSE run[p]
      BY <1>5, <2>3, RecoverFacts DEF Same
    <3>2. \A p \in Runs: Id(p) = i => Heeds(p)'
      BY <1>0, <2>1, <3>1 DEF CancelsOf, Heeds, Past
    <3> QED
      BY <1>0, <2>1, <3>1, <3>2 DEF CancelsOf, Remembers, Past, Claimable
  <2> QED
    BY <2>2, <2>3
<1>6. CASE ListInbox
  BY <1>6, ListInboxFacts, UntouchedKept, <1>0 DEF Untouched, Same
<1>7. CASE ReceiveListing
  BY <1>7, ReceiveListingFacts, UntouchedKept, <1>0 DEF Untouched, Same
<1>8. CASE TimerFires
  BY <1>8, TimerFiresFacts, UntouchedKept, <1>0 DEF Untouched, Same
<1>9. ASSUME NEW r \in Requests, Accept(r) PROVE CancelsOf(i)'
  BY <1>9, RequestFacts, UntouchedKept, <1>0 DEF Untouched
<1>10. ASSUME NEW r \in Requests, AcknowledgeKnown(r) PROVE CancelsOf(i)'
  <2>1. /\ page' = page /\ UNCHANGED <<host, wanted, early>>
        /\ \A p \in Runs: run'[p] = run[p] \/ (run[p] = "known" /\ run'[p] = "idle")
    BY <1>10, RequestFacts DEF Goes
  <2> QED
    BY <1>0, <2>1, Unconcerned
<1>11. ASSUME NEW r \in Requests, Inspect(r) PROVE CancelsOf(i)'
  <2>1. /\ page' = page /\ UNCHANGED <<host, wanted, early>>
        /\ \A p \in Runs: run'[p] = run[p] \/ (run[p] = "inspect" /\ run'[p] \in {"idle", "gate"})
    BY <1>11, RequestFacts DEF Goes
  <2>2. \A p \in Runs: run[p] = "inspect" /\ Id(p) = i => i \notin InTime
    BY <1>0 DEF CancelsOf, Heeds
  <2> QED
    BY <1>0, <2>1, <2>2, Unconcerned
<1>12. ASSUME NEW r \in Requests, Acknowledge(r) PROVE CancelsOf(i)'
  <2>0. Bridge(r) \in Runs /\ Id(Bridge(r)) = r
    BY RunShapes
  <2>1. /\ run[Bridge(r)] = "acknowledge" /\ page'.recovery = page.recovery /\ page'.ready = page.ready
        /\ \E s \in {"calling"}: Goes(Bridge(r), s)
    BY <1>12, AcknowledgeFacts, <2>0 DEF Same
  <2>2. Rests(Bridge(r)) /\ Id(Bridge(r)) \notin page.recovery /\ Id(Bridge(r)) \in Ids
    BY <1>0, <2>1, <2>0, OthersRest
  <2>3. ASSUME i # Id(Bridge(r)) PROVE Untouched(i)
    <3>1. ticket'[i] = ticket[i] /\ (i \in cancelled => i \in cancelled') /\ (i \in InTime' => i \in InTime)
      BY <1>12, <1>0, <2>3, AcknowledgeFacts, <2>0 DEF Discards, TicketIs
    <3>2. /\ i \in page'.registered <=> i \in page.registered
          /\ i \in page.cancelling => i \in page'.cancelling
      BY <1>12, <2>3, AcknowledgeFacts, <2>0 DEF Same
    <3> QED
      BY <2>1, <2>3, <3>1, <3>2 DEF Untouched, Goes
  <2>4. ASSUME i = Id(Bridge(r)) PROVE CancelsOf(i)'
    <3>1. Reckoned(Bridge(r)) /\ run'[Bridge(r)] \in {"calling"}
      BY <1>0, <2>1, <2>2, <2>4, <2>0, CancelsRead DEF Goes
    <3>2. Remembers(i)'
      BY <1>12, <2>1, <2>2, <2>4, <3>1, AcknowledgeFacts, <2>0 DEF Remembers, Reckoned, Same
    <3>3. Heeds(Bridge(r))' /\ (Id(Bridge(r)) \in page'.registered => run'[Bridge(r)] \in Past)
          /\ (ticket'[Id(Bridge(r))] = "registered" => run'[Bridge(r)] \in Claimable)
          /\ (ticket'[Id(Bridge(r))] = "started" => run'[Bridge(r)] = "running")
      BY <1>12, <1>0, <2>1, <2>2, <3>1, AcknowledgeFacts, <2>0 DEF Reckoned, Heeds, Past,
         Claimable, Same, Goes, Discards, TicketIs
    <3> QED
      BY <2>1, <2>2, <2>4, <3>2, <3>3, <2>0, CancelsWritten DEF Reckoned
  <2> QED
    BY <1>0, <2>3, <2>4, UntouchedKept
<1>13. ASSUME NEW p \in Runs, Enqueue(p) PROVE CancelsOf(i)'
  <2>1. /\ run[p] = "gate" /\ page'.recovery = page.recovery /\ page'.ready = page.ready
        /\ \E s \in {"wait", "save"}: Goes(p, s)
    BY <1>13, EnqueueFacts DEF Same
  <2>2. Rests(p) /\ Id(p) \notin page.recovery /\ Id(p) \in Ids
    BY <1>0, <2>1, OthersRest
  <2>3. ASSUME i # Id(p) PROVE Untouched(i)
    <3>1. ticket'[i] = ticket[i] /\ (i \in cancelled => i \in cancelled') /\ (i \in InTime' => i \in InTime)
      BY <1>13, <1>0, <2>3, EnqueueFacts DEF Discards, TicketIs
    <3>2. /\ i \in page'.registered <=> i \in page.registered
          /\ i \in page.cancelling => i \in page'.cancelling
      BY <1>13, <2>3, EnqueueFacts DEF Same
    <3> QED
      BY <2>1, <2>3, <3>1, <3>2 DEF Untouched, Goes
  <2>4. ASSUME i = Id(p) PROVE CancelsOf(i)'
    <3>1. Reckoned(p) /\ run'[p] \in {"wait", "save"}
      BY <1>0, <2>1, <2>2, <2>4, CancelsRead DEF Goes
    <3>2. Remembers(i)'
      BY <1>13, <2>1, <2>2, <2>4, <3>1, EnqueueFacts DEF Remembers, Reckoned, Same
    <3>3. Heeds(p)' /\ (Id(p) \in page'.registered => run'[p] \in Past)
          /\ (ticket'[Id(p)] = "registered" => run'[p] \in Claimable)
          /\ (ticket'[Id(p)] = "started" => run'[p] = "running")
      BY <1>13, <1>0, <2>1, <2>2, <3>1, EnqueueFacts DEF Reckoned, Heeds, Past, Claimable, Same,
         Goes, Discards, TicketIs
    <3> QED
      BY <2>1, <2>2, <2>4, <3>2, <3>3, CancelsWritten DEF Reckoned
  <2> QED
    BY <1>0, <2>3, <2>4, UntouchedKept
<1>14. ASSUME NEW p \in Runs, StopWaiting(p) PROVE CancelsOf(i)'
  <2>1. /\ run[p] = "wait" /\ page'.recovery = page.recovery /\ page'.ready = page.ready
        /\ \E s \in {"save"}: Goes(p, s)
    BY <1>14, StopWaitingFacts DEF Same
  <2>2. Rests(p) /\ Id(p) \notin page.recovery /\ Id(p) \in Ids
    BY <1>0, <2>1, OthersRest
  <2>3. ASSUME i # Id(p) PROVE Untouched(i)
    <3>1. ticket'[i] = ticket[i] /\ (i \in cancelled => i \in cancelled') /\ (i \in InTime' => i \in InTime)
      BY <1>14, <1>0, <2>3, StopWaitingFacts DEF Discards, TicketIs
    <3>2. /\ i \in page'.registered <=> i \in page.registered
          /\ i \in page.cancelling => i \in page'.cancelling
      BY <1>14, <2>3, StopWaitingFacts DEF Same
    <3> QED
      BY <2>1, <2>3, <3>1, <3>2 DEF Untouched, Goes
  <2>4. ASSUME i = Id(p) PROVE CancelsOf(i)'
    <3>1. Reckoned(p) /\ run'[p] \in {"save"}
      BY <1>0, <2>1, <2>2, <2>4, CancelsRead DEF Goes
    <3>2. Remembers(i)'
      BY <1>14, <2>1, <2>2, <2>4, <3>1, StopWaitingFacts DEF Remembers, Reckoned, Same
    <3>3. Heeds(p)' /\ (Id(p) \in page'.registered => run'[p] \in Past)
          /\ (ticket'[Id(p)] = "registered" => run'[p] \in Claimable)
          /\ (ticket'[Id(p)] = "started" => run'[p] = "running")
      BY <1>14, <1>0, <2>1, <2>2, <3>1, StopWaitingFacts DEF Reckoned, Heeds, Past, Claimable,
         Same, Goes, Discards, TicketIs
    <3> QED
      BY <2>1, <2>2, <2>4, <3>2, <3>3, CancelsWritten DEF Reckoned
  <2> QED
    BY <1>0, <2>3, <2>4, UntouchedKept
<1>15. ASSUME NEW p \in Runs, HostRegisters(p) PROVE CancelsOf(i)'
  <2>1. /\ run[p] = "asked" /\ page'.recovery = page.recovery /\ page'.ready = page.ready
        /\ \E s \in {"answered", "refused"}: Goes(p, s)
    BY <1>15, HostRegistersFacts DEF Same
  <2>2. Rests(p) /\ Id(p) \notin page.recovery /\ Id(p) \in Ids
    BY <1>0, <2>1, OthersRest
  <2>3. ASSUME i # Id(p) PROVE Untouched(i)
    <3>1. ticket'[i] = ticket[i] /\ (i \in cancelled => i \in cancelled') /\ (i \in InTime' => i \in InTime)
      BY <1>15, <1>0, <2>3, HostRegistersFacts DEF Discards, TicketIs
    <3>2. /\ i \in page'.registered <=> i \in page.registered
          /\ i \in page.cancelling => i \in page'.cancelling
      BY <1>15, <2>3, HostRegistersFacts DEF Same
    <3> QED
      BY <2>1, <2>3, <3>1, <3>2 DEF Untouched, Goes
  <2>4. ASSUME i = Id(p) PROVE CancelsOf(i)'
    <3>1. Reckoned(p) /\ run'[p] \in {"answered", "refused"}
      BY <1>0, <2>1, <2>2, <2>4, CancelsRead DEF Goes
    <3>2. Remembers(i)'
      BY <1>15, <2>1, <2>2, <2>4, <3>1, HostRegistersFacts DEF Remembers, Reckoned, Same
    <3>3. Heeds(p)' /\ (Id(p) \in page'.registered => run'[p] \in Past)
          /\ (ticket'[Id(p)] = "registered" => run'[p] \in Claimable)
          /\ (ticket'[Id(p)] = "started" => run'[p] = "running")
      BY <1>15, <1>0, <2>1, <2>2, <3>1, HostRegistersFacts DEF Reckoned, Heeds, Past, Claimable,
         Same, Goes, Discards, TicketIs
    <3> QED
      BY <2>1, <2>2, <2>4, <3>2, <3>3, CancelsWritten DEF Reckoned
  <2> QED
    BY <1>0, <2>3, <2>4, UntouchedKept
<1>16. ASSUME NEW p \in Runs, Answered(p) PROVE CancelsOf(i)'
  <2>1. /\ run[p] = "answered" /\ page'.recovery = page.recovery /\ page'.ready = page.ready
        /\ \E s \in {"idle", "acknowledge", "calling", "recovered"}: Goes(p, s)
    BY <1>16, AnsweredFacts DEF Same, Registered
  <2>2. Rests(p) /\ Id(p) \notin page.recovery /\ Id(p) \in Ids
    BY <1>0, <2>1, OthersRest
  <2>3. ASSUME i # Id(p) PROVE Untouched(i)
    <3>1. ticket'[i] = ticket[i] /\ (i \in cancelled => i \in cancelled') /\ (i \in InTime' => i \in InTime)
      BY <1>16, <1>0, <2>3, AnsweredFacts DEF Discards, TicketIs
    <3>2. /\ i \in page'.registered <=> i \in page.registered
          /\ i \in page.cancelling => i \in page'.cancelling
      BY <1>16, <2>3, AnsweredFacts DEF Same
    <3> QED
      BY <2>1, <2>3, <3>1, <3>2 DEF Untouched, Goes
  <2>4. ASSUME i = Id(p) PROVE CancelsOf(i)'
    <3>1. Reckoned(p) /\ run'[p] \in {"idle", "acknowledge", "calling", "recovered"}
      BY <1>0, <2>1, <2>2, <2>4, CancelsRead DEF Goes
    <3>2. Remembers(i)'
      BY <1>16, <2>1, <2>2, <2>4, <3>1, AnsweredFacts DEF Remembers, Reckoned, Same
    <3>3. Heeds(p)' /\ (Id(p) \in page'.registered => run'[p] \in Past)
          /\ (ticket'[Id(p)] = "registered" => run'[p] \in Claimable)
          /\ (ticket'[Id(p)] = "started" => run'[p] = "running")
      <4>1. CASE Id(p) \in page.cancelling
        <5>1. Discards(Id(p)) /\ page'.registered = page.registered \ {Id(p)} /\ run'[p] = "idle"
          BY <1>16, <4>1, AnsweredFacts DEF Goes
        <5>2. ticket'[Id(p)] \notin {"registered", "started"}
          BY <2>1, <2>4, <3>1, <5>1 DEF Reckoned, Discards
        <5> QED
          BY <5>1, <5>2 DEF Heeds, Past
      <4>2. CASE Id(p) \notin page.cancelling
        <5>1. page'.registered = page.registered \cup {Id(p)} /\ UNCHANGED <<host, wanted, early>> /\ Goes(p, Registered(p))
          BY <1>16, <4>2, AnsweredFacts
        <5>2. run'[p] \in {"acknowledge", "calling", "recovered"}
          BY <5>1 DEF Registered, Goes
        <5>3. Id(p) \notin InTime
          BY <2>1, <4>2, <3>1 DEF Reckoned, Heeds
        <5>4. Id(p) \notin InTime' /\ Id(p) \in page'.registered /\ ticket'[Id(p)] # "started"
          BY <2>1, <3>1, <5>1, <5>3 DEF Reckoned
        <5> QED
          BY <5>2, <5>4 DEF Heeds, Past, Claimable
      <4> QED
        BY <4>1, <4>2
    <3> QED
      BY <2>1, <2>2, <2>4, <3>2, <3>3, CancelsWritten DEF Reckoned
  <2> QED
    BY <1>0, <2>3, <2>4, UntouchedKept
<1>17. ASSUME NEW p \in Runs, Refused(p) PROVE CancelsOf(i)'
  <2>1. /\ run[p] = "refused" /\ page'.recovery = page.recovery /\ page'.ready = page.ready
        /\ \E s \in {"idle"}: Goes(p, s)
    BY <1>17, RefusedFacts DEF Same
  <2>2. Rests(p) /\ Id(p) \notin page.recovery /\ Id(p) \in Ids
    BY <1>0, <2>1, OthersRest
  <2>3. ASSUME i # Id(p) PROVE Untouched(i)
    <3>1. ticket'[i] = ticket[i] /\ (i \in cancelled => i \in cancelled') /\ (i \in InTime' => i \in InTime)
      BY <1>17, <1>0, <2>3, RefusedFacts DEF Discards, TicketIs
    <3>2. /\ i \in page'.registered <=> i \in page.registered
          /\ i \in page.cancelling => i \in page'.cancelling
      BY <1>17, <2>3, RefusedFacts DEF Same
    <3> QED
      BY <2>1, <2>3, <3>1, <3>2 DEF Untouched, Goes
  <2>4. ASSUME i = Id(p) PROVE CancelsOf(i)'
    <3>1. Reckoned(p) /\ run'[p] \in {"idle"}
      BY <1>0, <2>1, <2>2, <2>4, CancelsRead DEF Goes
    <3>2. Remembers(i)'
      BY <1>17, <2>1, <2>2, <2>4, <3>1, RefusedFacts DEF Remembers, Reckoned, Same
    <3>3. Heeds(p)' /\ (Id(p) \in page'.registered => run'[p] \in Past)
          /\ (ticket'[Id(p)] = "registered" => run'[p] \in Claimable)
          /\ (ticket'[Id(p)] = "started" => run'[p] = "running")
      BY <1>17, <1>0, <2>1, <2>2, <3>1, RefusedFacts DEF Reckoned, Heeds, Past, Claimable, Same,
         Goes, Discards, TicketIs
    <3> QED
      BY <2>1, <2>2, <2>4, <3>2, <3>3, CancelsWritten DEF Reckoned
  <2> QED
    BY <1>0, <2>3, <2>4, UntouchedKept
<1>18. ASSUME NEW p \in Runs, Claim(p) PROVE CancelsOf(i)'
  <2>1. /\ run[p] = "calling" /\ page'.recovery = page.recovery /\ page'.ready = page.ready
        /\ \E s \in {"running", "ended"}: Goes(p, s)
    BY <1>18, ClaimFacts DEF Same
  <2>2. Rests(p) /\ Id(p) \notin page.recovery /\ Id(p) \in Ids
    BY <1>0, <2>1, OthersRest
  <2>3. ASSUME i # Id(p) PROVE Untouched(i)
    <3>1. ticket'[i] = ticket[i] /\ (i \in cancelled => i \in cancelled') /\ (i \in InTime' => i \in InTime)
      BY <1>18, <1>0, <2>3, ClaimFacts DEF Discards, TicketIs
    <3>2. /\ i \in page'.registered <=> i \in page.registered
          /\ i \in page.cancelling => i \in page'.cancelling
      BY <1>18, <2>3, ClaimFacts DEF Same
    <3> QED
      BY <2>1, <2>3, <3>1, <3>2 DEF Untouched, Goes
  <2>4. ASSUME i = Id(p) PROVE CancelsOf(i)'
    <3>1. Reckoned(p) /\ run'[p] \in {"running", "ended"}
      BY <1>0, <2>1, <2>2, <2>4, CancelsRead DEF Goes
    <3>2. Remembers(i)'
      BY <1>18, <2>1, <2>2, <2>4, <3>1, ClaimFacts DEF Remembers, Reckoned, Same
    <3>3. Heeds(p)' /\ (Id(p) \in page'.registered => run'[p] \in Past)
          /\ (ticket'[Id(p)] = "registered" => run'[p] \in Claimable)
          /\ (ticket'[Id(p)] = "started" => run'[p] = "running")
      BY <1>18, <1>0, <2>1, <2>2, <3>1, ClaimFacts DEF Reckoned, Heeds, Past, Claimable, Same,
         Goes, Discards, TicketIs
    <3> QED
      BY <2>1, <2>2, <2>4, <3>2, <3>3, CancelsWritten DEF Reckoned
  <2> QED
    BY <1>0, <2>3, <2>4, UntouchedKept
<1>19. ASSUME NEW p \in Runs, Finish(p) PROVE CancelsOf(i)'
  <2>1. /\ run[p] = "running" /\ page'.recovery = page.recovery /\ page'.ready = page.ready
        /\ \E s \in {"ended"}: Goes(p, s)
    BY <1>19, FinishFacts DEF Same
  <2>2. Rests(p) /\ Id(p) \notin page.recovery /\ Id(p) \in Ids
    BY <1>0, <2>1, OthersRest
  <2>3. ASSUME i # Id(p) PROVE Untouched(i)
    <3>1. ticket'[i] = ticket[i] /\ (i \in cancelled => i \in cancelled') /\ (i \in InTime' => i \in InTime)
      BY <1>19, <1>0, <2>3, FinishFacts DEF Discards, TicketIs
    <3>2. /\ i \in page'.registered <=> i \in page.registered
          /\ i \in page.cancelling => i \in page'.cancelling
      BY <1>19, <2>3, FinishFacts DEF Same
    <3> QED
      BY <2>1, <2>3, <3>1, <3>2 DEF Untouched, Goes
  <2>4. ASSUME i = Id(p) PROVE CancelsOf(i)'
    <3>1. Reckoned(p) /\ run'[p] \in {"ended"}
      BY <1>0, <2>1, <2>2, <2>4, CancelsRead DEF Goes
    <3>2. Remembers(i)'
      BY <1>19, <2>1, <2>2, <2>4, <3>1, FinishFacts DEF Remembers, Reckoned, Same
    <3>3. Heeds(p)' /\ (Id(p) \in page'.registered => run'[p] \in Past)
          /\ (ticket'[Id(p)] = "registered" => run'[p] \in Claimable)
          /\ (ticket'[Id(p)] = "started" => run'[p] = "running")
      BY <1>19, <1>0, <2>1, <2>2, <3>1, FinishFacts DEF Reckoned, Heeds, Past, Claimable, Same,
         Goes, Discards, TicketIs
    <3> QED
      BY <2>1, <2>2, <2>4, <3>2, <3>3, CancelsWritten DEF Reckoned
  <2> QED
    BY <1>0, <2>3, <2>4, UntouchedKept
<1>20. ASSUME NEW p \in Runs, Ended(p) PROVE CancelsOf(i)'
  <2>1. /\ run[p] = "ended" /\ page'.recovery = page.recovery /\ page'.ready = page.ready
        /\ \E s \in {"idle"}: Goes(p, s)
    BY <1>20, EndedFacts DEF Same
  <2>2. Rests(p) /\ Id(p) \notin page.recovery /\ Id(p) \in Ids
    BY <1>0, <2>1, OthersRest
  <2>3. ASSUME i # Id(p) PROVE Untouched(i)
    <3>1. ticket'[i] = ticket[i] /\ (i \in cancelled => i \in cancelled') /\ (i \in InTime' => i \in InTime)
      BY <1>20, <1>0, <2>3, EndedFacts DEF Discards, TicketIs
    <3>2. /\ i \in page'.registered <=> i \in page.registered
          /\ i \in page.cancelling => i \in page'.cancelling
      BY <1>20, <2>3, EndedFacts DEF Same
    <3> QED
      BY <2>1, <2>3, <3>1, <3>2 DEF Untouched, Goes
  <2>4. ASSUME i = Id(p) PROVE CancelsOf(i)'
    <3>1. Reckoned(p) /\ run'[p] \in {"idle"}
      BY <1>0, <2>1, <2>2, <2>4, CancelsRead DEF Goes
    <3>2. Remembers(i)'
      BY <1>20, <2>1, <2>2, <2>4, <3>1, EndedFacts DEF Remembers, Reckoned, Same
    <3>3. Heeds(p)' /\ (Id(p) \in page'.registered => run'[p] \in Past)
          /\ (ticket'[Id(p)] = "registered" => run'[p] \in Claimable)
          /\ (ticket'[Id(p)] = "started" => run'[p] = "running")
      <4>1. Heeds(p)'
        BY <3>1 DEF Heeds, Past
      <4>2. /\ Id(p) \notin page'.registered /\ ticket'[Id(p)] # "registered"
            /\ ticket'[Id(p)] = "started" => ticket[Id(p)] = "started"
        BY <1>20, <2>2, EndedFacts DEF Discards
      <4> QED
        BY <2>1, <3>1, <4>1, <4>2 DEF Reckoned
    <3> QED
      BY <2>1, <2>2, <2>4, <3>2, <3>3, CancelsWritten DEF Reckoned
  <2> QED
    BY <1>0, <2>3, <2>4, UntouchedKept
<1>21. ASSUME NEW c \in Runs \cup {Timer}, SaveAgain(c) PROVE CancelsOf(i)'
  BY <1>21, SaveAgainFacts, UntouchedKept, <1>0 DEF Untouched, Same
<1>22. ASSUME NEW c \in Runs \cup {Timer}, Saved(c) PROVE CancelsOf(i)'
  <2>0. Distinct(page.list) /\ (c \in Runs => c # Timer)
    BY Marks DEF Queues
  <2>5. CASE c \notin Runs
    BY <1>22, <1>0, <2>0, <2>5, SavedFacts, UntouchedKept DEF Untouched, Same
  <2>6. CASE c \in Runs
    <3>0. run[c] = "save"
      BY <1>22, <2>0, <2>6, SavedFacts DEF Saves, Saver
    <3>1. /\ run[c] = "save" /\ page'.recovery = page.recovery /\ page'.ready = page.ready
          /\ \E s \in {"idle", "asked"}: Goes(c, s)
      BY <1>22, <2>0, <2>6, <3>0, SavedFacts DEF Same
    <3>2. Rests(c) /\ Id(c) \notin page.recovery /\ Id(c) \in Ids
      BY <1>0, <3>1, <2>6, OthersRest
    <3>3. ASSUME i # Id(c) PROVE Untouched(i)
      <4>1. ticket'[i] = ticket[i] /\ (i \in cancelled => i \in cancelled') /\ (i \in InTime' => i \in InTime)
        BY <1>22, <1>0, <3>3, <2>0, <2>6, <3>0, SavedFacts DEF Discards, TicketIs
      <4>2. /\ i \in page'.registered <=> i \in page.registered
            /\ i \in page.cancelling => i \in page'.cancelling
        BY <1>22, <3>3, <2>0, <2>6, <3>0, SavedFacts DEF Same
      <4> QED
        BY <3>1, <3>3, <4>1, <4>2 DEF Untouched, Goes
    <3>4. ASSUME i = Id(c) PROVE CancelsOf(i)'
      <4>1. Reckoned(c) /\ run'[c] \in {"idle", "asked"}
        BY <1>0, <3>1, <3>2, <3>4, <2>6, CancelsRead DEF Goes
      <4>2. Remembers(i)'
        BY <1>22, <3>1, <3>2, <3>4, <4>1, <2>0, <2>6, <3>0, SavedFacts DEF Remembers, Reckoned, Same
      <4>3. Heeds(c)' /\ (Id(c) \in page'.registered => run'[c] \in Past)
            /\ (ticket'[Id(c)] = "registered" => run'[c] \in Claimable)
            /\ (ticket'[Id(c)] = "started" => run'[c] = "running")
        BY <1>22, <1>0, <3>1, <3>2, <4>1, <2>0, <2>6, SavedFacts DEF Reckoned, Heeds, Past,
           Claimable, Same, Goes, Discards, TicketIs
      <4> QED
        BY <3>1, <3>2, <3>4, <4>2, <4>3, <2>6, CancelsWritten DEF Reckoned
    <3> QED
      BY <1>0, <3>3, <3>4, UntouchedKept
  <2> QED
    BY <2>5, <2>6
<1>23. ASSUME NEW c \in Runs \cup {Timer}, SaveFailed(c) PROVE CancelsOf(i)'
  <2>0. Distinct(page.list) /\ (c \in Runs => c # Timer)
    BY Marks DEF Queues
  <2>5. CASE c \notin Runs
    BY <1>23, <1>0, <2>0, <2>5, SaveFailedFacts, UntouchedKept DEF Untouched, Same
  <2>6. CASE c \in Runs
    <3>0. run[c] = "save"
      BY <1>23, <2>0, <2>6, SaveFailedFacts DEF Saves, Saver
    <3>1. /\ run[c] = "save" /\ page'.recovery = page.recovery /\ page'.ready = page.ready
          /\ \E s \in {"idle"}: Goes(c, s)
      BY <1>23, <2>0, <2>6, <3>0, SaveFailedFacts DEF Same
    <3>2. Rests(c) /\ Id(c) \notin page.recovery /\ Id(c) \in Ids
      BY <1>0, <3>1, <2>6, OthersRest
    <3>3. ASSUME i # Id(c) PROVE Untouched(i)
      <4>1. ticket'[i] = ticket[i] /\ (i \in cancelled => i \in cancelled') /\ (i \in InTime' => i \in InTime)
        BY <1>23, <1>0, <3>3, <2>0, <2>6, <3>0, SaveFailedFacts DEF Discards, TicketIs
      <4>2. /\ i \in page'.registered <=> i \in page.registered
            /\ i \in page.cancelling => i \in page'.cancelling
        BY <1>23, <3>3, <2>0, <2>6, <3>0, SaveFailedFacts DEF Same
      <4> QED
        BY <3>1, <3>3, <4>1, <4>2 DEF Untouched, Goes
    <3>4. ASSUME i = Id(c) PROVE CancelsOf(i)'
      <4>1. Reckoned(c) /\ run'[c] \in {"idle"}
        BY <1>0, <3>1, <3>2, <3>4, <2>6, CancelsRead DEF Goes
      <4>2. Remembers(i)'
        BY <1>23, <3>1, <3>2, <3>4, <4>1, <2>0, <2>6, <3>0, SaveFailedFacts DEF Remembers,
           Reckoned, Same
      <4>3. Heeds(c)' /\ (Id(c) \in page'.registered => run'[c] \in Past)
            /\ (ticket'[Id(c)] = "registered" => run'[c] \in Claimable)
            /\ (ticket'[Id(c)] = "started" => run'[c] = "running")
        BY <1>23, <1>0, <3>1, <3>2, <4>1, <2>0, <2>6, SaveFailedFacts DEF Reckoned, Heeds, Past,
           Claimable, Same, Goes, Discards, TicketIs
      <4> QED
        BY <3>1, <3>2, <3>4, <4>2, <4>3, <2>6, CancelsWritten DEF Reckoned
    <3> QED
      BY <1>0, <3>3, <3>4, UntouchedKept
  <2> QED
    BY <2>5, <2>6
<1>24. ASSUME NEW j \in Ids, Cancel(j) PROVE CancelsOf(i)'
  <2>1. /\ page'.recovery = page.recovery /\ page'.ready = page.ready /\ run' = run
        /\ page'.registered = page.registered /\ ticket' = ticket
        /\ page.cancelling \subseteq page'.cancelling /\ cancelled \subseteq cancelled'
        /\ Wants(j) \/ UNCHANGED <<wanted, early>>
    BY <1>24, CancelFacts DEF Same
  <2>2. page.ready # "loading"
    <3>1. Has(page.list, j)
      BY <1>24, CancelFacts
    <3>2. page.ready = "loading" => ~Has(page.list, j)
      BY <1>0, EmptyList DEF Mounting, Unshown
    <3> QED
      BY <3>1, <3>2
  <2>3. ASSUME i # j PROVE Untouched(i)
    BY <2>1, <2>3 DEF Untouched, Wants
  <2>4. CASE i = j /\ i \notin InTime'
    BY <1>0, <2>1, <2>4 DEF CancelsOf, Remembers, Heeds
  <2>5. CASE i = j /\ UNCHANGED <<page, host, wanted, early>>
    BY <1>0, <2>1, <2>5, UntouchedKept DEF Untouched
  <2>6. CASE i = j /\ i \notin page.registered /\ i \in page'.cancelling /\ Wants(i)
    <3>1. \A p \in Runs: Id(p) = i => run[p] \notin Past
      BY <1>0, <2>6 DEF CancelsOf, Heeds
    <3>2. \A p \in Runs: Id(p) = i => Heeds(p)'
      BY <2>1, <2>6, <3>1 DEF Heeds, Past, Wants, AtGate
    <3>3. Remembers(i)'
      BY <2>1, <2>2, <2>6 DEF Remembers
    <3> QED
      BY <1>0, <2>1, <3>2, <3>3 DEF CancelsOf
  <2>7. CASE i = j /\ i \in page.registered /\ i \in cancelled'
    <3>1. PICK p \in Runs: Id(p) = i /\ run[p] \in Past
      BY <1>0, <2>7 DEF CancelsOf
    <3>2. Rests(p) /\ i \notin page.recovery
      BY <1>0, <3>1, OthersRest DEF Past
    <3>3. \A q \in Runs: Id(q) = i => run[q] \in Past \cup {"idle", "known"}
      BY <3>1, <3>2 DEF Rests
    <3>4. \A q \in Runs: Id(q) = i => Heeds(q)'
      <4>1. SUFFICES ASSUME NEW q \in Runs, Id(q) = i PROVE Heeds(q)'
        OBVIOUS
      <4>2. run[q] \in Past \cup {"idle", "known"} /\ Heeds(q)
        BY <1>0, <3>3, <4>1 DEF CancelsOf
      <4> QED
        BY <2>1, <2>7, <4>1, <4>2 DEF Heeds, Past
    <3>5. Remembers(i)'
      BY <2>1, <2>2, <3>2 DEF Remembers
    <3> QED
      BY <1>0, <2>1, <3>4, <3>5 DEF CancelsOf
  <2> QED
    BY <1>24, <1>0, <2>3, <2>5, <2>6, <2>7, CancelFacts, UntouchedKept
<1>25. ASSUME NEW j \in Ids, Retry(j) PROVE CancelsOf(i)'
  <2>1. /\ page' = page /\ UNCHANGED <<host, early>> /\ wanted' = wanted \ {j}
        /\ \A q \in Runs: run'[q] = run[q] \/ (run[q] = "idle" /\ run'[q] = "gate" /\ Id(q) = j)
    BY <1>25, GateFacts, RunShapes DEF Goes
  <2> QED
    BY <1>0, <2>1, Unconcerned
<1>26. ASSUME NEW j \in Ids, Add(j) PROVE CancelsOf(i)'
  <2>1. /\ page' = page /\ UNCHANGED <<host, early>> /\ wanted' = wanted \ {j}
        /\ \A q \in Runs: run'[q] = run[q] \/ (run[q] = "idle" /\ run'[q] = "gate" /\ Id(q) = j)
    BY <1>26, GateFacts, RunShapes DEF Goes
  <2> QED
    BY <1>0, <2>1, Unconcerned
<1>27. CASE RequestQuit
  BY <1>27, QuitFacts, UntouchedKept, <1>0 DEF Untouched, Same
<1>28. CASE QuitSaves
  BY <1>28, QuitFacts, UntouchedKept, <1>0 DEF Untouched, Same
<1>29. CASE QuitFails
  BY <1>29, QuitFacts, UntouchedKept, <1>0 DEF Untouched, Same
<1>30. CASE Quit \/ Crash \/ PowerLoss
  <2>1. /\ page'.recovery = {} /\ page'.registered = {} /\ wanted' = {} /\ \A p \in Runs: run'[p] = "idle"
        /\ ticket'[i] = "none"
    BY <1>30, <1>0, SessionFacts, NewPageFacts
  <2> QED
    BY <2>1 DEF CancelsOf, Remembers, Heeds, Past
<1>31. CASE UNCHANGED vars
  BY <1>31, UntouchedKept DEF Untouched, vars
<1> QED
  BY <1>1, <1>2, <1>3, <1>4, <1>5, <1>6, <1>7, <1>8, <1>9, <1>10, <1>11, <1>12, <1>13, <1>14,
     <1>15, <1>16, <1>17, <1>18, <1>19, <1>20, <1>21, <1>22, <1>23, <1>24, <1>25, <1>26, <1>27,
     <1>28, <1>29, <1>30, <1>31 DEF Next, Ids

-----------------------------------------------------------------------------
(* What must not be forgotten.                                             *)

\* What is shown as in the queue does not change for i.
ListStays(i) ==
  /\ Has(page'.list, i) <=> Has(page.list, i)
  /\ page'.latest = page.latest /\ page'.ready = page.ready

\* Giving a status lets the queue stay.
LEMMA ListStaysFacts ==
  ASSUME TypeOK, NEW i, SameItems, page'.latest = page.latest, page'.ready = page.ready
  PROVE  ListStays(i)
BY SameItemsHas DEF ListStays

\* The steps that add to the queue or take from it, or change what the next save takes.
ListMoves(i) ==
  \/ Loaded \/ LoadFailed \/ Render \/ Quit \/ Crash \/ PowerLoss
  \/ \E q \in Runs: Enqueue(q)
  \/ \E q \in Runs: q = Bridge(i) /\ run[q] = "save" /\ SaveFailed(q)

\* All other steps leave the queue as it is.
LEMMA ListSteps ==
  ASSUME TypeOK, Queues, Saves, NEW i, [Next]_vars
  PROVE  ListStays(i) \/ ListMoves(i)
<1> USE DEF store, past, ListMoves
<1>0. Distinct(page.list)
  BY DEF Queues
<1>1. StoreWorks => ListStays(i)
  BY StoreFacts, ListStaysFacts DEF SameItems, Same
<1>2. Loaded => ListStays(i) \/ ListMoves(i)
  OBVIOUS
<1>3. LoadFailed => ListStays(i) \/ ListMoves(i)
  OBVIOUS
<1>4. Render => ListStays(i) \/ ListMoves(i)
  OBVIOUS
<1>5. Recover => ListStays(i)
  BY RecoverFacts, ListStaysFacts DEF SameItems, Same
<1>6. ListInbox => ListStays(i)
  BY ListInboxFacts, ListStaysFacts DEF SameItems, Same
<1>7. ReceiveListing => ListStays(i)
  BY ReceiveListingFacts, ListStaysFacts DEF SameItems, Same
<1>8. TimerFires => ListStays(i)
  BY TimerFiresFacts, ListStaysFacts DEF SameItems, Same
<1>9. ASSUME NEW r \in Requests, Accept(r) PROVE ListStays(i)
  BY <1>9, RequestFacts, ListStaysFacts DEF SameItems, Same
<1>10. ASSUME NEW r \in Requests, AcknowledgeKnown(r) PROVE ListStays(i)
  BY <1>10, RequestFacts, ListStaysFacts DEF SameItems, Same
<1>11. ASSUME NEW r \in Requests, Inspect(r) PROVE ListStays(i)
  BY <1>11, RequestFacts, ListStaysFacts DEF SameItems, Same
<1>12. ASSUME NEW r \in Requests, Acknowledge(r) PROVE ListStays(i)
  BY <1>12, AcknowledgeFacts, ListStaysFacts DEF SameItems, Same
<1>13. ASSUME NEW p \in Runs, Enqueue(p) PROVE ListStays(i) \/ ListMoves(i)
  BY <1>13
<1>14. ASSUME NEW p \in Runs, StopWaiting(p) PROVE ListStays(i)
  BY <1>14, StopWaitingFacts, ListStaysFacts DEF SameItems, Same
<1>15. ASSUME NEW p \in Runs, HostRegisters(p) PROVE ListStays(i)
  BY <1>15, HostRegistersFacts, ListStaysFacts DEF SameItems, Same
<1>16. ASSUME NEW p \in Runs, Answered(p) PROVE ListStays(i)
  BY <1>16, AnsweredFacts, ListStaysFacts DEF SameItems, Same
<1>17. ASSUME NEW p \in Runs, Refused(p) PROVE ListStays(i)
  BY <1>17, RefusedFacts, ListStaysFacts DEF SameItems, Same
<1>18. ASSUME NEW p \in Runs, Claim(p) PROVE ListStays(i)
  BY <1>18, ClaimFacts, ListStaysFacts DEF SameItems, Same
<1>19. ASSUME NEW p \in Runs, Finish(p) PROVE ListStays(i)
  BY <1>19, FinishFacts, ListStaysFacts DEF SameItems, Same
<1>20. ASSUME NEW p \in Runs, Ended(p) PROVE ListStays(i)
  BY <1>20, EndedFacts, ListStaysFacts DEF SameItems, Same
<1>21. ASSUME NEW c \in Runs \cup {Timer}, SaveAgain(c) PROVE ListStays(i)
  BY <1>21, SaveAgainFacts, ListStaysFacts DEF SameItems, Same
<1>22. ASSUME NEW c \in Runs \cup {Timer}, Saved(c) PROVE ListStays(i)
  BY <1>22, SavedFacts, ListStaysFacts DEF SameItems, Same
<1>23. ASSUME NEW c \in Runs \cup {Timer}, SaveFailed(c) PROVE ListStays(i) \/ ListMoves(i)
  <2>1. page'.latest = page.latest /\ page'.ready = page.ready
    BY <1>23, <1>0, SaveFailedFacts DEF Same
  <2>2. CASE c = Timer
    BY <1>23, <1>0, <2>1, <2>2, SaveFailedFacts, Marks DEF Same, ListStays
  <2>3. CASE c \in Runs /\ page'.list = Without(page.list, Id(c)) /\ Id(c) # i
    <3>1. page.list \in Lists
      BY PageTyped
    <3> QED
      BY <1>0, <2>1, <2>3, <3>1, WithoutFacts DEF ListStays
  <2>4. CASE c \in Runs /\ Shows(page, page', {Id(c)}, "ended")
    BY <2>1, <2>4, ListStaysFacts DEF SameItems
  <2>5. CASE c \in Runs /\ c = Bridge(Id(c)) /\ Id(c) = i
    BY <1>23, <1>0, <2>5, SaveFailedFacts DEF Saves, Saver
  <2> QED
    BY <1>23, <1>0, <2>2, <2>3, <2>4, <2>5, SaveFailedFacts
<1>24. ASSUME NEW j \in Ids, Cancel(j) PROVE ListStays(i)
  BY <1>24, CancelFacts, ListStaysFacts DEF SameItems, Same
<1>25. ASSUME NEW j \in Ids, Retry(j) PROVE ListStays(i)
  BY <1>25, GateFacts, ListStaysFacts DEF SameItems, Same
<1>26. ASSUME NEW j \in Ids, Add(j) PROVE ListStays(i)
  BY <1>26, GateFacts, ListStaysFacts DEF SameItems, Same
<1>27. RequestQuit => ListStays(i)
  BY QuitFacts, ListStaysFacts DEF SameItems, Same
<1>28. QuitSaves => ListStays(i)
  BY QuitFacts, ListStaysFacts DEF SameItems, Same
<1>29. QuitFails => ListStays(i)
  BY QuitFacts, ListStaysFacts DEF SameItems, Same
<1>30. Quit \/ Crash \/ PowerLoss => ListStays(i) \/ ListMoves(i)
  OBVIOUS
<1>31. UNCHANGED vars => ListStays(i)
  BY DEF ListStays, vars
<1> QED
  BY <1>1, <1>2, <1>3, <1>4, <1>5, <1>6, <1>7, <1>8, <1>9, <1>10, <1>11, <1>12, <1>13, <1>14,
     <1>15, <1>16, <1>17, <1>18, <1>19, <1>20, <1>21, <1>22, <1>23, <1>24, <1>25, <1>26, <1>27,
     <1>28, <1>29, <1>30, <1>31 DEF Next, Ids

\* A run whose download has been saved.
Pledged == {"asked", "answered", "refused", "recovered", "acknowledge", "calling", "running", "ended"}
\* How a run comes from one await to the next.
RunStep(p) ==
  \/ run'[p] = run[p] \/ run'[p] = "idle"
  \/ run[p] \in Pledged /\ run'[p] \in Pledged \ {"asked"}
  \/ Saved(p) /\ run[p] = "save" /\ run'[p] = "asked"
  \/ p = Own(Id(p)) /\ Id(p) \in page.recovery /\ run'[p] = "asked"
  \/ p = Own(Id(p)) /\ run'[p] = "gate"
  \/ run[p] = "inspect" /\ run'[p] = "gate"
  \/ run[p] = "gate" /\ Enqueue(p) /\ run'[p] \in {"wait", "save"}
  \/ run[p] = "wait" /\ run'[p] = "save"
  \/ \E r \in page.requests \ page.handled: p = Bridge(r) /\ Render /\ page.ready # "loading"
       /\ run'[p] = IF Has(page.latest, r) THEN "known" ELSE "inspect"

\* Every step takes each run along one of these ways.
LEMMA RunSteps ==
  ASSUME TypeOK, Queues, Saves, NEW q \in Runs, [Next]_vars
  PROVE  RunStep(q)
<1> USE DEF store
<1>0. Distinct(page.list)
  BY DEF Queues
<1>1. CASE StoreWorks
  BY <1>1, StoreFacts DEF RunStep
<1>2. CASE Loaded
  BY <1>2, LoadedFacts DEF RunStep
<1>3. CASE LoadFailed
  BY <1>3, LoadFailedFacts DEF RunStep
<1>4. CASE Render
  <2>1. CASE run' = run
    BY <2>1 DEF RunStep
  <2>2. CASE run' # run
    <3>1. PICK r \in page.requests \ page.handled: /\ Goes(Bridge(r), IF Has(page.latest, r) THEN "known" ELSE "inspect")
                                                   /\ page.ready # "loading"
      BY <1>4, <2>2, RenderFacts
    <3>2. CASE q = Bridge(r)
      BY <1>4, <3>1, <3>2 DEF RunStep, Goes
    <3>3. CASE q # Bridge(r)
      BY <3>1, <3>3 DEF RunStep, Goes
    <3> QED
      BY <3>2, <3>3
  <2> QED
    BY <2>1, <2>2
<1>5. CASE Recover
  <2>1. CASE page.recovery # {}
    <3>1. PICK f \in page.recovery: Goes(Own(f), "idle") \/ Goes(Own(f), "asked")
      BY <1>5, <2>1, RecoverFacts
    <3>2. f \in Ids
      BY <3>1, PageFields DEF FieldsTyped
    <3> QED
      BY <3>1, <3>2, RunShapes DEF RunStep, Goes
  <2>2. CASE page.recovery = {}
    <3>1. \A p \in Runs: run'[p] = IF run[p] = "recovered" THEN "calling" ELSE run[p]
      BY <1>5, <2>2, RecoverFacts
    <3> QED
      BY <3>1 DEF RunStep, Pledged
  <2> QED
    BY <2>1, <2>2
<1>6. CASE ListInbox
  BY <1>6, ListInboxFacts DEF RunStep
<1>7. CASE ReceiveListing
  BY <1>7, ReceiveListingFacts DEF RunStep
<1>8. CASE TimerFires
  BY <1>8, TimerFiresFacts DEF RunStep
<1>9. ASSUME NEW r \in Requests, Accept(r) PROVE RunStep(q)
  BY <1>9, RequestFacts DEF RunStep
<1>10. ASSUME NEW r \in Requests, AcknowledgeKnown(r) PROVE RunStep(q)
  BY <1>10, RequestFacts, RunShapes DEF RunStep, Goes
<1>11. ASSUME NEW r \in Requests, Inspect(r) PROVE RunStep(q)
  BY <1>11, RequestFacts, RunShapes DEF RunStep, Goes
<1>12. ASSUME NEW r \in Requests, Acknowledge(r) PROVE RunStep(q)
  BY <1>12, AcknowledgeFacts, RunShapes DEF RunStep, Goes, Pledged
<1>13. ASSUME NEW p \in Runs, Enqueue(p) PROVE RunStep(q)
  BY <1>13, EnqueueFacts DEF RunStep, Goes
<1>14. ASSUME NEW p \in Runs, StopWaiting(p) PROVE RunStep(q)
  BY <1>14, StopWaitingFacts DEF RunStep, Goes
<1>15. ASSUME NEW p \in Runs, HostRegisters(p) PROVE RunStep(q)
  BY <1>15, HostRegistersFacts DEF RunStep, Goes, Pledged
<1>16. ASSUME NEW p \in Runs, Answered(p) PROVE RunStep(q)
  BY <1>16, AnsweredFacts DEF RunStep, Goes, Pledged, Registered
<1>17. ASSUME NEW p \in Runs, Refused(p) PROVE RunStep(q)
  BY <1>17, RefusedFacts DEF RunStep, Goes, Pledged
<1>18. ASSUME NEW p \in Runs, Claim(p) PROVE RunStep(q)
  BY <1>18, ClaimFacts DEF RunStep, Goes, Pledged
<1>19. ASSUME NEW p \in Runs, Finish(p) PROVE RunStep(q)
  BY <1>19, FinishFacts DEF RunStep, Goes, Pledged
<1>20. ASSUME NEW p \in Runs, Ended(p) PROVE RunStep(q)
  BY <1>20, EndedFacts DEF RunStep, Goes, Pledged
<1>21. ASSUME NEW c \in Runs \cup {Timer}, SaveAgain(c) PROVE RunStep(q)
  BY <1>21, SaveAgainFacts DEF RunStep
<1>22. ASSUME NEW c \in Runs \cup {Timer}, Saved(c) PROVE RunStep(q)
  <2>1. CASE c = Timer
    BY <1>22, <1>0, <2>1, SavedFacts, Marks DEF RunStep
  <2>2. CASE c \in Runs
    <3>1. run[c] = "save" /\ c # Timer
      BY <1>22, <1>0, <2>2, SavedFacts, Marks DEF Saves, Saver
    <3>2. Goes(c, "idle") \/ Goes(c, "asked")
      BY <1>22, <1>0, <2>2, <3>1, SavedFacts
    <3>3. CASE q = c
      BY <1>22, <1>0, <2>2, <3>1, <3>2, <3>3, SavedFacts DEF RunStep, Goes
    <3>4. CASE q # c
      BY <3>2, <3>4 DEF RunStep, Goes
    <3> QED
      BY <3>3, <3>4
  <2> QED
    BY <2>1, <2>2
<1>23. ASSUME NEW c \in Runs \cup {Timer}, SaveFailed(c) PROVE RunStep(q)
  <2>1. CASE c = Timer
    BY <1>23, <1>0, <2>1, SaveFailedFacts, Marks DEF RunStep
  <2>2. CASE c \in Runs
    <3>1. run[c] = "save" /\ c # Timer
      BY <1>23, <1>0, <2>2, SaveFailedFacts, Marks DEF Saves, Saver
    <3>2. Goes(c, "idle")
      BY <1>23, <1>0, <2>2, <3>1, SaveFailedFacts
    <3>3. CASE q = c
      BY <1>23, <1>0, <2>2, <3>1, <3>2, <3>3, SaveFailedFacts DEF RunStep, Goes
    <3>4. CASE q # c
      BY <3>2, <3>4 DEF RunStep, Goes
    <3> QED
      BY <3>3, <3>4
  <2> QED
    BY <2>1, <2>2
<1>24. ASSUME NEW i \in Ids, Cancel(i) PROVE RunStep(q)
  BY <1>24, CancelFacts DEF RunStep
<1>25. ASSUME NEW i \in Ids, Retry(i) PROVE RunStep(q)
  BY <1>25, GateFacts, RunShapes DEF RunStep, Goes
<1>26. ASSUME NEW i \in Ids, Add(i) PROVE RunStep(q)
  BY <1>26, GateFacts, RunShapes DEF RunStep, Goes
<1>27. CASE RequestQuit
  BY <1>27, QuitFacts DEF RunStep
<1>28. CASE QuitSaves
  BY <1>28, QuitFacts DEF RunStep
<1>29. CASE QuitFails
  BY <1>29, QuitFacts DEF RunStep
<1>30. CASE Quit \/ Crash \/ PowerLoss
  BY <1>30, SessionFacts DEF RunStep
<1>31. CASE UNCHANGED vars
  BY <1>31 DEF RunStep, vars
<1> QED
  BY <1>1, <1>2, <1>3, <1>4, <1>5, <1>6, <1>7, <1>8, <1>9, <1>10, <1>11, <1>12, <1>13, <1>14,
     <1>15, <1>16, <1>17, <1>18, <1>19, <1>20, <1>21, <1>22, <1>23, <1>24, <1>25, <1>26, <1>27,
     <1>28, <1>29, <1>30, <1>31 DEF Next, Ids

\* i is in every file that may be found, and in every call that may write one.
OnDisk(i) ==
  /\ \A v \in possible: Has(v, i)
  /\ \A c \in Calls: call[c].pc \in {"saving", "replaced", "loaded"} => Has(call[c].value, i)
\* i is in the queue of the page.
OnScreen(i) ==
  /\ page.ready # "loading" => Has(page.list, i)
  /\ page.ready = "ready" => Has(page.latest, i)
Kept(i) == OnDisk(i) /\ OnScreen(i)

\* Somebody counts on i being in the queue.
Debt(i) ==
  \/ ticket[i] # "none" \/ i \in page.recovery
  \/ i \in Requests /\ (handed[i] # 0 \/ i \in given \ inbox)
\* A run of i counts on its being saved.
Promised(i) ==
  \/ \E p \in Runs: Id(p) = i /\ run[p] \in Pledged
  \/ i \in Requests /\ run[Bridge(i)] = "known"
\* The request i would be taken for one that is in the queue.
Noticed(i) == i \in Requests /\ i \notin page.handled /\ (Has(page.list, i) \/ Has(page.latest, i))
\* Somebody counts on i.
Owed(i) == Debt(i) \/ Promised(i) \/ Noticed(i)

\* No new debt without one of these.
LEMMA DebtFrame ==
  ASSUME NEW i, Debt(i)', ticket'[i] # "none" => ticket[i] # "none", i \in page'.recovery => i \in page.recovery,
         i \in Requests => handed'[i] = handed[i], given' = given, i \in inbox => i \in inbox'
  PROVE  Debt(i)
BY DEF Debt

\* Nobody comes to count on a download but who has kept it, or loads it.
LEMMA DebtSteps ==
  ASSUME TypeOK, Queues, NEW i \in Ids, Debt(i)', [Next]_vars
  PROVE  Owed(i) \/ (Loaded /\ Has(page'.list, i))
<1> USE DEF host, past, bridge, store
<1>0. Debt(i)' /\ i \in Ids /\ Distinct(page.list)
  BY DEF Queues
<1>1. CASE StoreWorks
  BY <1>1, StoreFacts, DebtFrame, <1>0 DEF Owed
<1>2. CASE Loaded
  <2>1. i \in page'.recovery => Has(page'.list, i)
    BY <1>2, LoadedFacts
  <2> QED
    BY <1>2, <1>0, <2>1, LoadedFacts DEF Owed, Debt
<1>3. CASE LoadFailed
  BY <1>3, LoadFailedFacts, DebtFrame, <1>0 DEF Owed, Same
<1>4. CASE Render
  BY <1>4, RenderFacts, DebtFrame, <1>0 DEF Owed, Same
<1>5. CASE Recover
  <2>1. page'.recovery \subseteq page.recovery
    BY <1>5, RecoverFacts DEF Same
  <2> QED
    BY <1>5, <1>0, <2>1, RecoverFacts, DebtFrame DEF Owed
<1>6. CASE ListInbox
  BY <1>6, ListInboxFacts, DebtFrame, <1>0 DEF Owed, Same
<1>7. CASE ReceiveListing
  BY <1>7, ReceiveListingFacts, DebtFrame, <1>0 DEF Owed, Same
<1>8. CASE TimerFires
  BY <1>8, TimerFiresFacts, DebtFrame, <1>0 DEF Owed, Same
<1>9. ASSUME NEW r \in Requests, Accept(r) PROVE Owed(i) \/ (Loaded /\ Has(page'.list, i))
  BY <1>9, <1>0, RequestFacts DEF Owed, Debt
<1>10. ASSUME NEW r \in Requests, AcknowledgeKnown(r) PROVE Owed(i) \/ (Loaded /\ Has(page'.list, i))
  <2>1. CASE r = i
    BY <1>10, <2>1, RequestFacts DEF Owed, Promised
  <2>2. CASE r # i
    <3>1. i \in inbox => i \in inbox'
      BY <1>10, <2>2, RequestFacts DEF Remove
    <3>2. given' = given
      BY <1>10, RequestFacts DEF Remove
    <3> QED
      BY <1>10, <1>0, <3>1, <3>2, RequestFacts, DebtFrame DEF Owed
  <2> QED
    BY <2>1, <2>2
<1>11. ASSUME NEW r \in Requests, Inspect(r) PROVE Owed(i) \/ (Loaded /\ Has(page'.list, i))
  BY <1>11, RequestFacts, DebtFrame, <1>0 DEF Owed, Same
<1>12. ASSUME NEW r \in Requests, Acknowledge(r) PROVE Owed(i) \/ (Loaded /\ Has(page'.list, i))
  <2>1. CASE r = i
    BY <1>12, <2>1, AcknowledgeFacts, RunShapes DEF Owed, Promised, Pledged
  <2>2. CASE r # i
    <3>1. i \in inbox => i \in inbox'
      BY <1>12, <2>2, AcknowledgeFacts DEF Remove
    <3>2. given' = given /\ page'.recovery = page.recovery
      BY <1>12, AcknowledgeFacts DEF Remove, Same
    <3> QED
      BY <1>12, <1>0, <3>1, <3>2, AcknowledgeFacts, DebtFrame DEF Owed
  <2> QED
    BY <2>1, <2>2
<1>13. ASSUME NEW p \in Runs, Enqueue(p) PROVE Owed(i) \/ (Loaded /\ Has(page'.list, i))
  BY <1>13, EnqueueFacts, DebtFrame, <1>0 DEF Owed, Same
<1>14. ASSUME NEW p \in Runs, StopWaiting(p) PROVE Owed(i) \/ (Loaded /\ Has(page'.list, i))
  BY <1>14, StopWaitingFacts, DebtFrame, <1>0 DEF Owed, Same
<1>15. ASSUME NEW p \in Runs, HostRegisters(p) PROVE Owed(i) \/ (Loaded /\ Has(page'.list, i))
  <2>1. CASE Id(p) = i
    <3>1. run[p] \in Pledged \/ ticket'[i] = "none"
      BY <1>15, <2>1, HostRegistersFacts DEF Pledged
    <3> QED
      BY <1>15, <2>1, <3>1, HostRegistersFacts DEF Owed, Promised, Pledged
  <2>2. CASE Id(p) # i
    <3>1. ticket'[i] = ticket[i] /\ (i \in Requests => handed'[i] = handed[i])
      <4>1. ticket'[i] = ticket[i]
        BY <1>15, <1>0, <2>2, HostRegistersFacts DEF TicketIs
      <4>2. i \in Requests => handed'[i] = handed[i]
        BY <1>15, <1>0, <2>2, HostRegistersFacts, RunShapes
      <4> QED
        BY <4>1, <4>2
    <3>2. page'.recovery = page.recovery
      BY <1>15, HostRegistersFacts DEF TicketIs
    <3> QED
      BY <1>15, <1>0, <3>1, <3>2, HostRegistersFacts, DebtFrame DEF Owed
  <2> QED
    BY <2>1, <2>2
<1>16. ASSUME NEW p \in Runs, Answered(p) PROVE Owed(i) \/ (Loaded /\ Has(page'.list, i))
  <2>1. CASE Id(p) = i
    <3>1. run[p] \in Pledged \/ ticket'[i] = "none"
      BY <1>16, <2>1, AnsweredFacts DEF Pledged
    <3> QED
      BY <1>16, <2>1, <3>1, AnsweredFacts DEF Owed, Promised, Pledged
  <2>2. CASE Id(p) # i
    <3>1. ticket'[i] = ticket[i] /\ (i \in Requests => handed'[i] = handed[i])
      <4>1. ticket'[i] = ticket[i]
        BY <1>16, <1>0, <2>2, AnsweredFacts DEF Discards, Same
      <4>2. i \in Requests => handed'[i] = handed[i]
        BY <1>16, <1>0, <2>2, AnsweredFacts, RunShapes
      <4> QED
        BY <4>1, <4>2
    <3>2. page'.recovery = page.recovery
      BY <1>16, AnsweredFacts DEF Discards, Same
    <3> QED
      BY <1>16, <1>0, <3>1, <3>2, AnsweredFacts, DebtFrame DEF Owed
  <2> QED
    BY <2>1, <2>2
<1>17. ASSUME NEW p \in Runs, Refused(p) PROVE Owed(i) \/ (Loaded /\ Has(page'.list, i))
  <2>1. CASE Id(p) = i
    <3>1. run[p] \in Pledged \/ ticket'[i] = "none"
      BY <1>17, <2>1, RefusedFacts DEF Pledged
    <3> QED
      BY <1>17, <2>1, <3>1, RefusedFacts DEF Owed, Promised, Pledged
  <2>2. CASE Id(p) # i
    <3>1. ticket'[i] = ticket[i] /\ (i \in Requests => handed'[i] = handed[i])
      <4>1. ticket'[i] = ticket[i]
        BY <1>17, <1>0, <2>2, RefusedFacts DEF Discards, Same
      <4>2. i \in Requests => handed'[i] = handed[i]
        BY <1>17, <1>0, <2>2, RefusedFacts, RunShapes
      <4> QED
        BY <4>1, <4>2
    <3>2. page'.recovery = page.recovery
      BY <1>17, RefusedFacts DEF Discards, Same
    <3> QED
      BY <1>17, <1>0, <3>1, <3>2, RefusedFacts, DebtFrame DEF Owed
  <2> QED
    BY <2>1, <2>2
<1>18. ASSUME NEW p \in Runs, Claim(p) PROVE Owed(i) \/ (Loaded /\ Has(page'.list, i))
  <2>1. CASE Id(p) = i
    <3>1. run[p] \in Pledged \/ ticket'[i] = "none"
      BY <1>18, <2>1, ClaimFacts DEF Pledged
    <3> QED
      BY <1>18, <2>1, <3>1, ClaimFacts DEF Owed, Promised, Pledged
  <2>2. CASE Id(p) # i
    <3>1. ticket'[i] = ticket[i] /\ (i \in Requests => handed'[i] = handed[i])
      <4>1. ticket'[i] = ticket[i]
        BY <1>18, <1>0, <2>2, ClaimFacts DEF TicketIs, Same
      <4>2. i \in Requests => handed'[i] = handed[i]
        BY <1>18, <1>0, <2>2, ClaimFacts, RunShapes
      <4> QED
        BY <4>1, <4>2
    <3>2. page'.recovery = page.recovery
      BY <1>18, ClaimFacts DEF TicketIs, Same
    <3> QED
      BY <1>18, <1>0, <3>1, <3>2, ClaimFacts, DebtFrame DEF Owed
  <2> QED
    BY <2>1, <2>2
<1>19. ASSUME NEW p \in Runs, Finish(p) PROVE Owed(i) \/ (Loaded /\ Has(page'.list, i))
  <2>1. CASE Id(p) = i
    <3>1. run[p] \in Pledged \/ ticket'[i] = "none"
      BY <1>19, <2>1, FinishFacts DEF Pledged
    <3> QED
      BY <1>19, <2>1, <3>1, FinishFacts DEF Owed, Promised, Pledged
  <2>2. CASE Id(p) # i
    <3>1. ticket'[i] = ticket[i] /\ (i \in Requests => handed'[i] = handed[i])
      <4>1. ticket'[i] = ticket[i]
        BY <1>19, <1>0, <2>2, FinishFacts DEF TicketIs
      <4>2. i \in Requests => handed'[i] = handed[i]
        BY <1>19, <1>0, <2>2, FinishFacts, RunShapes
      <4> QED
        BY <4>1, <4>2
    <3>2. page'.recovery = page.recovery
      BY <1>19, FinishFacts DEF TicketIs
    <3> QED
      BY <1>19, <1>0, <3>1, <3>2, FinishFacts, DebtFrame DEF Owed
  <2> QED
    BY <2>1, <2>2
<1>20. ASSUME NEW p \in Runs, Ended(p) PROVE Owed(i) \/ (Loaded /\ Has(page'.list, i))
  <2>1. CASE Id(p) = i
    <3>1. run[p] \in Pledged \/ ticket'[i] = "none"
      BY <1>20, <2>1, EndedFacts DEF Pledged
    <3> QED
      BY <1>20, <2>1, <3>1, EndedFacts DEF Owed, Promised, Pledged
  <2>2. CASE Id(p) # i
    <3>1. ticket'[i] = ticket[i] /\ (i \in Requests => handed'[i] = handed[i])
      <4>1. ticket'[i] = ticket[i]
        BY <1>20, <1>0, <2>2, EndedFacts DEF Discards, Same
      <4>2. i \in Requests => handed'[i] = handed[i]
        BY <1>20, <1>0, <2>2, EndedFacts, RunShapes
      <4> QED
        BY <4>1, <4>2
    <3>2. page'.recovery = page.recovery
      BY <1>20, EndedFacts DEF Discards, Same
    <3> QED
      BY <1>20, <1>0, <3>1, <3>2, EndedFacts, DebtFrame DEF Owed
  <2> QED
    BY <2>1, <2>2
<1>21. ASSUME NEW c \in Runs \cup {Timer}, SaveAgain(c) PROVE Owed(i) \/ (Loaded /\ Has(page'.list, i))
  BY <1>21, SaveAgainFacts, DebtFrame, <1>0 DEF Owed, Same
<1>22. ASSUME NEW c \in Runs \cup {Timer}, Saved(c) PROVE Owed(i) \/ (Loaded /\ Has(page'.list, i))
  <2>1. page'.recovery = page.recovery
    BY <1>22, <1>0, SavedFacts DEF Same
  <2> QED
    BY <1>22, <1>0, <2>1, SavedFacts, DebtFrame DEF Owed
<1>23. ASSUME NEW c \in Runs \cup {Timer}, SaveFailed(c) PROVE Owed(i) \/ (Loaded /\ Has(page'.list, i))
  <2>1. page'.recovery = page.recovery
    BY <1>23, <1>0, SaveFailedFacts DEF Same
  <2> QED
    BY <1>23, <1>0, <2>1, SaveFailedFacts, DebtFrame DEF Owed
<1>24. ASSUME NEW j \in Ids, Cancel(j) PROVE Owed(i) \/ (Loaded /\ Has(page'.list, i))
  <2>1. page'.recovery = page.recovery /\ ticket' = ticket
    BY <1>24, CancelFacts DEF Same
  <2> QED
    BY <1>24, <1>0, <2>1, CancelFacts, DebtFrame DEF Owed
<1>25. ASSUME NEW j \in Ids, Retry(j) PROVE Owed(i) \/ (Loaded /\ Has(page'.list, i))
  BY <1>25, GateFacts, DebtFrame, <1>0 DEF Owed, Same
<1>26. ASSUME NEW j \in Ids, Add(j) PROVE Owed(i) \/ (Loaded /\ Has(page'.list, i))
  BY <1>26, GateFacts, DebtFrame, <1>0 DEF Owed, Same
<1>27. CASE RequestQuit
  BY <1>27, QuitFacts, DebtFrame, <1>0 DEF Owed, Same
<1>28. CASE QuitSaves
  BY <1>28, QuitFacts, DebtFrame, <1>0 DEF Owed, Same
<1>29. CASE QuitFails
  BY <1>29, QuitFacts, DebtFrame, <1>0 DEF Owed, Same
<1>30. CASE Quit \/ Crash \/ PowerLoss
  <2>1. page'.recovery = {} /\ ticket'[i] = "none"
    BY <1>30, <1>0, SessionFacts, NewPageFacts
  <2> QED
    BY <1>30, <1>0, <2>1, SessionFacts, DebtFrame DEF Owed
<1>31. CASE UNCHANGED vars
  BY <1>31, <1>0, DebtFrame DEF vars, Owed
<1> QED
  BY <1>1, <1>2, <1>3, <1>4, <1>5, <1>6, <1>7, <1>8, <1>9, <1>10, <1>11, <1>12, <1>13, <1>14,
     <1>15, <1>16, <1>17, <1>18, <1>19, <1>20, <1>21, <1>22, <1>23, <1>24, <1>25, <1>26, <1>27,
     <1>28, <1>29, <1>30, <1>31 DEF Next, Ids

\* A download that is kept stays on the screen, unless its request's own save fails.
LEMMA OnScreenKept ==
  ASSUME TypeOK, Queues, Saves, Showing, NEW i \in Ids, Kept(i), ~forfeited',
         i \in Requests => run[Bridge(i)] # "save", [Next]_vars
  PROVE  OnScreen(i)'
<1>0. OnScreen(i) /\ OnDisk(i) /\ page.list \in Lists /\ page.latest \in Lists
  BY PageTyped DEF Kept
<1>1. CASE ListStays(i)
  BY <1>0, <1>1 DEF ListStays, OnScreen
<1>2. CASE Loaded
  <2>1. call[Load].pc = "loaded" /\ page'.ready = "loaded" /\ page'.list = call[Load].value
    BY <1>2, LoadedFacts
  <2> QED
    BY <1>0, <2>1, CallMarks DEF OnDisk, OnScreen
<1>3. CASE LoadFailed
  BY <1>3, LoadFailedFacts
<1>4. CASE Render
  <2>1. /\ page'.list = page.list /\ page'.ready = IF page.ready = "loaded" THEN "ready" ELSE page.ready
        /\ "list" \in page.changed => page'.latest = page.list
        /\ "list" \notin page.changed => page'.latest = page.latest
        /\ forfeited' = forfeited
    BY <1>4, RenderFacts DEF Same, past
  <2> QED
    BY <1>0, <2>1 DEF OnScreen, Showing
<1>5. CASE \E p \in Runs: Enqueue(p)
  <2>1. PICK p \in Runs: Enqueue(p)
    BY <1>5
  <2>2. /\ QueuedItem(Id(p)) \in Items /\ page'.latest = WithItem(page.latest, QueuedItem(Id(p)))
        /\ page'.list \in {page.list, WithItem(page.list, QueuedItem(Id(p)))}
    BY <2>1, EnqueueFacts
  <2>3. page'.ready = page.ready
    BY <2>1, EnqueueFacts DEF Same
  <2>4. \A l \in Lists: Has(l, i) => Has(WithItem(l, QueuedItem(Id(p))), i)
    BY <2>2, WithItemFacts
  <2> QED
    BY <1>0, <2>2, <2>3, <2>4 DEF OnScreen
<1>6. CASE \E c \in Runs: c = Bridge(i) /\ run[c] = "save" /\ SaveFailed(c)
  BY <1>6, RunShapes, Marks DEF Runs, Bridge, Ids
<1>7. CASE Quit \/ Crash \/ PowerLoss
  <2>1. page'.ready = "loading"
    BY <1>7, SessionFacts, NewPageFacts
  <2> QED
    BY <2>1 DEF OnScreen
<1> QED
  BY <1>1, <1>2, <1>3, <1>4, <1>5, <1>6, <1>7, ListSteps DEF ListMoves

\* And it stays in the file, in every save that is under way and in all that a power
\* loss may bring back.
LEMMA OnDiskKept ==
  ASSUME TypeOK, Queues, Mounting, Saves, NEW i \in Ids, Kept(i), ~forfeited', OnScreen(i)', [Next]_vars
  PROVE  OnDisk(i)'
<1>0. OnScreen(i) /\ OnDisk(i) /\ value \in possible
  BY DEF Kept, Saves, Writing
<1>1. CASE StoreWorks
  <2>1. Has(value, i) /\ value \in Lists
    BY <1>0 DEF OnDisk, TypeOK
  <2>2. Has(Reopened(value), i)
    BY <2>1, ReopenedFacts
  <2> QED
    BY <1>0, <1>1, <2>1, <2>2, StoreFacts DEF OnDisk, CallIs
<1>2. CASE SavesNothing
  BY <1>0, <1>2 DEF SavesNothing, OnDisk
<1>3. CASE LoadEnds
  BY <1>0, <1>3, CallMarks DEF LoadEnds, OnDisk, CallIs
<1>4. ASSUME NEW c \in Runs \cup {Timer}, SaveStarts(c) PROVE OnDisk(i)'
  <2>1. page'.ready = "ready"
    <3>1. Opening' /\ page'.saver = c /\ c # Nobody
      BY <1>4, OpeningKept, CallMarks DEF SaveStarts
    <3> QED
      BY <3>1 DEF Opening
  <2>2. Has(page'.latest, i)
    BY <2>1 DEF OnScreen
  <2> QED
    BY <1>0, <1>4, <2>2, CallMarks DEF SaveStarts, OnDisk, CallIs
<1>5. ASSUME NEW c \in Runs \cup {Timer}, SaveEnds(c) PROVE OnDisk(i)'
  BY <1>0, <1>5, CallMarks DEF SaveEnds, OnDisk, CallIs
<1>6. CASE QuitAsks
  <2>1. page.ready = "ready"
    BY <1>6 DEF QuitAsks
  <2> QED
    BY <1>0, <1>6, <2>1, CallMarks DEF QuitAsks, OnDisk, OnScreen, CallIs
<1>7. CASE QuitGivesUp
  BY <1>0, <1>7, CallMarks DEF QuitGivesUp, OnDisk, CallIs
<1>8. CASE Quit \/ Crash \/ PowerLoss
  <2>1. \A c \in Calls: call'[c].pc = IF c = Load THEN "loading" ELSE "idle"
    BY <1>8, SessionFacts
  <2>2. possible' \subseteq possible
    BY <1>0, <1>8, SessionFacts
  <2> QED
    BY <1>0, <2>1, <2>2 DEF OnDisk
<1> QED
  BY <1>1, <1>2, <1>3, <1>4, <1>5, <1>6, <1>7, <1>8, SaveSteps DEF Saves

\* What is forfeited stays so.
LEMMA ForfeitedStays ==
  ASSUME TypeOK, Queues, Mounting, Saves, [Next]_vars, forfeited
  PROVE  forfeited'
BY SaveSteps, StoreFacts, SessionFacts DEF Saves, SavesNothing, LoadEnds, SaveStarts, SaveEnds,
   QuitAsks, QuitGivesUp, past

\* The save that a run of i waits for has i.
SavedOf(i) == \A p \in Runs: Id(p) = i =>
  /\ run[p] \in {"wait", "save"} => Has(page.list, i) /\ Has(page.latest, i)
  /\ call[p].pc \in {"saving", "replaced", "ok"} => Has(call[p].value, i)
\* Its run is registered once.
OnceOf(i) == i \in Requests =>
  /\ run[Bridge(i)] \in {"inspect", "gate", "wait", "save", "asked"} => handed[i] = 0
  /\ handed[i] <= 1
\* What somebody counts on is kept.
SafeOf(i) == ~forfeited => (Owed(i) => Kept(i)) /\ SavedOf(i) /\ OnceOf(i)
Safe == \A i \in Ids: SafeOf(i)

\* While a request's first save is under way nobody counts on its download: taking it
\* back out of the queue forgets nothing.
LEMMA SavingOwesNothing ==
  ASSUME TypeOK, Mounting, Alone, Cancels, Pending, NEW i \in Requests, OnceOf(i), run[Bridge(i)] = "save"
  PROVE  ~Owed(i)
<1>1. i \in Ids /\ Bridge(i) \in Runs /\ Id(Bridge(i)) = i
  BY RunShapes
<1>2. Rests(Bridge(i)) /\ i \notin page.recovery
  BY <1>1, OthersRest
<1>3. \A p \in Runs: Id(p) = i => run[p] \in {"idle", "known", "save"}
  BY <1>1, <1>2 DEF Rests
<1>4. CancelsOf(i) /\ PendingOf(i) /\ ticket[i] \in {"none", "registered", "started"}
  BY <1>1 DEF Cancels, Pending, TypeOK
<1>5. ~Promised(i)
  BY <1>3 DEF Promised, Pledged
<1>6. ticket[i] = "none"
  BY <1>3, <1>4 DEF CancelsOf, Claimable
<1> QED
  BY <1>2, <1>4, <1>5, <1>6 DEF Owed, Debt, Noticed, PendingOf, OnceOf

\* What is loaded is on disk, and shown.
LEMMA LoadedIsKept ==
  ASSUME TypeOK, Mounting, Saves, Loaded, ~forfeited, NEW i \in Ids, Has(page'.list, i)
  PROVE  Kept(i)'
<1>1. /\ call[Load].pc = "loaded" /\ CallIs(Load, "idle", << >>) /\ page'.ready = "loaded"
      /\ page'.list = call[Load].value /\ UNCHANGED <<value, possible>>
  BY LoadedFacts
<1>2. page.ready = "loading" /\ page.saver = Nobody
  BY <1>1 DEF Mounting, Loading, Opening
<1>3. possible = {value} /\ Has(value, i) /\ call[Quitting].pc = "idle"
  BY <1>1, <1>2 DEF Saves, Settled
<1>4. \A c \in Calls: call'[c].pc = "idle"
  BY <1>1, <1>2, <1>3, CallMarks DEF Saves, Saver, CallIs
<1> QED
  BY <1>1, <1>3, <1>4 DEF Kept, OnDisk, OnScreen

\* A save that has been answered has put on disk what it was asked to.
LEMMA SavedIsKept ==
  ASSUME TypeOK, Mounting, Saves, ~forfeited, NEW p \in Runs, Saved(p), run[p] = "save", SavedOf(Id(p))
  PROVE  Kept(Id(p))'
<1> DEFINE i == Id(p)
<1>1. /\ page.saver = p /\ call[p].pc = "ok" /\ CallIs(p, "idle", << >>) /\ UNCHANGED <<value, possible>>
  BY SavedFacts
<1>2. Has(page.list, i) /\ Has(page.latest, i) /\ Has(call[p].value, i)
  BY <1>1 DEF SavedOf
<1>3. p \in Calls /\ p # Nobody /\ p # Timer /\ p # Load /\ p # Quitting
  BY CallMarks
<1>4. possible = {value} /\ value = call[p].value /\ page.quit # "save"
  BY <1>1, <1>3 DEF Saves, Settled
<1>5. call[Load].pc = "idle" /\ page.ready # "loading"
  BY <1>1, <1>3 DEF Mounting, Opening, Loading
<1>6. \A c \in Calls: call'[c].pc = "idle"
  BY <1>1, <1>3, <1>4, <1>5 DEF Saves, Saver, CallIs
<1>7. SameItems /\ page'.latest = page.latest /\ page'.ready = page.ready
  BY <1>3, SavedFacts DEF SameItems, Same
<1>8. Has(page'.list, i) /\ Has(page'.latest, i)
  BY <1>2, <1>7, SameItemsHas
<1>9. OnDisk(i)'
  BY <1>1, <1>2, <1>4, <1>6 DEF OnDisk
<1> QED
  BY <1>8, <1>9 DEF Kept, OnScreen

\* The page forgets no request it has handled while the session lasts.
LEMMA HandledGrows ==
  ASSUME TypeOK, Queues, [Next]_vars
  PROVE  page.handled \subseteq page'.handled
         \/ Quit \/ Crash \/ PowerLoss
<1>1. CASE StoreWorks
  BY <1>1, StoreFacts
<1>2. CASE Loaded
  BY <1>2, LoadedFacts DEF Same
<1>3. CASE LoadFailed
  BY <1>3, LoadFailedFacts DEF Same
<1>4. CASE Render
  BY <1>4, RenderFacts DEF Same
<1>5. CASE Recover
  BY <1>5, RecoverFacts DEF Same
<1>6. CASE ListInbox
  BY <1>6, ListInboxFacts DEF Same
<1>7. CASE ReceiveListing
  BY <1>7, ReceiveListingFacts DEF Same
<1>8. CASE TimerFires
  BY <1>8, TimerFiresFacts DEF Same
<1>9. ASSUME NEW r \in Requests, Accept(r) PROVE page.handled \subseteq page'.handled
  BY <1>9, RequestFacts
<1>10. ASSUME NEW r \in Requests, AcknowledgeKnown(r) PROVE page.handled \subseteq page'.handled
  BY <1>10, RequestFacts
<1>11. ASSUME NEW r \in Requests, Inspect(r) PROVE page.handled \subseteq page'.handled
  BY <1>11, RequestFacts
<1>12. ASSUME NEW r \in Requests, Acknowledge(r) PROVE page.handled \subseteq page'.handled
  BY <1>12, AcknowledgeFacts DEF Same
<1>13. ASSUME NEW p \in Runs, Enqueue(p) PROVE page.handled \subseteq page'.handled
  BY <1>13, EnqueueFacts DEF Same
<1>14. ASSUME NEW p \in Runs, StopWaiting(p) PROVE page.handled \subseteq page'.handled
  BY <1>14, StopWaitingFacts DEF Same
<1>15. ASSUME NEW p \in Runs, HostRegisters(p) PROVE page.handled \subseteq page'.handled
  BY <1>15, HostRegistersFacts
<1>16. ASSUME NEW p \in Runs, Answered(p) PROVE page.handled \subseteq page'.handled
  BY <1>16, AnsweredFacts DEF Same
<1>17. ASSUME NEW p \in Runs, Refused(p) PROVE page.handled \subseteq page'.handled
  BY <1>17, RefusedFacts DEF Same
<1>18. ASSUME NEW p \in Runs, Claim(p) PROVE page.handled \subseteq page'.handled
  BY <1>18, ClaimFacts DEF Same
<1>19. ASSUME NEW p \in Runs, Finish(p) PROVE page.handled \subseteq page'.handled
  BY <1>19, FinishFacts
<1>20. ASSUME NEW p \in Runs, Ended(p) PROVE page.handled \subseteq page'.handled
  BY <1>20, EndedFacts DEF Same
<1>21. ASSUME NEW c \in Runs \cup {Timer}, SaveAgain(c) PROVE page.handled \subseteq page'.handled
  BY <1>21, SaveAgainFacts DEF Same
<1>22. ASSUME NEW c \in Runs \cup {Timer}, Saved(c) PROVE page.handled \subseteq page'.handled
  BY <1>22, SavedFacts DEF Same
<1>23. ASSUME NEW c \in Runs \cup {Timer}, SaveFailed(c) PROVE page.handled \subseteq page'.handled
  BY <1>23, SaveFailedFacts DEF Same, Queues
<1>24. ASSUME NEW i \in Ids, Cancel(i) PROVE page.handled \subseteq page'.handled
  BY <1>24, CancelFacts DEF Same
<1>25. ASSUME NEW i \in Ids, Retry(i) PROVE page.handled \subseteq page'.handled
  BY <1>25, GateFacts
<1>26. ASSUME NEW i \in Ids, Add(i) PROVE page.handled \subseteq page'.handled
  BY <1>26, GateFacts
<1>27. CASE RequestQuit
  BY <1>27, QuitFacts DEF Same
<1>28. CASE QuitSaves
  BY <1>28, QuitFacts DEF Same
<1>29. CASE QuitFails
  BY <1>29, QuitFacts DEF Same
<1>30. Quit \/ Crash \/ PowerLoss => page.handled \subseteq page'.handled \/ Quit \/ Crash \/ PowerLoss
  OBVIOUS
<1>31. CASE UNCHANGED vars
  BY <1>31 DEF vars
<1> QED
  BY <1>1, <1>2, <1>3, <1>4, <1>5, <1>6, <1>7, <1>8, <1>9, <1>10, <1>11, <1>12, <1>13, <1>14,
     <1>15, <1>16, <1>17, <1>18, <1>19, <1>20, <1>21, <1>22, <1>23, <1>24, <1>25, <1>26, <1>27,
     <1>28, <1>29, <1>30, <1>31 DEF Next, Ids

\* Only the user's cancellation of a download makes it one to be cancelled.
LEMMA WantedSteps ==
  ASSUME TypeOK, Queues, NEW i \in Ids, [Next]_vars
  PROVE  (i \in wanted' => i \in wanted) \/ Cancel(i)
<1> USE DEF past
<1>1. CASE StoreWorks
  BY <1>1, StoreFacts
<1>2. CASE Loaded
  BY <1>2, LoadedFacts
<1>3. CASE LoadFailed
  BY <1>3, LoadFailedFacts
<1>4. CASE Render
  BY <1>4, RenderFacts
<1>5. CASE Recover
  BY <1>5, RecoverFacts
<1>6. CASE ListInbox
  BY <1>6, ListInboxFacts
<1>7. CASE ReceiveListing
  BY <1>7, ReceiveListingFacts
<1>8. CASE TimerFires
  BY <1>8, TimerFiresFacts
<1>9. ASSUME NEW r \in Requests, Accept(r) PROVE i \in wanted' => i \in wanted
  BY <1>9, RequestFacts
<1>10. ASSUME NEW r \in Requests, AcknowledgeKnown(r) PROVE i \in wanted' => i \in wanted
  BY <1>10, RequestFacts
<1>11. ASSUME NEW r \in Requests, Inspect(r) PROVE i \in wanted' => i \in wanted
  BY <1>11, RequestFacts
<1>12. ASSUME NEW r \in Requests, Acknowledge(r) PROVE i \in wanted' => i \in wanted
  BY <1>12, AcknowledgeFacts
<1>13. ASSUME NEW p \in Runs, Enqueue(p) PROVE i \in wanted' => i \in wanted
  BY <1>13, EnqueueFacts
<1>14. ASSUME NEW p \in Runs, StopWaiting(p) PROVE i \in wanted' => i \in wanted
  BY <1>14, StopWaitingFacts
<1>15. ASSUME NEW p \in Runs, HostRegisters(p) PROVE i \in wanted' => i \in wanted
  BY <1>15, HostRegistersFacts
<1>16. ASSUME NEW p \in Runs, Answered(p) PROVE i \in wanted' => i \in wanted
  BY <1>16, AnsweredFacts
<1>17. ASSUME NEW p \in Runs, Refused(p) PROVE i \in wanted' => i \in wanted
  BY <1>17, RefusedFacts
<1>18. ASSUME NEW p \in Runs, Claim(p) PROVE i \in wanted' => i \in wanted
  BY <1>18, ClaimFacts
<1>19. ASSUME NEW p \in Runs, Finish(p) PROVE i \in wanted' => i \in wanted
  BY <1>19, FinishFacts
<1>20. ASSUME NEW p \in Runs, Ended(p) PROVE i \in wanted' => i \in wanted
  BY <1>20, EndedFacts
<1>21. ASSUME NEW c \in Runs \cup {Timer}, SaveAgain(c) PROVE i \in wanted' => i \in wanted
  BY <1>21, SaveAgainFacts
<1>22. ASSUME NEW c \in Runs \cup {Timer}, Saved(c) PROVE i \in wanted' => i \in wanted
  BY <1>22, SavedFacts DEF Queues
<1>23. ASSUME NEW c \in Runs \cup {Timer}, SaveFailed(c) PROVE i \in wanted' => i \in wanted
  BY <1>23, SaveFailedFacts DEF Queues
<1>24. ASSUME NEW j \in Ids, Cancel(j) PROVE (i \in wanted' => i \in wanted) \/ Cancel(i)
  BY <1>24, CancelFacts DEF Wants
<1>25. ASSUME NEW j \in Ids, Retry(j) PROVE i \in wanted' => i \in wanted
  BY <1>25, GateFacts
<1>26. ASSUME NEW j \in Ids, Add(j) PROVE i \in wanted' => i \in wanted
  BY <1>26, GateFacts
<1>27. CASE RequestQuit
  BY <1>27, QuitFacts
<1>28. CASE QuitSaves
  BY <1>28, QuitFacts
<1>29. CASE QuitFails
  BY <1>29, QuitFacts
<1>30. CASE Quit \/ Crash \/ PowerLoss
  BY <1>30, SessionFacts
<1>31. CASE UNCHANGED vars
  BY <1>31 DEF vars
<1> QED
  BY <1>1, <1>2, <1>3, <1>4, <1>5, <1>6, <1>7, <1>8, <1>9, <1>10, <1>11, <1>12, <1>13, <1>14,
     <1>15, <1>16, <1>17, <1>18, <1>19, <1>20, <1>21, <1>22, <1>23, <1>24, <1>25, <1>26, <1>27,
     <1>28, <1>29, <1>30, <1>31 DEF Next, Ids

\* What has been cancelled stays in the queue, or its request is not opened again.
LEMMA ClickedKept ==
  ASSUME TypeOK, Queues, Mounting, Saves, Pending, NEW i \in Ids, Clicked(i), [Next]_vars
  PROVE  Clicked(i)'
<1>1. CASE Quit \/ Crash \/ PowerLoss
  BY <1>1, SessionFacts DEF Clicked
<1>2. CASE Cancel(i)
  <2>1. Has(page.list, i)
    BY <1>2, CancelFacts
  <2>2. SameItems
    BY <1>2, CancelFacts DEF SameItems
  <2> QED
    BY <2>1, <2>2, SameItemsHas DEF Clicked
<1>3. ASSUME i \in wanted' => i \in wanted, page.handled \subseteq page'.handled,
             ListStays(i) \/ ListMoves(i), ~(Quit \/ Crash \/ PowerLoss)
      PROVE  Clicked(i)'
  <2>1. CASE ListStays(i)
    BY <1>3, <2>1 DEF Clicked, ListStays
  <2>2. CASE Loaded
    <3>1. page.ready = "loading"
      BY <2>2, LoadedFacts DEF Mounting, Loading
    <3>2. ~Has(page.list, i)
      BY <3>1, EmptyList DEF Mounting, Unshown
    <3> QED
      BY <1>3, <3>2 DEF Clicked
  <2>3. CASE LoadFailed \/ Render
    <3>1. page'.list = page.list
      BY <2>3, LoadFailedFacts, RenderFacts DEF Same
    <3> QED
      BY <1>3, <3>1 DEF Clicked
  <2>4. ASSUME NEW q \in Runs, Enqueue(q) PROVE Clicked(i)'
    <3>1. Has(page.list, i) => Has(page'.list, i)
      <4>1. /\ QueuedItem(Id(q)) \in Items /\ page.list \in Lists
            /\ page'.list = page.list \/ page'.list = WithItem(page.list, QueuedItem(Id(q)))
        BY <2>4, EnqueueFacts, PageTyped
      <4>2. Has(page.list, i) => Has(WithItem(page.list, QueuedItem(Id(q))), i)
        BY <4>1, WithItemFacts
      <4>3. CASE page'.list = page.list
        BY <4>3 DEF Has
      <4>4. CASE page'.list = WithItem(page.list, QueuedItem(Id(q)))
        BY <4>2, <4>4 DEF Has
      <4> QED
        BY <4>1, <4>3, <4>4
    <3> QED
      BY <1>3, <3>1 DEF Clicked
  <2>5. ASSUME NEW q \in Runs, q = Bridge(i), run[q] = "save" PROVE Clicked(i)'
    <3>1. i \in Requests
      BY <2>5, RunShapes
    <3>2. i \in page.handled
      BY <2>5, <3>1 DEF Pending, PendingOf
    <3> QED
      BY <1>3, <3>2 DEF Clicked
  <2> QED
    BY <1>3, <2>1, <2>2, <2>3, <2>4, <2>5 DEF ListMoves
<1> QED
  BY <1>1, <1>2, <1>3, WantedSteps, HandledGrows, ListSteps

\* A request's run is registered by the coordinator's answer only.
LEMMA HandedSteps ==
  ASSUME TypeOK, Queues, NEW r \in Requests, [Next]_vars
  PROVE  handed'[r] = handed[r] \/ (run[Bridge(r)] = "asked" /\ run'[Bridge(r)] = "answered" /\ handed'[r] = handed[r] + 1)
<1> DEFINE Counts == \/ handed'[r] = handed[r]
                     \/ /\ run[Bridge(r)] = "asked" /\ run'[Bridge(r)] = "answered"
                        /\ handed'[r] = handed[r] + 1
<1> USE DEF past
<1>1. CASE StoreWorks
  BY <1>1, StoreFacts
<1>2. CASE Loaded
  BY <1>2, LoadedFacts
<1>3. CASE LoadFailed
  BY <1>3, LoadFailedFacts
<1>4. CASE Render
  BY <1>4, RenderFacts
<1>5. CASE Recover
  BY <1>5, RecoverFacts
<1>6. CASE ListInbox
  BY <1>6, ListInboxFacts
<1>7. CASE ReceiveListing
  BY <1>7, ReceiveListingFacts
<1>8. CASE TimerFires
  BY <1>8, TimerFiresFacts
<1>9. ASSUME NEW q \in Requests, Accept(q) PROVE Counts
  BY <1>9, RequestFacts
<1>10. ASSUME NEW q \in Requests, AcknowledgeKnown(q) PROVE Counts
  BY <1>10, RequestFacts
<1>11. ASSUME NEW q \in Requests, Inspect(q) PROVE Counts
  BY <1>11, RequestFacts
<1>12. ASSUME NEW q \in Requests, Acknowledge(q) PROVE Counts
  BY <1>12, AcknowledgeFacts
<1>13. ASSUME NEW p \in Runs, Enqueue(p) PROVE Counts
  BY <1>13, EnqueueFacts
<1>14. ASSUME NEW p \in Runs, StopWaiting(p) PROVE Counts
  BY <1>14, StopWaitingFacts
<1>15. ASSUME NEW p \in Runs, HostRegisters(p) PROVE Counts
  BY <1>15, HostRegistersFacts, RunShapes DEF Goes
<1>16. ASSUME NEW p \in Runs, Answered(p) PROVE Counts
  BY <1>16, AnsweredFacts
<1>17. ASSUME NEW p \in Runs, Refused(p) PROVE Counts
  BY <1>17, RefusedFacts
<1>18. ASSUME NEW p \in Runs, Claim(p) PROVE Counts
  BY <1>18, ClaimFacts
<1>19. ASSUME NEW p \in Runs, Finish(p) PROVE Counts
  BY <1>19, FinishFacts
<1>20. ASSUME NEW p \in Runs, Ended(p) PROVE Counts
  BY <1>20, EndedFacts
<1>21. ASSUME NEW c \in Runs \cup {Timer}, SaveAgain(c) PROVE Counts
  BY <1>21, SaveAgainFacts
<1>22. ASSUME NEW c \in Runs \cup {Timer}, Saved(c) PROVE Counts
  BY <1>22, SavedFacts
<1>23. ASSUME NEW c \in Runs \cup {Timer}, SaveFailed(c) PROVE Counts
  BY <1>23, SaveFailedFacts DEF Queues
<1>24. ASSUME NEW i \in Ids, Cancel(i) PROVE Counts
  BY <1>24, CancelFacts
<1>25. ASSUME NEW i \in Ids, Retry(i) PROVE Counts
  BY <1>25, GateFacts
<1>26. ASSUME NEW i \in Ids, Add(i) PROVE Counts
  BY <1>26, GateFacts
<1>27. CASE RequestQuit
  BY <1>27, QuitFacts
<1>28. CASE QuitSaves
  BY <1>28, QuitFacts
<1>29. CASE QuitFails
  BY <1>29, QuitFacts
<1>30. CASE Quit \/ Crash \/ PowerLoss
  BY <1>30, SessionFacts
<1>31. CASE UNCHANGED vars
  BY <1>31 DEF vars, past
<1> QED
  BY <1>1, <1>2, <1>3, <1>4, <1>5, <1>6, <1>7, <1>8, <1>9, <1>10, <1>11, <1>12, <1>13, <1>14,
     <1>15, <1>16, <1>17, <1>18, <1>19, <1>20, <1>21, <1>22, <1>23, <1>24, <1>25, <1>26, <1>27,
     <1>28, <1>29, <1>30, <1>31 DEF Next, Ids

\* A request that has not been opened comes into the queue by the load only.
LEMMA NoticedSteps ==
  ASSUME TypeOK, Queues, Mounting, Saves, Alone, Pending, ~forfeited', NEW i \in Ids, Noticed(i)', ~Noticed(i), [Next]_vars
  PROVE  Loaded /\ Has(page'.list, i)
<1>1. i \in Requests /\ i \notin page'.handled /\ (Has(page'.list, i) \/ Has(page'.latest, i))
  BY DEF Noticed
<1>2. ~(Quit \/ Crash \/ PowerLoss)
  <2>1. Quit \/ Crash \/ PowerLoss => page'.list = << >> /\ page'.latest = << >>
    BY SessionFacts, NewPageFacts
  <2>2. ~(page'.list = << >> /\ page'.latest = << >>)
    BY <1>1, EmptyList
  <2> QED
    BY <2>1, <2>2
<1>3. i \notin page.handled
  BY <1>1, <1>2, HandledGrows
<1>4. ~Has(page.list, i) /\ ~Has(page.latest, i)
  BY <1>1, <1>3 DEF Noticed
<1>5. ~ListStays(i)
  BY <1>1, <1>4 DEF ListStays
<1>6. ~LoadFailed
  BY LoadFailedFacts
<1>7. ~Render
  <2> SUFFICES ASSUME Render PROVE FALSE
    OBVIOUS
  <2>1. page'.list = page.list /\ page'.latest \in {page.list, page.latest}
    BY RenderFacts DEF Same
  <2> QED
    BY <1>1, <1>4, <2>1
<1>8. ASSUME NEW p \in Runs, Enqueue(p) PROVE FALSE
  <2>1. /\ run[p] = "gate" /\ QueuedItem(Id(p)) \in Items /\ page'.latest = WithItem(page.latest, QueuedItem(Id(p)))
        /\ page'.list \in {page.list, WithItem(page.list, QueuedItem(Id(p)))}
    BY <1>8, EnqueueFacts
  <2>2. QueuedItem(Id(p)).id = Id(p)
    BY DEF QueuedItem
  <2>3. \A l \in Lists: Has(WithItem(l, QueuedItem(Id(p))), i) => Has(l, i) \/ i = Id(p)
    BY <2>1, <2>2, WithItemFacts
  <2>4. i = Id(p)
    BY <1>1, <1>4, <2>1, <2>3, PageTyped
  <2>5. AloneOf(i) /\ PendingOf(i)
    BY <1>1 DEF Alone, Pending
  <2> QED
    BY <1>3, <1>4, <2>1, <2>4, <2>5, RunShapes DEF AloneOf, PendingOf
<1>9. ASSUME NEW c \in Runs, c = Bridge(i), run[c] = "save" PROVE FALSE
  BY <1>1, <1>3, <1>9 DEF Pending, PendingOf
<1>10. Loaded
  BY <1>2, <1>5, <1>6, <1>7, <1>8, <1>9, ListSteps DEF ListMoves
<1>11. page'.latest = page.latest
  BY <1>10, LoadedFacts DEF Same
<1> QED
  BY <1>1, <1>4, <1>10, <1>11

\* A run first counts on its download when its save has been answered.
LEMMA PromisedSteps ==
  ASSUME TypeOK, Queues, Saves, NEW i \in Ids, Promised(i)', ~Owed(i), [Next]_vars
  PROVE  \E p \in Runs: Id(p) = i /\ Saved(p) /\ run[p] = "save"
<1>1. CASE \E p \in Runs: Id(p) = i /\ run'[p] \in Pledged
  <2>1. PICK p \in Runs: Id(p) = i /\ run'[p] \in Pledged
    BY <1>1
  <2>2. run[p] \notin Pledged /\ i \notin page.recovery
    BY <2>1 DEF Owed, Promised, Debt
  <2>3. RunStep(p)
    BY RunSteps
  <2> QED
    BY <2>1, <2>2, <2>3 DEF RunStep, Pledged
<1>2. CASE i \in Requests /\ run'[Bridge(i)] = "known"
  <2>1. RunStep(Bridge(i)) /\ run[Bridge(i)] # "known"
    BY <1>2, RunSteps, RunShapes DEF Owed, Promised
  <2>2. PICK r \in page.requests \ page.handled: Bridge(i) = Bridge(r) /\ Has(page.latest, r)
    BY <1>2, <2>1 DEF RunStep, Pledged
  <2>3. r = i
    BY <2>2, RunShapes
  <2> QED
    BY <1>2, <2>2, <2>3 DEF Owed, Noticed
<1> QED
  BY <1>1, <1>2 DEF Promised

\* What somebody counts on is kept.
LEMMA OwedKept ==
  ASSUME TypeOK, Queues, Mounting, Saves, Showing, Pending, Alone, Cancels, NEW i \in Ids, SafeOf(i),
         ~forfeited', Owed(i)', [Next]_vars
  PROVE  Kept(i)'
<1>1. ~forfeited /\ (Owed(i) => Kept(i)) /\ SavedOf(i) /\ OnceOf(i)
  BY ForfeitedStays DEF SafeOf
<1>2. CASE Owed(i)
  <2>1. i \in Requests => run[Bridge(i)] # "save"
    BY <1>1, <1>2, SavingOwesNothing
  <2>2. Kept(i)
    BY <1>1, <1>2
  <2>3. OnScreen(i)'
    BY <2>1, <2>2, OnScreenKept
  <2>4. OnDisk(i)'
    BY <2>2, <2>3, OnDiskKept
  <2> QED
    BY <2>3, <2>4 DEF Kept
<1>3. CASE ~Owed(i)
  <2>1. CASE Debt(i)'
    BY <1>1, <1>3, <2>1, DebtSteps, LoadedIsKept
  <2>2. CASE Promised(i)'
    <3>1. PICK p \in Runs: Id(p) = i /\ Saved(p) /\ run[p] = "save"
      BY <1>3, <2>2, PromisedSteps
    <3> QED
      BY <1>1, <3>1, SavedIsKept
  <2>3. CASE Noticed(i)'
    BY <1>1, <1>3, <2>3, NoticedSteps, LoadedIsKept DEF Owed
  <2> QED
    BY <2>1, <2>2, <2>3 DEF Owed
<1> QED
  BY <1>2, <1>3

\* A request that has been handed over is in the queue for good, and is not opened as
\* a new one again.
LEMMA OnceOfKept ==
  ASSUME TypeOK, Queues, Mounting, Saves, Alone, NEW i \in Ids, Owed(i) => Kept(i), OnceOf(i), [Next]_vars
  PROVE  OnceOf(i)'
<1> SUFFICES ASSUME i \in Requests
             PROVE  /\ run'[Bridge(i)] \in {"inspect", "gate", "wait", "save", "asked"} => handed'[i] = 0
                    /\ handed'[i] <= 1
  BY DEF OnceOf
<1>1. Bridge(i) \in Runs /\ Id(Bridge(i)) = i /\ Bridge(i) # Own(i) /\ handed[i] \in Nat
  BY RunShapes DEF TypeOK
<1>2. /\ run[Bridge(i)] \in {"inspect", "gate", "wait", "save", "asked"} => handed[i] = 0
      /\ handed[i] <= 1
  BY DEF OnceOf
<1>3. RunStep(Bridge(i))
  BY <1>1, RunSteps
<1>4. CASE handed'[i] # handed[i]
  BY <1>2, <1>4, HandedSteps
<1>5. CASE handed'[i] = handed[i]
  <2>1. CASE run'[Bridge(i)] = "inspect" /\ run[Bridge(i)] # "inspect"
    <3>1. PICK r \in page.requests \ page.handled:
            Bridge(i) = Bridge(r) /\ page.ready # "loading" /\ run'[Bridge(i)] = IF Has(page.latest, r) THEN "known" ELSE "inspect"
      BY <2>1, <1>3 DEF RunStep, Pledged
    <3>2. r = i /\ ~Has(page.latest, i)
      BY <2>1, <3>1, RunShapes
    <3>3. page.ready = "ready"
      BY <3>1 DEF Alone, CalmOf
    <3>4. ~Kept(i)
      BY <3>2, <3>3 DEF Kept, OnScreen
    <3>5. handed[i] = 0
      BY <3>4 DEF Owed, Debt
    <3> QED
      BY <1>5, <3>5
  <2>2. CASE run'[Bridge(i)] = run[Bridge(i)]
    BY <1>2, <1>5, <2>2
  <2>3. CASE run'[Bridge(i)] \in {"gate", "wait", "save", "asked"} /\ run'[Bridge(i)] # run[Bridge(i)]
    <3>1. run[Bridge(i)] \in {"inspect", "gate", "wait", "save"}
      BY <1>1, <1>3, <2>3 DEF RunStep, Pledged
    <3> QED
      BY <1>2, <1>5, <3>1
  <2> QED
    BY <1>2, <1>5, <2>1, <2>2, <2>3
<1> QED
  BY <1>4, <1>5

\* A run waits for a save that its download is in.
LEMMA SavedOfKept ==
  ASSUME TypeOK, Queues, Mounting, Saves, Alone, Pending, NEW i \in Ids, SavedOf(i), [Next]_vars
  PROVE  SavedOf(i)'
<1>1. ASSUME NEW p \in Runs, Id(p) = i, run'[p] \in {"wait", "save"}
      PROVE  Has(page'.list, i) /\ Has(page'.latest, i)
  <2>1. CASE Enqueue(p)
    <3>1. /\ QueuedItem(i) \in Items /\ page'.latest = WithItem(page.latest, QueuedItem(i))
          /\ \/ page'.list = page.list /\ Has(page.list, i)
             \/ page'.list = WithItem(page.list, QueuedItem(i))
      BY <1>1, <2>1, EnqueueFacts
    <3>2. QueuedItem(i).id = i
      BY DEF QueuedItem
    <3>3. \A l \in Lists: Has(WithItem(l, QueuedItem(i)), i)
      BY <3>1, <3>2, WithItemFacts
    <3> QED
      BY <3>1, <3>3, PageTyped
  <2>2. CASE run[p] \in {"wait", "save"}
    <3>1. Has(page.list, i) /\ Has(page.latest, i)
      BY <1>1, <2>2 DEF SavedOf
    <3>2. ~LoadFailed /\ ~Loaded /\ page.ready = "ready"
      <4>1. page.ready # "loading"
        BY <1>1, <2>2 DEF Mounting, Unshown
      <4>2. page.open
        BY <1>1, <2>2 DEF Mounting, Opening, Inert
      <4> QED
        BY <4>1, <4>2, LoadedFacts, LoadFailedFacts DEF Mounting, Loading, Opening
    <3>3. CASE Render
      <4>1. page'.list = page.list /\ page'.latest \in {page.list, page.latest}
        BY <3>3, RenderFacts DEF Same
      <4> QED
        BY <3>1, <4>1
    <3>4. ASSUME NEW q \in Runs, Enqueue(q) PROVE Has(page'.list, i) /\ Has(page'.latest, i)
      <4>1. /\ QueuedItem(Id(q)) \in Items /\ page'.latest = WithItem(page.latest, QueuedItem(Id(q)))
            /\ page'.list \in {page.list, WithItem(page.list, QueuedItem(Id(q)))}
        BY <3>4, EnqueueFacts
      <4>2. \A l \in Lists: Has(l, i) => Has(WithItem(l, QueuedItem(Id(q))), i)
        BY <4>1, WithItemFacts
      <4> QED
        BY <3>1, <4>1, <4>2, PageTyped
    <3>5. ASSUME NEW c \in Runs, c = Bridge(i), run[c] = "save", SaveFailed(c) PROVE FALSE
      <4>1. page.saver = c /\ Goes(c, "idle")
        <5>1. Distinct(page.list) /\ c # Timer /\ c \in Runs \cup {Timer}
          BY Marks DEF Queues
        <5> QED
          BY <3>5, <5>1, SaveFailedFacts
      <4>2. p # c
        BY <1>1, <4>1 DEF Goes
      <4>3. Rests(c) /\ Id(c) = i
        BY <3>5, OthersRest, RunShapes
      <4> QED
        BY <1>1, <2>2, <4>2, <4>3 DEF Rests
    <3>6. CASE Quit \/ Crash \/ PowerLoss
      BY <1>1, <3>6, SessionFacts
    <3>7. CASE ListStays(i)
      BY <3>1, <3>7 DEF ListStays
    <3> QED
      BY <3>2, <3>3, <3>4, <3>5, <3>6, <3>7, ListSteps DEF ListMoves
  <2> QED
    BY <1>1, <2>1, <2>2, RunSteps DEF RunStep, Pledged
<1>2. ASSUME NEW p \in Runs, Id(p) = i, call'[p].pc \in {"saving", "replaced", "ok"}
      PROVE  Has(call'[p].value, i)
  <2>0. /\ call[p].pc \in {"saving", "replaced", "ok"} => Has(call[p].value, i)
        /\ p \in Calls /\ p # Load /\ p # Quitting /\ p # Timer
    BY <1>2, CallMarks DEF SavedOf
  <2>1. CASE StoreWorks
    BY <1>2, <2>0, <2>1, StoreFacts DEF CallIs
  <2>2. CASE SavesNothing
    BY <1>2, <2>0, <2>2 DEF SavesNothing
  <2>3. CASE LoadEnds
    BY <1>2, <2>0, <2>3, CallMarks DEF LoadEnds, CallIs
  <2>4. ASSUME NEW c \in Runs \cup {Timer}, SaveStarts(c) PROVE Has(call'[p].value, i)
    <3>1. CASE c = p
      <4>1. run'[p] = "save" /\ call'[p].value = page'.latest
        BY <2>4, <2>0, <3>1 DEF SaveStarts, CallIs
      <4> QED
        BY <1>1, <1>2, <4>1
    <3>2. CASE c # p
      BY <1>2, <2>0, <2>4, <3>2, CallMarks DEF SaveStarts, CallIs
    <3> QED
      BY <3>1, <3>2
  <2>5. ASSUME NEW c \in Runs \cup {Timer}, SaveEnds(c) PROVE Has(call'[p].value, i)
    BY <1>2, <2>0, <2>5, CallMarks DEF SaveEnds, CallIs
  <2>6. CASE QuitAsks \/ QuitGivesUp
    BY <1>2, <2>0, <2>6, CallMarks DEF QuitAsks, QuitGivesUp, CallIs
  <2>7. CASE Quit \/ Crash \/ PowerLoss
    BY <1>2, <2>0, <2>7, SessionFacts
  <2> QED
    BY <2>1, <2>2, <2>3, <2>4, <2>5, <2>6, <2>7, SaveSteps DEF Saves
<1> QED
  BY <1>1, <1>2 DEF SavedOf

-----------------------------------------------------------------------------
(* The theorems.                                                           *)

\* The inductive invariant, for whatever the inbox answers and when.
Inv == TypeOK /\ Queues /\ Mounting /\ Saves /\ Screen /\ Pending /\ InTurn
\* The inductive invariant, when no listing is answered before the queue is shown.
InvAfterStart == Inv /\ Alone /\ Cancels /\ Safe

\* The invariant holds at the start, whatever queue the first session finds.
LEMMA InvInit == Init => Inv
<1> SUFFICES ASSUME Init PROVE Inv
  OBVIOUS
<1>1. /\ value \in Lists /\ Distinct(value) /\ possible = {value}
      /\ page = NewPage /\ page \in Pages /\ call = NewCalls
      /\ \A p \in Runs: run[p] = "idle"
  BY FoundAssumption, NewPageFacts DEF Init
<1>2. /\ call \in [Calls -> [pc: Store!Pcs, value: Lists]]
      /\ \A c \in Calls: call[c].value = << >> /\ call[c].pc = IF c = Load THEN "loading" ELSE "idle"
  BY <1>1, NewCallsFacts
<1>3. TypeOK
  <2>1. run \in [Runs -> Steps]
    BY DEF Init, Steps
  <2>2. handed \in [Requests -> Nat]
    BY DEF Init
  <2> QED
    BY <1>1, <1>2, <2>1, <2>2 DEF Init, TypeOK
<1>4. Queues
  BY <1>1, <1>2, NewPageFacts, EmptyList DEF Queues
<1>5. Mounting
  <2>1. Loading
    BY <1>1, <1>2, CallMarks, NewPageFacts DEF Loading
  <2>2. Unshown
    BY <1>1, <1>2, CallMarks, NewPageFacts DEF Unshown
  <2>3. Opening
    BY <1>1, NewPageFacts DEF Opening, Inert
  <2> QED
    BY <1>1, <2>1, <2>2, <2>3, NewPageFacts DEF Mounting, Recovering
<1>6. Saves
  <2>1. Writing
    BY <1>1, <1>2 DEF Writing
  <2>2. Saver
    BY <1>1, <1>2, CallMarks, NewPageFacts DEF Saver
  <2>3. Settled
    BY <1>1, <1>2, CallMarks, NewPageFacts DEF Settled
  <2> QED
    BY <2>1, <2>2, <2>3 DEF Saves
<1>7. Screen
  BY <1>1, NewPageFacts DEF Screen, Showing, Pace
<1>8. Pending
  <2>1. \A r \in Requests: run[Bridge(r)] = "idle"
    BY <1>1, RunShapes
  <2> QED
    BY <1>1, <2>1, NewPageFacts DEF Pending, PendingOf
<1>9. InTurn
  BY <1>1, NewPageFacts DEF InTurn
<1> QED
  BY <1>3, <1>4, <1>5, <1>6, <1>7, <1>8, <1>9 DEF Inv

\* Every step keeps the invariant.
LEMMA InvNext == Inv /\ [Next]_vars => Inv'
<1> SUFFICES ASSUME Inv, [Next]_vars PROVE Inv'
  OBVIOUS
<1>1. TypeOK /\ Queues /\ Mounting /\ Saves /\ Screen /\ Showing /\ Pending /\ InTurn
  BY DEF Inv, Screen
<1>2. TypeOK'
  BY <1>1, TypeKept DEF Queues
<1>3. Queues'
  BY <1>1, QueuesKept
<1>4. Mounting'
  BY <1>1, <1>2, LoadingKept, UnshownKept, OpeningKept, RecoveringKept DEF Mounting
<1>5. Saves'
  BY <1>1, WritingKept, SaverKept, SettledKept DEF Saves
<1>6. Screen'
  BY <1>1, ShowingKept, PaceKept DEF Screen
<1>7. Pending' /\ InTurn'
  BY <1>1, <1>2, PendingKept, InTurnKept
<1> QED
  BY <1>2, <1>3, <1>4, <1>5, <1>6, <1>7 DEF Inv

\* The invariant holds of every run of the front end.
THEOREM QueueInvariant == Spec => []Inv
BY InvInit, InvNext, PTL DEF Spec

\* Every state of the front end, the store and the coordinator is typed.
THEOREM TypeCorrect == Spec => []TypeOK
<1>1. Inv => TypeOK
  BY DEF Inv
<1> QED
  BY <1>1, QueueInvariant, PTL

\* No snapshot is ever refused for a place that is none or given twice:
\* AppSnapshot::validate accepts all that persistSnapshot hands it.
THEOREM SnapshotsStayValid == Spec => []SnapshotsAreValid
<1>1. Inv => SnapshotsAreValid
  BY DEF Inv, Queues, Distinct, SnapshotsAreValid
<1> QED
  BY <1>1, QueueInvariant, PTL

\* Once nothing is left to do, the queue on disk is the one on the screen:
\* persistSnapshot, the timer and the flag for another save lose no change.
THEOREM RestIsSaved == Spec => []ComesToRestSaved
<1>1. Inv => ComesToRestSaved
  BY DEF Inv, Screen, Showing, Pace, ComesToRestSaved
<1> QED
  BY <1>1, QueueInvariant, PTL

\* The coordinator registers who has asked.
LEMMA RegistrationSteps ==
  ASSUME TypeOK, Queues, NEW i \in Ids, [Next]_vars
  PROVE  ticket[i] = "none" /\ ticket'[i] = "registered"
         => \E q \in Runs: Id(q) = i /\ run[q] = "asked" /\ page' = page
<1> DEFINE Asks == \E q \in Runs: Id(q) = i /\ run[q] = "asked" /\ page' = page
<1> USE DEF host
<1>0. i \in Ids
  OBVIOUS
<1>1. CASE StoreWorks
  BY <1>1, StoreFacts
<1>2. CASE Loaded
  BY <1>2, LoadedFacts
<1>3. CASE LoadFailed
  BY <1>3, LoadFailedFacts
<1>4. CASE Render
  BY <1>4, RenderFacts
<1>5. CASE Recover
  BY <1>5, RecoverFacts
<1>6. CASE ListInbox
  BY <1>6, ListInboxFacts
<1>7. CASE ReceiveListing
  BY <1>7, ReceiveListingFacts
<1>8. CASE TimerFires
  BY <1>8, TimerFiresFacts
<1>9. ASSUME NEW r \in Requests, Accept(r) PROVE ticket[i] = "none" /\ ticket'[i] = "registered" => Asks
  BY <1>9, RequestFacts
<1>10. ASSUME NEW r \in Requests, AcknowledgeKnown(r) PROVE ticket[i] = "none" /\ ticket'[i] = "registered" => Asks
  BY <1>10, RequestFacts
<1>11. ASSUME NEW r \in Requests, Inspect(r) PROVE ticket[i] = "none" /\ ticket'[i] = "registered" => Asks
  BY <1>11, RequestFacts
<1>12. ASSUME NEW r \in Requests, Acknowledge(r) PROVE ticket[i] = "none" /\ ticket'[i] = "registered" => Asks
  BY <1>12, AcknowledgeFacts
<1>13. ASSUME NEW p \in Runs, Enqueue(p) PROVE ticket[i] = "none" /\ ticket'[i] = "registered" => Asks
  BY <1>13, EnqueueFacts
<1>14. ASSUME NEW p \in Runs, StopWaiting(p) PROVE ticket[i] = "none" /\ ticket'[i] = "registered" => Asks
  BY <1>14, StopWaitingFacts
<1>15. ASSUME NEW p \in Runs, HostRegisters(p) PROVE ticket[i] = "none" /\ ticket'[i] = "registered" => Asks
  BY <1>15, <1>0, HostRegistersFacts, RunShapes DEF TicketIs
<1>16. ASSUME NEW p \in Runs, Answered(p) PROVE ticket[i] = "none" /\ ticket'[i] = "registered" => Asks
  BY <1>16, <1>0, AnsweredFacts, RunShapes DEF Discards
<1>17. ASSUME NEW p \in Runs, Refused(p) PROVE ticket[i] = "none" /\ ticket'[i] = "registered" => Asks
  BY <1>17, <1>0, RefusedFacts, RunShapes DEF Discards
<1>18. ASSUME NEW p \in Runs, Claim(p) PROVE ticket[i] = "none" /\ ticket'[i] = "registered" => Asks
  BY <1>18, <1>0, ClaimFacts, RunShapes DEF TicketIs
<1>19. ASSUME NEW p \in Runs, Finish(p) PROVE ticket[i] = "none" /\ ticket'[i] = "registered" => Asks
  BY <1>19, <1>0, FinishFacts, RunShapes DEF TicketIs
<1>20. ASSUME NEW p \in Runs, Ended(p) PROVE ticket[i] = "none" /\ ticket'[i] = "registered" => Asks
  BY <1>20, <1>0, EndedFacts, RunShapes DEF Discards
<1>21. ASSUME NEW c \in Runs \cup {Timer}, SaveAgain(c) PROVE ticket[i] = "none" /\ ticket'[i] = "registered" => Asks
  BY <1>21, SaveAgainFacts
<1>22. ASSUME NEW c \in Runs \cup {Timer}, Saved(c) PROVE ticket[i] = "none" /\ ticket'[i] = "registered" => Asks
  BY <1>22, SavedFacts
<1>23. ASSUME NEW c \in Runs \cup {Timer}, SaveFailed(c) PROVE ticket[i] = "none" /\ ticket'[i] = "registered" => Asks
  BY <1>23, SaveFailedFacts DEF Queues
<1>24. ASSUME NEW j \in Ids, Cancel(j) PROVE ticket[i] = "none" /\ ticket'[i] = "registered" => Asks
  BY <1>24, CancelFacts
<1>25. ASSUME NEW j \in Ids, Retry(j) PROVE ticket[i] = "none" /\ ticket'[i] = "registered" => Asks
  BY <1>25, GateFacts
<1>26. ASSUME NEW j \in Ids, Add(j) PROVE ticket[i] = "none" /\ ticket'[i] = "registered" => Asks
  BY <1>26, GateFacts
<1>27. CASE RequestQuit
  BY <1>27, QuitFacts
<1>28. CASE QuitSaves
  BY <1>28, QuitFacts
<1>29. CASE QuitFails
  BY <1>29, QuitFacts
<1>30. CASE Quit \/ Crash \/ PowerLoss
  BY <1>30, <1>0, SessionFacts
<1>31. CASE UNCHANGED vars
  BY <1>31 DEF vars
<1> QED
  BY <1>1, <1>2, <1>3, <1>4, <1>5, <1>6, <1>7, <1>8, <1>9, <1>10, <1>11, <1>12, <1>13, <1>14,
     <1>15, <1>16, <1>17, <1>18, <1>19, <1>20, <1>21, <1>22, <1>23, <1>24, <1>25, <1>26, <1>27,
     <1>28, <1>29, <1>30, <1>31 DEF Next, Ids

\* Whoever waited in the last session is registered in the order of the places, before
\* anyone else.
THEOREM RecoveryGoesFirst == Spec => RecoveredComeFirst
<1>1. Inv /\ [Next]_vars =>
        [\A i \in Ids: /\ ticket[i] = "none" /\ ticket'[i] = "registered"
                       => \A j \in page.recovery: Place(i) < Place(j)]_vars
  <2> SUFFICES ASSUME Inv, [Next]_vars, NEW i \in Ids, ticket[i] = "none", ticket'[i] = "registered", NEW j \in page.recovery
               PROVE  Place(i) < Place(j)
    OBVIOUS
  <2>1. PICK p \in Runs: Id(p) = i /\ run[p] = "asked"
    BY RegistrationSteps DEF Inv
  <2>2. ~page.open
    BY DEF Inv, Mounting, Recovering, Recoverable
  <2>3. p = Own(i)
    BY <2>1, <2>2 DEF Inv, Mounting, Opening, Inert
  <2> QED
    BY <2>1, <2>3 DEF Inv, InTurn, InTurnOf
<1> QED
  BY <1>1, QueueInvariant, PTL DEF Spec, RecoveredComeFirst

\* The rest of the invariant holds at the start.
LEMMA AfterStartInit == Init => InvAfterStart
<1> SUFFICES ASSUME Init PROVE InvAfterStart
  OBVIOUS
<1>1. /\ possible = {value} /\ page = NewPage /\ inbox = {} /\ given = {r \in Requests: Has(value, r)}
      /\ (\A p \in Runs: run[p] = "idle") /\ \A i \in Ids: ticket[i] = "none"
      /\ \A r \in Requests: handed[r] = IF Has(value, r) THEN 1 ELSE 0
      /\ wanted = {}
  BY DEF Init
<1>2. \A c \in Calls: call[c].value = << >> /\ call[c].pc = IF c = Load THEN "loading" ELSE "idle"
  BY NewCallsFacts DEF Init
<1>3. \A r \in Requests: run[Bridge(r)] = "idle" /\ run[Own(r)] = "idle"
  BY <1>1, RunShapes
<1>4. Alone
  BY <1>1, <1>3, NewPageFacts DEF Alone, AloneOf, CalmOf, Queued
<1>5. Cancels
  BY <1>1, NewPageFacts DEF Cancels, CancelsOf, Clicked, Remembers, Heeds, Past, InTime
<1>6. Safe
  <2> SUFFICES ASSUME NEW i \in Ids PROVE SafeOf(i)
    BY DEF Safe
  <2>1. Owed(i) => Kept(i)
    <3>1. ~Has(page.list, i) /\ ~Has(page.latest, i) /\ page.ready = "loading" /\ page.recovery = {}
      BY <1>1, NewPageFacts, EmptyList
    <3>2. Owed(i) => Has(value, i)
      BY <1>1, <1>3, <3>1 DEF Owed, Debt, Promised, Noticed, Pledged
    <3>3. Has(value, i) => OnDisk(i)
      BY <1>1, <1>2 DEF OnDisk
    <3> QED
      BY <3>1, <3>2, <3>3 DEF Kept, OnScreen
  <2>2. SavedOf(i)
    BY <1>1, <1>2, CallMarks DEF SavedOf
  <2>3. OnceOf(i)
    BY <1>1, <1>3 DEF OnceOf
  <2> QED
    BY <2>1, <2>2, <2>3 DEF SafeOf
<1> QED
  BY <1>4, <1>5, <1>6, InvInit DEF InvAfterStart

\* And every step keeps it, when no listing is answered before the queue is shown.
LEMMA AfterStartNext ==
  ASSUME EarlyAnswers = FALSE
  PROVE  InvAfterStart /\ [Next]_vars => InvAfterStart'
<1> SUFFICES ASSUME InvAfterStart, [Next]_vars PROVE InvAfterStart'
  OBVIOUS
<1>1. /\ Inv /\ TypeOK /\ Queues /\ Mounting /\ Saves /\ Screen /\ Showing /\ Pending
      /\ Alone /\ Cancels /\ Safe
  BY DEF InvAfterStart, Inv, Screen
<1>2. Inv'
  BY <1>1, InvNext
<1>3. Alone'
  <2>1. ASSUME NEW i \in Ids PROVE CalmOf(i)'
    <3>1. CalmOf(i)
      BY <1>1 DEF Alone
    <3> QED
      BY <1>1, <3>1, CalmOfKept
  <2>2. ASSUME NEW r \in Requests PROVE AloneOf(r)'
    <3>1. CalmOf(r) /\ AloneOf(r)
      BY <1>1, RunShapes DEF Alone
    <3> QED
      BY <1>1, <3>1, AloneOfKept
  <2> QED
    BY <2>1, <2>2 DEF Alone
<1>4. Cancels'
  <2> SUFFICES ASSUME NEW i \in Ids PROVE Clicked(i)' /\ CancelsOf(i)'
    BY DEF Cancels
  <2>1. Clicked(i) /\ CancelsOf(i)
    BY <1>1 DEF Cancels
  <2>2. Clicked(i)'
    BY <1>1, <2>1, ClickedKept
  <2>3. CancelsOf(i)'
    BY <1>1, <2>1, CancelsOfKept
  <2> QED
    BY <2>2, <2>3
<1>5. Safe'
  <2> SUFFICES ASSUME NEW i \in Ids, ~forfeited' PROVE (Owed(i)' => Kept(i)') /\ SavedOf(i)' /\ OnceOf(i)'
    BY DEF Safe, SafeOf
  <2>1. SafeOf(i) /\ ~forfeited
    BY <1>1, ForfeitedStays DEF Safe
  <2>2. (Owed(i) => Kept(i)) /\ SavedOf(i) /\ OnceOf(i)
    BY <2>1 DEF SafeOf
  <2> QED
    BY <1>1, <2>1, <2>2, OwedKept, SavedOfKept, OnceOfKept
<1> QED
  BY <1>2, <1>3, <1>4, <1>5 DEF InvAfterStart

\* It holds of every run in which no listing is answered before the queue is shown.
THEOREM AfterStartInvariant ==
  ASSUME EarlyAnswers = FALSE
  PROVE  Spec => []InvAfterStart
BY AfterStartInit, AfterStartNext, PTL DEF Spec

\* A cancellation in time, one that comes after runDownload is past the recovery gate,
\* reaches the transfer: controlDownload, registerDownload and the coordinator pass it
\* on.  An earlier one, of a paused download that is being resumed while the recovery
\* still runs, is deleted when the gate opens and is not in time.
THEOREM CancellationsArrive ==
  ASSUME EarlyAnswers = FALSE
  PROVE  Spec => []CancellationArrives
<1>1. InvAfterStart => CancellationArrives
  BY RunShapes DEF InvAfterStart, Cancels, CancelsOf, Heeds, CancellationArrives
<1> QED
  BY <1>1, AfterStartInvariant, PTL

\* A request of the browser starts at most one download, whatever crashes and lost
\* acknowledgements come in between.
THEOREM NeverHandedOverTwice ==
  ASSUME EarlyAnswers = FALSE
  PROVE  Spec => []HandedOverOnce
<1>1. InvAfterStart => HandedOverOnce
  BY RunShapes DEF InvAfterStart, Safe, SafeOf, OnceOf, HandedOverOnce
<1> QED
  BY <1>1, AfterStartInvariant, PTL

\* What the browser has handed over is in its inbox or in the queue on disk, and what
\* has been started is in the queue on disk, whatever crashes, power losses and failed
\* calls come in between.
THEOREM NothingGetsForgotten ==
  ASSUME EarlyAnswers = FALSE
  PROVE  Spec => []NothingIsForgotten
<1>1. InvAfterStart => NothingIsForgotten
  <2> SUFFICES ASSUME InvAfterStart, ~forfeited PROVE NothingIsForgotten
    BY DEF NothingIsForgotten
  <2>1. ASSUME NEW i \in Ids, Debt(i) PROVE \A v \in possible: Has(v, i)
    BY <2>1 DEF InvAfterStart, Safe, SafeOf, Owed, Kept, OnDisk
  <2>2. ASSUME NEW r \in given, r \notin inbox PROVE r \in Ids /\ Debt(r)
    BY <2>2, RunShapes DEF Debt, InvAfterStart, Inv, TypeOK
  <2>3. ASSUME NEW i \in Ids, ticket[i] = "started" PROVE Debt(i)
    BY <2>3 DEF Debt
  <2> QED
    BY <2>1, <2>2, <2>3 DEF NothingIsForgotten
<1> QED
  BY <1>1, AfterStartInvariant, PTL
=============================================================================
