-------------------------- MODULE PipeDeviceProofs --------------------------
(***************************************************************************)
(* Proofs about PipeDevice, for any number of names, pool blocks and file  *)
(* objects and every size of buffer: until a context is freed that is not  *)
(* the head of the list, the list, the counts and the contents of the      *)
(* pipes are right, after every sequence of loads, unloads, creates,       *)
(* closes, reads and writes.                                               *)
(*                                                                         *)
(* The list is what the search of createPipeContext comes to, which Walk   *)
(* computes by recursion.  So the proofs begin with what recursion along a *)
(* linked list computes; induction is by least counterexample.             *)
(***************************************************************************)
EXTENDS PipeDevice, PipeRingProofs, FiniteSetTheorems, WellFoundedInduction

(***************************************************************************)
(* Induction.                                                              *)
(***************************************************************************)
LessThan == {p \in Nat \X Nat : p[1] < p[2]}

\* The order of the natural numbers is well-founded.
LEMMA LessThanIsWellFounded == IsWellFoundedOn(LessThan, Nat)
BY NatLessThanWellFounded DEF OpToRel, LessThan

\* A set of natural numbers that is not empty has a least element.
LEMMA Least ==
  ASSUME NEW S \in SUBSET Nat, S # {}
  PROVE  \E n \in S : \A m \in S : n <= m
<1>1. PICK n \in S : \A m \in S : ~(<<m, n>> \in LessThan)
  BY LessThanIsWellFounded, WFMin
<1>2. ASSUME NEW m \in S PROVE n <= m
  <2>1. n \in Nat /\ m \in Nat /\ ~(<<m, n>> \in LessThan)
    BY <1>1
  <2>. QED  BY <2>1 DEF LessThan
<1>. QED  BY <1>2

\* A set of natural numbers that has 0, and with each number the next, has all.
LEMMA Induction ==
  ASSUME NEW S \in SUBSET Nat, 0 \in S, \A n \in S : n + 1 \in S
  PROVE  S = Nat
<1>. SUFFICES ASSUME Nat \ S # {} PROVE FALSE
  OBVIOUS
<1>1. PICK n \in Nat \ S : \A m \in Nat \ S : n <= m
  BY Least
<1>2. n # 0
  OBVIOUS
<1>3. n - 1 \in Nat /\ n - 1 \in S
  BY <1>1, <1>2
<1>. QED  BY <1>3

-----------------------------------------------------------------------------
(***************************************************************************)
(* Walks.                                                                  *)
(***************************************************************************)
\* What pNext of p leads to.
After(p, nd) == IF p = Null THEN Null ELSE nd[p].next

\* w is the way from hd along the links of nd, as far as Walk goes.
IsWalk(w, hd, nd) ==
  w = [k \in 0 .. Depth |-> IF k = 0 THEN hd ELSE After(w[k - 1], nd)]

\* The length of a walk is a number: there are finitely many blocks.
LEMMA DepthType == Depth \in Nat
BY DeviceAssumption, FS_CardinalityType DEF Depth

\* A walk by its first block and by its steps.
LEMMA WalkSteps ==
  ASSUME NEW hd, NEW nd, NEW w, IsWalk(w, hd, nd)
  PROVE  /\ w = [k \in 0 .. Depth |-> w[k]]
         /\ w[0] = hd
         /\ \A k \in 0 .. Depth : k # 0 => w[k] = After(w[k - 1], nd)
BY DepthType DEF IsWalk

\* The same the other way round.
LEMMA WalkMade ==
  ASSUME NEW hd, NEW nd, NEW w, w = [k \in 0 .. Depth |-> w[k]], w[0] = hd,
         \A k \in 0 .. Depth : k # 0 => w[k] = After(w[k - 1], nd)
  PROVE  IsWalk(w, hd, nd)
BY DepthType DEF IsWalk

\* From every block and along all links there is a walk.
LEMMA WalkExists ==
  ASSUME NEW hd, NEW nd
  PROVE  \E w : IsWalk(w, hd, nd)
<1>. DEFINE Goes(w, n) ==
              w = [k \in 0 .. n |-> IF k = 0 THEN hd ELSE After(w[k - 1], nd)]
            S == {n \in Nat : \E w : Goes(w, n)}
<1>1. 0 \in S
  <2>. DEFINE w == [k \in 0 .. 0 |-> hd]
  <2>1. Goes(w, 0)
    OBVIOUS
  <2>. QED  BY <2>1
<1>2. ASSUME NEW n \in S PROVE n + 1 \in S
  <2>1. PICK w : Goes(w, n)
    OBVIOUS
  <2>. DEFINE v == [k \in 0 .. n + 1 |-> IF k = n + 1 THEN After(w[n], nd) ELSE w[k]]
  <2>2. \A k \in 0 .. n + 1 : v[k] = IF k = 0 THEN hd ELSE After(v[k - 1], nd)
    <3>. SUFFICES ASSUME NEW k \in 0 .. n + 1
                  PROVE  v[k] = IF k = 0 THEN hd ELSE After(v[k - 1], nd)
      OBVIOUS
    <3>1. n \in Nat
      OBVIOUS
    <3>2. CASE k = n + 1
      <4>1. k # 0 /\ k - 1 = n /\ v[n] = w[n]
        BY <3>1, <3>2
      <4>. QED  BY <3>2, <4>1
    <3>3. CASE k # n + 1
      <4>1. k \in 0 .. n /\ v[k] = w[k]
        BY <3>1, <3>3
      <4>2. k # 0 => v[k - 1] = w[k - 1]
        BY <3>1, <3>3
      <4>. QED  BY <2>1, <4>1, <4>2
    <3>. QED  BY <3>2, <3>3
  <2>3. Goes(v, n + 1)
    <3>1. v = [k \in 0 .. n + 1 |-> v[k]]
      OBVIOUS
    <3>. HIDE DEF v
    <3>. QED  BY <2>2, <3>1
  <2>. HIDE DEF v, Goes
  <2>4. n + 1 \in Nat /\ \E u : Goes(u, n + 1)
    BY <2>3
  <2>. QED  BY <2>4
<1>3. S = Nat
  <2>. HIDE DEF S
  <2>1. S \in SUBSET Nat
    BY DEF S
  <2>. QED  BY <1>1, <1>2, <2>1, Induction
<1>. QED  BY <1>3, DepthType DEF IsWalk

\* There is only one.
LEMMA WalkUnique ==
  ASSUME NEW hd, NEW nd, NEW v, NEW w, IsWalk(v, hd, nd), IsWalk(w, hd, nd)
  PROVE  v = w
<1>. DEFINE S == {k \in 0 .. Depth : v[k] # w[k]}
<1>1. ASSUME S # {} PROVE FALSE
  <2>1. S \in SUBSET Nat
    BY DepthType
  <2>2. PICK k \in S : \A m \in S : k <= m
    BY <1>1, <2>1, Least
  <2>3. k # 0
    BY <2>2, WalkSteps
  <2>4. k - 1 \in 0 .. Depth /\ k - 1 \notin S
    BY <2>2, <2>3, DepthType
  <2>. QED  BY <2>2, <2>3, <2>4, WalkSteps
<1>2. v = [k \in 0 .. Depth |-> v[k]] /\ w = [k \in 0 .. Depth |-> w[k]]
  BY WalkSteps
<1>. QED  BY <1>1, <1>2

\* Walk is the walk from the head of the list.
LEMMA WalkIs == IsWalk(Walk, head, node)
<1>1. PICK w : IsWalk(w, head, node)
  BY WalkExists
<1>2. Walk = CHOOSE at :
               at = [k \in 0 .. Depth |-> IF k = 0 THEN head ELSE Follow(at[k - 1])]
  BY DEF Walk
<1>. QED  BY <1>1, <1>2 DEF IsWalk, After, Follow

\* The same of the state after a step.
LEMMA WalkIsNext == IsWalk(Walk', head', node')
<1>1. PICK w : IsWalk(w, head', node')
  BY WalkExists
<1>2. Walk' = CHOOSE at :
                at = [k \in 0 .. Depth |-> IF k = 0 THEN head' ELSE Follow(at[k - 1])']
  BY DEF Walk
<1>. QED  BY <1>1, <1>2 DEF IsWalk, After, Follow

\* A walk that has come to the end of the list stays there.
LEMMA WalkEnds ==
  ASSUME NEW hd, NEW nd, NEW w, IsWalk(w, hd, nd),
         NEW j \in 0 .. Depth, w[j] = Null, NEW k \in 0 .. Depth, j <= k
  PROVE  w[k] = Null
<1>. DEFINE S == {m \in 0 .. Depth : j <= m /\ w[m] # Null}
<1>1. ASSUME S # {} PROVE FALSE
  <2>1. S \in SUBSET Nat
    BY DepthType
  <2>2. PICK m \in S : \A i \in S : m <= i
    BY <1>1, <2>1, Least
  <2>3. m # j /\ m # 0
    BY <2>2
  <2>4. m - 1 \in 0 .. Depth /\ m - 1 \notin S /\ j <= m - 1
    BY <2>2, <2>3, DepthType
  <2>. QED  BY <2>2, <2>3, <2>4, WalkSteps DEF After
<1>. QED  BY <1>1

\* Every place on a walk is a pointer.
LEMMA WalkTyped ==
  ASSUME NEW hd \in Pointers, NEW nd, \A b \in Blocks : nd[b].next \in Pointers,
         NEW w, IsWalk(w, hd, nd), NEW k \in 0 .. Depth
  PROVE  w[k] \in Pointers
<1>. DEFINE S == {m \in 0 .. Depth : w[m] \notin Pointers}
<1>1. ASSUME S # {} PROVE FALSE
  <2>1. S \in SUBSET Nat
    BY DepthType
  <2>2. PICK m \in S : \A i \in S : m <= i
    BY <1>1, <2>1, Least
  <2>3. m # 0
    BY <2>2, WalkSteps
  <2>4. m - 1 \in 0 .. Depth /\ m - 1 \notin S
    BY <2>2, <2>3, DepthType
  <2>. QED  BY <2>2, <2>3, <2>4, WalkSteps DEF After, Pointers
<1>. QED  BY <1>1

-----------------------------------------------------------------------------
(***************************************************************************)
(* Lists.                                                                  *)
(***************************************************************************)
\* The walk w comes to an end, over allocated blocks only, and over each of them at most once;
\* two of them have one name only if it was cut.
ListOK(w, lv, nd) ==
  /\ w[Depth] = Null
  /\ \A k \in 0 .. Depth : w[k] # Null => w[k] \in lv
  /\ \A j, k \in 0 .. Depth : w[j] # Null /\ w[j] = w[k] => j = k
  /\ \A j, k \in 0 .. Depth :
       w[j] # Null /\ w[k] # Null /\ nd[w[j]].name = nd[w[k]].name =>
         j = k \/ nd[w[j]].cut \/ nd[w[k]].cut

\* The walks along the list without its head, and along the list with b before it.
WithoutHead(w) == [k \in 0 .. Depth |-> IF k < Depth THEN w[k + 1] ELSE Null]
WithHead(w, b) == [k \in 0 .. Depth |-> IF k = 0 THEN b ELSE w[k - 1]]

\* A walk depends on the links only, and only on those of the blocks on it.
LEMMA WalkKept ==
  ASSUME NEW hd, NEW nd, NEW md, NEW w, IsWalk(w, hd, nd),
         \A k \in 0 .. Depth : w[k] # Null => md[w[k]].next = nd[w[k]].next
  PROVE  IsWalk(w, hd, md)
<1>1. \A k \in 0 .. Depth : k # 0 => k - 1 \in 0 .. Depth
  BY DepthType
<1>2. \A k \in 0 .. Depth : After(w[k], md) = After(w[k], nd)
  BY DEF After
<1>3. /\ w = [k \in 0 .. Depth |-> w[k]] /\ w[0] = hd
      /\ \A k \in 0 .. Depth : k # 0 => w[k] = After(w[k - 1], nd)
  BY WalkSteps
<1>. QED  BY <1>1, <1>2, <1>3, WalkMade

\* The list without its head.
LEMMA WalkWithoutHead ==
  ASSUME NEW hd, hd # Null, NEW nd, NEW w, IsWalk(w, hd, nd), w[Depth] = Null
  PROVE  IsWalk(WithoutHead(w), nd[hd].next, nd) /\ Depth # 0
<1>. DEFINE v == WithoutHead(w)
<1>1. /\ w[0] = hd
      /\ \A k \in 0 .. Depth : k # 0 => w[k] = After(w[k - 1], nd)
  BY WalkSteps
<1>2. Depth \in Nat /\ Depth # 0 /\ 0 \in 0 .. Depth /\ 1 \in 0 .. Depth
  BY <1>1, DepthType
<1>3. v = [k \in 0 .. Depth |-> v[k]]
  BY DEF WithoutHead
<1>4. v[0] = nd[hd].next
  <2>1. v[0] = w[1] /\ 1 - 1 = 0
    BY <1>2 DEF WithoutHead
  <2>. QED  BY <1>1, <1>2, <2>1 DEF After
<1>5. ASSUME NEW k \in 0 .. Depth, k # 0 PROVE v[k] = After(v[k - 1], nd)
  <2>1. k - 1 \in 0 .. Depth /\ k - 1 < Depth /\ (k - 1) + 1 = k
    BY <1>2, <1>5
  <2>2. v[k - 1] = w[k]
    BY <2>1 DEF WithoutHead
  <2>3. CASE k = Depth
    <3>1. v[k] = Null
      BY <2>3 DEF WithoutHead
    <3>. QED  BY <2>2, <2>3, <3>1 DEF After
  <2>4. CASE k # Depth
    <3>1. k < Depth /\ k + 1 \in 0 .. Depth /\ k + 1 # 0 /\ (k + 1) - 1 = k
      BY <1>2, <2>4
    <3>2. v[k] = w[k + 1]
      BY <3>1 DEF WithoutHead
    <3>. QED  BY <1>1, <2>2, <3>1, <3>2
  <2>. QED  BY <2>3, <2>4
<1>. HIDE DEF v
<1>6. IsWalk(v, nd[hd].next, nd)
  BY <1>3, <1>4, <1>5, WalkMade
<1>. QED  BY <1>2, <1>6 DEF v

\* The list with one more block at its head.
LEMMA WalkWithHead ==
  ASSUME NEW hd, NEW nd, NEW md, NEW w, IsWalk(w, hd, nd), NEW b, b # Null, md[b].next = hd,
         \A k \in 0 .. Depth : w[k] # Null => md[w[k]].next = nd[w[k]].next
  PROVE  IsWalk(WithHead(w, b), b, md)
<1>. DEFINE v == WithHead(w, b)
<1>1. /\ w[0] = hd
      /\ \A k \in 0 .. Depth : k # 0 => w[k] = After(w[k - 1], md)
  <2>1. IsWalk(w, hd, md)
    BY WalkKept
  <2>. QED  BY <2>1, WalkSteps
<1>2. Depth \in Nat /\ 0 \in 0 .. Depth
  BY DepthType
<1>3. v = [k \in 0 .. Depth |-> v[k]] /\ v[0] = b
  BY <1>2 DEF WithHead
<1>4. ASSUME NEW k \in 0 .. Depth, k # 0 PROVE v[k] = After(v[k - 1], md)
  <2>1. k - 1 \in 0 .. Depth /\ v[k] = w[k - 1]
    BY <1>2, <1>4 DEF WithHead
  <2>2. CASE k - 1 = 0
    BY <1>1, <1>3, <2>1, <2>2 DEF After
  <2>3. CASE k - 1 # 0
    <3>1. v[k - 1] = w[(k - 1) - 1]
      BY <2>1, <2>3 DEF WithHead
    <3>. QED  BY <1>1, <2>1, <2>3, <3>1
  <2>. QED  BY <2>2, <2>3
<1>. HIDE DEF v
<1>5. IsWalk(v, b, md)
  BY <1>3, <1>4, WalkMade
<1>. QED  BY <1>5 DEF v

\* A list that leaves a block out ends one step earlier: it has fewer blocks than there are.
LEMMA RoomForOne ==
  ASSUME NEW hd, NEW nd, NEW w, IsWalk(w, hd, nd), NEW lv, lv \subseteq Blocks,
         ListOK(w, lv, nd), NEW b \in Blocks \ lv
  PROVE  Depth # 0 /\ w[Depth - 1] = Null
<1>1. IsFiniteSet(Blocks) /\ Depth = Cardinality(Blocks) /\ Depth \in Nat
  BY DeviceAssumption, DepthType DEF Depth
<1>2. Depth # 0
  BY <1>1, FS_EmptySet
<1>3. ASSUME w[Depth - 1] # Null PROVE FALSE
  <2>. DEFINE D == 0 .. Depth - 1
              f == [k \in D |-> w[k]]
  <2>1. \A k \in D : k \in 0 .. Depth /\ k <= Depth - 1 /\ Depth - 1 \in 0 .. Depth
    BY <1>1, <1>2
  <2>2. \A k \in D : w[k] # Null
    BY <1>3, <2>1, WalkEnds
  <2>3. \A k \in D : w[k] \in Blocks \ {b}
    BY <2>1, <2>2 DEF ListOK
  <2>4. \A j, k \in D : w[j] = w[k] => j = k
    BY <2>1, <2>2 DEF ListOK
  <2>5. f \in Injection(D, Blocks \ {b})
    BY <2>3, <2>4 DEF Injection, IsInjective
  <2>6. IsFiniteSet(Blocks \ {b}) /\ Cardinality(Blocks \ {b}) = Depth - 1
    BY <1>1, FS_RemoveElement
  <2>7. Cardinality(D) = Depth
    <3>1. 0 \in Int /\ Depth - 1 \in Int /\ ~(0 > Depth - 1)
      BY <1>1, <1>2
    <3>2. Cardinality(0 .. Depth - 1) = (Depth - 1) - 0 + 1
      BY <3>1, FS_Interval
    <3>. QED  BY <1>1, <3>2
  <2>8. Cardinality(D) <= Cardinality(Blocks \ {b})
    <3>. HIDE DEF f, D
    <3>. QED  BY <2>5, <2>6, FS_Injection
  <2>. QED  BY <1>1, <2>6, <2>7, <2>8
<1>. QED  BY <1>2, <1>3

\* Whether a list is right depends on its names only.
LEMMA ListKept ==
  ASSUME NEW w, NEW lv, NEW nd, ListOK(w, lv, nd),
         NEW md, \A k \in 0 .. Depth : w[k] # Null =>
                   md[w[k]].name = nd[w[k]].name /\ md[w[k]].cut = nd[w[k]].cut
  PROVE  ListOK(w, lv, md)
BY DEF ListOK

\* It stays right without its head, which may then be freed,
LEMMA ListWithoutHead ==
  ASSUME NEW w, w[0] # Null, Depth # 0, NEW lv, NEW nd, ListOK(w, lv, nd)
  PROVE  ListOK(WithoutHead(w), lv \ {w[0]}, nd)
<1>. DEFINE v == WithoutHead(w)
<1>1. Depth \in Nat /\ v[Depth] = Null
  BY DepthType DEF WithoutHead
<1>2. ASSUME NEW k \in 0 .. Depth, v[k] # Null
      PROVE  k < Depth /\ k + 1 \in 0 .. Depth /\ v[k] = w[k + 1]
  BY <1>1, <1>2 DEF WithoutHead
<1>. HIDE DEF v
<1>3. ASSUME NEW k \in 0 .. Depth, v[k] # Null PROVE v[k] \in lv \ {w[0]}
  <2>1. k + 1 \in 0 .. Depth /\ v[k] = w[k + 1] /\ 0 \in 0 .. Depth /\ k + 1 # 0
    BY <1>1, <1>2, <1>3
  <2>. QED  BY <1>3, <2>1 DEF ListOK
<1>4. ASSUME NEW j \in 0 .. Depth, NEW k \in 0 .. Depth, v[j] # Null, v[k] # Null,
             j + 1 = k + 1
      PROVE  j = k
  BY <1>1, <1>4
<1>5. ASSUME NEW j \in 0 .. Depth, NEW k \in 0 .. Depth, v[j] # Null, v[j] = v[k]
      PROVE  j = k
  <2>1. j + 1 = k + 1
    BY <1>2, <1>5 DEF ListOK
  <2>. QED  BY <1>4, <1>5, <2>1
<1>6. ASSUME NEW j \in 0 .. Depth, NEW k \in 0 .. Depth, v[j] # Null, v[k] # Null,
             nd[v[j]].name = nd[v[k]].name
      PROVE  j = k \/ nd[v[j]].cut \/ nd[v[k]].cut
  <2>1. j + 1 = k + 1 \/ nd[v[j]].cut \/ nd[v[k]].cut
    BY <1>2, <1>6 DEF ListOK
  <2>. QED  BY <1>4, <1>6, <2>1
<1>7. ListOK(v, lv \ {w[0]}, nd)
  BY <1>1, <1>3, <1>5, <1>6 DEF ListOK
<1>. QED  BY <1>7 DEF v

\* and with a head of a name that it did not have, or that was cut.
LEMMA ListWithHead ==
  ASSUME NEW w, Depth # 0, w[Depth - 1] = Null, NEW lv, NEW nd, ListOK(w, lv, nd), NEW b,
         b \notin lv, nd[b].cut \in BOOLEAN,
         \A k \in 0 .. Depth : w[k] # Null => nd[w[k]].name # nd[b].name \/ nd[b].cut
  PROVE  ListOK(WithHead(w, b), lv \cup {b}, nd)
<1>. DEFINE v == WithHead(w, b)
<1>1. Depth \in Nat /\ v[Depth] = Null
  BY DepthType DEF WithHead
<1>2. \A k \in 0 .. Depth : IF k = 0 THEN v[k] = b
                            ELSE k - 1 \in 0 .. Depth /\ v[k] = w[k - 1]
  BY <1>1 DEF WithHead
<1>. HIDE DEF v
<1>3. ASSUME NEW k \in 0 .. Depth, v[k] # Null PROVE v[k] \in lv \cup {b}
  BY <1>2, <1>3 DEF ListOK
<1>4. ASSUME NEW j \in 0 .. Depth, NEW k \in 0 .. Depth, v[j] # Null, v[j] = v[k]
      PROVE  j = k
  <2>1. \A i \in 0 .. Depth : i # 0 /\ v[i] # Null => v[i] \in lv
    BY <1>2 DEF ListOK
  <2>2. CASE j = 0 \/ k = 0
    BY <1>2, <1>4, <2>1, <2>2
  <2>3. CASE j # 0 /\ k # 0
    <3>1. j - 1 = k - 1
      BY <1>2, <1>4, <2>3 DEF ListOK
    <3>. QED  BY <1>1, <3>1
  <2>. QED  BY <2>2, <2>3
<1>5. ASSUME NEW j \in 0 .. Depth, NEW k \in 0 .. Depth, v[j] # Null, v[k] # Null,
             nd[v[j]].name = nd[v[k]].name
      PROVE  j = k \/ nd[v[j]].cut \/ nd[v[k]].cut
  <2>1. CASE j = 0
    BY <1>2, <1>5, <2>1
  <2>2. CASE k = 0
    BY <1>2, <1>5, <2>2
  <2>3. CASE j # 0 /\ k # 0
    <3>1. j - 1 = k - 1 \/ nd[v[j]].cut \/ nd[v[k]].cut
      BY <1>2, <1>5, <2>3 DEF ListOK
    <3>. QED  BY <1>1, <3>1
  <2>. QED  BY <2>1, <2>2, <2>3
<1>6. ListOK(v, lv \cup {b}, nd)
  BY <1>1, <1>3, <1>4, <1>5 DEF ListOK
<1>. QED  BY <1>6 DEF v

-----------------------------------------------------------------------------
(***************************************************************************)
(* Types.                                                                  *)
(***************************************************************************)
Nodes == [name : Names \cup {Null}, ref : Nat, next : Pointers, cut : BOOLEAN]

\* The parts of a type-correct state that the proofs below look at.
LEMMA TypeFacts ==
  ASSUME TypeOK
  PROVE  /\ head \in Pointers /\ live \subseteq Blocks /\ Null \notin Blocks
         /\ \A b \in Blocks : node[b].next \in Pointers /\ node[b].ref \in Nat
         /\ \A h \in Handles : file[h].open =>
              file[h].name \in Names /\ file[h].fs \in Blocks
<1>1. \A h \in Handles : file[h] \in {Closed} \cup [open : {TRUE}, name : Names, fs : Blocks]
  BY DEF TypeOK
<1>2. ~Closed.open
  BY DEF Closed
<1>3. \A h \in Handles : file[h].open => file[h] \in [open : {TRUE}, name : Names, fs : Blocks]
  BY <1>1, <1>2
<1>4. head \in Pointers /\ live \subseteq Blocks
  BY DEF TypeOK
<1>5. \A b \in Blocks : node[b].next \in Pointers /\ node[b].ref \in Nat
  BY DEF TypeOK
<1>. QED  BY <1>3, <1>4, <1>5, DeviceAssumption

\* The search finds the name at the place that it comes to first.
LEMMA FirstHitIsHit ==
  ASSUME TypeOK, NEW n \in Names, Hits(n) # {}
  PROVE  /\ FirstHit(n) \in Hits(n) /\ FirstHit(n) \in 0 .. Depth
         /\ Walk[FirstHit(n)] \in Blocks /\ node[Walk[FirstHit(n)]].name = n
<1>1. Hits(n) \in SUBSET Nat
  BY DepthType DEF Hits
<1>2. \E k \in Hits(n) : \A j \in Hits(n) : k <= j
  BY <1>1, Least
<1>3. FirstHit(n) \in Hits(n)
  BY <1>2 DEF FirstHit
<1>4. FirstHit(n) \in 0 .. Depth /\ Walk[FirstHit(n)] # Null
      /\ node[Walk[FirstHit(n)]].name = n
  BY <1>3 DEF Hits
<1>5. Walk[FirstHit(n)] \in Pointers
  BY <1>4, WalkIs, WalkTyped, TypeFacts
<1>. QED  BY <1>3, <1>4, <1>5 DEF Pointers

\* UINT32 subtraction of one reference.
LEMMA MinusOne ==
  ASSUME NEW r \in Nat
  PROVE  Minus(r, 1) \in Nat /\ (r > 0 => Minus(r, 1) = r - 1)
BY SizeAssumption DEF Minus

\* An open file object in the place of another record.
LEMMA OpenTyped ==
  ASSUME TypeOK, NEW h \in Handles, NEW n \in Names, NEW b \in Blocks,
         file' = [file EXCEPT ![h] = [open |-> TRUE, name |-> n, fs |-> b]]
  PROVE  file' \in [Handles -> {Closed} \cup [open : {TRUE}, name : Names, fs : Blocks]]
<1>1. [open |-> TRUE, name |-> n, fs |-> b] \in [open : {TRUE}, name : Names, fs : Blocks]
  OBVIOUS
<1>2. file \in [Handles -> {Closed} \cup [open : {TRUE}, name : Names, fs : Blocks]]
  BY DEF TypeOK
<1>. DEFINE R == [open |-> TRUE, name |-> n, fs |-> b]
            T == {Closed} \cup [open : {TRUE}, name : Names, fs : Blocks]
<1>3. R \in T /\ file \in [Handles -> T] /\ file' = [file EXCEPT ![h] = R]
  BY <1>1, <1>2
<1>. HIDE DEF R, T
<1>4. file' \in [Handles -> T]
  BY <1>3
<1>. QED  BY <1>4 DEF T

\* A closed one.
LEMMA ClosedTyped ==
  ASSUME TypeOK, NEW h \in Handles, file' = [file EXCEPT ![h] = Closed]
  PROVE  file' \in [Handles -> {Closed} \cup [open : {TRUE}, name : Names, fs : Blocks]]
<1>. DEFINE T == {Closed} \cup [open : {TRUE}, name : Names, fs : Blocks]
<1>1. Closed \in T /\ file \in [Handles -> T]
  BY DEF TypeOK
<1>. HIDE DEF T
<1>2. file' \in [Handles -> T]
  BY <1>1
<1>. QED  BY <1>2 DEF T

\* A context whose reference count has changed.
LEMMA RefTyped ==
  ASSUME TypeOK, NEW b \in Blocks, NEW r \in Nat, node' = [node EXCEPT ![b].ref = r]
  PROVE  /\ node' \in [Blocks -> Nodes]
         /\ \A c \in Blocks : /\ node'[c].name = node[c].name
                              /\ node'[c].next = node[c].next
                              /\ node'[c].cut = node[c].cut
                              /\ node'[c].ref = IF c = b THEN r ELSE node[c].ref
BY DEF TypeOK, Nodes

\* A context that has been opened in a block, whatever the block held.
LEMMA OpenedTyped ==
  ASSUME NEW c \in Contexts(Bytes)
  PROVE  Opened(c.buf) \in Contexts(Bytes)
BY SizeAssumption DEF Opened, Contexts, Index

\* The bytes that a write of an open file object brings.
LEMMA NamedData ==
  ASSUME NEW n, NEW len \in 1 .. MaxRequest
  PROVE  [k \in 1 .. len |-> n] \in Seq({n})
<1>1. len \in Nat
  BY DeviceAssumption
<1>2. [k \in 1 .. len |-> n] \in [1 .. len -> {n}]
  OBVIOUS
<1>. QED  BY <1>1, <1>2

\* Types at the beginning.
LEMMA TypeInit == Init => TypeOK
<1>. SUFFICES ASSUME Init PROVE TypeOK
  OBVIOUS
<1>1. Opened([i \in Index |-> Junk]) \in Contexts(Bytes)
  BY SizeAssumption DEF Opened, Contexts, Index, Bytes
<1>2. ring \in [Blocks -> Contexts(Bytes)]
  <2>. HIDE DEF Contexts
  <2>. QED  BY <1>1 DEF Init
<1>3. node \in [Blocks -> Nodes]
  BY DEF Init, Pointers, Nodes
<1>4. file \in [Handles -> {Closed} \cup [open : {TRUE}, name : Names, fs : Blocks]]
  <2>. HIDE DEF Closed
  <2>. QED  BY DEF Init
<1>5. head \in Pointers /\ live \subseteq Blocks /\ missed \subseteq Blocks
      /\ machine \in {"unloaded", "running", "bugcheck", "hung"}
  BY DEF Init, Pointers
<1>6. tailFreed \in BOOLEAN
  BY Zenon DEF Init
<1>7. writes \in 0 .. MaxWrites
  BY DeviceAssumption DEF Init
<1>. QED  BY <1>2, <1>3, <1>4, <1>5, <1>6, <1>7 DEF TypeOK, Nodes

\* A create keeps the types, also when the list leads to freed blocks.
LEMMA CreateTyped ==
  ASSUME TypeOK, NEW h \in Handles, NEW n \in Names, Create(h, n)
  PROVE  TypeOK'
<1>1. CASE CreateShared(h, n)
  <2>. DEFINE b == Walk[FirstHit(n)]
  <2>1. b \in Blocks
    BY <1>1, FirstHitIsHit DEF CreateShared
  <2>. HIDE DEF b
  <2>2. /\ node' = [node EXCEPT ![b].ref = node[b].ref + 1]
        /\ file' = [file EXCEPT ![h] = [open |-> TRUE, name |-> n, fs |-> b]]
        /\ UNCHANGED <<machine, head, live, ring, writes, missed, tailFreed>>
    BY <1>1 DEF CreateShared, b
  <2>3. node[b].ref + 1 \in Nat
    BY <2>1, TypeFacts
  <2>4. node' \in [Blocks -> Nodes]
    BY <2>1, <2>2, <2>3, RefTyped
  <2>5. file' \in [Handles -> {Closed} \cup [open : {TRUE}, name : Names, fs : Blocks]]
    BY <2>1, <2>2, OpenTyped
  <2>. QED  BY <2>2, <2>4, <2>5 DEF TypeOK, Nodes
<1>2. CASE CreateNew(h, n)
  <2>1. PICK b \in Blocks \ live :
          /\ live' = live \cup {b}
          /\ head' = b
          /\ node' = [node EXCEPT ![b] = Context(n, 1)]
          /\ ring' = [ring EXCEPT ![b] = Opened(ring[b].buf)]
          /\ file' = [file EXCEPT ![h] = [open |-> TRUE, name |-> n, fs |-> b]]
          /\ missed' = missed \ {b}
    BY <1>2 DEF CreateNew
  <2>2. UNCHANGED <<machine, writes, tailFreed>>
    BY <1>2 DEF CreateNew
  <2>3. node' \in [Blocks -> Nodes]
    <3>1. Context(n, 1) \in Nodes
      BY DeviceAssumption DEF Context, Nodes, TypeOK
    <3>2. node \in [Blocks -> Nodes]
      BY DEF TypeOK, Nodes
    <3>. QED  BY <2>1, <3>1, <3>2
  <2>4. file' \in [Handles -> {Closed} \cup [open : {TRUE}, name : Names, fs : Blocks]]
    BY <2>1, OpenTyped
  <2>5. ring' \in [Blocks -> Contexts(Bytes)]
    <3>1. ring \in [Blocks -> Contexts(Bytes)] /\ Opened(ring[b].buf) \in Contexts(Bytes)
      BY OpenedTyped DEF TypeOK
    <3>. QED  BY <2>1, <3>1
  <2>6. head' \in Pointers /\ live' \subseteq Blocks /\ missed' \subseteq Blocks
    BY <2>1 DEF TypeOK, Pointers
  <2>. QED  BY <2>2, <2>3, <2>4, <2>5, <2>6 DEF TypeOK, Nodes
<1>3. CASE Crash \/ CreateEndless(n)
  BY <1>3 DEF Crash, CreateEndless, TypeOK
<1>. QED  BY <1>1, <1>2, <1>3 DEF Create, CreateOutOfPool

\* So does a close.
LEMMA CloseTyped ==
  ASSUME TypeOK, NEW h \in Handles, Close(h)
  PROVE  TypeOK'
<1>. DEFINE b == file[h].fs
<1>1. b \in Blocks /\ node[b].ref \in Nat
  BY TypeFacts DEF Close
<1>2. CASE Crash
  BY <1>2 DEF Crash, TypeOK
<1>3. CASE /\ ReleaseHead(b) \/ ReleaseSecond(b) \/ ReleaseMissed(b)
           /\ file' = [file EXCEPT ![h] = Closed]
           /\ UNCHANGED <<machine, ring>>
  <2>1. file' \in [Handles -> {Closed} \cup [open : {TRUE}, name : Names, fs : Blocks]]
    BY <1>3, ClosedTyped
  <2>. HIDE DEF b
  <2>2. CASE ReleaseMissed(b)
    BY <1>1, <1>3, <2>1, <2>2 DEF ReleaseMissed, TypeOK
  <2>3. CASE ReleaseHead(b) \/ ReleaseSecond(b)
    <3>1. PICK p \in Pointers : Release(b, p)
      BY <1>1, <2>3, TypeFacts DEF ReleaseHead, ReleaseSecond, Pointers
    <3>2. node' \in [Blocks -> Nodes]
      <4>1. node' = [node EXCEPT ![b].ref = Minus(node[b].ref, 1)]
        BY <3>1 DEF Release
      <4>. QED  BY <1>1, <4>1, MinusOne, RefTyped
    <3>3. tailFreed' \in BOOLEAN
      BY <3>1 DEF Release
    <3>4. head' \in Pointers /\ live' \subseteq Blocks /\ UNCHANGED <<writes, missed>>
      BY <3>1 DEF Release, TypeOK
    <3>. QED  BY <1>3, <2>1, <3>2, <3>3, <3>4 DEF TypeOK, Nodes
  <2>. QED  BY <1>3, <2>2, <2>3
<1>. QED  BY <1>2, <1>3 DEF Close, PrintFreedName

\* A write keeps the indices of every block inside it, also of a block that has been freed.
LEMMA WriteTyped ==
  ASSUME TypeOK, NEW h \in Handles, NEW len \in 1 .. MaxRequest, WriteFile(h, len)
  PROVE  TypeOK'
<1>. DEFINE b == file[h].fs
            data == [k \in 1 .. len |-> file[h].name]
<1>1. b \in Blocks /\ file[h].name \in Names
  BY TypeFacts DEF WriteFile
<1>2. CASE Crash
  BY <1>2 DEF Crash, TypeOK
<1>3. CASE /\ ring' = [ring EXCEPT ![b] = Written(ring[b], data).ctx]
           /\ writes' = writes + 1
           /\ UNCHANGED <<machine, head, live, node, file, missed, tailFreed>>
  <2>1. ring \in [Blocks -> Contexts(Bytes)] /\ ring[b] \in Contexts(Bytes)
    BY <1>1 DEF TypeOK
  <2>2. data \in Seq({file[h].name}) /\ {file[h].name} \subseteq Bytes
    BY <1>1, NamedData DEF Bytes
  <2>. HIDE DEF b, data
  <2>3. WriteOK(Bytes, {file[h].name}, ring[b], data, Written(ring[b], data))
    BY <2>1, <2>2, WrittenOK
  <2>4. Written(ring[b], data).ctx \in Contexts(Bytes)
    BY <2>3 DEF WriteOK
  <2>5. ring' \in [Blocks -> Contexts(Bytes)]
    BY <1>3, <2>1, <2>4
  <2>6. writes' \in 0 .. MaxWrites
    BY <1>3, DeviceAssumption DEF WriteFile, TypeOK
  <2>. QED  BY <1>3, <2>5, <2>6 DEF TypeOK
<1>. QED  BY <1>2, <1>3 DEF WriteFile

\* So does a read, although it moves the wrong index of a wrapped buffer.
LEMMA ReadTyped ==
  ASSUME TypeOK, NEW h \in Handles, NEW len \in 1 .. MaxRequest, ReadFile(h, len)
  PROVE  TypeOK'
<1>. DEFINE b == file[h].fs
<1>1. b \in Blocks
  BY TypeFacts DEF ReadFile
<1>2. CASE Crash
  BY <1>2 DEF Crash, TypeOK
<1>3. CASE /\ ring' = [ring EXCEPT ![b] = ReadFrom(ring[b], len).ctx]
           /\ UNCHANGED <<machine, head, live, node, file, writes, missed, tailFreed>>
  <2>1. ring \in [Blocks -> Contexts(Bytes)] /\ ring[b] \in Contexts(Bytes) /\ len \in Nat
    BY <1>1, DeviceAssumption DEF TypeOK
  <2>. HIDE DEF b
  <2>2. ReadOK(Bytes, ring[b], ReadFrom(ring[b], len))
    BY <2>1, ReadFromOK
  <2>3. ReadFrom(ring[b], len).ctx \in Contexts(Bytes)
    BY <2>2 DEF ReadOK
  <2>4. ring' \in [Blocks -> Contexts(Bytes)]
    BY <1>3, <2>1, <2>3
  <2>. QED  BY <1>3, <2>4 DEF TypeOK
<1>. QED  BY <1>2, <1>3 DEF ReadFile

\* In every block, freed and used again or not, both indices stay inside pcCircularBuffer, and an
\* open file object never has a null FsContext.
THEOREM TypeCorrect == Spec => []TypeOK
<1>1. TypeOK /\ [Next]_vars => TypeOK'
  <2>. SUFFICES ASSUME TypeOK, [Next]_vars PROVE TypeOK'
    OBVIOUS
  <2>1. CASE Load \/ Unload
    BY <2>1 DEF Load, Unload, TypeOK, Pointers
  <2>2. CASE UNCHANGED vars
    BY <2>2 DEF vars, TypeOK
  <2>. QED  BY <2>1, <2>2, CreateTyped, CloseTyped, WriteTyped, ReadTyped DEF Next
<1>. QED  BY <1>1, TypeInit, PTL DEF Spec

-----------------------------------------------------------------------------
(***************************************************************************)
(* The inductive invariant.                                                *)
(***************************************************************************)
\* driverUnload runs when no file object is left.
NoneUnloaded == machine = "unloaded" => \A h \in Handles : ~file[h].open

\* The file objects of a context can be counted.
FiniteOpens == \A b \in Blocks : IsFiniteSet(Opens(b))

\* The search always comes to an end, over allocated contexts and over each name once.
ListRight == machine # "hung" /\ ListOK(Walk, live, node)

\* An open file object is on an allocated context of its name, and that on the list.
FilesRight ==
  \A h \in Handles : file[h].open =>
    /\ file[h].fs \in live
    /\ node[file[h].fs].name = Cut[file[h].name]
    /\ \E k \in 0 .. Depth : Walk[k] = file[h].fs

CountsRight ==
  \A b \in live :
    /\ node[b].ref > 0
    /\ Cardinality(Opens(b)) <= node[b].ref
    /\ b \notin missed => node[b].ref = Cardinality(Opens(b))

\* The name of a context has been cut, and its buffer holds bytes of its own wherever a read
\* may come to.
PipesRight ==
  \A b \in live : Cut[node[b].name] = node[b].name /\ Filled(ring[b], Alike(node[b].name))

DeviceRight == ListRight /\ FilesRight /\ CountsRight /\ PipesRight

DInv == TypeOK /\ NoneUnloaded /\ FiniteOpens /\ (~tailFreed => DeviceRight)

\* Opening a file object adds it to those of its context, and to no other.
LEMMA OpensMore ==
  ASSUME FiniteOpens, NEW h \in Handles, ~file[h].open, NEW b \in Blocks,
         file'[h].open, file'[h].fs = b, \A g \in Handles : g # h => file'[g] = file[g]
  PROVE  /\ FiniteOpens'
         /\ \A c \in Blocks : Opens(c)' = IF c = b THEN Opens(c) \cup {h} ELSE Opens(c)
         /\ Cardinality(Opens(b)') = Cardinality(Opens(b)) + 1
<1>1. h \notin Opens(b)
  BY DEF Opens
<1>2. \A c \in Blocks : Opens(c)' = IF c = b THEN Opens(c) \cup {h} ELSE Opens(c)
  BY DEF Opens
<1>3. Cardinality(Opens(b)') = Cardinality(Opens(b)) + 1
  BY <1>1, <1>2, FS_AddElement DEF FiniteOpens
<1>4. FiniteOpens'
  BY <1>2, FS_AddElement DEF FiniteOpens
<1>. QED  BY <1>2, <1>3, <1>4

\* Closing it takes it away again.
LEMMA OpensFewer ==
  ASSUME TypeOK, FiniteOpens, NEW h \in Handles, file[h].open, NEW b \in Blocks, file[h].fs = b,
         file' = [file EXCEPT ![h] = Closed]
  PROVE  /\ FiniteOpens'
         /\ h \in Opens(b)
         /\ \A c \in Blocks : Opens(c)' = IF c = b THEN Opens(c) \ {h} ELSE Opens(c)
         /\ Cardinality(Opens(b)) \in Nat /\ Cardinality(Opens(b)) > 0
         /\ Cardinality(Opens(b)') = Cardinality(Opens(b)) - 1
<1>1. /\ \A g \in Handles : g # h => file'[g] = file[g]
      /\ ~file'[h].open
  BY DEF TypeOK, Closed
<1>2. h \in Opens(b)
  BY DEF Opens
<1>3. \A c \in Blocks : Opens(c)' = IF c = b THEN Opens(c) \ {h} ELSE Opens(c)
  BY <1>1 DEF Opens
<1>4. IsFiniteSet(Opens(b)) /\ Cardinality(Opens(b)) \in Nat
  BY FS_CardinalityType DEF FiniteOpens
<1>5. Cardinality(Opens(b)) > 0
  BY <1>2, <1>4, FS_EmptySet
<1>6. Cardinality(Opens(b)') = Cardinality(Opens(b)) - 1
  BY <1>2, <1>3, <1>4, FS_RemoveElement
<1>7. FiniteOpens'
  BY <1>3, FS_RemoveElement DEF FiniteOpens
<1>. QED  BY <1>2, <1>3, <1>4, <1>5, <1>6, <1>7

\* Counting whatever is not touched gives what it gave.
LEMMA OpensSame ==
  ASSUME UNCHANGED file
  PROVE  (FiniteOpens => FiniteOpens') /\ \A b \in Blocks : Opens(b)' = Opens(b)
BY DEF FiniteOpens, Opens

-----------------------------------------------------------------------------
(***************************************************************************)
(* The steps, until a context behind the head is freed.                    *)
(***************************************************************************)
\* What is a walk in the state after a step is Walk there.
LEMMA WalkNext ==
  ASSUME NEW w, IsWalk(w, head', node')
  PROVE  Walk' = w
BY WalkIsNext, WalkUnique

\* A step that leaves the list, the contexts and the file objects alone.
LEMMA QuietRight ==
  ASSUME DeviceRight, UNCHANGED <<head, live, node, ring, file, missed>>, machine' # "hung"
  PROVE  DeviceRight'
<1>1. Walk' = Walk
  BY WalkIs, WalkNext
<1>. QED
  BY <1>1, OpensSame
  DEF DeviceRight, ListRight, FilesRight, CountsRight, PipesRight, Opens

\* DriverEntry makes a new, empty list, whatever contexts an earlier load has left behind.
LEMMA LoadRight ==
  ASSUME NoneUnloaded, DeviceRight, Load
  PROVE  DeviceRight'
<1>. DEFINE w == [k \in 0 .. Depth |-> Null]
<1>1. head' = Null /\ UNCHANGED <<live, node, ring, file, missed>> /\ machine' = "running"
  BY DEF Load
<1>2. 0 \in 0 .. Depth /\ Depth \in 0 .. Depth /\ \A k \in 0 .. Depth : k # 0 => k - 1 \in 0 .. Depth
  BY DepthType
<1>3. /\ w = [k \in 0 .. Depth |-> w[k]] /\ w[0] = Null
      /\ \A k \in 0 .. Depth : k # 0 => w[k] = After(w[k - 1], node')
  BY <1>2 DEF After
<1>4. \A k \in 0 .. Depth : w[k] = Null
  OBVIOUS
<1>. HIDE DEF w
<1>5. Walk' = w
  <2>1. IsWalk(w, head', node')
    BY <1>1, <1>3, WalkMade
  <2>. QED  BY <2>1, WalkNext
<1>6. ListRight'
  BY <1>1, <1>2, <1>4, <1>5 DEF ListRight, ListOK
<1>7. FilesRight'
  BY <1>1 DEF FilesRight, NoneUnloaded, Load
<1>8. CountsRight' /\ PipesRight'
  BY <1>1 DEF DeviceRight, CountsRight, PipesRight, Opens
<1>. QED  BY <1>6, <1>7, <1>8 DEF DeviceRight

\* A reference count that changes does not change the list.
LEMMA RefKeepsList ==
  ASSUME TypeOK, ListRight, head' = head, live' = live, machine' # "hung",
         \A b \in Blocks : /\ node'[b].name = node[b].name
                           /\ node'[b].next = node[b].next
                           /\ node'[b].cut = node[b].cut
  PROVE  ListRight' /\ Walk' = Walk
<1>1. \A k \in 0 .. Depth : Walk[k] # Null => Walk[k] \in Blocks
  BY TypeFacts DEF ListRight, ListOK
<1>2. Walk' = Walk
  <2>1. \A k \in 0 .. Depth : Walk[k] # Null => node'[Walk[k]].next = node[Walk[k]].next
    BY <1>1
  <2>2. IsWalk(Walk, head, node')
    BY <2>1, WalkIs, WalkKept
  <2>. QED  BY <2>2, WalkNext
<1>3. ListOK(Walk, live, node')
  <2>1. \A k \in 0 .. Depth : Walk[k] # Null =>
          node'[Walk[k]].name = node[Walk[k]].name /\ node'[Walk[k]].cut = node[Walk[k]].cut
    BY <1>1
  <2>. QED  BY <2>1, ListKept DEF ListRight
<1>. QED  BY <1>2, <1>3 DEF ListRight

\* One more file object on a context that the search has found.
LEMMA CreateSharedRight ==
  ASSUME TypeOK, FiniteOpens, DeviceRight, NEW h \in Handles, ~file[h].open, NEW n \in Names,
         machine = "running", CreateShared(h, n)
  PROVE  DeviceRight' /\ FiniteOpens'
<1>1. PICK i \in 0 .. Depth, b \in Blocks : i = FirstHit(n) /\ b = Walk[i] /\ node[b].name = n
  BY FirstHitIsHit DEF CreateShared
<1>2. /\ node' = [node EXCEPT ![b].ref = node[b].ref + 1]
      /\ file' = [file EXCEPT ![h] = [open |-> TRUE, name |-> n, fs |-> b]]
      /\ UNCHANGED <<machine, head, live, ring, missed>>
  BY <1>1 DEF CreateShared
<1>3. b \in live
  BY <1>1, TypeFacts DEF DeviceRight, ListRight, ListOK
<1>5. node[b].ref \in Nat /\ node[b].ref + 1 \in Nat
  BY <1>1, TypeFacts
<1>6. \A c \in Blocks : /\ node'[c].name = node[c].name
                        /\ node'[c].next = node[c].next
                        /\ node'[c].cut = node[c].cut
                        /\ node'[c].ref = IF c = b THEN node[b].ref + 1 ELSE node[c].ref
  BY <1>2, <1>5 DEF TypeOK
<1>7. ListRight' /\ Walk' = Walk
  BY <1>2, <1>6, RefKeepsList DEF DeviceRight
<1>8. /\ FiniteOpens'
      /\ \A c \in Blocks : Opens(c)' = IF c = b THEN Opens(c) \cup {h} ELSE Opens(c)
      /\ Cardinality(Opens(b)') = Cardinality(Opens(b)) + 1
  <2>1. /\ file'[h].open /\ file'[h].fs = b
        /\ \A g \in Handles : g # h => file'[g] = file[g]
    BY <1>2 DEF TypeOK
  <2>. QED  BY <1>1, <2>1, OpensMore
<1>9. FilesRight'
  <2>. SUFFICES ASSUME NEW g \in Handles, file'[g].open
                PROVE  /\ file'[g].fs \in live
                       /\ node'[file'[g].fs].name = Cut[file'[g].name]
                       /\ \E k \in 0 .. Depth : Walk[k] = file'[g].fs
    BY <1>2, <1>7 DEF FilesRight
  <2>1. CASE g = h
    <3>1. file'[h].fs = b /\ file'[h].name = n
      BY <1>2 DEF TypeOK
    <3>2. Cut[n] = n
      BY <1>1, <1>3 DEF DeviceRight, PipesRight
    <3>. QED  BY <1>1, <1>3, <1>6, <2>1, <3>1, <3>2
  <2>2. CASE g # h
    <3>1. file'[g] = file[g]
      BY <1>2, <2>2 DEF TypeOK
    <3>2. file[g].fs \in Blocks
      BY <3>1, TypeFacts
    <3>. QED  BY <1>6, <3>1, <3>2 DEF DeviceRight, FilesRight
  <2>. QED  BY <2>1, <2>2
<1>10. CountsRight'
  <2>. SUFFICES ASSUME NEW c \in live
                PROVE  /\ node'[c].ref > 0
                       /\ Cardinality(Opens(c)') <= node'[c].ref
                       /\ c \notin missed => node'[c].ref = Cardinality(Opens(c)')
    BY <1>2 DEF CountsRight
  <2>1. c \in Blocks
    BY TypeFacts
  <2>2. /\ node[c].ref > 0
        /\ Cardinality(Opens(c)) <= node[c].ref
        /\ c \notin missed => node[c].ref = Cardinality(Opens(c))
    BY DEF DeviceRight, CountsRight
  <2>3. Cardinality(Opens(c)) \in Nat
    BY <2>1, FS_CardinalityType DEF FiniteOpens
  <2>4. CASE c = b
    <3>1. node'[c].ref = node[c].ref + 1 /\ Cardinality(Opens(c)') = Cardinality(Opens(c)) + 1
      BY <1>6, <1>8, <2>1, <2>4
    <3>2. node[c].ref \in Nat
      BY <1>5, <2>4
    <3>. QED  BY <2>2, <2>3, <3>1, <3>2
  <2>5. CASE c # b
    BY <1>6, <1>8, <2>1, <2>2, <2>5
  <2>. QED  BY <2>4, <2>5
<1>11. PipesRight'
  BY <1>2, <1>6, TypeFacts DEF DeviceRight, PipesRight
<1>. QED  BY <1>7, <1>8, <1>9, <1>10, <1>11 DEF DeviceRight

\* A context of a new name, in a block that may hold what another pipe has left.
LEMMA CreateNewRight ==
  ASSUME TypeOK, FiniteOpens, DeviceRight, NEW h \in Handles, ~file[h].open, NEW n \in Names,
         machine = "running", CreateNew(h, n)
  PROVE  DeviceRight' /\ FiniteOpens'
<1>1. PICK b \in Blocks \ live :
        /\ live' = live \cup {b}
        /\ head' = b
        /\ node' = [node EXCEPT ![b] = Context(n, 1)]
        /\ ring' = [ring EXCEPT ![b] = Opened(ring[b].buf)]
        /\ file' = [file EXCEPT ![h] = [open |-> TRUE, name |-> n, fs |-> b]]
        /\ missed' = missed \ {b}
  BY DEF CreateNew
<1>2. machine' = "running"
  BY DEF CreateNew
<1>3. /\ node'[b].name = Cut[n] /\ node'[b].ref = 1 /\ node'[b].next = head
      /\ node'[b].cut = (Cut[n] # n)
      /\ \A c \in Blocks : c # b => node'[c] = node[c]
  BY <1>1 DEF TypeOK, Context
<1>4. /\ file'[h].open /\ file'[h].fs = b /\ file'[h].name = n
      /\ \A g \in Handles : g # h => file'[g] = file[g]
  BY <1>1 DEF TypeOK
<1>5. /\ ring'[b] = Opened(ring[b].buf)
      /\ \A c \in Blocks : c # b => ring'[c] = ring[c]
  BY <1>1 DEF TypeOK
<1>6. /\ FiniteOpens'
      /\ \A c \in Blocks : Opens(c)' = IF c = b THEN Opens(c) \cup {h} ELSE Opens(c)
      /\ Cardinality(Opens(b)') = Cardinality(Opens(b)) + 1
  BY <1>4, OpensMore
<1>7. ListOK(Walk, live, node) /\ IsWalk(Walk, head, node) /\ Null \notin Blocks
  BY WalkIs, TypeFacts DEF DeviceRight, ListRight
<1>8. /\ Depth \in Nat /\ Depth # 0 /\ Walk[Depth - 1] = Null /\ Walk[Depth] = Null
  BY <1>7, RoomForOne, DepthType, TypeFacts DEF ListOK
<1>9. \A k \in 0 .. Depth : Walk[k] # Null =>
        /\ Walk[k] \in live /\ Walk[k] \in Blocks /\ Walk[k] # b
        /\ node'[Walk[k]] = node[Walk[k]]
        /\ node'[Walk[k]].name # node'[b].name \/ node'[b].cut
  <2>1. Hits(n) = {}
    BY DEF CreateNew
  <2>. QED  BY <1>3, <1>7, <2>1, TypeFacts DEF ListOK, Hits
<1>10. Walk' = WithHead(Walk, b)
  <2>1. IsWalk(WithHead(Walk, b), b, node')
    BY <1>3, <1>7, <1>9, WalkWithHead
  <2>. QED  BY <1>1, <2>1, WalkNext
<1>11. ListRight'
  <2>1. ListOK(Walk, live, node')
    BY <1>7, <1>9, ListKept
  <2>2. node'[b].cut \in BOOLEAN
    BY <1>3, Zenon
  <2>3. ListOK(WithHead(Walk, b), live \cup {b}, node')
    <3>1. \A k \in 0 .. Depth : Walk[k] # Null =>
            node'[Walk[k]].name # node'[b].name \/ node'[b].cut
      BY <1>9
    <3>2. b \notin live
      OBVIOUS
    <3>. QED  BY <1>8, <2>1, <2>2, <3>1, <3>2, ListWithHead, Zenon
  <2>. QED  BY <1>1, <1>2, <1>10, <2>3 DEF ListRight
<1>12. FilesRight'
  <2>. SUFFICES ASSUME NEW g \in Handles, file'[g].open
                PROVE  /\ file'[g].fs \in live'
                       /\ node'[file'[g].fs].name = Cut[file'[g].name]
                       /\ \E k \in 0 .. Depth : Walk'[k] = file'[g].fs
    BY DEF FilesRight
  <2>1. CASE g = h
    <3>1. 0 \in 0 .. Depth /\ Walk'[0] = b
      BY <1>8, <1>10 DEF WithHead
    <3>. QED  BY <1>1, <1>3, <1>4, <2>1, <3>1
  <2>2. CASE g # h
    <3>1. file'[g] = file[g] /\ file[g].open
      BY <1>4, <2>2
    <3>2. /\ file[g].fs \in live /\ file[g].fs \in Blocks /\ file[g].fs # b
          /\ node[file[g].fs].name = Cut[file[g].name]
      BY <3>1, TypeFacts DEF DeviceRight, FilesRight
    <3>3. PICK k \in 0 .. Depth : Walk[k] = file[g].fs
      BY <3>1 DEF DeviceRight, FilesRight
    <3>4. k # Depth
      BY <1>7, <1>8, <3>2, <3>3
    <3>5. k + 1 \in 0 .. Depth /\ k + 1 # 0 /\ (k + 1) - 1 = k
      BY <1>8, <3>4
    <3>6. Walk'[k + 1] = Walk[k]
      BY <1>10, <3>5 DEF WithHead
    <3>. QED  BY <1>1, <1>3, <3>1, <3>2, <3>3, <3>5, <3>6
  <2>. QED  BY <2>1, <2>2
<1>13. CountsRight'
  <2>. SUFFICES ASSUME NEW c \in live'
                PROVE  /\ node'[c].ref > 0
                       /\ Cardinality(Opens(c)') <= node'[c].ref
                       /\ c \notin missed' => node'[c].ref = Cardinality(Opens(c)')
    BY DEF CountsRight
  <2>1. CASE c = b
    <3>1. Opens(b) = {}
      BY DEF Opens, DeviceRight, FilesRight
    <3>2. Cardinality(Opens(b)') = 1
      BY <1>6, <3>1, FS_EmptySet
    <3>. QED  BY <1>1, <1>3, <2>1, <3>2
  <2>2. CASE c # b
    <3>1. c \in live /\ c \in Blocks
      BY <1>1, <2>2, TypeFacts
    <3>2. Opens(c)' = Opens(c) /\ node'[c] = node[c] /\ (c \in missed' <=> c \in missed)
      BY <1>1, <1>3, <1>6, <2>2, <3>1
    <3>. QED  BY <3>1, <3>2 DEF DeviceRight, CountsRight
  <2>. QED  BY <2>1, <2>2
<1>14. PipesRight'
  <2>. SUFFICES ASSUME NEW c \in live'
                PROVE  /\ Cut[node'[c].name] = node'[c].name
                       /\ Filled(ring'[c], Alike(node'[c].name))
    BY DEF PipesRight, Alike
  <2>1. CASE c = b
    BY <1>3, <1>5, <2>1, OpenedFilled, DeviceAssumption
  <2>2. CASE c # b
    <3>1. c \in live /\ c \in Blocks
      BY <1>1, <2>2, TypeFacts
    <3>. QED  BY <1>3, <1>5, <2>2, <3>1 DEF DeviceRight, PipesRight
  <2>. QED  BY <2>1, <2>2
<1>. QED  BY <1>6, <1>11, <1>12, <1>13, <1>14 DEF DeviceRight

\* What a close does to the counts, whichever place the list has the context at.
LEMMA ReleaseCounts ==
  ASSUME TypeOK, FiniteOpens, DeviceRight, NEW h \in Handles, file[h].open,
         NEW b \in Blocks, file[h].fs = b, file' = [file EXCEPT ![h] = Closed]
  PROVE  /\ FiniteOpens'
         /\ ~file'[h].open
         /\ \A g \in Handles : g # h => file'[g] = file[g]
         /\ \A c \in Blocks : c # b => Opens(c)' = Opens(c)
         /\ Cardinality(Opens(b)') \in Nat
         /\ b \in live
         /\ node[b].ref \in Nat /\ node[b].ref > 0 /\ Minus(node[b].ref, 1) = node[b].ref - 1
         /\ Cardinality(Opens(b)') <= node[b].ref - 1
         /\ b \notin missed => node[b].ref - 1 = Cardinality(Opens(b)')
<1>1. /\ FiniteOpens'
      /\ \A c \in Blocks : Opens(c)' = IF c = b THEN Opens(c) \ {h} ELSE Opens(c)
      /\ Cardinality(Opens(b)) \in Nat /\ Cardinality(Opens(b)) > 0
      /\ Cardinality(Opens(b)') = Cardinality(Opens(b)) - 1
  BY OpensFewer
<1>2. /\ ~file'[h].open
      /\ \A g \in Handles : g # h => file'[g] = file[g]
  BY DEF TypeOK, Closed
<1>3. b \in live
  BY DEF DeviceRight, FilesRight
<1>4. /\ node[b].ref \in Nat /\ node[b].ref > 0
      /\ Cardinality(Opens(b)) <= node[b].ref
      /\ b \notin missed => node[b].ref = Cardinality(Opens(b))
  BY <1>3, TypeFacts DEF DeviceRight, CountsRight
<1>5. Minus(node[b].ref, 1) = node[b].ref - 1
  BY <1>4, MinusOne
<1>. QED  BY <1>1, <1>2, <1>3, <1>4, <1>5

\* A close that leaves the context to other file objects.
LEMMA ReleaseRight ==
  ASSUME TypeOK, FiniteOpens, DeviceRight, NEW h \in Handles, file[h].open,
         NEW b \in Blocks, file[h].fs = b, file' = [file EXCEPT ![h] = Closed],
         node' = [node EXCEPT ![b].ref = Minus(node[b].ref, 1)],
         Minus(node[b].ref, 1) # 0,
         UNCHANGED <<machine, head, live, ring, missed>>
  PROVE  DeviceRight'
<1>1. /\ ~file'[h].open
      /\ \A g \in Handles : g # h => file'[g] = file[g]
      /\ \A c \in Blocks : c # b => Opens(c)' = Opens(c)
      /\ b \in live
      /\ node[b].ref \in Nat /\ node[b].ref > 0 /\ Minus(node[b].ref, 1) = node[b].ref - 1
      /\ Cardinality(Opens(b)') <= node[b].ref - 1
      /\ b \notin missed => node[b].ref - 1 = Cardinality(Opens(b)')
  BY ReleaseCounts
<1>2. \A c \in Blocks : /\ node'[c].name = node[c].name
                        /\ node'[c].next = node[c].next
                        /\ node'[c].cut = node[c].cut
                        /\ node'[c].ref = IF c = b THEN node[b].ref - 1 ELSE node[c].ref
  BY <1>1 DEF TypeOK
<1>3. ListRight' /\ Walk' = Walk
  BY <1>2, RefKeepsList DEF DeviceRight, ListRight
<1>4. FilesRight'
  BY <1>1, <1>2, <1>3, TypeFacts DEF DeviceRight, FilesRight
<1>5. CountsRight'
  <2>. SUFFICES ASSUME NEW c \in live
                PROVE  /\ node'[c].ref > 0
                       /\ Cardinality(Opens(c)') <= node'[c].ref
                       /\ c \notin missed => node'[c].ref = Cardinality(Opens(c)')
    BY DEF CountsRight
  <2>1. c \in Blocks
    BY TypeFacts
  <2>2. CASE c = b
    BY <1>1, <1>2, <2>1, <2>2
  <2>3. CASE c # b
    BY <1>1, <1>2, <2>1, <2>3 DEF DeviceRight, CountsRight
  <2>. QED  BY <2>2, <2>3
<1>6. PipesRight'
  BY <1>2, TypeFacts DEF DeviceRight, PipesRight
<1>. QED  BY <1>3, <1>4, <1>5, <1>6 DEF DeviceRight

\* The last close of the context at the head: no file object is left on it, not even one that
\* the counts have lost, and the rest of the list is right.
LEMMA FreeHeadRight ==
  ASSUME TypeOK, FiniteOpens, DeviceRight, NEW h \in Handles, file[h].open,
         NEW b \in Blocks, file[h].fs = b, file' = [file EXCEPT ![h] = Closed],
         node' = [node EXCEPT ![b].ref = Minus(node[b].ref, 1)],
         Minus(node[b].ref, 1) = 0,
         head = b, head' = node[b].next, live' = live \ {b},
         UNCHANGED <<machine, ring, missed>>
  PROVE  DeviceRight'
<1>1. /\ ~file'[h].open
      /\ \A g \in Handles : g # h => file'[g] = file[g]
      /\ \A c \in Blocks : c # b => Opens(c)' = Opens(c)
      /\ FiniteOpens'
      /\ Cardinality(Opens(b)') \in Nat
      /\ node[b].ref \in Nat /\ Minus(node[b].ref, 1) = node[b].ref - 1
      /\ Cardinality(Opens(b)') <= node[b].ref - 1
      /\ b \notin missed => node[b].ref - 1 = Cardinality(Opens(b)')
  BY ReleaseCounts
<1>2. \A c \in Blocks : /\ node'[c].name = node[c].name
                        /\ node'[c].next = node[c].next
                        /\ node'[c].cut = node[c].cut
                        /\ c # b => node'[c] = node[c]
  BY <1>1 DEF TypeOK
<1>3. Opens(b)' = {}
  BY <1>1, FS_EmptySet DEF FiniteOpens
<1>4. \A g \in Handles : file'[g].open => file'[g] = file[g] /\ file[g].fs # b
  BY <1>1, <1>3 DEF Opens
<1>5. /\ ListOK(Walk, live, node) /\ IsWalk(Walk, head, node) /\ Walk[0] = b /\ b # Null
      /\ Null \notin Blocks /\ Walk[Depth] = Null
  BY WalkIs, WalkSteps, TypeFacts DEF DeviceRight, ListRight, ListOK
<1>6. IsWalk(WithoutHead(Walk), node[b].next, node) /\ Depth # 0
  BY <1>5, WalkWithoutHead
<1>7. \A k \in 0 .. Depth : Walk[k] # Null => Walk[k] \in Blocks
  BY <1>5, TypeFacts DEF ListOK
<1>8. \A k \in 0 .. Depth : WithoutHead(Walk)[k] # Null => WithoutHead(Walk)[k] \in Blocks
  BY <1>7, DepthType DEF WithoutHead
<1>9. Walk' = WithoutHead(Walk)
  <2>1. \A k \in 0 .. Depth : WithoutHead(Walk)[k] # Null =>
          node'[WithoutHead(Walk)[k]].next = node[WithoutHead(Walk)[k]].next
    BY <1>2, <1>8
  <2>2. IsWalk(WithoutHead(Walk), node[b].next, node')
    BY <1>6, <2>1, WalkKept
  <2>. QED  BY <2>2, WalkNext
<1>10. ListRight'
  <2>1. ListOK(WithoutHead(Walk), live \ {b}, node)
    BY <1>5, <1>6, ListWithoutHead
  <2>2. \A k \in 0 .. Depth : WithoutHead(Walk)[k] # Null =>
          /\ node'[WithoutHead(Walk)[k]].name = node[WithoutHead(Walk)[k]].name
          /\ node'[WithoutHead(Walk)[k]].cut = node[WithoutHead(Walk)[k]].cut
    BY <1>2, <1>8
  <2>3. ListOK(WithoutHead(Walk), live \ {b}, node')
    BY <2>1, <2>2, ListKept
  <2>. QED  BY <1>9, <2>3 DEF DeviceRight, ListRight
<1>11. FilesRight'
  <2>. SUFFICES ASSUME NEW g \in Handles, file'[g].open
                PROVE  /\ file'[g].fs \in live'
                       /\ node'[file'[g].fs].name = Cut[file'[g].name]
                       /\ \E k \in 0 .. Depth : Walk'[k] = file'[g].fs
    BY DEF FilesRight
  <2>1. file'[g] = file[g] /\ file[g].open /\ file[g].fs # b /\ file[g].fs \in Blocks
    BY <1>4, TypeFacts
  <2>2. file[g].fs \in live /\ node[file[g].fs].name = Cut[file[g].name]
    BY <2>1 DEF DeviceRight, FilesRight
  <2>3. PICK k \in 0 .. Depth : Walk[k] = file[g].fs
    BY <2>1 DEF DeviceRight, FilesRight
  <2>4. k # 0 /\ k - 1 \in 0 .. Depth /\ k - 1 < Depth /\ (k - 1) + 1 = k
    BY <1>5, <2>1, <2>3, DepthType
  <2>5. Walk'[k - 1] = file[g].fs
    BY <1>9, <2>3, <2>4 DEF WithoutHead
  <2>. QED  BY <1>2, <2>1, <2>2, <2>4, <2>5
<1>12. CountsRight'
  <2>. SUFFICES ASSUME NEW c \in live, c # b
                PROVE  /\ node'[c].ref > 0
                       /\ Cardinality(Opens(c)') <= node'[c].ref
                       /\ c \notin missed => node'[c].ref = Cardinality(Opens(c)')
    BY DEF CountsRight
  <2>. QED  BY <1>1, <1>2, TypeFacts DEF DeviceRight, CountsRight
<1>13. PipesRight'
  BY <1>2, TypeFacts DEF DeviceRight, PipesRight
<1>. QED  BY <1>10, <1>11, <1>12, <1>13 DEF DeviceRight

\* A close that does not find the context: its count stays.
LEMMA MissRight ==
  ASSUME TypeOK, FiniteOpens, DeviceRight, NEW h \in Handles, file[h].open,
         NEW b \in Blocks, file[h].fs = b, file' = [file EXCEPT ![h] = Closed],
         missed' = missed \cup {b}, UNCHANGED <<machine, head, live, node, ring>>
  PROVE  DeviceRight'
<1>1. /\ ~file'[h].open
      /\ \A g \in Handles : g # h => file'[g] = file[g]
      /\ \A c \in Blocks : c # b => Opens(c)' = Opens(c)
      /\ Cardinality(Opens(b)') \in Nat
      /\ node[b].ref \in Nat /\ node[b].ref > 0
      /\ Cardinality(Opens(b)') <= node[b].ref - 1
      /\ b \notin missed => node[b].ref - 1 = Cardinality(Opens(b)')
  BY ReleaseCounts
<1>2. ListRight' /\ Walk' = Walk
  BY RefKeepsList DEF DeviceRight, ListRight
<1>3. FilesRight'
  BY <1>1, <1>2 DEF DeviceRight, FilesRight
<1>4. CountsRight'
  <2>. SUFFICES ASSUME NEW c \in live
                PROVE  /\ node[c].ref > 0
                       /\ Cardinality(Opens(c)') <= node[c].ref
                       /\ c \notin missed' => node[c].ref = Cardinality(Opens(c)')
    BY DEF CountsRight
  <2>1. CASE c = b
    BY <1>1, <2>1
  <2>2. CASE c # b
    BY <1>1, <2>2, TypeFacts DEF DeviceRight, CountsRight
  <2>. QED  BY <2>1, <2>2
<1>5. PipesRight'
  BY DEF DeviceRight, PipesRight
<1>. QED  BY <1>2, <1>3, <1>4, <1>5 DEF DeviceRight

\* Every outcome of a close, but for the free of a context behind the head.
LEMMA CloseRight ==
  ASSUME TypeOK, FiniteOpens, ~tailFreed => DeviceRight, NEW h \in Handles, Close(h)
  PROVE  FiniteOpens' /\ (~tailFreed' => DeviceRight')
<1>1. PICK b \in Blocks : b = file[h].fs
  BY TypeFacts DEF Close
<1>2. file[h].open
  BY DEF Close
<1>3. CASE Crash
  <2>1. UNCHANGED <<head, live, node, ring, file, missed, tailFreed>> /\ machine' # "hung"
    BY <1>3 DEF Crash
  <2>. QED  BY <2>1, QuietRight, OpensSame
<1>4. CASE /\ ReleaseHead(b) \/ ReleaseSecond(b) \/ ReleaseMissed(b)
           /\ file' = [file EXCEPT ![h] = Closed]
           /\ UNCHANGED <<machine, ring>>
  <2>1. FiniteOpens'
    BY <1>1, <1>2, <1>4, OpensFewer
  <2>2. ASSUME ~tailFreed' PROVE DeviceRight'
    <3>1. ~tailFreed
      BY <1>4, <2>2 DEF ReleaseHead, ReleaseSecond, ReleaseMissed, Release
    <3>2. DeviceRight
      BY <3>1
    <3>3. CASE ReleaseMissed(b)
      <4>1. missed' = missed \cup {b} /\ UNCHANGED <<head, live, node>>
        BY <3>3 DEF ReleaseMissed
      <4>. QED  BY <1>1, <1>2, <1>4, <3>2, <4>1, MissRight
    <3>4. CASE ReleaseHead(b) \/ ReleaseSecond(b)
      <4>1. /\ node' = [node EXCEPT ![b].ref = Minus(node[b].ref, 1)]
            /\ UNCHANGED missed
        BY <3>4 DEF ReleaseHead, ReleaseSecond, Release
      <4>2. CASE Minus(node[b].ref, 1) = 0
        <5>1. head = b
          BY <2>2, <3>4, <4>2 DEF ReleaseHead, ReleaseSecond, Release
        <5>2. head' = node[b].next /\ live' = live \ {b}
          BY <3>4, <4>2, <5>1 DEF ReleaseHead, ReleaseSecond, Release
        <5>. QED  BY <1>1, <1>2, <1>4, <3>2, <4>1, <4>2, <5>1, <5>2, FreeHeadRight
      <4>3. CASE Minus(node[b].ref, 1) # 0
        <5>1. UNCHANGED <<head, live>>
          BY <3>4, <4>3 DEF ReleaseHead, ReleaseSecond, Release
        <5>. QED  BY <1>1, <1>2, <1>4, <3>2, <4>1, <4>3, <5>1, ReleaseRight
      <4>. QED  BY <4>2, <4>3
    <3>. QED  BY <1>4, <3>3, <3>4
  <2>. QED  BY <2>1, <2>2
<1>. QED  BY <1>1, <1>3, <1>4 DEF Close, PrintFreedName

\* A request that changes the buffer of one context, and leaves it right.
LEMMA RingRight ==
  ASSUME TypeOK, DeviceRight, NEW b \in Blocks, NEW c,
         ring' = [ring EXCEPT ![b] = c], Filled(c, Alike(node[b].name)),
         UNCHANGED <<machine, head, live, node, file, missed>>
  PROVE  DeviceRight'
<1>1. Walk' = Walk
  BY WalkIs, WalkNext
<1>2. \A d \in Blocks : ring'[d] = IF d = b THEN c ELSE ring[d]
  BY DEF TypeOK
<1>3. PipesRight'
  <2>. SUFFICES ASSUME NEW d \in live
                PROVE  /\ Cut[node[d].name] = node[d].name
                       /\ Filled(ring'[d], Alike(node[d].name))
    BY DEF PipesRight, Alike
  <2>1. Cut[node[d].name] = node[d].name /\ Filled(ring[d], Alike(node[d].name))
    BY DEF DeviceRight, PipesRight
  <2>2. d \in Blocks
    BY TypeFacts
  <2>. QED  BY <1>2, <2>1, <2>2
<1>. QED
  BY <1>1, <1>3 DEF DeviceRight, ListRight, FilesRight, CountsRight, Opens

\* A write puts bytes of the name of the pipe into it.
LEMMA WriteRight ==
  ASSUME TypeOK, DeviceRight, NEW h \in Handles, NEW len \in 1 .. MaxRequest, WriteFile(h, len)
  PROVE  DeviceRight'
<1>. DEFINE D == Alike(Cut[file[h].name])
<1>1. PICK b \in Blocks, data \in Seq(D) :
        b = file[h].fs /\ data = [k \in 1 .. len |-> file[h].name]
  <2>1. file[h].name \in D /\ file[h].fs \in Blocks
    BY TypeFacts DEF WriteFile, Alike
  <2>2. [k \in 1 .. len |-> file[h].name] \in Seq(D)
    BY <2>1, NamedData
  <2>. QED  BY <2>1, <2>2
<1>2. b \in live /\ node[b].name = Cut[file[h].name] /\ D \subseteq Bytes
  BY <1>1 DEF WriteFile, DeviceRight, FilesRight, Alike, Bytes
<1>. HIDE DEF D
<1>3. CASE Crash
  BY <1>3, QuietRight DEF Crash
<1>4. CASE /\ ring' = [ring EXCEPT ![b] = Written(ring[b], data).ctx]
           /\ UNCHANGED <<machine, head, live, node, file, missed, tailFreed>>
  <2>1. ring[b] \in Contexts(Bytes) /\ Filled(ring[b], D)
    BY <1>2 DEF D, TypeOK, DeviceRight, PipesRight
  <2>2. WriteOK(Bytes, D, ring[b], data, Written(ring[b], data))
    BY <1>1, <1>2, <2>1, WrittenOK
  <2>3. Filled(Written(ring[b], data).ctx, D)
    BY <1>1, <1>2, <2>1, <2>2, WriteKeepsFilled
  <2>. QED  BY <1>2, <1>4, <2>3, RingRight DEF D
<1>. QED  BY <1>1, <1>3, <1>4 DEF WriteFile

\* A read changes no byte.
LEMMA ReadRight ==
  ASSUME TypeOK, DeviceRight, NEW h \in Handles, NEW len \in 1 .. MaxRequest, ReadFile(h, len)
  PROVE  DeviceRight'
<1>1. PICK b \in Blocks : b = file[h].fs
  BY TypeFacts DEF ReadFile
<1>2. b \in live
  BY <1>1 DEF ReadFile, DeviceRight, FilesRight
<1>3. CASE Crash
  BY <1>3, QuietRight DEF Crash
<1>4. CASE /\ ring' = [ring EXCEPT ![b] = ReadFrom(ring[b], len).ctx]
           /\ UNCHANGED <<machine, head, live, node, file, missed, tailFreed>>
  <2>0. len \in Nat
    BY DeviceAssumption
  <2>1. ring[b] \in Contexts(Bytes) /\ Filled(ring[b], Alike(node[b].name))
    BY <1>2 DEF TypeOK, DeviceRight, PipesRight
  <2>2. ReadOK(Bytes, ring[b], ReadFrom(ring[b], len))
    BY <2>0, <2>1, ReadFromOK
  <2>3. Filled(ReadFrom(ring[b], len).ctx, Alike(node[b].name))
    BY <2>1, <2>2, ReadKeepsFilled
  <2>. QED  BY <1>4, <2>3, RingRight
<1>. QED  BY <1>1, <1>3, <1>4 DEF ReadFile

\* Every outcome of a create.  A search without an end does not come about.
LEMMA CreateRight ==
  ASSUME TypeOK, FiniteOpens, ~tailFreed => DeviceRight, NEW h \in Handles, NEW n \in Names,
         Create(h, n)
  PROVE  FiniteOpens' /\ (~tailFreed' => DeviceRight')
<1>1. ~file[h].open /\ machine = "running"
  BY DEF Create
<1>2. CASE CreateShared(h, n)
  <2>1. tailFreed' = tailFreed
    BY <1>2 DEF CreateShared
  <2>2. PICK b \in Blocks : file' = [file EXCEPT ![h] = [open |-> TRUE, name |-> n, fs |-> b]]
    BY <1>2, FirstHitIsHit DEF CreateShared
  <2>3. /\ file'[h].open /\ file'[h].fs = b
        /\ \A g \in Handles : g # h => file'[g] = file[g]
    BY <2>2 DEF TypeOK
  <2>. QED  BY <1>1, <1>2, <2>1, <2>3, OpensMore, CreateSharedRight
<1>3. CASE CreateNew(h, n)
  <2>1. tailFreed' = tailFreed
    BY <1>3 DEF CreateNew
  <2>2. PICK b \in Blocks : file' = [file EXCEPT ![h] = [open |-> TRUE, name |-> n, fs |-> b]]
    BY <1>3 DEF CreateNew
  <2>3. /\ file'[h].open /\ file'[h].fs = b
        /\ \A g \in Handles : g # h => file'[g] = file[g]
    BY <2>2 DEF TypeOK
  <2>. QED  BY <1>1, <1>3, <2>1, <2>3, OpensMore, CreateNewRight
<1>4. CASE Crash
  <2>1. UNCHANGED <<head, live, node, ring, file, missed, tailFreed>> /\ machine' # "hung"
    BY <1>4 DEF Crash
  <2>. QED  BY <2>1, QuietRight, OpensSame
<1>5. CASE CreateEndless(n)
  <2>1. UNCHANGED <<file, tailFreed>> /\ Walk[Depth] # Null
    BY <1>5, DepthType DEF CreateEndless
  <2>2. tailFreed
    BY <2>1 DEF DeviceRight, ListRight, ListOK
  <2>. QED  BY <2>1, <2>2, OpensSame
<1>. QED  BY <1>2, <1>3, <1>4, <1>5 DEF Create, CreateOutOfPool

\* The driver has no open file object while it is not loaded.
LEMMA UnloadedKept ==
  ASSUME NoneUnloaded, [Next]_vars
  PROVE  NoneUnloaded'
<1>1. CASE Load \/ Unload
  BY <1>1 DEF Load, Unload, NoneUnloaded
<1>2. ASSUME NEW h \in Handles, NEW n \in Names, Create(h, n) PROVE NoneUnloaded'
  BY <1>2
  DEF Create, CreateShared, CreateNew, CreateOutOfPool, CreateEndless, Crash, NoneUnloaded
<1>3. ASSUME NEW h \in Handles, Close(h) PROVE NoneUnloaded'
  BY <1>3 DEF Close, PrintFreedName, Crash, NoneUnloaded
<1>4. ASSUME NEW h \in Handles, NEW len \in 1 .. MaxRequest, WriteFile(h, len) \/ ReadFile(h, len)
      PROVE  NoneUnloaded'
  BY <1>4 DEF WriteFile, ReadFile, Crash, NoneUnloaded
<1>5. CASE UNCHANGED vars
  BY <1>5 DEF vars, NoneUnloaded
<1>. QED  BY <1>1, <1>2, <1>3, <1>4, <1>5 DEF Next

\* An empty list, no context and no file object.
LEMMA DInvInit == Init => DInv
<1>. SUFFICES ASSUME Init PROVE DInv
  OBVIOUS
<1>1. /\ head = Null /\ live = {} /\ machine = "unloaded"
      /\ \A h \in Handles : ~file[h].open
  BY DEF Init, Closed
<1>2. Walk[0] = Null /\ 0 \in 0 .. Depth /\ Depth \in Nat
  BY <1>1, WalkIs, WalkSteps, DepthType
<1>3. \A k \in 0 .. Depth : Walk[k] = Null
  BY <1>2, WalkIs, WalkEnds
<1>4. FiniteOpens
  <2>1. \A b \in Blocks : Opens(b) = {}
    BY <1>1 DEF Opens
  <2>. QED  BY <2>1, FS_EmptySet DEF FiniteOpens
<1>5. DeviceRight
  BY <1>1, <1>2, <1>3
  DEF DeviceRight, ListRight, ListOK, FilesRight, CountsRight, PipesRight
<1>. QED  BY <1>1, <1>4, <1>5, TypeInit DEF DInv, NoneUnloaded

\* Whatever is loaded, opened, closed, written and read: the driver keeps DInv.
THEOREM InvHolds == Spec => []DInv
<1>1. DInv /\ TypeOK' /\ [Next]_vars => DInv'
  <2>. SUFFICES ASSUME DInv, TypeOK', [Next]_vars PROVE DInv'
    OBVIOUS
  <2>1. NoneUnloaded'
    BY UnloadedKept DEF DInv
  <2>. SUFFICES FiniteOpens' /\ (~tailFreed' => DeviceRight')
    BY <2>1 DEF DInv
  <2>. TypeOK /\ NoneUnloaded /\ FiniteOpens /\ (~tailFreed => DeviceRight)
    BY DEF DInv
  <2>2. CASE Load
    BY <2>2, LoadRight, OpensSame DEF Load
  <2>3. CASE Unload
    BY <2>3, QuietRight, OpensSame DEF Unload
  <2>4. ASSUME NEW h \in Handles, NEW n \in Names, Create(h, n)
        PROVE  FiniteOpens' /\ (~tailFreed' => DeviceRight')
    BY <2>4, CreateRight
  <2>5. ASSUME NEW h \in Handles, Close(h)
        PROVE  FiniteOpens' /\ (~tailFreed' => DeviceRight')
    BY <2>5, CloseRight
  <2>6. ASSUME NEW h \in Handles, NEW len \in 1 .. MaxRequest, WriteFile(h, len)
        PROVE  FiniteOpens' /\ (~tailFreed' => DeviceRight')
    <3>1. UNCHANGED <<file, tailFreed>>
      BY <2>6 DEF WriteFile, Crash
    <3>. QED  BY <2>6, <3>1, WriteRight, OpensSame
  <2>7. ASSUME NEW h \in Handles, NEW len \in 1 .. MaxRequest, ReadFile(h, len)
        PROVE  FiniteOpens' /\ (~tailFreed' => DeviceRight')
    <3>1. UNCHANGED <<file, tailFreed>>
      BY <2>7 DEF ReadFile, Crash
    <3>. QED  BY <2>7, <3>1, ReadRight, OpensSame
  <2>8. CASE UNCHANGED vars
    <3>1. UNCHANGED <<head, live, node, ring, file, missed, tailFreed, machine>>
      BY <2>8 DEF vars
    <3>. QED  BY <3>1, QuietRight, OpensSame DEF DeviceRight, ListRight
  <2>. QED  BY <2>2, <2>3, <2>4, <2>5, <2>6, <2>7, <2>8 DEF Next
<1>. QED  BY <1>1, DInvInit, TypeCorrect, PTL DEF Spec

\* Until a context behind the head is freed, every open file object is on an allocated context of
\* its name, as far as that fits, that the list leads to, and no search goes round for ever under
\* kmListMutex.
THEOREM HandlesStayOnLive == Spec => []HandlesOnLive
<1>1. DInv => HandlesOnLive
  <2>. SUFFICES ASSUME DInv, ~tailFreed
                PROVE  /\ machine # "hung"
                       /\ \A h \in Handles : file[h].open =>
                            /\ file[h].fs \in live
                            /\ node[file[h].fs].name = Cut[file[h].name]
                            /\ file[h].fs \in Listed
    BY DEF HandlesOnLive
  <2>1. \A h \in Handles : file[h].open => file[h].fs # Null
    BY TypeFacts DEF DInv
  <2>. QED  BY <2>1 DEF DInv, DeviceRight, ListRight, FilesRight, Listed
<1>. QED  BY <1>1, InvHolds, PTL

\* Until then no context that is in use is taken for unused, and uiRefCount is the number of file
\* objects on a context unless a close has missed it.
THEOREM CountsAreExact == Spec => []RefCountExact
<1>1. DInv => RefCountExact
  BY DEF DInv, DeviceRight, CountsRight, RefCountExact
<1>. QED  BY <1>1, InvHolds, PTL

\* Until then the list has two contexts of one name only if a name was cut to it.
THEOREM OneContext == Spec => []OneContextPerName
<1>1. DInv => OneContextPerName
  <2>. SUFFICES ASSUME DInv, ~tailFreed, NEW b \in Listed, NEW c \in Listed,
                       node[b].name = node[c].name
                PROVE  b = c \/ node[b].cut \/ node[c].cut
    BY DEF OneContextPerName
  <2>1. PICK j \in 0 .. Depth, k \in 0 .. Depth :
          Walk[j] = b /\ Walk[k] = c /\ b # Null /\ c # Null
    BY DEF Listed
  <2>. QED  BY <2>1 DEF DInv, DeviceRight, ListRight, ListOK
<1>. QED  BY <1>1, InvHolds, PTL

\* Until then no reader gets a byte that was written to a pipe of another name, unless that was
\* cut to the same, or what the pool block held before.
THEOREM NoForeign == Spec => []NoForeignBytes
<1>1. DInv => NoForeignBytes
  <2>. SUFFICES ASSUME DInv, ~tailFreed, NEW b \in live, NEW i \in Readable(ring[b])
                PROVE  ring[b].buf[i] \in Alike(node[b].name)
    BY DEF NoForeignBytes
  <2>1. ring[b] \in Contexts(Bytes) /\ Filled(ring[b], Alike(node[b].name))
    BY TypeFacts DEF DInv, TypeOK, DeviceRight, PipesRight
  <2>. QED  BY <2>1, FilledReadable
<1>. QED  BY <1>1, InvHolds, PTL

\* What a request looks at through the list or a file object is allocated: the contexts that a
\* search comes to, and for an open file object the head of the list, which a close compares with,
\* and its context.
PoolIsLive ==
  ~tailFreed =>
    /\ \A n \in Names : Visited(n) \subseteq live
    /\ \A h \in Handles : file[h].open => head # Null /\ {head, file[h].fs} \subseteq live

\* Until a context behind the head is freed, no create, close, read or write finds a freed context
\* when it starts.  (The release of the head frees it itself, and then prints its name.)
THEOREM FreedPoolUntouched == Spec => []PoolIsLive
<1>1. DInv => PoolIsLive
  <2>. SUFFICES ASSUME DInv, ~tailFreed
                PROVE  /\ \A n \in Names : Visited(n) \subseteq live
                       /\ \A h \in Handles : file[h].open =>
                            head # Null /\ {head, file[h].fs} \subseteq live
    BY DEF PoolIsLive
  <2>1. \A k \in 0 .. Depth : Walk[k] # Null => Walk[k] \in live
    BY DEF DInv, DeviceRight, ListRight, ListOK
  <2>2. \A n \in Names : Visited(n) \subseteq live
    BY <2>1 DEF Visited
  <2>3. ASSUME NEW h \in Handles, file[h].open
        PROVE  head # Null /\ {head, file[h].fs} \subseteq live
    <3>1. file[h].fs # Null /\ file[h].fs \in live
      BY <2>3, TypeFacts DEF DInv, DeviceRight, FilesRight
    <3>2. PICK k \in 0 .. Depth : Walk[k] = file[h].fs
      BY <2>3 DEF DInv, DeviceRight, FilesRight
    <3>3. Walk[0] = head /\ 0 \in 0 .. Depth /\ 0 <= k
      BY WalkIs, WalkSteps, DepthType
    <3>4. head # Null
      BY <3>1, <3>2, <3>3, WalkIs, WalkEnds
    <3>. QED  BY <2>1, <3>1, <3>3, <3>4
  <2>. QED  BY <2>2, <2>3
<1>. QED  BY <1>1, InvHolds, PTL

\* A bug check while no context behind the head has been freed is that of an exhausted pool
\* (drvFunc.c:279), or of the name that is printed when the head has been freed (drvFunc.c:124).
BugChecksAreTwo ==
  [][~tailFreed /\ machine # "bugcheck" /\ machine' = "bugcheck" =>
       \/ \E n \in Names : CreateOutOfPool(n)
       \/ \E h \in Handles : Close(h) /\ PrintFreedName(file[h].fs)]_vars

\* It follows step by step: the other bug checks need a freed context at the start of a request.
THEOREM TwoBugChecks == Spec => BugChecksAreTwo
<1>. DEFINE A == ~tailFreed /\ machine # "bugcheck" /\ machine' = "bugcheck" =>
                   \/ \E n \in Names : CreateOutOfPool(n)
                   \/ \E h \in Handles : Close(h) /\ PrintFreedName(file[h].fs)
<1>1. PoolIsLive /\ [Next]_vars => [A]_vars
  <2>. SUFFICES ASSUME PoolIsLive, Next, ~tailFreed, machine # "bugcheck", machine' = "bugcheck"
                PROVE  \/ \E n \in Names : CreateOutOfPool(n)
                       \/ \E h \in Handles : Close(h) /\ PrintFreedName(file[h].fs)
    BY DEF vars
  <2>1. CASE Load \/ Unload
    BY <2>1 DEF Load, Unload
  <2>2. ASSUME NEW h \in Handles, NEW n \in Names, Create(h, n)
        PROVE  CreateOutOfPool(n)
    <3>1. Visited(n) \subseteq live
      BY DEF PoolIsLive
    <3>2. machine = "running"
      BY <2>2 DEF Create
    <3>. QED  BY <2>2, <3>1, <3>2 DEF Create, CreateShared, CreateNew, CreateEndless
  <2>3. ASSUME NEW h \in Handles, Close(h) PROVE PrintFreedName(file[h].fs)
    <3>1. head # Null /\ {head, file[h].fs} \subseteq live /\ machine = "running"
      BY <2>3 DEF Close, PoolIsLive
    <3>. QED  BY <2>3, <3>1 DEF Close
  <2>4. ASSUME NEW h \in Handles, NEW len \in 1 .. MaxRequest, WriteFile(h, len) \/ ReadFile(h, len)
        PROVE  FALSE
    <3>1. file[h].fs \in live /\ machine = "running"
      BY <2>4 DEF WriteFile, ReadFile, PoolIsLive
    <3>. QED  BY <2>4, <3>1 DEF WriteFile, ReadFile
  <2>. QED  BY <2>1, <2>2, <2>3, <2>4 DEF Next
<1>. QED  BY <1>1, FreedPoolUntouched, PTL DEF Spec, BugChecksAreTwo
=============================================================================
