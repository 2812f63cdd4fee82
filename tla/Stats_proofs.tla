---------------------------- MODULE Stats_proofs ----------------------------
(***************************************************************************)
(* Polling keeps up, and what it shows is fresh: for every number of slots *)
(* and whatever their times to live and their costs.                       *)
(*                                                                         *)
(* The point is what a slot costs while calls pile up.  What was computed  *)
(* since the command was last idle is in its slot, no older than that, and *)
(* the time that has passed is what the slots in it have cost: nothing is  *)
(* computed again before an entry has outlived its time.                   *)
(***************************************************************************)
EXTENDS Stats, FiniteSetTheorems, NaturalsInduction, WellFoundedInduction, TLAPS

-----------------------------------------------------------------------------
(* Induction, in the form in which the provers can use it.                 *)
LEMMA Smallest ==
  ASSUME NEW I \in SUBSET Nat, I # {}
  PROVE  \E k \in I : \A j \in I : k <= j
<1>1. PICK k \in I : \A j \in I : ~ (<<j, k>> \in OpToRel(<, Nat))
  BY NatLessThanWellFounded, WFMin
<1>2. \A j \in I : ~ (j < k)
  BY <1>1 DEF OpToRel
<1> QED
  BY <1>2

LEMMA Slotted ==
  /\ Len(Order) \in Nat \ {0} /\ DOMAIN Order = 1..Len(Order)
  /\ \A i \in 1..Len(Order) : Order[i] \in Slots
  /\ \A s \in Slots : \E i \in 1..Len(Order) : Order[i] = s
  /\ \A i, j \in 1..Len(Order) : Order[i] = Order[j] => i = j
  /\ IsFiniteSet(Slots)
<1>1. Len(Order) \in Nat \ {0} /\ DOMAIN Order = 1..Len(Order) /\ Order \in [1..Len(Order) -> Slots]
  BY OrderAssumption
<1>2. \A s \in Slots : \E i \in 1..Len(Order) : Order[i] = s
  BY <1>1 DEF Slots, ToSet
<1>3. \A i, j \in 1..Len(Order) : Order[i] = Order[j] => i = j
  BY <1>1, OrderAssumption DEF IsInjective
<1>4. IsFiniteSet(Slots)
  <2>1. Order \in Surjection(1..Len(Order), Slots)
    BY <1>1, <1>2 DEF Surjection
  <2>2. IsFiniteSet(1..Len(Order))
    BY <1>1, FS_Interval
  <2> QED
    BY <2>1, <2>2, FS_Surjection
<1> QED
  BY <1>1, <1>2, <1>3, <1>4

(* A set of slots without one of them is smaller.                          *)
LEMMA Fewer ==
  ASSUME NEW D \in SUBSET Slots
  PROVE  /\ Cardinality(D) \in Nat /\ (Cardinality(D) = 0 => D = {})
         /\ \A x \in D : Cardinality(D \ {x}) = Cardinality(D) - 1
<1>1. IsFiniteSet(D)
  BY Slotted, FS_Subset
<1> QED
  BY <1>1, FS_CardinalityType, FS_EmptySet, FS_RemoveElement

(* Sets of slots that each have a smaller one among them: there are none.  *)
LEMMA NoDescent ==
  ASSUME NEW Bad \in SUBSET SUBSET Slots,
         \A C \in Bad : \E B \in Bad : Cardinality(B) < Cardinality(C)
  PROVE  Bad = {}
<1> SUFFICES ASSUME NEW A \in Bad PROVE FALSE
  OBVIOUS
<1> DEFINE Sizes == {Cardinality(C) : C \in Bad}
<1>1. Sizes \in SUBSET Nat /\ Cardinality(A) \in Sizes
  BY Fewer
<1>2. \A n \in Sizes : \E m \in Sizes : m < n
  OBVIOUS
<1> HIDE DEF Sizes
<1>3. PICK k \in Sizes : \A j \in Sizes : k <= j
  BY <1>1, Smallest
<1>4. PICK j \in Sizes : j < k
  BY <1>2
<1> QED
  BY <1>1, <1>3, <1>4

-----------------------------------------------------------------------------
(* The sum of the costs of a set of slots: whichever of them comes first,  *)
(* it adds its own cost to that of the others.                             *)
Pick(D) == CHOOSE s \in D : TRUE
SumStep(f, D) == IF D = {} THEN 0 ELSE Cost[Pick(D)] + f[D \ {Pick(D)}]

LEMMA PickOne == ASSUME NEW D, D # {} PROVE Pick(D) \in D
BY DEF Pick

LEMMA SumsUpTo ==
  ASSUME NEW n \in Nat
  PROVE  \E g \in [SUBSET Slots -> Nat] :
           \A D \in SUBSET Slots : Cardinality(D) <= n => g[D] = SumStep(g, D)
<1> DEFINE Upto(g, m) == \A D \in SUBSET Slots : Cardinality(D) <= m => g[D] = SumStep(g, D)
           Fails == {m \in Nat : ~ \E g \in [SUBSET Slots -> Nat] : Upto(g, m)}
<1>1. 0 \notin Fails
  <2> DEFINE zero == [D \in SUBSET Slots |-> 0]
  <2>1. \A D \in SUBSET Slots : Cardinality(D) <= 0 => D = {}
    BY Fewer
  <2>2. zero \in [SUBSET Slots -> Nat] /\ Upto(zero, 0)
    BY <2>1 DEF SumStep
  <2> QED
    BY <2>2
<1>2. ASSUME NEW m \in Nat, m + 1 \in Fails PROVE m \in Fails
  <2> SUFFICES ASSUME NEW g \in [SUBSET Slots -> Nat], Upto(g, m) PROVE FALSE
    BY <1>2
  <2> DEFINE h == [D \in SUBSET Slots |-> SumStep(g, D)]
  <2>1. h \in [SUBSET Slots -> Nat]
    <3> SUFFICES ASSUME NEW D \in SUBSET Slots PROVE SumStep(g, D) \in Nat
      OBVIOUS
    <3>1. D # {} => Cost[Pick(D)] \in Nat /\ D \ {Pick(D)} \in SUBSET Slots
      BY PickOne, TimesAssumption
    <3> QED
      BY <3>1 DEF SumStep
  <2>2. ASSUME NEW D \in SUBSET Slots, Cardinality(D) <= m + 1 PROVE h[D] = SumStep(h, D)
    <3>1. CASE D = {}
      BY <3>1 DEF SumStep
    <3>2. CASE D # {}
      <4> DEFINE C == D \ {Pick(D)}
      <4>1. C \in SUBSET Slots /\ Cardinality(C) <= m
        BY <2>2, <3>2, PickOne, Fewer
      <4>2. h[C] = g[C]
        BY <4>1
      <4> QED
        BY <2>2, <3>2, <4>1, <4>2 DEF SumStep
    <3> QED
      BY <3>1, <3>2
  <2>3. Upto(h, m + 1)
    BY <2>2
  <2> HIDE DEF h
  <2> QED
    BY <1>2, <2>1, <2>3
<1>3. Fails = {}
  <2> SUFFICES ASSUME Fails # {} PROVE FALSE
    OBVIOUS
  <2> HIDE DEF Fails
  <2>1. Fails \in SUBSET Nat
    BY DEF Fails
  <2>2. PICK k \in Fails : \A j \in Fails : k <= j
    BY <2>1, Smallest
  <2>3. k \in Nat /\ k # 0 /\ k - 1 \in Nat /\ (k - 1) + 1 = k
    BY <1>1, <2>1, <2>2
  <2>4. k - 1 \in Fails
    BY <1>2, <2>3
  <2> QED
    BY <2>2, <2>3, <2>4
<1> QED
  BY <1>3

LEMMA SumTable ==
  \E g \in [SUBSET Slots -> Nat] : \A D \in SUBSET Slots : g[D] = SumStep(g, D)
<1>1. Cardinality(Slots) \in Nat /\ \A D \in SUBSET Slots : Cardinality(D) <= Cardinality(Slots)
  BY Slotted, FS_CardinalityType, FS_Subset
<1> QED
  BY <1>1, SumsUpTo

LEMMA SumsOfCosts ==
  \E g \in [SUBSET Slots -> Nat] :
    \A D \in SUBSET Slots : g[D] = SumStep(g, D) /\ SumOfCosts(D) = g[D]
<1>1. PICK g \in [SUBSET Slots -> Nat] : \A D \in SUBSET Slots : g[D] = SumStep(g, D)
  BY SumTable
<1>2. ASSUME NEW D \in SUBSET Slots PROVE SumOfCosts(D) = g[D]
  <2> DEFINE Iter(f) == f = [s \in SUBSET D |->
                               IF s = {} THEN 0 ELSE Cost[Pick(s)] + f[s \ {Pick(s)}]]
             part == [s \in SUBSET D |-> g[s]]
  <2>1. SumOfCosts(D) = (CHOOSE f : Iter(f))[D]
    BY DEF SumOfCosts, FoldFunctionOnSet, MapThenFoldSet, Pick
  <2>2. Iter(part)
    <3> SUFFICES ASSUME NEW s \in SUBSET D
                 PROVE  part[s] = IF s = {} THEN 0 ELSE Cost[Pick(s)] + part[s \ {Pick(s)}]
      OBVIOUS
    <3>1. s \in SUBSET Slots /\ s \ {Pick(s)} \in SUBSET D
      OBVIOUS
    <3> QED
      BY <1>1, <3>1 DEF SumStep
  <2>3. ASSUME NEW f, Iter(f) PROVE f = part
    <3> DEFINE Differ == {s \in SUBSET D : f[s] # part[s]}
    <3>1. ASSUME NEW s \in Differ PROVE \E r \in Differ : Cardinality(r) < Cardinality(s)
      <4> DEFINE r == s \ {Pick(s)}
      <4>1. f[s] = IF s = {} THEN 0 ELSE Cost[Pick(s)] + f[r]
        BY <2>3
      <4>2. part[s] = IF s = {} THEN 0 ELSE Cost[Pick(s)] + part[r]
        BY <2>2
      <4> HIDE DEF part
      <4>3. s # {} /\ f[r] # part[r]
        BY <4>1, <4>2
      <4>4. r \in SUBSET D /\ Cardinality(r) < Cardinality(s)
        BY <4>3, PickOne, Fewer
      <4> QED
        BY <4>3, <4>4
    <3>2. Differ \in SUBSET SUBSET Slots
      OBVIOUS
    <3>3. Differ = {}
      <4> HIDE DEF Differ
      <4> QED
        BY <3>1, <3>2, NoDescent
    <3>4. f = [s \in SUBSET D |-> f[s]]
      BY <2>3
    <3> QED
      BY <3>3, <3>4
  <2> HIDE DEF Iter
  <2>4. (CHOOSE f : Iter(f)) = part
    BY <2>2, <2>3
  <2> QED
    BY <2>1, <2>4
<1> QED
  BY <1>1, <1>2

LEMMA SumFacts ==
  /\ SumOfCosts({}) = 0
  /\ \A D \in SUBSET Slots : SumOfCosts(D) \in Nat
  /\ \A D \in SUBSET Slots : D # {} =>
       SumOfCosts(D) = Cost[Pick(D)] + SumOfCosts(D \ {Pick(D)})
<1>1. PICK g \in [SUBSET Slots -> Nat] :
        \A D \in SUBSET Slots : g[D] = SumStep(g, D) /\ SumOfCosts(D) = g[D]
  BY SumsOfCosts
<1>2. SumOfCosts({}) = 0
  BY <1>1 DEF SumStep
<1>3. ASSUME NEW D \in SUBSET Slots, D # {}
      PROVE  SumOfCosts(D) = Cost[Pick(D)] + SumOfCosts(D \ {Pick(D)})
  <2>1. D \ {Pick(D)} \in SUBSET Slots
    OBVIOUS
  <2> QED
    BY <1>1, <1>3, <2>1 DEF SumStep
<1> QED
  BY <1>1, <1>2, <1>3

(* Any slot of the set may be taken for the first.                         *)
LEMMA SumWithout ==
  ASSUME NEW D \in SUBSET Slots, NEW x \in D
  PROVE  SumOfCosts(D) = Cost[x] + SumOfCosts(D \ {x})
<1> DEFINE Splits(C) == \A y \in C : SumOfCosts(C) = Cost[y] + SumOfCosts(C \ {y})
           Bad == {C \in SUBSET Slots : ~Splits(C)}
<1>1. ASSUME NEW C \in Bad PROVE \E B \in Bad : Cardinality(B) < Cardinality(C)
  <2> SUFFICES ASSUME \A B \in SUBSET Slots : Cardinality(B) < Cardinality(C) => Splits(B)
               PROVE  FALSE
    OBVIOUS
  <2>1. PICK y \in C : SumOfCosts(C) # Cost[y] + SumOfCosts(C \ {y})
    OBVIOUS
  <2> DEFINE p == Pick(C)
  <2>2. p \in C /\ SumOfCosts(C) = Cost[p] + SumOfCosts(C \ {p})
    BY PickOne, SumFacts
  <2>3. y # p
    BY <2>1, <2>2
  <2> HIDE DEF p
  <2>4. /\ Cardinality(C \ {p}) < Cardinality(C) /\ Cardinality(C \ {y}) < Cardinality(C)
    BY <2>2, Fewer
  <2>5. SumOfCosts(C \ {p}) = Cost[y] + SumOfCosts((C \ {p}) \ {y})
    BY <2>3, <2>4
  <2>6. SumOfCosts(C \ {y}) = Cost[p] + SumOfCosts((C \ {y}) \ {p})
    BY <2>2, <2>3, <2>4
  <2> DEFINE rest == SumOfCosts((C \ {y}) \ {p})
  <2>7. (C \ {p}) \ {y} = (C \ {y}) \ {p}
    OBVIOUS
  <2>8. SumOfCosts(C) = Cost[p] + (Cost[y] + rest) /\ SumOfCosts(C \ {y}) = Cost[p] + rest
    BY <2>2, <2>5, <2>6, <2>7, Zenon
  <2>9. Cost[p] \in Nat /\ Cost[y] \in Nat /\ rest \in Nat
    BY <2>2, TimesAssumption, SumFacts
  <2> HIDE DEF rest
  <2>10. Cost[p] + (Cost[y] + rest) = Cost[y] + (Cost[p] + rest)
    BY <2>9
  <2> QED
    BY <2>1, <2>8, <2>10, Zenon
<1>2. Bad = {}
  <2> HIDE DEF Bad
  <2> QED
    BY <1>1, NoDescent DEF Bad
<1> QED
  BY <1>2

LEMMA SumWith ==
  ASSUME NEW D \in SUBSET Slots, NEW x \in Slots, x \notin D
  PROVE  SumOfCosts(D \union {x}) = SumOfCosts(D) + Cost[x]
<1>1. (D \union {x}) \ {x} = D /\ D \union {x} \in SUBSET Slots
  OBVIOUS
<1>2. SumOfCosts(D \union {x}) = Cost[x] + SumOfCosts(D)
  BY <1>1, SumWithout
<1> QED
  BY <1>2, SumFacts, TimesAssumption

(* More slots cost no less.                                                *)
LEMMA SumGrows ==
  ASSUME NEW D \in SUBSET Slots, NEW E \in SUBSET D
  PROVE  SumOfCosts(E) <= SumOfCosts(D)
<1> DEFINE Bad == {C \in SUBSET Slots : E \subseteq C /\ ~(SumOfCosts(E) <= SumOfCosts(C))}
<1>1. ASSUME NEW C \in Bad PROVE \E B \in Bad : Cardinality(B) < Cardinality(C)
  <2>1. C # E
    BY SumFacts
  <2>2. PICK x \in C : x \notin E
    BY <2>1
  <2>3. SumOfCosts(C) = Cost[x] + SumOfCosts(C \ {x})
    BY SumWithout
  <2>4. Cost[x] \in Nat /\ SumOfCosts(C \ {x}) \in Nat /\ SumOfCosts(E) \in Nat
    BY TimesAssumption, SumFacts
  <2>5. ~(SumOfCosts(E) <= SumOfCosts(C \ {x}))
    BY <2>3, <2>4
  <2>6. Cardinality(C \ {x}) < Cardinality(C)
    BY Fewer
  <2> QED
    BY <2>2, <2>5, <2>6
<1>2. Bad = {}
  <2> HIDE DEF Bad
  <2> QED
    BY <1>1, NoDescent DEF Bad
<1> QED
  BY <1>2
-----------------------------------------------------------------------------
(* Ages stop at the cap, which is above all they are compared with.        *)
LEMMA CapEnough ==
  Cap \in Nat /\ \A s \in Slots : TTL[s] + 2 * SumOfCosts(Slots) < Cap
<1> DEFINE Longest(m, n) == \A j \in 1..n : TTL[Order[j]] <= TTL[Order[m]]
           Fails == {n \in 1..Len(Order) : ~ \E m \in 1..n : Longest(m, n)}
<1>1. \A j \in 1..Len(Order) : TTL[Order[j]] \in Nat
  BY Slotted, TimesAssumption
<1>2. 1 \notin Fails
  <2>1. 1 \in 1..1 /\ Longest(1, 1)
    BY <1>1, Slotted
  <2> QED
    BY <2>1
<1>3. ASSUME NEW n \in 1..Len(Order), n - 1 \in 1..Len(Order), n - 1 \notin Fails
      PROVE  n \notin Fails
  <2>1. PICK m \in 1..n - 1 : Longest(m, n - 1)
    BY <1>3
  <2>2. TTL[Order[m]] \in Nat /\ TTL[Order[n]] \in Nat
    BY <1>1, <1>3, Slotted
  <2>3. CASE TTL[Order[n]] <= TTL[Order[m]]
    <3>1. m \in 1..n /\ Longest(m, n)
      BY <2>1, <2>3
    <3> QED
      BY <3>1
  <2>4. CASE ~(TTL[Order[n]] <= TTL[Order[m]])
    <3>1. n \in 1..n /\ Longest(n, n)
      BY <1>1, <2>1, <2>2, <2>4, Slotted
    <3> QED
      BY <3>1
  <2> QED
    BY <2>3, <2>4
<1>4. Fails = {}
  <2> SUFFICES ASSUME Fails # {} PROVE FALSE
    OBVIOUS
  <2>1. Fails \in SUBSET Nat /\ Fails \subseteq 1..Len(Order)
    BY Slotted
  <2> HIDE DEF Fails
  <2>2. PICK k \in Fails : \A j \in Fails : k <= j
    BY <2>1, Smallest
  <2>3. k \in 1..Len(Order) /\ k # 1 /\ k - 1 \in 1..Len(Order)
    BY <1>2, <2>1, <2>2, Slotted
  <2>4. k - 1 \notin Fails
    BY <2>2, <2>3
  <2> QED
    BY <1>3, <2>3, <2>4
<1>5. PICK m \in 1..Len(Order) : Longest(m, Len(Order))
  <2>1. Len(Order) \in 1..Len(Order)
    BY Slotted
  <2> QED
    BY <1>4, <2>1
<1> DEFINE top == TTL[Order[m]]
<1>6. top \in Nat /\ top \in Range(TTL) /\ \A t \in Range(TTL) : t \in Nat /\ t <= top
  <2>1. DOMAIN TTL = Slots /\ Order[m] \in Slots
    BY <1>5, Slotted, TimesAssumption
  <2>2. top \in Nat /\ top \in Range(TTL)
    BY <1>1, <2>1 DEF Range
  <2>3. ASSUME NEW s \in Slots PROVE TTL[s] \in Nat /\ TTL[s] <= top
    BY <1>1, <1>5, Slotted
  <2> QED
    BY <2>1, <2>2, <2>3 DEF Range
<1> HIDE DEF top
<1>7. Max(Range(TTL)) = top
  <2>1. \A t \in Range(TTL) : (\A u \in Range(TTL) : t >= u) => t = top
    BY <1>6
  <2>2. \A u \in Range(TTL) : top >= u
    BY <1>6
  <2> QED
    BY <1>6, <2>1, <2>2 DEF Max
<1>8. SumOfCosts(Slots) \in Nat
  BY SumFacts
<1>9. \A s \in Slots : TTL[s] \in Nat /\ TTL[s] <= top
  BY <1>6, TimesAssumption DEF Range
<1> DEFINE total == SumOfCosts(Slots)
<1>10. Cap = (1 + top) + 2 * total /\ total \in Nat
  BY <1>7, <1>8 DEF Cap
<1> HIDE DEF total
<1>11. Cap \in Nat /\ \A s \in Slots : TTL[s] + 2 * total < Cap
  BY <1>6, <1>9, <1>10
<1> QED
  BY <1>11 DEF total

LEMMA Ages ==
  ASSUME NEW a \in Nat
  PROVE  /\ Older(a) \in Nat /\ Older(a) <= a + 1
         /\ Older(a) = IF a + 1 <= Cap THEN a + 1 ELSE Cap
<1> DEFINE least == IF a + 1 <= Cap THEN a + 1 ELSE Cap
<1>1. Cap \in Nat /\ least \in Nat
  BY CapEnough
<1>2. least \in {a + 1, Cap} /\ \A y \in {a + 1, Cap} : least <= y
  BY <1>1
<1>3. \A x \in {a + 1, Cap} : (\A y \in {a + 1, Cap} : x <= y) => x = least
  BY <1>1
<1> HIDE DEF least
<1>4. Min({a + 1, Cap}) = least
  BY <1>2, <1>3 DEF Min
<1>5. Older(a) = least
  BY <1>4 DEF Older
<1>6. least <= a + 1
  BY <1>1 DEF least
<1> QED
  BY <1>1, <1>5, <1>6 DEF least

LEMMA OlderGrows ==
  ASSUME NEW a \in Nat, NEW b \in Nat, a <= b
  PROVE  Older(a) <= Older(b)
BY Ages, CapEnough

LEMMA OlderOutlives ==
  ASSUME NEW s \in Slots, NEW a \in Nat, a >= TTL[s]
  PROVE  Older(a) >= TTL[s]
<1>1. TTL[s] \in Nat /\ SumOfCosts(Slots) \in Nat /\ TTL[s] + 2 * SumOfCosts(Slots) < Cap
  BY TimesAssumption, SumFacts, CapEnough
<1> QED
  BY <1>1, Ages, CapEnough

LEMMA OlderInTime ==
  ASSUME NEW s \in Slots, NEW a \in Nat, a <= SumOfCosts(Slots)
  PROVE  Older(a) = a + 1
<1>1. TTL[s] \in Nat \ {0} /\ SumOfCosts(Slots) \in Nat /\ TTL[s] + 2 * SumOfCosts(Slots) < Cap
  BY TimesAssumption, SumFacts, CapEnough
<1> QED
  BY <1>1, Ages, CapEnough

-----------------------------------------------------------------------------
(* The inductive invariant.  A call is idle, looks at a slot, computes it  *)
(* or is done.                                                             *)
Calls == [pc : 0..Len(Order) + 1, computing : BOOLEAN, took : Nat, delay : Nat,
          ages : [Slots -> Nat]]

Typed ==
  /\ calls \in Seq(Nat)
  /\ call \in Calls
  /\ slots \in [Slots -> {NONE} \union [age : Nat, read : Nat]]
  /\ shown \in [Slots -> Nat]
  /\ spell \in [length : Nat, once : SUBSET Slots, again : SUBSET Slots]

Phases ==
  /\ call.computing => call.pc \in 1..Len(Order) /\ call.took <= Cost[Slot]
  /\ ~call.computing => call.took = 0
  /\ call.pc = 0 => call.delay = 0

(* What a spell of calls has computed is in its slot, no older than the    *)
(* spell; and if none of it was computed twice, it accounts for the time.  *)
Done == IF call.computing THEN spell.once \ {Slot} ELSE spell.once

Kept ==
  /\ call.computing => Slot \in spell.once
  /\ \A s \in Done : slots[s] # NONE /\ slots[s].age <= spell.length
  /\ \A s \in spell.again : spell.length >= TTL[s]

Accounted ==
  spell.again = {} =>
    /\ spell.length <= SumOfCosts(Done) + call.took
    /\ \A i \in 1..Len(calls) : calls[i] <= spell.length
    /\ call.delay <= spell.length
    /\ Len(calls) <= spell.length + 1

(* What was read for an entry is older than it by its cost at most; and    *)
(* what a call has found was fresh when it looked.                         *)
Between(i, j) == {Order[k] : k \in i + 1..j}

Dated == \A s \in Slots : slots[s] # NONE => slots[s].read <= slots[s].age + Cost[s]

FoundFresh ==
  \A i \in 1..call.pc - 1 :
    call.ages[Order[i]] <
      TTL[Order[i]] + Cost[Order[i]] + SumOfCosts(Between(i, call.pc - 1)) + call.took

StatsInv == Typed /\ Phases /\ Kept /\ Accounted /\ Dated /\ FoundFresh /\ PartsAreFresh

-----------------------------------------------------------------------------
LEMMA Bounds ==
  /\ SumOfCosts(Slots) \in Nat
  /\ \A s \in Slots : TTL[s] \in Nat /\ Cost[s] \in Nat /\ TTL[s] > 0
BY SumFacts, TimesAssumption

LEMMA DoneType ==
  ASSUME Typed, Phases
  PROVE  Done \in SUBSET Slots /\ (call.computing => Slot \in Slots /\ Slot \notin Done)
<1>1. spell.once \in SUBSET Slots
  BY DEF Typed
<1>2. call.computing => Slot \in Slots
  BY Slotted DEF Phases, Slot
<1> QED
  BY <1>1, <1>2 DEF Done

(* A spell in which nothing is computed twice is no longer than all slots  *)
(* take together.                                                          *)
LEMMA SpellBound ==
  ASSUME Typed, Phases, Accounted, spell.again = {}
  PROVE  spell.length <= SumOfCosts(Slots)
<1> DEFINE b == spell.length
           D == Done
<1>0. b \in Nat /\ D \in SUBSET Slots /\ b <= SumOfCosts(D) + call.took
  BY DoneType DEF Typed, Accounted
<1>00. call.computing => Slot \notin D
  BY DoneType
<1> HIDE DEF b, D
<1>1. SumOfCosts(D) \in Nat /\ SumOfCosts(Slots) \in Nat /\ SumOfCosts(D) <= SumOfCosts(Slots)
  BY <1>0, SumFacts, SumGrows
<1>2. CASE call.computing
  <2>1. Slot \in Slots /\ call.took <= Cost[Slot] /\ Slot \notin D
    BY <1>00, <1>2, Slotted DEF Phases, Slot
  <2>2. SumOfCosts(D \union {Slot}) = SumOfCosts(D) + Cost[Slot]
    BY <1>0, <2>1, SumWith
  <2>3. SumOfCosts(D \union {Slot}) <= SumOfCosts(Slots)
    BY <1>0, <2>1, SumGrows
  <2>4. call.took \in Nat /\ Cost[Slot] \in Nat
    BY <2>1, TimesAssumption DEF Typed, Calls
  <2>5. b <= SumOfCosts(Slots)
    BY <1>0, <1>1, <2>1, <2>2, <2>3, <2>4
  <2> QED
    BY <2>5 DEF b
<1>3. CASE ~call.computing
  <2>1. call.took = 0
    BY <1>3 DEF Phases
  <2>2. b <= SumOfCosts(Slots)
    BY <1>0, <1>1, <2>1
  <2> QED
    BY <2>2 DEF b
<1> QED
  BY <1>2, <1>3 DEF Typed

LEMMA BetweenGrows ==
  ASSUME NEW i \in 1..Len(Order), NEW n \in 1..Len(Order), i < n
  PROVE  /\ Between(i, n - 1) \in SUBSET Slots
         /\ SumOfCosts(Between(i, n - 1)) \in Nat
         /\ SumOfCosts(Between(i, n)) = SumOfCosts(Between(i, n - 1)) + Cost[Order[n]]
<1>1. Between(i, n - 1) \in SUBSET Slots /\ Order[n] \in Slots
  BY Slotted DEF Between
<1>2. Order[n] \notin Between(i, n - 1)
  BY Slotted DEF Between
<1>3. Between(i, n) = Between(i, n - 1) \union {Order[n]}
  <2>1. i + 1..n = (i + 1..n - 1) \union {n}
    BY Slotted
  <2> QED
    BY <2>1 DEF Between
<1> QED
  BY <1>1, <1>2, <1>3, SumWith, SumFacts

LEMMA BetweenNone ==
  ASSUME NEW n \in Nat PROVE Between(n, n) = {} /\ SumOfCosts(Between(n, n)) = 0
<1>1. Between(n, n) = {}
  BY DEF Between
<1> QED
  BY <1>1, SumFacts
LEMMA OneMore ==
  ASSUME NEW age \in Nat, NEW ttl \in Nat, NEW cost \in Nat, NEW sum \in Nat, NEW more \in Nat,
         NEW took \in Nat, took <= more, age < ttl + cost + sum + took
  PROVE  age < ttl + cost + (sum + more) + 0
OBVIOUS

LEMMA OneSecond ==
  ASSUME NEW age \in Nat, NEW older \in Nat, NEW ttl \in Nat, NEW cost \in Nat, NEW sum \in Nat,
         NEW took \in Nat, older <= age + 1, age < ttl + cost + sum + took
  PROVE  older < ttl + cost + sum + (took + 1)
OBVIOUS

-----------------------------------------------------------------------------
(* The six kinds of steps.                                                 *)
LEMMA Start == Init => StatsInv
<1> SUFFICES ASSUME Init PROVE StatsInv
  OBVIOUS
<1>1. Typed
  <2>1. calls \in Seq(Nat) /\ call = Idle /\ Idle.pc \in 0..Len(Order) + 1
    BY Slotted DEF Init, Idle
  <2> QED
    BY <2>1 DEF Init, Idle, Rest, Typed, Calls
<1>2. Phases /\ Dated /\ FoundFresh
  BY DEF Init, Idle, Phases, Dated, FoundFresh
<1>3. Kept /\ Accounted
  BY SumFacts DEF Init, Idle, Rest, Kept, Accounted, Done
<1>4. PartsAreFresh
  <2>1. \A s \in Slots : shown[s] = 0
    BY DEF Init, Idle
  <2>2. ASSUME NEW i \in 1..Len(Order)
        PROVE  0 < TTL[Order[i]] + Cost[Order[i]] + SumOfCosts(Between(i, Len(Order)))
    <3>1. Between(i, Len(Order)) \in SUBSET Slots
      BY Slotted DEF Between
    <3> QED
      BY <3>1, Slotted, Bounds, SumFacts
  <2> QED
    BY <2>1, <2>2, Slotted DEF PartsAreFresh, Between
<1> QED
  BY <1>1, <1>2, <1>3, <1>4 DEF StatsInv

LEMMA BeginKeeps == ASSUME StatsInv, Begin PROVE StatsInv'
<1>1. /\ UNCHANGED <<slots, shown, spell>>
      /\ calls # <<>> /\ calls \in Seq(Nat) /\ calls' = Tail(calls)
      /\ call' = [Idle EXCEPT !.pc = 1, !.delay = Head(calls)]
      /\ call.pc = 0 /\ ~call.computing
  BY DEF Begin, StatsInv, Typed, Phases, Slotted
<1>2. Head(calls) \in Nat /\ Head(calls) = calls[1] /\ Tail(calls) \in Seq(Nat)
      /\ Len(calls) \in Nat \ {0} /\ Len(Tail(calls)) = Len(calls) - 1
      /\ \A i \in 1..Len(calls) - 1 : Tail(calls)[i] = calls[i + 1]
  BY <1>1
<1>3. call' = [pc |-> 1, computing |-> FALSE, took |-> 0, delay |-> Head(calls),
               ages |-> [s \in Slots |-> 0]]
  BY <1>1 DEF Idle
<1>4. Typed'
  <2>1. call' \in Calls
    BY <1>2, <1>3, Slotted DEF Calls
  <2> QED
    BY <1>1, <1>2, <2>1 DEF StatsInv, Typed
<1>5. Phases' /\ FoundFresh'
  BY <1>3 DEF Phases, FoundFresh
<1>6. Dated' /\ PartsAreFresh'
  BY <1>1 DEF StatsInv, Dated, PartsAreFresh
<1>7. Kept' /\ Done' = Done
  <2>1. call'.computing = FALSE
    BY <1>3
  <2>2. Done = spell.once /\ Done' = spell.once
    BY <1>1, <2>1 DEF Done
  <2> QED
    BY <1>1, <2>1, <2>2 DEF StatsInv, Kept
<1>8. Accounted'
  <2> SUFFICES ASSUME spell.again = {} PROVE Accounted'
    BY <1>1 DEF Accounted
  <2> DEFINE b == spell.length
             D == Done
  <2>2. call.took = 0 /\ b \in Nat
    BY <1>1 DEF StatsInv, Phases, Typed
  <2>3. /\ \A i \in 1..Len(calls) : calls[i] <= b
        /\ Len(calls) <= b + 1 /\ b <= SumOfCosts(D) + 0 /\ b \in Nat
    BY <2>2 DEF StatsInv, Accounted
  <2>8. b' = b /\ D' = D
    BY <1>1, <1>7
  <2>9. Accounted' = (spell'.again = {} =>
            /\ b' <= SumOfCosts(D') + call'.took
            /\ \A i \in 1..Len(calls') : calls'[i] <= b'
            /\ call'.delay <= b'
            /\ Len(calls') <= b' + 1)
    BY DEF Accounted
  <2> HIDE DEF b, D
  <2>4. \A i \in 1..Len(calls) - 1 : i + 1 \in 1..Len(calls)
    BY <1>2
  <2>5. /\ \A i \in 1..Len(calls') : calls'[i] <= b
        /\ Len(calls') <= b + 1 /\ Head(calls) <= b
    BY <1>1, <1>2, <2>3, <2>4
  <2>6. /\ call'.computing = FALSE /\ call'.took = 0 /\ call'.delay = Head(calls)
    BY <1>3
  <2> QED
    BY <2>3, <2>5, <2>6, <2>8, <2>9
<1> QED
  BY <1>4, <1>5, <1>6, <1>7, <1>8 DEF StatsInv

LEMMA HitKeeps == ASSUME StatsInv, Hit PROVE StatsInv'
<1> DEFINE n == call.pc
           s == Order[n]
<1>1. /\ UNCHANGED <<calls, slots, shown, spell>>
      /\ n \in 1..Len(Order) /\ s \in Slots /\ Slot = s
      /\ ~call.computing /\ call.took = 0
      /\ slots[s] # NONE /\ slots[s].age < TTL[s]
  BY Slotted DEF Hit, Running, Fresh, Slot, StatsInv, Phases
<1>2. slots[s] \in [age : Nat, read : Nat] /\ slots[s].read <= slots[s].age + Cost[s]
  BY <1>1 DEF StatsInv, Typed, Dated
<1>3. call' = [call EXCEPT !.pc = n + 1, !.ages = [call.ages EXCEPT ![s] = slots[s].read]]
  BY <1>1 DEF Hit, StatsInv, Typed, Calls
<1>4. /\ call'.pc = n + 1 /\ call'.computing = call.computing /\ call'.took = call.took
      /\ call'.delay = call.delay
      /\ call'.ages = [call.ages EXCEPT ![s] = slots[s].read]
      /\ call' \in Calls
  <2>1. call \in Calls /\ n + 1 \in 0..Len(Order) + 1
    BY <1>1, Slotted DEF StatsInv, Typed
  <2>2. [call.ages EXCEPT ![s] = slots[s].read] \in [Slots -> Nat]
    BY <1>1, <1>2, <2>1 DEF Calls
  <2> QED
    BY <1>3, <2>1, <2>2 DEF Calls
<1>5. Typed' /\ Phases'
  <2>1. n + 1 # 0
    BY <1>1, Slotted
  <2> QED
    BY <1>1, <1>4, <2>1 DEF StatsInv, Typed, Phases
<1>6. Kept' /\ Accounted'
  <2>1. Done' = Done
    BY <1>1, <1>4 DEF Done
  <2> QED
    BY <1>1, <1>4, <2>1 DEF StatsInv, Kept, Accounted
<1>7. FoundFresh'
  <2> SUFFICES ASSUME NEW i \in 1..n
               PROVE  call'.ages[Order[i]] <
                        TTL[Order[i]] + Cost[Order[i]] + SumOfCosts(Between(i, n)) + 0
    BY <1>1, <1>4 DEF FoundFresh
  <2>1. Order[i] \in Slots /\ call.ages \in [Slots -> Nat] /\ call'.ages \in [Slots -> Nat]
    <3>1. i \in 1..Len(Order)
      BY <1>1, Slotted
    <3> QED
      BY <1>4, <3>1, Slotted DEF StatsInv, Typed, Calls
  <2>2. CASE i = n
    <3>1. call'.ages[Order[i]] = slots[s].read
      BY <1>1, <1>4, <2>1, <2>2
    <3>2. slots[s].age \in Nat /\ slots[s].read \in Nat /\ TTL[s] \in Nat /\ Cost[s] \in Nat
      BY <1>1, <1>2, Bounds
    <3>3. SumOfCosts(Between(n, n)) = 0
      BY <1>1, BetweenNone
    <3>4. slots[s].read < TTL[s] + Cost[s] + 0 + 0
      BY <1>1, <1>2, <3>2
    <3> QED
      BY <2>2, <3>1, <3>3, <3>4
  <2>3. CASE i # n
    <3>1. i \in 1..n - 1 /\ i \in 1..Len(Order) /\ i < n
      BY <1>1, <2>3
    <3>2. call'.ages[Order[i]] = call.ages[Order[i]]
      <4>1. Order[i] # s
        BY <1>1, <3>1, Slotted
      <4> QED
        BY <1>4, <2>1, <4>1
    <3>3. call.ages[Order[i]] <
            TTL[Order[i]] + Cost[Order[i]] + SumOfCosts(Between(i, n - 1)) + 0
      BY <1>1, <3>1 DEF StatsInv, FoundFresh
    <3>4. /\ SumOfCosts(Between(i, n - 1)) \in Nat
          /\ SumOfCosts(Between(i, n)) = SumOfCosts(Between(i, n - 1)) + Cost[s]
      BY <1>1, <3>1, BetweenGrows
    <3>5. call.ages[Order[i]] \in Nat
      BY <2>1
    <3>6. TTL[Order[i]] \in Nat /\ Cost[Order[i]] \in Nat /\ Cost[s] \in Nat
      BY <1>1, <2>1, Bounds
    <3>7. call.ages[Order[i]] <
            TTL[Order[i]] + Cost[Order[i]] + (SumOfCosts(Between(i, n - 1)) + Cost[s]) + 0
      BY <3>3, <3>4, <3>5, <3>6
    <3> QED
      BY <3>2, <3>4, <3>7
  <2> QED
    BY <2>2, <2>3
<1>8. Dated' /\ PartsAreFresh'
  BY <1>1 DEF StatsInv, Dated, PartsAreFresh
<1> QED
  BY <1>5, <1>6, <1>7, <1>8 DEF StatsInv

(* A slot that is computed again since the command was idle has an entry   *)
(* that has outlived its time, and is no older than the spell.             *)
LEMMA MissKeeps == ASSUME StatsInv, Miss PROVE StatsInv'
<1> DEFINE s == Slot
<1>1. /\ UNCHANGED <<calls, slots, shown>>
      /\ spell' = [spell EXCEPT !.once = spell.once \union {s},
                               !.again = spell.again \union ({s} \intersect spell.once)]
      /\ call.pc \in 1..Len(Order) /\ s \in Slots
      /\ ~call.computing /\ call.took = 0
      /\ ~Fresh(s)
  BY Slotted DEF Miss, Running, Slot, StatsInv, Phases, Typed
<1>2. /\ call'.pc = call.pc /\ call'.computing = TRUE /\ call'.took = call.took
      /\ call'.delay = call.delay /\ call'.ages = call.ages
      /\ call' \in Calls
  BY DEF Miss, StatsInv, Typed, Calls
<1>3. Slot' = s
  BY <1>2 DEF Slot
<1>4. /\ spell'.length = spell.length /\ spell'.once = spell.once \union {s}
      /\ spell'.again = spell.again \union ({s} \intersect spell.once)
      /\ spell' \in [length : Nat, once : SUBSET Slots, again : SUBSET Slots]
  <2>1. spell \in [length : Nat, once : SUBSET Slots, again : SUBSET Slots]
    BY DEF StatsInv, Typed
  <2> QED
    BY <1>1, <2>1
<1>5. Typed' /\ Phases'
  <2>1. 0 <= Cost[s]
    BY <1>1, Bounds
  <2> QED
    BY <1>1, <1>2, <1>3, <1>4, <2>1 DEF StatsInv, Typed, Phases
<1>6. Done = spell.once /\ Done' = spell.once \ {s}
  BY <1>1, <1>2, <1>3, <1>4 DEF Done
<1>7. Kept'
  <2>1. ASSUME s \in spell.once PROVE spell.length >= TTL[s]
    <3>1. slots[s] # NONE /\ slots[s].age <= spell.length
      BY <1>6, <2>1 DEF StatsInv, Kept
    <3>2. slots[s].age \in Nat /\ TTL[s] \in Nat /\ spell.length \in Nat
      BY <1>1, <3>1, Bounds DEF StatsInv, Typed
    <3>3. ~(slots[s].age < TTL[s])
      BY <1>1, <3>1 DEF Fresh
    <3> QED
      BY <3>1, <3>2, <3>3
  <2>2. \A r \in spell'.again : spell'.length >= TTL[r]
    BY <1>4, <2>1 DEF StatsInv, Kept
  <2>3. \A r \in Done' : slots'[r] # NONE /\ slots'[r].age <= spell'.length
    BY <1>1, <1>4, <1>6 DEF StatsInv, Kept
  <2> QED
    BY <1>3, <1>4, <2>2, <2>3 DEF Kept
<1>8. Accounted'
  <2> SUFFICES ASSUME spell'.again = {} PROVE Accounted'
    BY DEF Accounted
  <2>1. spell.again = {} /\ s \notin spell.once
    BY <1>4
  <2>2. Done' = Done
    BY <1>6, <2>1
  <2> QED
    BY <1>1, <1>2, <1>4, <2>1, <2>2 DEF StatsInv, Accounted
<1>9. FoundFresh' /\ Dated' /\ PartsAreFresh'
  BY <1>1, <1>2 DEF StatsInv, FoundFresh, Dated, PartsAreFresh
<1> QED
  BY <1>5, <1>7, <1>8, <1>9 DEF StatsInv
LEMMA ComputedKeeps == ASSUME StatsInv, Computed PROVE StatsInv'
<1> DEFINE n == call.pc
           s == Order[n]
           took == call.took
<1>1. /\ UNCHANGED <<calls, shown, spell>>
      /\ call.computing /\ n \in 1..Len(Order) /\ s \in Slots /\ Slot = s
      /\ took \in Nat /\ took <= Cost[s] /\ Cost[s] \in Nat
  BY Slotted, Bounds DEF Computed, Slot, StatsInv, Phases, Typed, Calls
<1>2. slots' = [slots EXCEPT ![s] = [age |-> 0, read |-> took]]
  BY <1>1 DEF Computed, Store
<1>3. /\ slots' \in [Slots -> {NONE} \union [age : Nat, read : Nat]]
      /\ slots'[s] = [age |-> 0, read |-> took]
      /\ \A r \in Slots : r # s => slots'[r] = slots[r]
  BY <1>1, <1>2 DEF StatsInv, Typed
<1>4. [age |-> 0, read |-> took] # NONE
  BY <1>1, NoneAssumption
<1>5. call' = [call EXCEPT !.pc = n + 1, !.computing = FALSE, !.took = 0,
                           !.ages = [call.ages EXCEPT ![s] = took]]
  BY <1>1 DEF Computed, StatsInv, Typed, Calls
<1>6. /\ call'.pc = n + 1 /\ call'.computing = FALSE /\ call'.took = 0
      /\ call'.delay = call.delay
      /\ call'.ages = [call.ages EXCEPT ![s] = took]
      /\ call' \in Calls
  <2>1. call \in Calls /\ n + 1 \in 0..Len(Order) + 1
    BY <1>1, Slotted DEF StatsInv, Typed
  <2>2. [call.ages EXCEPT ![s] = took] \in [Slots -> Nat]
    BY <1>1, <2>1 DEF Calls
  <2> QED
    BY <1>5, <2>1, <2>2 DEF Calls
<1>7. Typed' /\ Phases'
  <2>1. n + 1 # 0
    BY <1>1, Slotted
  <2> QED
    BY <1>1, <1>3, <1>6, <2>1 DEF StatsInv, Typed, Phases
<1>8. /\ Done \in SUBSET Slots /\ s \notin Done /\ Done' = Done \union {s}
      /\ spell.length \in Nat
  <2>1. Done = spell.once \ {s} /\ Done' = spell.once
    BY <1>1, <1>6 DEF Done
  <2>2. s \in spell.once
    BY <1>1 DEF StatsInv, Kept
  <2> QED
    BY <2>1, <2>2 DEF StatsInv, Typed
<1>12. Kept'
  <2>1. slots'[s] # NONE /\ slots'[s].age <= spell.length
    BY <1>3, <1>4, <1>8
  <2>2. \A r \in Done : slots'[r] # NONE /\ slots'[r].age <= spell.length
    BY <1>3, <1>8 DEF StatsInv, Kept
  <2>3. \A r \in spell.again : spell.length >= TTL[r]
    BY DEF StatsInv, Kept
  <2> QED
    BY <1>1, <1>6, <1>8, <2>1, <2>2, <2>3 DEF Kept
<1>13. Accounted'
  <2> SUFFICES ASSUME spell.again = {} PROVE Accounted'
    BY <1>1 DEF Accounted
  <2> DEFINE b == spell.length
             D == Done
  <2>1. b <= SumOfCosts(D) + took
    BY DEF StatsInv, Accounted
  <2>2. (\A i \in 1..Len(calls) : calls[i] <= b) /\ call.delay <= b /\ Len(calls) <= b + 1
    BY DEF StatsInv, Accounted
  <2>3. SumOfCosts(D \union {s}) = SumOfCosts(D) + Cost[s] /\ SumOfCosts(D) \in Nat
    BY <1>1, <1>8, SumWith, SumFacts
  <2>4. b \in Nat
    BY <1>8
  <2>5. b <= SumOfCosts(D \union {s}) + 0
    <3> HIDE DEF b, D
    <3> QED
      BY <1>1, <2>1, <2>3, <2>4
  <2> QED
    BY <1>1, <1>6, <1>8, <2>2, <2>5 DEF Accounted
<1>9. FoundFresh'
  <2> SUFFICES ASSUME NEW i \in 1..n
               PROVE  call'.ages[Order[i]] <
                        TTL[Order[i]] + Cost[Order[i]] + SumOfCosts(Between(i, n)) + 0
    BY <1>1, <1>6 DEF FoundFresh
  <2>1. Order[i] \in Slots /\ call.ages \in [Slots -> Nat] /\ call'.ages \in [Slots -> Nat]
    <3>1. i \in 1..Len(Order)
      BY <1>1, Slotted
    <3> QED
      BY <1>6, <3>1, Slotted DEF StatsInv, Typed, Calls
  <2>2. CASE i = n
    <3>1. call'.ages[Order[i]] = took
      BY <1>1, <1>6, <2>1, <2>2
    <3>2. TTL[s] \in Nat /\ TTL[s] > 0
      BY <1>1, Bounds
    <3>3. SumOfCosts(Between(n, n)) = 0
      BY <1>1, BetweenNone
    <3>4. took < TTL[s] + Cost[s] + 0 + 0
      BY <1>1, <3>2
    <3> QED
      BY <2>2, <3>1, <3>3, <3>4
  <2>3. CASE i # n
    <3>1. i \in 1..n - 1 /\ i \in 1..Len(Order) /\ i < n
      BY <1>1, <2>3
    <3>2. call'.ages[Order[i]] = call.ages[Order[i]]
      <4>1. Order[i] # s
        BY <1>1, <3>1, Slotted
      <4> QED
        BY <1>6, <2>1, <4>1
    <3>3. call.ages[Order[i]] <
            TTL[Order[i]] + Cost[Order[i]] + SumOfCosts(Between(i, n - 1)) + took
      BY <1>1, <3>1 DEF StatsInv, FoundFresh
    <3>4. /\ SumOfCosts(Between(i, n - 1)) \in Nat
          /\ SumOfCosts(Between(i, n)) = SumOfCosts(Between(i, n - 1)) + Cost[s]
      BY <1>1, <3>1, BetweenGrows
    <3>5. call.ages[Order[i]] \in Nat
      BY <2>1
    <3>6. TTL[Order[i]] \in Nat /\ Cost[Order[i]] \in Nat
      BY <1>1, <2>1, Bounds
    <3>7. call.ages[Order[i]] <
            TTL[Order[i]] + Cost[Order[i]] + (SumOfCosts(Between(i, n - 1)) + Cost[s]) + 0
      BY <1>1, <3>3, <3>4, <3>5, <3>6, OneMore
    <3> QED
      BY <3>2, <3>4, <3>7
  <2> QED
    BY <2>2, <2>3
<1>10. Dated'
  <2> SUFFICES ASSUME NEW r \in Slots, slots'[r] # NONE
               PROVE  slots'[r].read <= slots'[r].age + Cost[r]
    BY DEF Dated
  <2>1. CASE r = s
    BY <1>1, <1>3, <2>1
  <2>2. CASE r # s
    BY <1>3, <2>2 DEF StatsInv, Dated
  <2> QED
    BY <2>1, <2>2
<1>11. PartsAreFresh'
  BY <1>1 DEF StatsInv, PartsAreFresh
<1> QED
  BY <1>7, <1>9, <1>10, <1>11, <1>12, <1>13 DEF StatsInv

LEMMA AnswerKeeps == ASSUME StatsInv, Answer PROVE StatsInv'
<1>1. /\ UNCHANGED <<calls, slots, spell>>
      /\ call.pc = Len(Order) + 1 /\ ~call.computing /\ call.took = 0
      /\ shown' = call.ages
      /\ call' = Idle
  BY Slotted DEF Answer, StatsInv, Phases
<1>2. call \in Calls /\ call' \in Calls
  BY <1>1, Slotted DEF StatsInv, Typed, Calls, Idle
<1>3. call'.pc = 0 /\ call'.computing = FALSE /\ call'.took = 0 /\ call'.delay = 0
  BY <1>1 DEF Idle
<1>4. Typed'
  BY <1>1, <1>2 DEF StatsInv, Typed, Calls
<1>5. Phases' /\ FoundFresh' /\ Dated'
  BY <1>1, <1>3 DEF StatsInv, Phases, FoundFresh, Dated
<1>6. Done' = Done
  BY <1>1, <1>3 DEF Done
<1>7. Kept' /\ Accounted'
  <2>1. spell.length \in Nat
    BY DEF StatsInv, Typed
  <2> QED
    BY <1>1, <1>3, <1>6, <2>1 DEF StatsInv, Kept, Accounted
<1>8. PartsAreFresh'
  <2>2. ASSUME NEW i \in 1..Len(Order)
        PROVE  call.ages[Order[i]] <
                 TTL[Order[i]] + Cost[Order[i]] + SumOfCosts(Between(i, Len(Order)))
    <3>1. i \in 1..call.pc - 1 /\ call.pc - 1 = Len(Order)
      BY <1>1, Slotted
    <3>2. call.ages[Order[i]] <
            TTL[Order[i]] + Cost[Order[i]] + SumOfCosts(Between(i, Len(Order))) + 0
      BY <1>1, <3>1 DEF StatsInv, FoundFresh
    <3>3. Between(i, Len(Order)) \in SUBSET Slots /\ Order[i] \in Slots
      BY Slotted DEF Between
    <3>4. /\ TTL[Order[i]] \in Nat /\ Cost[Order[i]] \in Nat
          /\ SumOfCosts(Between(i, Len(Order))) \in Nat
      BY <3>3, Bounds, SumFacts
    <3> QED
      BY <3>2, <3>4
  <2> QED
    BY <1>1, <2>2, Slotted DEF PartsAreFresh, Between
<1> QED
  BY <1>4, <1>5, <1>7, <1>8 DEF StatsInv
(* A second makes the calls that wait older and may add one.               *)
LEMMA CallsGrow ==
  ASSUME Typed, Second
  PROVE  /\ calls' \in Seq(Nat) /\ Len(calls') <= Len(calls) + 1
         /\ \A b \in Nat : (\A i \in 1..Len(calls) : calls[i] <= b) =>
              \A i \in 1..Len(calls') : calls'[i] <= b + 1
<1> DEFINE old == [i \in 1..Len(calls) |-> Older(calls[i])]
<1>1. calls \in Seq(Nat) /\ DOMAIN calls = 1..Len(calls) /\ Len(calls) \in Nat
  BY DEF Typed
<1>2. PICK new \in {<<>>, <<0>>} : calls' = old \o new
  BY <1>1 DEF Second
<1>3. \A i \in 1..Len(calls) : Older(calls[i]) \in Nat /\ Older(calls[i]) <= calls[i] + 1
  <2> SUFFICES ASSUME NEW i \in 1..Len(calls)
               PROVE  Older(calls[i]) \in Nat /\ Older(calls[i]) <= calls[i] + 1
    OBVIOUS
  <2>1. calls[i] \in Nat
    BY <1>1
  <2> QED
    BY <2>1, Ages
<1>4. /\ old \in Seq(Nat) /\ Len(old) = Len(calls)
      /\ \A i \in 1..Len(calls) : old[i] <= calls[i] + 1
  BY <1>1, <1>3
<1> HIDE DEF old
<1>5. CASE new = <<>>
  <2>1. calls' = old
    BY <1>2, <1>4, <1>5
  <2>2. ASSUME NEW b \in Nat, \A i \in 1..Len(calls) : calls[i] <= b, NEW i \in 1..Len(calls)
        PROVE  old[i] <= b + 1
    <3>1. calls[i] \in Nat /\ calls[i] <= b /\ old[i] \in Nat /\ old[i] <= calls[i] + 1
      BY <1>1, <1>4, <2>2
    <3> QED
      BY <3>1
  <2> QED
    BY <1>1, <1>4, <2>1, <2>2
<1>6. CASE new = <<0>>
  <2>1. /\ calls' \in Seq(Nat) /\ Len(calls') = Len(calls) + 1
        /\ \A i \in 1..Len(calls) + 1 : calls'[i] = IF i <= Len(calls) THEN old[i] ELSE 0
    BY <1>1, <1>2, <1>4, <1>6
  <2>2. ASSUME NEW b \in Nat, \A i \in 1..Len(calls) : calls[i] <= b,
               NEW i \in 1..Len(calls) + 1
        PROVE  calls'[i] <= b + 1
    <3>1. CASE i <= Len(calls)
      <4>1. i \in 1..Len(calls)
        BY <1>1, <3>1
      <4>2. calls[i] \in Nat /\ calls[i] <= b
        BY <1>1, <2>2, <4>1
      <4>3. old[i] \in Nat /\ old[i] <= calls[i] + 1 /\ calls'[i] = old[i]
        BY <1>1, <1>4, <2>1, <3>1, <4>1
      <4> QED
        BY <4>2, <4>3
    <3>2. CASE ~(i <= Len(calls))
      BY <1>1, <2>1, <3>2
    <3> QED
      BY <3>1, <3>2
  <2> QED
    BY <1>1, <2>1, <2>2
<1> QED
  BY <1>2, <1>5, <1>6

LEMMA SlotsAge ==
  ASSUME StatsInv, Second
  PROVE  /\ slots' \in [Slots -> {NONE} \union [age : Nat, read : Nat]]
         /\ \A s \in Slots : slots'[s] # NONE => slots[s] # NONE
         /\ \A s \in Slots : slots[s] # NONE =>
              slots'[s] # NONE /\ slots'[s].age = Older(slots[s].age)
         /\ Dated'
<1> SUFFICES ASSUME NEW s \in Slots
             PROVE  /\ slots'[s] \in {NONE} \union [age : Nat, read : Nat]
                    /\ slots'[s] # NONE => slots[s] # NONE
                    /\ slots[s] # NONE =>
                         /\ slots'[s] # NONE /\ slots'[s].age = Older(slots[s].age)
                         /\ slots'[s].read <= slots'[s].age + Cost[s]
  BY DEF Second, Dated
<1>1. slots'[s] = IF slots[s] = NONE THEN NONE
                  ELSE [age |-> Older(slots[s].age), read |-> Older(slots[s].read)]
  BY DEF Second
<1>2. CASE slots[s] = NONE
  BY <1>1, <1>2
<1>3. CASE slots[s] # NONE
  <2>1. slots[s].age \in Nat /\ slots[s].read \in Nat
    BY <1>3 DEF StatsInv, Typed
  <2>2. slots[s].read <= slots[s].age + Cost[s] /\ Cost[s] \in Nat
    BY <1>3, Bounds DEF StatsInv, Dated
  <2> DEFINE age == Older(slots[s].age)
             read == Older(slots[s].read)
  <2>3. age \in Nat /\ age = IF slots[s].age + 1 <= Cap THEN slots[s].age + 1 ELSE Cap
    BY <2>1, Ages
  <2>4. read \in Nat /\ read = IF slots[s].read + 1 <= Cap THEN slots[s].read + 1 ELSE Cap
    BY <2>1, Ages
  <2>5. slots'[s] = [age |-> age, read |-> read]
    BY <1>1, <1>3
  <2>8. age = Older(slots[s].age)
    OBVIOUS
  <2> HIDE DEF age, read
  <2>6. read <= age + Cost[s]
    BY <2>1, <2>2, <2>3, <2>4, CapEnough
  <2>7. slots'[s] \in [age : Nat, read : Nat] /\ slots'[s] # NONE
    BY <2>3, <2>4, <2>5, NoneAssumption
  <2> QED
    BY <1>3, <2>5, <2>6, <2>7, <2>8
<1> QED
  BY <1>2, <1>3

(* A second of a function that is not done.                                *)
LEMMA BusySecondKeeps == ASSUME StatsInv, Second, call.computing PROVE StatsInv'
<1> DEFINE n == call.pc
           aged == [s \in Slots |->
                      IF \E k \in 1..n - 1 : Order[k] = s THEN Older(call.ages[s]) ELSE 0]
<1>1. /\ UNCHANGED shown
      /\ spell' = [spell EXCEPT !.length = Older(spell.length)]
      /\ n \in 1..Len(Order) /\ Slot \in Slots
      /\ call.took \in Nat /\ Cost[Slot] \in Nat /\ call.took < Cost[Slot]
      /\ call \in Calls
  <2>1. call.computing => n # 0
    BY Slotted DEF StatsInv, Phases
  <2>2. n \in 1..Len(Order) /\ Slot \in Slots
    BY Slotted DEF StatsInv, Phases, Slot
  <2>3. call.took < Cost[Slot]
    BY <2>1 DEF Second
  <2>4. call \in Calls /\ call.took \in Nat
    BY DEF StatsInv, Typed, Calls
  <2> QED
    BY <2>2, <2>3, <2>4, Bounds DEF Second
<1>2. call' = [call EXCEPT !.took = call.took + 1, !.delay = Older(call.delay), !.ages = aged]
  BY <1>1 DEF Second, Calls
<1>3. aged \in [Slots -> Nat]
  <2>1. \A s \in Slots : call.ages[s] \in Nat
    BY <1>1 DEF Calls
  <2> QED
    BY <2>1, Ages
<1>4. Older(call.delay) \in Nat /\ Older(call.delay) <= call.delay + 1 /\ call.delay \in Nat
  <2>1. call.delay \in Nat
    BY <1>1 DEF Calls
  <2> QED
    BY <2>1, Ages, CapEnough
<1>5. /\ call'.pc = n /\ call'.computing = TRUE /\ call'.took = call.took + 1
      /\ call'.delay = Older(call.delay) /\ call'.ages = aged /\ call' \in Calls
  <2> HIDE DEF aged
  <2>1. call.took + 1 \in Nat /\ n \in 0..Len(Order) + 1 /\ call.computing = TRUE
    BY <1>1, Slotted DEF Calls
  <2>2. /\ call'.pc = n /\ call'.computing = call.computing /\ call'.took = call.took + 1
        /\ call'.delay = Older(call.delay) /\ call'.ages = aged
    BY <1>1, <1>2 DEF Calls
  <2>3. call' \in Calls
    BY <1>1, <1>2, <1>3, <1>4, <2>1 DEF Calls
  <2> QED
    BY <2>1, <2>2, <2>3
<1>6. Slot' = Slot
  BY <1>5 DEF Slot
<1>11. /\ spell' \in [length : Nat, once : SUBSET Slots, again : SUBSET Slots]
       /\ spell'.length = Older(spell.length) /\ spell'.once = spell.once
       /\ spell'.again = spell.again
       /\ spell.length \in Nat /\ spell.again \in SUBSET Slots
  <2>1. spell \in [length : Nat, once : SUBSET Slots, again : SUBSET Slots]
    BY DEF StatsInv, Typed
  <2>2. Older(spell.length) \in Nat
    BY <2>1, Ages
  <2> QED
    BY <1>1, <2>1, <2>2
<1>7. Typed' /\ Phases'
  <2>1. calls' \in Seq(Nat)
    BY CallsGrow DEF StatsInv
  <2>2. Typed'
    BY <1>1, <1>5, <1>11, <2>1, SlotsAge DEF StatsInv, Typed
  <2>3. Phases'
    BY <1>1, <1>5, <1>6 DEF Phases
  <2> QED
    BY <2>2, <2>3
<1>12. Done' = Done /\ Done \in SUBSET Slots
  <2>1. Done' = Done
    BY <1>1, <1>5, <1>6, <1>11 DEF Done
  <2> QED
    BY <2>1, DoneType DEF StatsInv
<1>8. Kept'
  <2>1. ASSUME NEW s \in Done PROVE slots'[s] # NONE /\ slots'[s].age <= spell'.length
    <3>1. slots[s] # NONE /\ slots[s].age <= spell.length /\ slots[s].age \in Nat
      BY <1>12, <2>1 DEF StatsInv, Kept, Typed
    <3>2. slots'[s] # NONE /\ slots'[s].age = Older(slots[s].age)
      BY <1>12, <2>1, <3>1, SlotsAge
    <3> QED
      BY <1>11, <3>1, <3>2, OlderGrows
  <2>2. ASSUME NEW s \in spell.again PROVE spell'.length >= TTL[s]
    <3>1. spell.length >= TTL[s] /\ s \in Slots
      BY <1>11, <2>2 DEF StatsInv, Kept
    <3> QED
      BY <1>11, <3>1, OlderOutlives
  <2> QED
    BY <1>1, <1>5, <1>6, <1>11, <1>12, <2>1, <2>2 DEF StatsInv, Kept
<1>13. Accounted'
  <2> SUFFICES ASSUME spell.again = {} PROVE Accounted'
    BY <1>11 DEF Accounted
  <2> DEFINE b == spell.length
             D == Done
  <2>1. Older(b) = b + 1
    <3>1. b <= SumOfCosts(Slots)
      BY SpellBound DEF StatsInv
    <3> QED
      BY <1>1, <1>11, <3>1, OlderInTime
  <2>2. /\ b <= SumOfCosts(D) + call.took /\ call.delay <= b /\ Len(calls) <= b + 1
        /\ \A i \in 1..Len(calls) : calls[i] <= b
    BY DEF StatsInv, Accounted
  <2>3. /\ Len(calls') <= Len(calls) + 1 /\ Len(calls) \in Nat /\ Len(calls') \in Nat
        /\ \A i \in 1..Len(calls') : calls'[i] <= b + 1
    <3> DEFINE Within(c, m) == \A i \in 1..Len(c) : c[i] <= m
    <3>1. Typed /\ Within(calls, b)
      BY <2>2 DEF StatsInv
    <3>2. b \in Nat
      BY <1>11
    <3>3. /\ calls' \in Seq(Nat) /\ Len(calls') <= Len(calls) + 1
          /\ \A m \in Nat : Within(calls, m) => Within(calls', m + 1)
      BY <3>1, CallsGrow
    <3>4. Len(calls) \in Nat
      BY <3>1 DEF Typed
    <3> HIDE DEF Within, b
    <3>5. Within(calls', b + 1)
      BY <3>1, <3>2, <3>3
    <3> QED
      BY <3>3, <3>4, <3>5 DEF Within
  <2>4. SumOfCosts(D) \in Nat /\ b \in Nat
    BY <1>11, <1>12, SumFacts
  <2>5. /\ spell'.length = b + 1 /\ Done' = D
        /\ call'.took = call.took + 1 /\ call'.delay = Older(call.delay)
    BY <1>5, <1>11, <1>12, <2>1
  <2> HIDE DEF b, D
  <2>6. /\ b + 1 <= SumOfCosts(D) + (call.took + 1)
        /\ Older(call.delay) <= b + 1 /\ Len(calls') <= (b + 1) + 1
    BY <1>1, <1>4, <2>2, <2>3, <2>4
  <2> QED
    BY <2>3, <2>5, <2>6 DEF Accounted
<1>9. FoundFresh'
  <2> SUFFICES ASSUME NEW i \in 1..n - 1
               PROVE  aged[Order[i]] < TTL[Order[i]] + Cost[Order[i]]
                                         + SumOfCosts(Between(i, n - 1)) + (call.took + 1)
    <3> HIDE DEF aged
    <3> QED
      BY <1>1, <1>5 DEF FoundFresh
  <2>1. i \in 1..Len(Order) /\ Order[i] \in Slots /\ i < n
    BY <1>1, Slotted
  <2>2. call.ages[Order[i]] \in Nat
    BY <1>1, <2>1 DEF Calls
  <2>3. aged[Order[i]] = Older(call.ages[Order[i]])
    BY <2>1
  <2>4. aged[Order[i]] \in Nat /\ aged[Order[i]] <= call.ages[Order[i]] + 1
    BY <2>2, <2>3, Ages, CapEnough
  <2> HIDE DEF aged
  <2>5. call.ages[Order[i]] < TTL[Order[i]] + Cost[Order[i]]
                                + SumOfCosts(Between(i, n - 1)) + call.took
    BY DEF StatsInv, FoundFresh
  <2>6. /\ TTL[Order[i]] \in Nat /\ Cost[Order[i]] \in Nat
        /\ SumOfCosts(Between(i, n - 1)) \in Nat
    BY <1>1, <2>1, Bounds, BetweenGrows
  <2> QED
    BY <1>1, <2>2, <2>4, <2>5, <2>6, OneSecond
<1>10. PartsAreFresh'
  BY <1>1 DEF StatsInv, PartsAreFresh
<1> QED
  BY <1>7, <1>8, <1>9, <1>10, <1>13, SlotsAge DEF StatsInv

(* A second in which the command is idle: it is busy for no time yet.      *)
LEMMA IdleSecondKeeps == ASSUME StatsInv, Second, ~call.computing PROVE StatsInv'
<1>1. UNCHANGED <<call, shown>> /\ call.pc = 0 /\ calls = <<>> /\ spell' = Rest
  BY DEF Second
<1>2. call.took = 0 /\ call.delay = 0
  BY <1>1 DEF StatsInv, Phases
<1>3. PICK new \in {<<>>, <<0>>} : calls' = new
  BY <1>1 DEF Second
<1>4. calls' \in Seq(Nat) /\ Len(calls') <= 0 + 1 /\ \A i \in 1..Len(calls') : calls'[i] <= 0
  <2>1. CASE new = <<>>
    BY <1>3, <2>1
  <2>2. CASE new = <<0>>
    BY <1>3, <2>2
  <2> QED
    BY <2>1, <2>2
<1>5. Typed' /\ Phases' /\ FoundFresh'
  <2>1. Typed'
    BY <1>1, <1>4, SlotsAge DEF StatsInv, Typed, Rest
  <2>2. Phases'
    BY <1>1, <1>2 DEF Phases
  <2>3. FoundFresh'
    BY <1>1 DEF FoundFresh
  <2> QED
    BY <2>1, <2>2, <2>3
<1>6. Kept' /\ Accounted'
  <2>1. call'.computing = FALSE /\ Done' = {}
    BY <1>1 DEF StatsInv, Typed, Calls, Rest, Done
  <2> QED
    BY <1>1, <1>2, <1>4, <2>1, SumFacts DEF Kept, Accounted, Rest
<1>7. PartsAreFresh'
  BY <1>1 DEF StatsInv, PartsAreFresh
<1> QED
  BY <1>5, <1>6, <1>7, SlotsAge DEF StatsInv

-----------------------------------------------------------------------------
(* The inductive invariant holds in every state.                           *)
THEOREM StatsInvariant == Spec => []StatsInv
<1>1. StatsInv /\ [Next]_vars => StatsInv'
  <2> SUFFICES ASSUME StatsInv, [Next]_vars PROVE StatsInv'
    OBVIOUS
  <2>1. CASE Second
    BY <2>1, BusySecondKeeps, IdleSecondKeeps
  <2>2. CASE UNCHANGED vars
    BY <2>2 DEF vars, StatsInv, Typed, Phases, Kept, Accounted, Done, Dated, FoundFresh,
                PartsAreFresh, Slot
  <2> QED
    BY <2>1, <2>2, BeginKeeps, HitKeeps, MissKeeps, ComputedKeeps, AnswerKeeps DEF Next
<1> QED
  BY <1>1, Start, PTL DEF Spec

(* Polling once a second keeps up with any number of slow functions,       *)
(* however long they take: none is called again before the command has     *)
(* been busy for as long as its entry lives, and until one is, no call     *)
(* waits longer than all functions take together.                          *)
THEOREM PollsKeepUp == Spec => []PollingKeepsUp
<1>1. StatsInv => PollingKeepsUp
  <2> SUFFICES ASSUME StatsInv PROVE PollingKeepsUp
    OBVIOUS
  <2>1. \A s \in spell.again : spell.length >= TTL[s]
    BY DEF StatsInv, Kept
  <2>2. ASSUME spell.again = {}
        PROVE  /\ \A i \in DOMAIN calls : calls[i] <= SumOfCosts(Slots)
               /\ call.delay <= SumOfCosts(Slots)
               /\ Len(calls) <= SumOfCosts(Slots) + 1
    <3>1. /\ \A i \in 1..Len(calls) : calls[i] <= spell.length
          /\ call.delay <= spell.length /\ Len(calls) <= spell.length + 1
      BY <2>2 DEF StatsInv, Accounted
    <3>2. spell.length <= SumOfCosts(Slots)
      BY <2>2, SpellBound DEF StatsInv
    <3>3. /\ DOMAIN calls = 1..Len(calls) /\ Len(calls) \in Nat /\ call.delay \in Nat
          /\ \A i \in 1..Len(calls) : calls[i] \in Nat
          /\ spell.length \in Nat /\ SumOfCosts(Slots) \in Nat
      BY Bounds DEF StatsInv, Typed, Calls
    <3> QED
      BY <3>1, <3>2, <3>3
  <2> QED
    BY <2>1, <2>2 DEF PollingKeepsUp
<1> QED
  BY <1>1, StatsInvariant, PTL

(* If moreover every entry outlives what all functions take together,      *)
(* none is ever called twice in a spell, so the bounds hold always.        *)
EntriesOutlive == \A s \in Slots : TTL[s] > SumOfCosts(Slots)

THEOREM QuickSlotsOnce == Spec => [](EntriesOutlive => spell.again = {})
<1>1. Init => (EntriesOutlive => spell.again = {})
  BY DEF Init, Rest
<1>2. StatsInv /\ (EntriesOutlive => spell.again = {}) /\ [Next]_vars
        => (EntriesOutlive => spell.again = {})'
  <2> SUFFICES ASSUME StatsInv, EntriesOutlive, spell.again = {}, [Next]_vars
               PROVE  spell'.again = {}
    BY DEF EntriesOutlive
  <2>1. CASE Miss
    <3>1. /\ ~call.computing /\ ~Fresh(Slot) /\ Slot \in Slots
          /\ spell' = [spell EXCEPT !.once = spell.once \union {Slot},
                                   !.again = spell.again \union ({Slot} \intersect spell.once)]
      BY <2>1, Slotted DEF Miss, Running, Slot
    <3>2. Slot \notin spell.once
      <4> SUFFICES ASSUME Slot \in spell.once PROVE FALSE
        OBVIOUS
      <4>1. slots[Slot] # NONE /\ slots[Slot].age <= spell.length
        BY <3>1 DEF StatsInv, Kept, Done
      <4>2. spell.length <= SumOfCosts(Slots)
        BY SpellBound DEF StatsInv
      <4>3. /\ slots[Slot].age \in Nat /\ spell.length \in Nat /\ SumOfCosts(Slots) \in Nat
            /\ TTL[Slot] \in Nat /\ TTL[Slot] > SumOfCosts(Slots)
        BY <3>1, <4>1, Bounds DEF StatsInv, Typed, EntriesOutlive
      <4>4. slots[Slot].age < TTL[Slot]
        BY <4>1, <4>2, <4>3
      <4> QED
        BY <3>1, <4>1, <4>4 DEF Fresh
    <3>3. spell'.again = spell.again \union ({Slot} \intersect spell.once)
      BY <3>1 DEF StatsInv, Typed
    <3> QED
      BY <3>2, <3>3
  <2>2. CASE Second
    BY <2>2 DEF Second, Rest, StatsInv, Typed
  <2>3. CASE Begin \/ Hit \/ Computed \/ Answer \/ UNCHANGED vars
    BY <2>3 DEF Begin, Hit, Computed, Answer, vars
  <2> QED
    BY <2>1, <2>2, <2>3 DEF Next
<1> QED
  BY <1>1, <1>2, StatsInvariant, PTL DEF Spec

(* Each part of an answer is as fresh as its time to live, its own cost    *)
(* and those of the slots after it allow.                                  *)
THEOREM AnswersAreFresh == Spec => []PartsAreFresh
<1>1. StatsInv => PartsAreFresh
  BY DEF StatsInv
<1> QED
  BY <1>1, StatsInvariant, PTL

(* The cap on ages hides nothing: every bound of the two theorems above is *)
(* below it, so an age that reached it would have been noticed.            *)
LEMMA CapHidesNothing ==
  ASSUME NEW i \in 1..Len(Order)
  PROVE  /\ SumOfCosts(Slots) < Cap
         /\ TTL[Order[i]] + Cost[Order[i]] + SumOfCosts(Between(i, Len(Order))) <= Cap
<1> DEFINE later == Between(i, Len(Order))
           total == SumOfCosts(Slots)
<1>1. later \in SUBSET Slots /\ Order[i] \in Slots /\ Order[i] \notin later
  BY Slotted DEF Between
<1>2. SumOfCosts(later \union {Order[i]}) = SumOfCosts(later) + Cost[Order[i]]
  BY <1>1, SumWith
<1>3. SumOfCosts(later \union {Order[i]}) <= total
  BY <1>1, SumGrows
<1>4. SumOfCosts(later) \in Nat /\ total \in Nat /\ Cost[Order[i]] \in Nat /\ TTL[Order[i]] \in Nat
  BY <1>1, SumFacts, Bounds
<1>5. TTL[Order[i]] + 2 * total < Cap /\ Cap \in Nat
  BY <1>1, CapEnough
<1> HIDE DEF later, total
<1>6. total < Cap /\ TTL[Order[i]] + Cost[Order[i]] + SumOfCosts(later) <= Cap
  BY <1>2, <1>3, <1>4, <1>5
<1> QED
  BY <1>6 DEF later, total
=============================================================================
