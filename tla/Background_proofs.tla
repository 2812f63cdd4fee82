-------------------------- MODULE Background_proofs --------------------------
(***************************************************************************)
(* What holds of the prefix table and of the external baselines however    *)
(* the two tasks, the network and the publishers take turns; and what the  *)
(* figures of a log and of a CI answer are, for every log and answer.      *)
(*                                                                         *)
(* The figures are medians, and a median is the value of a given rank.     *)
(* Every rank is taken by one element; numbering the elements anew leaves  *)
(* the value at each rank as it is; and commits one rank apart are those   *)
(* with a gap between them.                                                *)
(***************************************************************************)
EXTENDS MCBackground, CloudRanges_proofs, FiniteSetTheorems

USE NoneAssumption

BaselinesInv ==
  /\ cache \in {NONE} \union ExternalBaselines
  /\ work \in [pc : {"asleep", "arena", "git", "ci", "stuck"}, shown : ExternalBaselines]
  /\ outcome \in [arena : {"none", "ok", "failed"}, ci : {"none", "ok", "failed"}]
  /\ work.pc \in {"git", "ci"} => (work.shown.arena # <<>>) = (outcome.arena = "ok")
  /\ NothingStaleIsShown

-----------------------------------------------------------------------------
(* The task that renews the baselines.                                     *)
LEMMA BaselinesStart == BaselinesInit => BaselinesInv
<1>1. Unavailable \in ExternalBaselines
  BY DEF Unavailable, ExternalBaselines
<1> QED
  BY <1>1 DEF BaselinesInit, BaselinesInv, NothingStaleIsShown, Idle, Shown, Unavailable

LEMMA BaselinesStepKeeps ==
  ASSUME BaselinesInv, NEW net, BaselinesStep(net)
  PROVE  BaselinesInv'
<1>0. Unavailable \in ExternalBaselines
  BY DEF Unavailable, ExternalBaselines
<1>1. CASE BeginBaselines
  BY <1>0, <1>1 DEF BeginBaselines, BaselinesInv, NothingStaleIsShown, Shown
<1>2. CASE FetchArena(net)
  <2>1. PICK models \in Models :
          LET rows == IF net = "up" THEN Ranks(models) ELSE <<>> IN
          /\ outcome' = [outcome EXCEPT !.arena = IF rows = <<>> THEN "failed" ELSE "ok"]
          /\ work' = [pc |-> "git", shown |-> [work.shown EXCEPT !.arena = rows]]
    BY <1>2 DEF FetchArena
  <2> DEFINE rows == IF net = "up" THEN Ranks(models) ELSE <<>>
  <2>2. rows \in {<<>>} \union {Ranks(m) : m \in Models}
    OBVIOUS
  <2>3. /\ outcome' = [outcome EXCEPT !.arena = IF rows = <<>> THEN "failed" ELSE "ok"]
        /\ work' = [pc |-> "git", shown |-> [work.shown EXCEPT !.arena = rows]]
        /\ cache' = cache
    BY <1>2, <2>1 DEF FetchArena
  <2> HIDE DEF rows
  <2>4. [work.shown EXCEPT !.arena = rows] \in ExternalBaselines
    BY <2>2 DEF BaselinesInv, ExternalBaselines
  <2>5. [work.shown EXCEPT !.arena = rows].arena = rows
    BY DEF BaselinesInv, ExternalBaselines
  <2> QED
    BY <2>3, <2>4, <2>5 DEF BaselinesInv, NothingStaleIsShown
<1>3. CASE RunGit
  <2>1. PICK git \in {NONE} \union AllGitFigures :
          work' = [pc |-> "ci", shown |-> [work.shown EXCEPT !.git = git]]
    BY <1>3 DEF RunGit, AllGitFigures
  <2>2. /\ [work.shown EXCEPT !.git = git] \in ExternalBaselines
        /\ [work.shown EXCEPT !.git = git].arena = work.shown.arena
    BY DEF BaselinesInv, ExternalBaselines
  <2> QED
    BY <1>3, <2>1, <2>2 DEF RunGit, BaselinesInv, NothingStaleIsShown
<1>4. CASE FetchCi(net)
  <2>1. PICK ci \in {NoCi} \union AllCiFigures :
          /\ cache' = [work.shown EXCEPT !.ci = ci]
          /\ outcome' = [outcome EXCEPT !.ci = IF ci = NoCi THEN "failed" ELSE "ok"]
    BY <1>4 DEF FetchCi
  <2>2. /\ cache' \in ExternalBaselines
        /\ cache'.arena = work.shown.arena /\ cache'.ci = ci
    BY <2>1 DEF BaselinesInv, ExternalBaselines
  <2>3. cache' # NONE /\ work' = Idle /\ work.pc = "ci"
    BY <1>4, <2>2 DEF FetchCi
  <2>4. (cache'.arena # <<>>) = (outcome'.arena = "ok") /\ (cache'.ci # NoCi) = (outcome'.ci = "ok")
    BY <2>1, <2>2, <2>3 DEF BaselinesInv
  <2>5. NothingStaleIsShown'
    BY <2>3, <2>4 DEF NothingStaleIsShown, Shown
  <2> QED
    BY <1>0, <2>1, <2>2, <2>3, <2>5 DEF BaselinesInv, Idle
<1>5. CASE Hang(net)
  BY <1>5 DEF Hang, BaselinesInv, NothingStaleIsShown
<1> QED
  BY <1>1, <1>2, <1>3, <1>4, <1>5 DEF BaselinesStep

-----------------------------------------------------------------------------
(* The elements of a finite set in the order of their values, ties in the  *)
(* order of the elements.                                                  *)
Below(value, j, i) == value[j] < value[i] \/ (value[j] = value[i] /\ j < i)
Lower(value, S, i) == {j \in S : Below(value, j, i)}

\* A finite set of whole numbers and the values of its elements.
Valued(value, S) == S \in SUBSET Int /\ IsFiniteSet(S) /\ \A i \in S : value[i] \in Int

LEMMA Linear ==
  ASSUME NEW value, NEW S, Valued(value, S)
  PROVE  /\ \A i \in S : ~ Below(value, i, i)
         /\ \A i, j \in S : Below(value, i, j) => ~ Below(value, j, i)
         /\ \A i, j \in S : i = j \/ Below(value, i, j) \/ Below(value, j, i)
         /\ \A i, j, k \in S : Below(value, i, j) /\ Below(value, j, k) => Below(value, i, k)
BY DEF Valued, Below

LEMMA RankCounts ==
  ASSUME NEW value, NEW S, NEW i
  PROVE  Rank(value, S, i) = Cardinality(Lower(value, S, i))
BY DEF Rank, Lower, Below

(* A part of a finite set, and a part that lacks one of its elements.      *)
LEMMA PartOf ==
  ASSUME NEW S, IsFiniteSet(S), NEW T \in SUBSET S
  PROVE  /\ IsFiniteSet(T) /\ Cardinality(T) \in Nat /\ Cardinality(S) \in Nat
         /\ Cardinality(T) <= Cardinality(S)
         /\ \A x \in S : x \notin T => Cardinality(T) < Cardinality(S)
<1>1. IsFiniteSet(T) /\ Cardinality(T) <= Cardinality(S)
      /\ (Cardinality(S) = Cardinality(T) => S = T)
  BY FS_Subset
<1>2. Cardinality(T) \in Nat /\ Cardinality(S) \in Nat
  BY <1>1, FS_CardinalityType
<1> QED
  BY <1>1, <1>2

LEMMA RankRange ==
  ASSUME NEW value, NEW S, Valued(value, S), NEW i \in S
  PROVE  Rank(value, S, i) \in 0..Cardinality(S) - 1
<1>1. Lower(value, S, i) \in SUBSET S /\ i \notin Lower(value, S, i)
  BY Linear DEF Lower
<1> QED
  BY <1>1, PartOf, RankCounts DEF Valued

LEMMA RankGrows ==
  ASSUME NEW value, NEW S, Valued(value, S), NEW i \in S, NEW j \in S, Below(value, i, j)
  PROVE  Rank(value, S, i) < Rank(value, S, j)
<1>1. Lower(value, S, i) \in SUBSET Lower(value, S, j)
  BY Linear DEF Lower
<1>2. i \in Lower(value, S, j) /\ i \notin Lower(value, S, i)
  BY Linear DEF Lower
<1>3. IsFiniteSet(Lower(value, S, j))
  BY FS_Subset DEF Valued, Lower
<1> QED
  BY <1>1, <1>2, <1>3, PartOf, RankCounts

(* Different elements have different ranks, and every rank is taken.       *)
LEMMA RankIsOwn ==
  ASSUME NEW value, NEW S, Valued(value, S), NEW i \in S, NEW j \in S,
         Rank(value, S, i) = Rank(value, S, j)
  PROVE  i = j
<1>1. Rank(value, S, i) \in Int /\ Rank(value, S, j) \in Int
  <2>1. \A k \in S : Rank(value, S, k) \in Int
    <3> SUFFICES ASSUME NEW k \in S PROVE Rank(value, S, k) \in Int
      OBVIOUS
    <3>1. IsFiniteSet(S)
      BY DEF Valued
    <3>2. Cardinality(S) \in Nat
      BY <3>1, FS_CardinalityType
    <3> QED
      BY <3>2, RankRange
  <2> QED
    BY <2>1
<1>2. ~ Below(value, i, j) /\ ~ Below(value, j, i)
  BY <1>1, RankGrows
<1> QED
  BY <1>2, Linear

LEMMA RankIsTaken ==
  ASSUME NEW value, NEW S, Valued(value, S), NEW k \in 0..Cardinality(S) - 1
  PROVE  \E i \in S : Rank(value, S, i) = k
<1> SUFFICES ASSUME \A i \in S : Rank(value, S, i) # k PROVE FALSE
  OBVIOUS
<1> DEFINE n == Cardinality(S)
           Others == (0..n - 1) \ {k}
           f == [i \in S |-> Rank(value, S, i)]
<1>1. IsFiniteSet(S) /\ n \in Nat
  BY FS_CardinalityType DEF Valued
<1>2. f \in [S -> Others]
  BY RankRange
<1>3. IsFiniteSet(Others) /\ Cardinality(Others) < n
  <2>1. IsFiniteSet(0..n - 1) /\ Cardinality(0..n - 1) = n
    BY <1>1, FS_Interval
  <2> QED
    BY <1>1, <2>1, PartOf
<1>4. PICK x, y \in S : x # y /\ f[x] = f[y]
  <2> HIDE DEF f, Others
  <2> QED
    BY <1>1, <1>2, <1>3, FS_PigeonHole
<1>5. Rank(value, S, x) = Rank(value, S, y)
  BY <1>4
<1> QED
  BY <1>4, <1>5, RankIsOwn

-----------------------------------------------------------------------------
(* The value at a rank is the same however the elements are numbered.      *)
LEMMA SameCount ==
  ASSUME NEW S, NEW T, IsFiniteSet(S), NEW f \in Bijection(S, T),
         NEW A \in SUBSET S, NEW B \in SUBSET T, \A i \in S : i \in A <=> f[i] \in B
  PROVE  Cardinality(A) = Cardinality(B)
<1> DEFINE g == [i \in A |-> f[i]]
<1>1. f \in [S -> T] /\ (\A a, b \in S : f[a] = f[b] => a = b) /\ \A t \in T : \E s \in S : f[s] = t
  BY DEF Bijection, Injection, Surjection, IsInjective
<1>2. g \in [A -> B]
  BY <1>1
<1>3. \A a, b \in A : g[a] = g[b] => a = b
  BY <1>1
<1>4. \A t \in B : \E s \in A : g[s] = t
  BY <1>1
<1>5. g \in Bijection(A, B)
  <2> HIDE DEF g
  <2> QED
    BY <1>2, <1>3, <1>4 DEF Bijection, Injection, Surjection, IsInjective
<1>6. IsFiniteSet(A) /\ ExistsBijection(A, B)
  BY <1>5, FS_Subset DEF ExistsBijection
<1> QED
  BY <1>6, FS_Bijection

Less(value, S, v) == {j \in S : value[j] < v}
AtMost(value, S, v) == {j \in S : value[j] <= v}

LEMMA ValueAtRank ==
  ASSUME NEW value, NEW S, Valued(value, S), NEW i \in S
  PROVE  /\ Cardinality(Less(value, S, value[i])) <= Rank(value, S, i)
         /\ Rank(value, S, i) < Cardinality(AtMost(value, S, value[i]))
<1> DEFINE L == Less(value, S, value[i])
           R == Lower(value, S, i)
           M == AtMost(value, S, value[i])
<1>0. \A j \in S : value[j] \in Int
  BY DEF Valued
<1>1. L \in SUBSET R /\ R \in SUBSET M /\ R \in SUBSET S /\ M \in SUBSET S
  BY <1>0 DEF Less, Lower, AtMost, Below
<1>2. i \in M /\ i \notin R
  <2>1. i \in M
    BY <1>0 DEF AtMost
  <2> QED
    BY <2>1, Linear DEF Lower
<1>3. IsFiniteSet(R) /\ IsFiniteSet(M)
  BY <1>1, FS_Subset DEF Valued
<1> HIDE DEF L, R, M
<1>4. Cardinality(L) <= Cardinality(R) /\ Cardinality(R) < Cardinality(M)
  BY <1>1, <1>2, <1>3, PartOf
<1> QED
  BY <1>4, RankCounts DEF L, R, M

LEMMA OneValue ==
  ASSUME NEW value, NEW S, Valued(value, S), NEW k \in Int, NEW v \in Int, NEW w \in Int,
         Cardinality(Less(value, S, v)) <= k, k < Cardinality(AtMost(value, S, v)),
         Cardinality(Less(value, S, w)) <= k, k < Cardinality(AtMost(value, S, w))
  PROVE  v = w
<1>1. ASSUME NEW a \in Int, NEW b \in Int, a < b
      PROVE  /\ Cardinality(AtMost(value, S, a)) <= Cardinality(Less(value, S, b))
             /\ Cardinality(AtMost(value, S, a)) \in Int /\ Cardinality(Less(value, S, b)) \in Int
  <2>0. \A j \in S : value[j] \in Int
    BY DEF Valued
  <2>1. AtMost(value, S, a) \in SUBSET Less(value, S, b) /\ Less(value, S, b) \in SUBSET S
    BY <1>1, <2>0 DEF AtMost, Less
  <2>2. IsFiniteSet(Less(value, S, b))
    BY <2>1, FS_Subset DEF Valued
  <2> QED
    BY <2>1, <2>2, PartOf
<1>2. ~ (v < w)
  <2> SUFFICES ASSUME v < w PROVE FALSE
    OBVIOUS
  <2> QED
    BY <1>1
<1>3. ~ (w < v)
  <2> SUFFICES ASSUME w < v PROVE FALSE
    OBVIOUS
  <2> QED
    BY <1>1
<1> QED
  BY <1>2, <1>3

\* f numbers the elements anew.
Renumbered(value, S, moved, T, f) ==
  /\ Valued(value, S) /\ Valued(moved, T) /\ f \in Bijection(S, T)
  /\ \A i \in S : moved[f[i]] = value[i]

LEMMA SameValues ==
  ASSUME NEW value, NEW S, NEW moved, NEW T, NEW f, Renumbered(value, S, moved, T, f)
  PROVE  /\ Cardinality(T) = Cardinality(S)
         /\ \A i \in S, j \in T : Rank(value, S, i) = Rank(moved, T, j) => value[i] = moved[j]
<1>1. IsFiniteSet(S) /\ \A i \in S : f[i] \in T /\ value[i] \in Int /\ moved[f[i]] = value[i]
  BY DEF Renumbered, Valued, Bijection, Injection
<1>2. Cardinality(T) = Cardinality(S)
  BY <1>1, FS_Bijection DEF Renumbered, ExistsBijection
<1>3. ASSUME NEW v \in Int
      PROVE  /\ Cardinality(Less(value, S, v)) = Cardinality(Less(moved, T, v))
             /\ Cardinality(AtMost(value, S, v)) = Cardinality(AtMost(moved, T, v))
  <2>1. \A i \in S : (i \in Less(value, S, v) <=> f[i] \in Less(moved, T, v))
                     /\ (i \in AtMost(value, S, v) <=> f[i] \in AtMost(moved, T, v))
    BY <1>1 DEF Less, AtMost
  <2>2. /\ Less(value, S, v) \in SUBSET S /\ AtMost(value, S, v) \in SUBSET S
        /\ Less(moved, T, v) \in SUBSET T /\ AtMost(moved, T, v) \in SUBSET T
    BY DEF Less, AtMost
  <2>3. f \in Bijection(S, T)
    BY DEF Renumbered
  <2>4. Cardinality(Less(value, S, v)) = Cardinality(Less(moved, T, v))
    BY <1>1, <2>1, <2>2, <2>3, SameCount
  <2>5. Cardinality(AtMost(value, S, v)) = Cardinality(AtMost(moved, T, v))
    BY <1>1, <2>1, <2>2, <2>3, SameCount
  <2> QED
    BY <2>4, <2>5
<1>4. ASSUME NEW i \in S, NEW j \in T, Rank(value, S, i) = Rank(moved, T, j)
      PROVE  value[i] = moved[j]
  <2>1. Valued(value, S) /\ Valued(moved, T)
    BY DEF Renumbered
  <2>2. value[i] \in Int /\ moved[j] \in Int
    BY <2>1 DEF Valued
  <2>3. Rank(value, S, i) \in Int
    BY <1>1, <2>1, FS_CardinalityType, RankRange
  <2>4. /\ Cardinality(Less(value, S, value[i])) <= Rank(value, S, i)
        /\ Rank(value, S, i) < Cardinality(AtMost(value, S, value[i]))
    BY <2>1, ValueAtRank
  <2>5. /\ Cardinality(Less(moved, T, moved[j])) <= Rank(value, S, i)
        /\ Rank(value, S, i) < Cardinality(AtMost(moved, T, moved[j]))
    BY <1>4, <2>1, ValueAtRank
  <2>6. /\ Cardinality(Less(value, S, moved[j])) <= Rank(value, S, i)
        /\ Rank(value, S, i) < Cardinality(AtMost(value, S, moved[j]))
    BY <1>3, <2>2, <2>5
  <2> QED
    BY <2>1, <2>2, <2>3, <2>4, <2>6, OneValue
<1> QED
  BY <1>2, <1>4

(* The median is one of the values, half of the others on either side, and *)
(* numbering the elements anew does not change it.                         *)
LEMMA MedianIs ==
  ASSUME NEW value, NEW S, Valued(value, S), S # {}
  PROVE  \E i \in S : MedianOf(value, S) = value[i] /\ Rank(value, S, i) = Cardinality(S) \div 2
<1> DEFINE n == Cardinality(S)
<1>1. n \in Nat \ {0}
  BY FS_CardinalityType, FS_EmptySet DEF Valued
<1> HIDE DEF n
<1>2. n \div 2 \in 0..n - 1
  BY <1>1
<1>3. \E i \in S : Rank(value, S, i) = n \div 2
  BY <1>2, RankIsTaken DEF n
<1> QED
  BY <1>3 DEF MedianOf, n

LEMMA MedianHalves ==
  ASSUME NEW value, NEW S, Valued(value, S), S # {}, NEW m, m = MedianOf(value, S)
  PROVE  /\ 2 * Cardinality(Less(value, S, m)) <= Cardinality(S)
         /\ Cardinality(S) < 2 * Cardinality(AtMost(value, S, m))
<1> DEFINE n == Cardinality(S)
           l == Cardinality(Less(value, S, m))
           a == Cardinality(AtMost(value, S, m))
<1>1. n \in Nat /\ l \in Nat /\ a \in Nat
  <2>1. Less(value, S, m) \in SUBSET S /\ AtMost(value, S, m) \in SUBSET S /\ IsFiniteSet(S)
    BY DEF Less, AtMost, Valued
  <2> QED
    BY <2>1, PartOf
<1>2. l <= n \div 2 /\ n \div 2 < a
  BY MedianIs, ValueAtRank
<1> HIDE DEF n, l, a
<1>3. 2 * l <= n /\ n < 2 * a
  BY <1>1, <1>2
<1> QED
  BY <1>3 DEF n, l, a

LEMMA MedianMoves ==
  ASSUME NEW value, NEW S, NEW moved, NEW T, NEW f, Renumbered(value, S, moved, T, f), S # {}
  PROVE  MedianOf(moved, T) = MedianOf(value, S)
<1>1. PICK i \in S : MedianOf(value, S) = value[i] /\ Rank(value, S, i) = Cardinality(S) \div 2
  BY MedianIs DEF Renumbered
<1>2. T # {}
  BY DEF Renumbered, Bijection, Injection
<1>3. PICK j \in T : MedianOf(moved, T) = moved[j] /\ Rank(moved, T, j) = Cardinality(T) \div 2
  BY <1>2, MedianIs DEF Renumbered
<1> QED
  BY <1>1, <1>3, SameValues

LEMMA Least ==
  ASSUME NEW value, NEW S, Valued(value, S), S # {}
  PROVE  \E i \in S : Rank(value, S, i) = 0 /\ \A k \in S : i = k \/ Below(value, i, k)
<1>1. Cardinality(S) \in Nat \ {0}
  BY FS_CardinalityType, FS_EmptySet DEF Valued
<1>2. PICK i \in S : Rank(value, S, i) = 0
  BY <1>1, RankIsTaken
<1>3. Lower(value, S, i) = {}
  <2>1. IsFiniteSet(Lower(value, S, i))
    BY FS_Subset DEF Valued, Lower
  <2> QED
    BY <1>2, <2>1, RankCounts, FS_EmptySet
<1> QED
  BY <1>2, <1>3, Linear DEF Lower

-----------------------------------------------------------------------------
(* A sequence and the same sequence from its end.                          *)
Mirror(s) == [i \in DOMAIN s |-> Len(s) + 1 - i]

LEMMA Mirrored ==
  ASSUME NEW V, NEW s \in Seq(V)
  PROVE  /\ DOMAIN s = 1..Len(s) /\ Len(s) \in Nat /\ IsFiniteSet(DOMAIN s)
         /\ Reverse(s) \in Seq(V) /\ Len(Reverse(s)) = Len(s) /\ DOMAIN Reverse(s) = DOMAIN s
         /\ Mirror(s) \in Bijection(DOMAIN s, DOMAIN s)
         /\ \A i \in DOMAIN s : /\ Mirror(s)[i] \in DOMAIN s /\ Reverse(s)[Mirror(s)[i]] = s[i]
                                /\ Mirror(s)[Mirror(s)[i]] = i
<1>1. DOMAIN s = 1..Len(s) /\ Len(s) \in Nat /\ \A i \in 1..Len(s) : s[i] \in V
  OBVIOUS
<1>2. IsFiniteSet(DOMAIN s)
  BY <1>1, FS_Interval
<1>3. Reverse(s) \in Seq(V) /\ Len(Reverse(s)) = Len(s) /\ DOMAIN Reverse(s) = DOMAIN s
  <2> DEFINE r == Reverse(s)
  <2>1. r \in [1..Len(s) -> V]
    BY <1>1 DEF Reverse
  <2> HIDE DEF r
  <2>2. r \in Seq(V) /\ Len(r) = Len(s) /\ DOMAIN r = 1..Len(s)
    BY <1>1, <2>1
  <2> QED
    BY <1>1, <2>2 DEF r
<1>4. \A i \in DOMAIN s : /\ Mirror(s)[i] \in DOMAIN s /\ Reverse(s)[Mirror(s)[i]] = s[i]
                          /\ Mirror(s)[Mirror(s)[i]] = i
  BY <1>1 DEF Mirror, Reverse
<1>5. Mirror(s) \in Bijection(DOMAIN s, DOMAIN s)
  <2>1. Mirror(s) \in [DOMAIN s -> DOMAIN s]
    BY <1>4 DEF Mirror
  <2> QED
    BY <1>4, <2>1 DEF Bijection, Injection, Surjection, IsInjective
<1> QED
  BY <1>1, <1>2, <1>3, <1>4, <1>5

-----------------------------------------------------------------------------
(* The figures of the CI runs, for every answer.                           *)
\* The answers whose runs have such conclusions and workflows.
AnswersOf(conclusions, workflows) ==
  Seq([conclusion : conclusions, created : Int, workflow : workflows])
Created(runs) == [i \in DOMAIN runs |-> runs[i].created]

LEMMA Answered ==
  ASSUME NEW C, NEW W, NEW runs \in AnswersOf(C, W)
  PROVE  /\ \A i \in DOMAIN runs : runs[i].created \in Int
         /\ \A S \in SUBSET DOMAIN runs : Valued(Created(runs), S)
         /\ \A i, j \in DOMAIN runs : Before(runs, i, j) <=> Below(Created(runs), i, j)
<1>1. \A i \in DOMAIN runs : runs[i].created \in Int
  <2> DEFINE R == [conclusion : C, created : Int, workflow : W]
  <2>0. runs \in Seq(R)
    BY DEF AnswersOf
  <2> HIDE DEF R
  <2>1. \A i \in DOMAIN runs : runs[i] \in R
    BY <2>0
  <2> USE DEF R
  <2> QED
    BY <2>1
<1>2. DOMAIN runs \in SUBSET Int /\ IsFiniteSet(DOMAIN runs)
  <2>1. DOMAIN runs = 1..Len(runs) /\ Len(runs) \in Nat /\ IsFiniteSet(DOMAIN runs)
    BY Mirrored DEF AnswersOf
  <2> QED
    BY <2>1
<1>3. \A S \in SUBSET DOMAIN runs : Valued(Created(runs), S)
  <2> SUFFICES ASSUME NEW S \in SUBSET DOMAIN runs PROVE Valued(Created(runs), S)
    OBVIOUS
  <2>1. IsFiniteSet(S)
    BY <1>2, FS_Subset
  <2>2. \A i \in S : Created(runs)[i] \in Int
    BY <1>1 DEF Created
  <2> QED
    BY <1>2, <2>1, <2>2 DEF Valued
<1>4. \A i, j \in DOMAIN runs : Before(runs, i, j) <=> Below(Created(runs), i, j)
  BY DEF Before, Below, Created
<1> QED
  BY <1>1, <1>3, <1>4

(* The run that repairs a failure is the first success after it.           *)
LEMMA RepairIsFirst ==
  ASSUME NEW C, NEW W, NEW runs \in AnswersOf(C, W), NEW i \in Repaired(runs)
  PROVE  /\ i \in DOMAIN runs /\ Repair(runs, i) \in Repairs(runs, i)
         /\ \A k \in Repairs(runs, i) : k = Repair(runs, i) \/ Before(runs, Repair(runs, i), k)
<1>1. i \in DOMAIN runs /\ Repairs(runs, i) # {} /\ Repairs(runs, i) \in SUBSET DOMAIN runs
  BY DEF Repaired, Failures, Repairs
<1>2. PICK j \in Repairs(runs, i) : \A k \in Repairs(runs, i) : j = k \/ Below(Created(runs), j, k)
  BY <1>1, Answered, Least
<1>3. \A k \in Repairs(runs, i) : k = j \/ Before(runs, j, k)
  BY <1>1, <1>2, Answered
<1> QED
  BY <1>1, <1>3 DEF Repair

Times(runs) == [i \in Repaired(runs) |-> runs[Repair(runs, i)].created - runs[i].created]

LEMMA TimesValued ==
  ASSUME NEW C, NEW W, NEW runs \in AnswersOf(C, W)
  PROVE  Valued(Times(runs), Repaired(runs))
<1>1. Repaired(runs) \in SUBSET DOMAIN runs
  BY DEF Repaired, Failures
<1>2. \A i \in Repaired(runs) : Times(runs)[i] \in Int
  <2> SUFFICES ASSUME NEW i \in Repaired(runs) PROVE Times(runs)[i] \in Int
    OBVIOUS
  <2>1. Repair(runs, i) \in DOMAIN runs /\ i \in DOMAIN runs
    BY RepairIsFirst DEF Repairs
  <2> QED
    BY <2>1, Answered DEF Times
<1> QED
  BY <1>1, <1>2, Answered DEF Valued

(* Read from its end, an answer has the same failures and the same runs    *)
(* repair them, when no two were created in the same second.               *)
LEMMA SameRepairs ==
  ASSUME NEW C, NEW W, NEW runs \in AnswersOf(C, W),
         \A i, j \in DOMAIN runs : i # j => runs[i].created # runs[j].created
  PROVE  LET back == Reverse(runs)
             f == Mirror(runs)
         IN /\ \A i \in DOMAIN runs : /\ i \in Completed(runs) <=> f[i] \in Completed(back)
                                      /\ i \in Failures(runs) <=> f[i] \in Failures(back)
                                      /\ i \in Repaired(runs) <=> f[i] \in Repaired(back)
            /\ \A i \in Repaired(runs) : Times(back)[f[i]] = Times(runs)[i]
<1> DEFINE back == Reverse(runs)
           f == Mirror(runs)
<1>1. /\ back \in AnswersOf(C, W) /\ DOMAIN back = DOMAIN runs
      /\ \A i \in DOMAIN runs : f[i] \in DOMAIN runs /\ back[f[i]] = runs[i] /\ f[f[i]] = i
  BY Mirrored DEF AnswersOf
<1>2. DOMAIN runs \in SUBSET Int /\ \A i \in DOMAIN runs : runs[i].created \in Int
  <2>1. DOMAIN runs = 1..Len(runs) /\ Len(runs) \in Nat
    BY Mirrored DEF AnswersOf
  <2> QED
    BY <2>1, Answered
<1> HIDE DEF back, f
<1>3. \A i \in DOMAIN runs : /\ i \in Completed(runs) <=> f[i] \in Completed(back)
                             /\ i \in Failures(runs) <=> f[i] \in Failures(back)
  BY <1>1 DEF Completed, Failures
<1>4. \A i, j \in DOMAIN runs : Before(runs, i, j) <=> Before(back, f[i], f[j])
  <2> SUFFICES ASSUME NEW i \in DOMAIN runs, NEW j \in DOMAIN runs
               PROVE  Before(runs, i, j) <=> Before(back, f[i], f[j])
    OBVIOUS
  <2>1. CASE i = j
    <3>1. i \in Int /\ f[i] \in Int /\ runs[i].created \in Int
      BY <1>1, <1>2
    <3> QED
      BY <1>1, <2>1, <3>1 DEF Before
  <2>2. CASE i # j
    BY <1>1, <2>2 DEF Before
  <2> QED
    BY <2>1, <2>2
<1>5. \A i, j \in DOMAIN runs : j \in Repairs(runs, i) <=> f[j] \in Repairs(back, f[i])
  BY <1>1, <1>4 DEF Repairs
<1>6. \A i \in DOMAIN runs : i \in Repaired(runs) <=> f[i] \in Repaired(back)
  <2> SUFFICES ASSUME NEW i \in DOMAIN runs PROVE i \in Repaired(runs) <=> f[i] \in Repaired(back)
    OBVIOUS
  <2>1. Repairs(runs, i) # {} <=> Repairs(back, f[i]) # {}
    <3>1. ASSUME Repairs(runs, i) # {} PROVE Repairs(back, f[i]) # {}
      <4>1. PICK j \in DOMAIN runs : j \in Repairs(runs, i)
        BY <3>1 DEF Repairs
      <4> QED
        BY <1>5, <4>1
    <3>2. ASSUME Repairs(back, f[i]) # {} PROVE Repairs(runs, i) # {}
      <4>1. PICK j \in DOMAIN back : j \in Repairs(back, f[i])
        BY <3>2 DEF Repairs
      <4>2. f[j] \in DOMAIN runs /\ f[f[j]] = j
        BY <1>1
      <4> QED
        BY <1>5, <4>1, <4>2
    <3> QED
      BY <3>1, <3>2
  <2> QED
    BY <1>3, <2>1 DEF Repaired
<1>7. ASSUME NEW i \in Repaired(runs) PROVE Times(back)[f[i]] = Times(runs)[i]
  <2>1. i \in DOMAIN runs /\ f[i] \in Repaired(back)
    BY <1>6 DEF Repaired, Failures
  <2> DEFINE j == Repair(runs, i)
             r == Repair(back, f[i])
             k == f[r]
  <2>2. /\ j \in Repairs(runs, i) /\ \A h \in Repairs(runs, i) : h = j \/ Before(runs, j, h)
        /\ r \in Repairs(back, f[i]) /\ \A h \in Repairs(back, f[i]) : h = r \/ Before(back, r, h)
    <3>1. j \in Repairs(runs, i) /\ \A h \in Repairs(runs, i) : h = j \/ Before(runs, j, h)
      BY RepairIsFirst
    <3>2. r \in Repairs(back, f[i]) /\ \A h \in Repairs(back, f[i]) : h = r \/ Before(back, r, h)
      BY <1>1, <2>1, RepairIsFirst
    <3> QED
      BY <3>1, <3>2
  <2> HIDE DEF j, r
  <2>3. j \in DOMAIN runs /\ r \in DOMAIN runs
    BY <1>1, <2>2 DEF Repairs
  <2>4. k \in DOMAIN runs /\ f[k] = r /\ k \in Repairs(runs, i) /\ f[j] \in Repairs(back, f[i])
    BY <1>1, <1>5, <2>1, <2>2, <2>3
  <2>5. k = j \/ Before(runs, j, k)
    BY <2>2, <2>4
  <2>6. f[j] = r \/ Before(runs, k, j)
    BY <1>4, <2>2, <2>3, <2>4
  <2>7. k = j
    <3>1. ~ (Before(runs, j, k) /\ Before(runs, k, j))
      BY <1>2, <2>3, <2>4 DEF Before
    <3>2. CASE f[j] = r
      BY <1>1, <2>3, <3>2
    <3> QED
      BY <2>5, <2>6, <3>1, <3>2
  <2>8. back[r].created = runs[j].created /\ back[f[i]] = runs[i]
    BY <1>1, <2>1, <2>3, <2>4, <2>7
  <2> QED
    BY <2>1, <2>8 DEF Times, j, r
<1> QED
  BY <1>3, <1>6, <1>7 DEF back, f

(* The figures do not depend on the order in which the runs are listed.    *)
LEMMA OrderOfRunsIsNoMatter ==
  ASSUME NEW C, NEW W, NEW runs \in AnswersOf(C, W),
         \A i, j \in DOMAIN runs : i # j => runs[i].created # runs[j].created
  PROVE  CiFigures(Reverse(runs)) = CiFigures(runs)
<1> DEFINE back == Reverse(runs)
           f == Mirror(runs)
<1>1. /\ back \in AnswersOf(C, W) /\ DOMAIN back = DOMAIN runs /\ IsFiniteSet(DOMAIN runs)
      /\ f \in Bijection(DOMAIN runs, DOMAIN runs)
      /\ \A i \in DOMAIN runs : f[i] \in DOMAIN runs /\ back[f[i]] = runs[i] /\ f[f[i]] = i
  BY Mirrored DEF AnswersOf
<1>2. /\ \A i \in DOMAIN runs : /\ i \in Completed(runs) <=> f[i] \in Completed(back)
                                /\ i \in Failures(runs) <=> f[i] \in Failures(back)
                                /\ i \in Repaired(runs) <=> f[i] \in Repaired(back)
      /\ \A i \in Repaired(runs) : Times(back)[f[i]] = Times(runs)[i]
  BY SameRepairs
<1>3. /\ Completed(runs) \in SUBSET DOMAIN runs /\ Completed(back) \in SUBSET DOMAIN runs
      /\ Failures(runs) \in SUBSET DOMAIN runs /\ Failures(back) \in SUBSET DOMAIN runs
      /\ Repaired(runs) \in SUBSET DOMAIN runs /\ Repaired(back) \in SUBSET DOMAIN runs
  BY <1>1 DEF Completed, Failures, Repaired
<1> HIDE DEF back, f
<1>4. /\ Cardinality(Completed(back)) = Cardinality(Completed(runs))
      /\ Cardinality(Failures(back)) = Cardinality(Failures(runs))
  <2>1. Cardinality(Completed(back)) = Cardinality(Completed(runs))
    BY <1>1, <1>2, <1>3, SameCount
  <2>2. Cardinality(Failures(back)) = Cardinality(Failures(runs))
    BY <1>1, <1>2, <1>3, SameCount
  <2> QED
    BY <2>1, <2>2
<1>5. /\ Completed(back) = {} <=> Completed(runs) = {}
      /\ Failures(back) = {} <=> Failures(runs) = {}
      /\ Repaired(back) = {} <=> Repaired(runs) = {}
  BY <1>1, <1>2, <1>3
<1>6. ASSUME Repaired(runs) # {}
      PROVE  MedianOf(Times(back), Repaired(back)) = MedianOf(Times(runs), Repaired(runs))
  <2> DEFINE g == [i \in Repaired(runs) |-> f[i]]
  <2>1. g \in Bijection(Repaired(runs), Repaired(back))
    <3>1. g \in [Repaired(runs) -> Repaired(back)]
      BY <1>2, <1>3
    <3>2. \A a, b \in Repaired(runs) : g[a] = g[b] => a = b
      BY <1>1, <1>3
    <3>3. \A t \in Repaired(back) : \E s \in Repaired(runs) : g[s] = t
      BY <1>1, <1>2, <1>3
    <3> HIDE DEF g
    <3> QED
      BY <3>1, <3>2, <3>3 DEF Bijection, Injection, Surjection, IsInjective
  <2>2. \A i \in Repaired(runs) : Times(back)[g[i]] = Times(runs)[i]
    BY <1>2
  <2>3. Valued(Times(runs), Repaired(runs)) /\ Valued(Times(back), Repaired(back))
    BY <1>1, TimesValued
  <2> HIDE DEF g
  <2> QED
    BY <1>6, <2>1, <2>2, <2>3, MedianMoves DEF Renumbered
<1>7. Mttr(back) = Mttr(runs)
  BY <1>5, <1>6 DEF Mttr, Times
<1> QED
  BY <1>4, <1>7 DEF CiFigures, back

(* Of the failures that were repaired, those followed by a success within  *)
(* t are those with a repair time of at most t.                            *)
LEMMA RepairedWithin ==
  ASSUME NEW C, NEW W, NEW runs \in AnswersOf(C, W), NEW t \in Int
  PROVE  /\ {i \in Repaired(runs) :
              \E j \in Repairs(runs, i) : runs[j].created - runs[i].created < t}
              = Less(Times(runs), Repaired(runs), t)
         /\ {i \in Repaired(runs) :
              \E j \in Repairs(runs, i) : runs[j].created - runs[i].created <= t}
              = AtMost(Times(runs), Repaired(runs), t)
<1>1. ASSUME NEW i \in Repaired(runs)
      PROVE  /\ Times(runs)[i] < t <=>
                  \E j \in Repairs(runs, i) : runs[j].created - runs[i].created < t
             /\ Times(runs)[i] <= t <=>
                  \E j \in Repairs(runs, i) : runs[j].created - runs[i].created <= t
  <2> DEFINE r == Repair(runs, i)
             took(j) == runs[j].created - runs[i].created
  <2>1. /\ i \in DOMAIN runs /\ r \in Repairs(runs, i)
        /\ \A k \in Repairs(runs, i) : k = r \/ Before(runs, r, k)
    BY RepairIsFirst
  <2>2. \A k \in Repairs(runs, i) : k \in DOMAIN runs
    BY DEF Repairs
  <2>3. Times(runs)[i] = took(r)
    BY DEF Times
  <2> HIDE DEF r
  <2>4. \A k \in Repairs(runs, i) : took(k) \in Int /\ took(r) <= took(k)
    <3> SUFFICES ASSUME NEW k \in Repairs(runs, i) PROVE took(k) \in Int /\ took(r) <= took(k)
      OBVIOUS
    <3>1. runs[i].created \in Int /\ runs[r].created \in Int /\ runs[k].created \in Int
      BY <2>1, <2>2, Answered
    <3>2. runs[r].created <= runs[k].created
      BY <2>1, <3>1 DEF Before
    <3> QED
      BY <3>1, <3>2
  <2> HIDE DEF took
  <2>5. (Times(runs)[i] < t <=> \E j \in Repairs(runs, i) : took(j) < t)
        /\ (Times(runs)[i] <= t <=> \E j \in Repairs(runs, i) : took(j) <= t)
    BY <2>1, <2>3, <2>4
  <2> QED
    BY <2>5 DEF took
<1> QED
  BY <1>1 DEF Less, AtMost

(* What dora_from_runs shows of any answer of GitHub: its figures do not   *)
(* depend on the order of the runs, a repair time is that of a failure and *)
(* of the first success of its workflow after it, and the one shown is the *)
(* median of them.                                                         *)
LEMMA EveryAnswer ==
  ASSUME NEW C, NEW W, NEW runs \in AnswersOf(C, W)
  PROVE  CiFiguresRight(runs)
<1>1. CiFigures(runs).failed <= CiFigures(runs).completed
  <2>1. Failures(runs) \in SUBSET Completed(runs) /\ Completed(runs) \in SUBSET DOMAIN runs
    BY DEF Failures, Completed
  <2>2. IsFiniteSet(Completed(runs))
    BY <2>1, Mirrored, FS_Subset DEF AnswersOf
  <2>3. Cardinality(Failures(runs)) <= Cardinality(Completed(runs))
    BY <2>1, <2>2, PartOf
  <2> QED
    BY <2>3 DEF CiFigures
<1>2. ASSUME Repaired(runs) # {}
      PROVE  \E i, j \in DOMAIN runs :
               /\ runs[i].conclusion = "failure" /\ runs[j].conclusion = "success"
               /\ runs[i].workflow = runs[j].workflow
               /\ Mttr(runs).time = runs[j].created - runs[i].created
               /\ ~\E k \in DOMAIN runs :
                    /\ runs[k].conclusion = "success" /\ runs[k].workflow = runs[i].workflow
                    /\ runs[i].created < runs[k].created /\ runs[k].created < runs[j].created
  <2>1. PICK i \in Repaired(runs) : MedianOf(Times(runs), Repaired(runs)) = Times(runs)[i]
    BY <1>2, TimesValued, MedianIs
  <2> DEFINE j == Repair(runs, i)
  <2>2. /\ i \in DOMAIN runs /\ j \in Repairs(runs, i)
        /\ \A k \in Repairs(runs, i) : k = j \/ Before(runs, j, k)
    BY RepairIsFirst
  <2>3. Mttr(runs).time = runs[j].created - runs[i].created
    <3>1. Completed(runs) # {} /\ Failures(runs) # {}
      BY <1>2 DEF Repaired, Failures, Completed
    <3>2. Mttr(runs) = Mean("median", Times(runs)[i])
      BY <1>2, <2>1, <3>1 DEF Mttr, Times
    <3> QED
      BY <3>2 DEF Mean, Times
  <2> HIDE DEF j
  <2>4. /\ j \in DOMAIN runs /\ runs[j].conclusion = "success"
        /\ runs[j].workflow = runs[i].workflow /\ runs[i].conclusion = "failure"
    BY <2>2 DEF Repairs, Repaired, Failures
  <2>5. ~\E k \in DOMAIN runs :
           /\ runs[k].conclusion = "success" /\ runs[k].workflow = runs[i].workflow
           /\ runs[i].created < runs[k].created /\ runs[k].created < runs[j].created
    <3> SUFFICES ASSUME NEW k \in DOMAIN runs, runs[k].conclusion = "success",
                        runs[k].workflow = runs[i].workflow,
                        runs[i].created < runs[k].created, runs[k].created < runs[j].created
                 PROVE  FALSE
      OBVIOUS
    <3>1. k \in Repairs(runs, i)
      BY DEF Repairs, Before
    <3>2. runs[k].created \in Int /\ runs[j].created \in Int
      BY <2>4, Answered
    <3> QED
      BY <2>2, <3>1, <3>2 DEF Before
  <2> QED
    BY <2>2, <2>3, <2>4, <2>5
<1>3. ASSUME Repaired(runs) # {}
      PROVE  LET sooner == {i \in Repaired(runs) :
                   \E j \in Repairs(runs, i) : runs[j].created - runs[i].created < Mttr(runs).time}
                 inTime == {i \in Repaired(runs) :
                   \E j \in Repairs(runs, i) : runs[j].created - runs[i].created <= Mttr(runs).time}
             IN /\ 2 * Cardinality(sooner) <= Cardinality(Repaired(runs))
                /\ Cardinality(Repaired(runs)) < 2 * Cardinality(inTime)
  <2> DEFINE t == Mttr(runs).time
  <2>1. t = MedianOf(Times(runs), Repaired(runs))
    <3>1. Completed(runs) # {} /\ Failures(runs) # {}
      BY <1>3 DEF Repaired, Failures, Completed
    <3>2. Mttr(runs) = Mean("median", MedianOf(Times(runs), Repaired(runs)))
      BY <1>3, <3>1 DEF Mttr, Times
    <3> QED
      BY <3>2 DEF Mean
  <2> HIDE DEF t
  <2>2. t \in Int
    <3>1. PICK i \in Repaired(runs) : MedianOf(Times(runs), Repaired(runs)) = Times(runs)[i]
      BY <1>3, TimesValued, MedianIs
    <3> QED
      BY <2>1, <3>1, TimesValued DEF Valued
  <2>3. /\ 2 * Cardinality(Less(Times(runs), Repaired(runs), t)) <= Cardinality(Repaired(runs))
        /\ Cardinality(Repaired(runs)) < 2 * Cardinality(AtMost(Times(runs), Repaired(runs), t))
    BY <1>3, <2>1, TimesValued, MedianHalves
  <2>4. /\ {i \in Repaired(runs) :
             \E j \in Repairs(runs, i) : runs[j].created - runs[i].created < t}
             = Less(Times(runs), Repaired(runs), t)
        /\ {i \in Repaired(runs) :
             \E j \in Repairs(runs, i) : runs[j].created - runs[i].created <= t}
             = AtMost(Times(runs), Repaired(runs), t)
    BY <2>2, RepairedWithin
  <2> QED
    BY <2>3, <2>4 DEF t
<1> QED
  BY <1>1, <1>2, <1>3, OrderOfRunsIsNoMatter DEF CiFiguresRight

-----------------------------------------------------------------------------
(* The lead time, for every log.                                           *)
LEMMA LogValued ==
  ASSUME NEW epochs \in Seq(Int)
  PROVE  /\ Valued(epochs, DOMAIN epochs) /\ DOMAIN epochs = 1..Len(epochs)
         /\ Len(epochs) \in Nat /\ Cardinality(DOMAIN epochs) = Len(epochs)
<1>1. DOMAIN epochs = 1..Len(epochs) /\ Len(epochs) \in Nat
      /\ \A i \in DOMAIN epochs : epochs[i] \in Int
  OBVIOUS
<1>2. IsFiniteSet(DOMAIN epochs) /\ Cardinality(DOMAIN epochs) = Len(epochs)
  BY <1>1, FS_Interval
<1> QED
  BY <1>1, <1>2 DEF Valued

LEMMA NewestIs ==
  ASSUME NEW epochs \in Seq(Int), Len(epochs) >= 1
  PROVE  LET n == NewestCommit(epochs) IN
         /\ n \in DOMAIN epochs /\ Rank(epochs, DOMAIN epochs, n) = Len(epochs) - 1
         /\ \A k \in DOMAIN epochs : k = n \/ Below(epochs, k, n)
<1> DEFINE D == DOMAIN epochs
           n == NewestCommit(epochs)
<1>1. Valued(epochs, D) /\ Len(epochs) \in Nat /\ Cardinality(D) = Len(epochs)
  BY LogValued
<1>2. \E i \in D : Rank(epochs, D, i) = Len(epochs) - 1
  BY <1>1, RankIsTaken
<1>3. n \in D /\ Rank(epochs, D, n) = Len(epochs) - 1
  BY <1>2 DEF NewestCommit
<1> HIDE DEF n, D
<1>4. \A k \in D : Rank(epochs, D, k) \in 0..Len(epochs) - 1
  BY <1>1, RankRange
<1>5. \A k \in D : ~ Below(epochs, n, k)
  <2> SUFFICES ASSUME NEW k \in D, Below(epochs, n, k) PROVE FALSE
    OBVIOUS
  <2>1. Rank(epochs, D, n) < Rank(epochs, D, k)
    BY <1>1, <1>3, RankGrows
  <2> QED
    BY <1>1, <1>3, <1>4, <2>1
<1>6. \A k \in D : k = n \/ Below(epochs, k, n)
  BY <1>1, <1>3, <1>5, Linear
<1> QED
  BY <1>3, <1>6 DEF n, D

(* The commit after another one is the one of the next rank.               *)
LEMMA NextIs ==
  ASSUME NEW epochs \in Seq(Int), NEW i \in DOMAIN epochs, i # NewestCommit(epochs)
  PROVE  LET j == NextCommit(epochs, i) IN
         /\ j \in DOMAIN epochs /\ epochs[i] <= epochs[j]
         /\ j \in Later(epochs, i) /\ \A k \in Later(epochs, i) : epochs[j] <= epochs[k]
         /\ Lower(epochs, DOMAIN epochs, j) = Lower(epochs, DOMAIN epochs, i) \union {i}
         /\ i \notin Lower(epochs, DOMAIN epochs, i)
         /\ Rank(epochs, DOMAIN epochs, j) = Rank(epochs, DOMAIN epochs, i) + 1
<1> DEFINE D == DOMAIN epochs
           later == {j \in D : epochs[j] > epochs[i] \/ (epochs[j] = epochs[i] /\ j > i)}
           j == NextCommit(epochs, i)
<1>1. Valued(epochs, D) /\ Len(epochs) >= 1 /\ \A k \in D : epochs[k] \in Int /\ k \in Int
  BY LogValued DEF Valued
<1>2. \A k \in D : k \in later <=> Below(epochs, i, k)
  BY <1>1 DEF Below
<1>3. later \in SUBSET D /\ later # {}
  <2>1. NewestCommit(epochs) \in D /\ Below(epochs, i, NewestCommit(epochs))
    BY <1>1, NewestIs
  <2> QED
    BY <1>2, <2>1
<1>4. Valued(epochs, later)
  BY <1>1, <1>3, FS_Subset DEF Valued
<1>5. PICK m \in later : \A k \in later : m = k \/ Below(epochs, m, k)
  <2> HIDE DEF later
  <2> QED
    BY <1>3, <1>4, Least
<1>6. \A k \in later : epochs[m] < epochs[k] \/ (epochs[m] = epochs[k] /\ m <= k)
  BY <1>1, <1>3, <1>5 DEF Below
<1>7. j \in later /\ \A k \in later : epochs[j] < epochs[k] \/ (epochs[j] = epochs[k] /\ j <= k)
  BY <1>6 DEF NextCommit, Later
<1>13. j \in Later(epochs, i) /\ \A k \in Later(epochs, i) : epochs[j] <= epochs[k]
  <2>1. later = Later(epochs, i)
    BY DEF Later
  <2>2. \A k \in later : epochs[k] \in Int
    BY <1>1, <1>3
  <2> HIDE DEF later, j
  <2> QED
    BY <1>7, <2>1, <2>2
<1> HIDE DEF j, later, D
<1>8. j \in D /\ Below(epochs, i, j) /\ epochs[i] <= epochs[j]
  <2>1. j \in D /\ i \in D /\ Below(epochs, i, j)
    BY <1>2, <1>3, <1>7 DEF D
  <2>2. epochs[i] \in Int /\ epochs[j] \in Int
    BY <1>1, <2>1
  <2> QED
    BY <2>1, <2>2 DEF Below
<1>9. \A k \in D : Below(epochs, i, k) => ~ Below(epochs, k, j)
  <2> SUFFICES ASSUME NEW k \in D, Below(epochs, i, k), Below(epochs, k, j) PROVE FALSE
    OBVIOUS
  <2>1. epochs[j] < epochs[k] \/ (epochs[j] = epochs[k] /\ j <= k)
    BY <1>2, <1>7
  <2>2. epochs[j] \in Int /\ epochs[k] \in Int /\ j \in Int /\ k \in Int
    BY <1>1, <1>8
  <2> QED
    BY <2>1, <2>2 DEF Below
<1>10. i \in D
  BY DEF D
<1>11. Lower(epochs, D, j) = Lower(epochs, D, i) \union {i} /\ i \notin Lower(epochs, D, i)
  <2>1. ASSUME NEW k \in D
        PROVE  Below(epochs, k, j) <=> (Below(epochs, k, i) \/ k = i)
    <3>1. Below(epochs, k, i) => Below(epochs, k, j)
      BY <1>1, <1>8, <1>10, Linear
    <3>2. k = i \/ Below(epochs, i, k) \/ Below(epochs, k, i)
      BY <1>1, <1>10, Linear
    <3> QED
      BY <1>8, <1>9, <3>1, <3>2
  <2>2. ~ Below(epochs, i, i)
    BY <1>1, <1>10, Linear
  <2> QED
    BY <1>10, <2>1, <2>2 DEF Lower
<1>12. Rank(epochs, D, j) = Rank(epochs, D, i) + 1
  <2>1. IsFiniteSet(Lower(epochs, D, i))
    BY <1>1, FS_Subset DEF Valued, Lower
  <2>2. Cardinality(Lower(epochs, D, j)) = Cardinality(Lower(epochs, D, i)) + 1
    BY <1>11, <2>1, FS_AddElement
  <2> QED
    BY <2>2, RankCounts
<1> QED
  BY <1>8, <1>11, <1>12, <1>13 DEF j, D

LEMMA GapsAre ==
  ASSUME NEW epochs \in Seq(Int), Len(epochs) >= 2
  PROVE  LET G == DOMAIN epochs \ {NewestCommit(epochs)} IN
         /\ DOMAIN Gaps(epochs) = G /\ Valued(Gaps(epochs), G) /\ G # {}
         /\ Cardinality(G) = Len(epochs) - 1
         /\ \A i \in G : /\ Gaps(epochs)[i] = epochs[NextCommit(epochs, i)] - epochs[i]
                         /\ 0 <= Gaps(epochs)[i]
<1> DEFINE D == DOMAIN epochs
           G == D \ {NewestCommit(epochs)}
<1>1. /\ Valued(epochs, D) /\ Len(epochs) \in Nat /\ Cardinality(D) = Len(epochs)
      /\ NewestCommit(epochs) \in D
  BY LogValued, NewestIs
<1>2. DOMAIN Gaps(epochs) = G
      /\ \A i \in G : Gaps(epochs)[i] = epochs[NextCommit(epochs, i)] - epochs[i]
  BY DEF Gaps
<1>3. \A i \in G : Gaps(epochs)[i] \in Int /\ 0 <= Gaps(epochs)[i]
  <2> SUFFICES ASSUME NEW i \in G PROVE Gaps(epochs)[i] \in Int /\ 0 <= Gaps(epochs)[i]
    OBVIOUS
  <2>1. NextCommit(epochs, i) \in D /\ epochs[i] <= epochs[NextCommit(epochs, i)]
    BY NextIs
  <2>2. epochs[i] \in Int /\ epochs[NextCommit(epochs, i)] \in Int
    BY <1>1, <2>1 DEF Valued
  <2> QED
    BY <1>2, <2>1, <2>2
<1>4. IsFiniteSet(G) /\ Cardinality(G) = Len(epochs) - 1
  <2>1. IsFiniteSet(D) /\ NewestCommit(epochs) \in D /\ Cardinality(D) = Len(epochs)
    BY <1>1 DEF Valued
  <2> HIDE DEF D
  <2> QED
    BY <2>1, FS_RemoveElement
<1>5. G # {}
  <2> HIDE DEF G
  <2> DEFINE N == Len(epochs)
  <2>1. N - 1 # 0
    <3>1. N \in Nat /\ N >= 2
      BY <1>1
    <3> HIDE DEF N
    <3> QED
      BY <3>1
  <2>2. Cardinality(G) # 0
    BY <1>4, <2>1
  <2> QED
    BY <2>2, FS_EmptySet
<1>6. Valued(Gaps(epochs), G)
  <2>1. D \in SUBSET Int
    BY <1>1 DEF Valued
  <2> QED
    BY <1>3, <1>4, <2>1 DEF Valued
<1> QED
  BY <1>2, <1>3, <1>4, <1>5, <1>6

(* The gaps are the same in whichever order the log gives the commits,     *)
(* commits of the same second included.                                    *)
LEMMA OrderOfLogIsNoMatter ==
  ASSUME NEW epochs \in Seq(Int), Len(epochs) >= 2
  PROVE  GitFigures(Reverse(epochs)) = GitFigures(epochs)
<1> DEFINE back == Reverse(epochs)
           D == DOMAIN epochs
           N == Len(epochs)
           G == D \ {NewestCommit(epochs)}
           H == D \ {NewestCommit(back)}
<1>1. /\ back \in Seq(Int) /\ DOMAIN back = D /\ Len(back) = N /\ N \in Nat
      /\ Valued(epochs, D) /\ Valued(back, D) /\ Cardinality(D) = N
      /\ Renumbered(epochs, D, back, D, Mirror(epochs))
  <2>1. /\ back \in Seq(Int) /\ DOMAIN back = D /\ Len(back) = N
        /\ Mirror(epochs) \in Bijection(D, D)
        /\ \A i \in D : back[Mirror(epochs)[i]] = epochs[i]
    BY Mirrored
  <2>2. Valued(epochs, D) /\ Valued(back, D) /\ Cardinality(D) = N /\ N \in Nat
    BY <2>1, LogValued
  <2> QED
    BY <2>1, <2>2 DEF Renumbered
<1> HIDE DEF back
<1>2. \A i, j \in D : Rank(epochs, D, i) = Rank(back, D, j) => epochs[i] = back[j]
  <2> DEFINE f == Mirror(epochs)
  <2>1. Renumbered(epochs, D, back, D, f)
    BY <1>1
  <2> HIDE DEF f, D
  <2> QED
    BY <2>1, SameValues
<1>3. /\ NewestCommit(epochs) \in D /\ Rank(epochs, D, NewestCommit(epochs)) = N - 1
      /\ NewestCommit(back) \in D /\ Rank(back, D, NewestCommit(back)) = N - 1
  <2>1. NewestCommit(epochs) \in D /\ Rank(epochs, D, NewestCommit(epochs)) = N - 1
    BY <1>1, NewestIs
  <2>2. NewestCommit(back) \in D /\ Rank(back, D, NewestCommit(back)) = N - 1
    BY <1>1, NewestIs
  <2> QED
    BY <2>1, <2>2
<1>4. \A i \in D : Rank(epochs, D, i) \in 0..N - 1 /\ Rank(back, D, i) \in 0..N - 1
  BY <1>1, RankRange
<1> DEFINE g == [i \in G |-> CHOOSE j \in D : Rank(back, D, j) = Rank(epochs, D, i)]
<1>5. \A i \in G : g[i] \in D /\ Rank(back, D, g[i]) = Rank(epochs, D, i)
  <2> SUFFICES ASSUME NEW i \in G PROVE g[i] \in D /\ Rank(back, D, g[i]) = Rank(epochs, D, i)
    OBVIOUS
  <2>1. \E j \in D : Rank(back, D, j) = Rank(epochs, D, i)
    <3> DEFINE r == Rank(epochs, D, i)
    <3>1. r \in 0..Cardinality(D) - 1
      BY <1>1, <1>4
    <3>2. Valued(back, D)
      BY <1>1
    <3> HIDE DEF D, r
    <3>3. \E j \in D : Rank(back, D, j) = r
      BY <3>1, <3>2, RankIsTaken
    <3> QED
      BY <3>3 DEF r
  <2> QED
    BY <2>1
<1>6. \A i \in G : g[i] \in H
  <2> SUFFICES ASSUME NEW i \in G, g[i] = NewestCommit(back) PROVE FALSE
    BY <1>5
  <2>1. Rank(epochs, D, i) = Rank(epochs, D, NewestCommit(epochs))
    BY <1>3, <1>5
  <2> QED
    BY <1>1, <1>3, <2>1, RankIsOwn
<1>7. g \in Bijection(G, H)
  <2>1. g \in [G -> H]
    BY <1>6
  <2>2. \A a, b \in G : g[a] = g[b] => a = b
    <3> SUFFICES ASSUME NEW a \in G, NEW b \in G, g[a] = g[b] PROVE a = b
      OBVIOUS
    <3>1. Rank(epochs, D, a) = Rank(epochs, D, b)
      BY <1>5
    <3> QED
      BY <1>1, <3>1, RankIsOwn
  <2>3. \A t \in H : \E s \in G : g[s] = t
    <3> SUFFICES ASSUME NEW t \in H PROVE \E s \in G : g[s] = t
      OBVIOUS
    <3>1. PICK s \in D : Rank(epochs, D, s) = Rank(back, D, t)
      <4> DEFINE r == Rank(back, D, t)
      <4>1. r \in 0..Cardinality(D) - 1
        BY <1>1, <1>4
      <4>2. Valued(epochs, D)
        BY <1>1
      <4> HIDE DEF D, r
      <4>3. \E s \in D : Rank(epochs, D, s) = r
        BY <4>1, <4>2, RankIsTaken
      <4> QED
        BY <4>3 DEF r
    <3>2. s # NewestCommit(epochs)
      <4> SUFFICES ASSUME s = NewestCommit(epochs) PROVE FALSE
        OBVIOUS
      <4>1. Rank(back, D, t) = Rank(back, D, NewestCommit(back))
        BY <1>3, <3>1
      <4> QED
        BY <1>1, <1>3, <4>1, RankIsOwn
    <3>3. s \in G
      BY <3>2
    <3>4. Rank(back, D, g[s]) = Rank(back, D, t) /\ g[s] \in D
      BY <1>5, <3>1, <3>3
    <3>5. g[s] = t
      <4> HIDE DEF g
      <4> QED
        BY <1>1, <3>4, RankIsOwn
    <3> QED
      BY <3>3, <3>5
  <2> HIDE DEF g
  <2> QED
    BY <2>1, <2>2, <2>3 DEF Bijection, Injection, Surjection, IsInjective
<1> HIDE DEF g
<1>8. \A i \in G : Gaps(back)[g[i]] = Gaps(epochs)[i]
  <2> SUFFICES ASSUME NEW i \in G PROVE Gaps(back)[g[i]] = Gaps(epochs)[i]
    OBVIOUS
  <2> DEFINE h == g[i]
  <2>1. h \in H /\ Rank(back, D, h) = Rank(epochs, D, i)
    BY <1>5, <1>6
  <2>2. NextCommit(epochs, i) \in D /\ Rank(epochs, D, NextCommit(epochs, i)) = Rank(epochs, D, i) + 1
    BY NextIs
  <2>3. NextCommit(back, h) \in D /\ Rank(back, D, NextCommit(back, h)) = Rank(back, D, h) + 1
    BY <1>1, <2>1, NextIs
  <2>4. back[h] = epochs[i] /\ back[NextCommit(back, h)] = epochs[NextCommit(epochs, i)]
    BY <1>2, <2>1, <2>2, <2>3
  <2>5. Gaps(epochs)[i] = epochs[NextCommit(epochs, i)] - epochs[i]
    BY DEF Gaps
  <2>6. Gaps(back)[h] = back[NextCommit(back, h)] - back[h]
    BY <1>1, <2>1 DEF Gaps
  <2> QED
    BY <2>4, <2>5, <2>6
<1>9. /\ DOMAIN Gaps(epochs) = G /\ Valued(Gaps(epochs), G) /\ G # {}
      /\ DOMAIN Gaps(back) = H /\ Valued(Gaps(back), H)
  <2>1. DOMAIN Gaps(epochs) = G /\ Valued(Gaps(epochs), G) /\ G # {}
    BY GapsAre
  <2>2. DOMAIN Gaps(back) = H /\ Valued(Gaps(back), H)
    BY <1>1, GapsAre
  <2> QED
    BY <2>1, <2>2
<1>10. MedianOf(Gaps(back), H) = MedianOf(Gaps(epochs), G)
  <2>1. Renumbered(Gaps(epochs), G, Gaps(back), H, g)
    BY <1>7, <1>8, <1>9 DEF Renumbered
  <2>2. G # {}
    BY <1>9
  <2> HIDE DEF G, H
  <2> QED
    BY <2>1, <2>2, MedianMoves
<1> QED
  BY <1>1, <1>9, <1>10 DEF GitFigures, back

(* From the oldest commit on, the time since it holds every long gap.      *)
LEMMA LongGapsFit ==
  ASSUME NEW epochs \in Seq(Int), Len(epochs) >= 2, NEW lead \in Nat,
         NEW o \in DOMAIN epochs, Rank(epochs, DOMAIN epochs, o) = 0
  PROVE  \A i \in DOMAIN epochs :
           LET long == {j \in Lower(epochs, DOMAIN epochs, i) : Gaps(epochs)[j] >= lead} IN
           lead * Cardinality(long) <= epochs[i] - epochs[o]
<1> DEFINE D == DOMAIN epochs
           Long(i) == {j \in Lower(epochs, D, i) : Gaps(epochs)[j] >= lead}
           Fits(i) == lead * Cardinality(Long(i)) <= epochs[i] - epochs[o]
           Fails == {Rank(epochs, D, i) : i \in {j \in D : ~ Fits(j)}}
<1>1. /\ Valued(epochs, D) /\ Len(epochs) \in Nat /\ Cardinality(D) = Len(epochs)
      /\ \A i \in D : epochs[i] \in Int /\ Rank(epochs, D, i) \in 0..Len(epochs) - 1
  <2>1. Valued(epochs, D) /\ Len(epochs) \in Nat /\ Cardinality(D) = Len(epochs)
    BY LogValued
  <2> QED
    BY <2>1, RankRange DEF Valued
<1>2. NewestCommit(epochs) \in D /\ Rank(epochs, D, NewestCommit(epochs)) = Len(epochs) - 1
  BY NewestIs
<1>3. \A i \in D : IsFiniteSet(Long(i)) /\ Cardinality(Long(i)) \in Nat
  <2> SUFFICES ASSUME NEW i \in D PROVE IsFiniteSet(Long(i)) /\ Cardinality(Long(i)) \in Nat
    OBVIOUS
  <2>1. Long(i) \in SUBSET D /\ IsFiniteSet(D)
    BY <1>1 DEF Lower, Valued
  <2> HIDE DEF Long
  <2> QED
    BY <2>1, PartOf
<1> HIDE DEF Fits
<1> SUFFICES ASSUME Fails # {} PROVE FALSE
  BY DEF Fits
<1>4. Fails \in SUBSET Nat
  BY <1>1
<1> HIDE DEF Fails
<1>5. PICK k \in Fails : \A m \in Fails : k <= m
  BY <1>4, Smallest
<1>6. PICK i \in D : ~ Fits(i) /\ Rank(epochs, D, i) = k
  BY <1>5 DEF Fails
<1>7. k # 0
  <2> SUFFICES ASSUME k = 0 PROVE FALSE
    OBVIOUS
  <2>1. i = o
    BY <1>1, <1>6, RankIsOwn
  <2>2. Lower(epochs, D, i) = {}
    <3>1. IsFiniteSet(Lower(epochs, D, i))
      BY <1>1, FS_Subset DEF Valued, Lower
    <3> QED
      BY <1>6, <3>1, RankCounts, FS_EmptySet
  <2>3. Cardinality(Long(i)) = 0
    BY <2>2, FS_EmptySet
  <2> QED
    BY <1>1, <1>6, <2>1, <2>3 DEF Fits
<1>8. PICK p \in D : Rank(epochs, D, p) = k - 1
  <2>1. k - 1 \in 0..Cardinality(D) - 1
    BY <1>1, <1>6, <1>7
  <2> QED
    BY <1>1, <2>1, RankIsTaken
<1>9. Fits(p)
  <2>1. k - 1 \notin Fails
    BY <1>4, <1>5
  <2> QED
    BY <1>8, <2>1 DEF Fails
<1>10. p # NewestCommit(epochs)
  BY <1>1, <1>2, <1>6, <1>8
<1>11. /\ NextCommit(epochs, p) \in D /\ epochs[p] <= epochs[NextCommit(epochs, p)]
       /\ Lower(epochs, D, NextCommit(epochs, p)) = Lower(epochs, D, p) \union {p}
       /\ p \notin Lower(epochs, D, p)
       /\ Rank(epochs, D, NextCommit(epochs, p)) = k
  <2>1. /\ NextCommit(epochs, p) \in D /\ epochs[p] <= epochs[NextCommit(epochs, p)]
        /\ Lower(epochs, D, NextCommit(epochs, p)) = Lower(epochs, D, p) \union {p}
        /\ p \notin Lower(epochs, D, p)
        /\ Rank(epochs, D, NextCommit(epochs, p)) = Rank(epochs, D, p) + 1
    BY <1>10, NextIs
  <2>2. k \in Int
    BY <1>4
  <2> QED
    BY <1>8, <2>1, <2>2
<1>12. NextCommit(epochs, p) = i
  BY <1>1, <1>6, <1>11, RankIsOwn
<1>13. Gaps(epochs)[p] = epochs[i] - epochs[p]
  BY <1>10, <1>12 DEF Gaps
<1>14. epochs[i] \in Int /\ epochs[p] \in Int /\ epochs[o] \in Int
       /\ Cardinality(Long(p)) \in Nat /\ IsFiniteSet(Long(p)) /\ epochs[p] <= epochs[i]
  BY <1>1, <1>3, <1>11, <1>12
<1>15. lead * Cardinality(Long(p)) <= epochs[p] - epochs[o]
  BY <1>9 DEF Fits
<1>16. CASE Gaps(epochs)[p] >= lead
  <2>1. Long(i) = Long(p) \union {p} /\ p \notin Long(p)
    BY <1>11, <1>12, <1>16
  <2> HIDE DEF Long
  <2>2. Cardinality(Long(i)) = Cardinality(Long(p)) + 1
    BY <1>14, <2>1, FS_AddElement
  <2> DEFINE c == Cardinality(Long(p))
  <2>3. lead * (c + 1) = lead * c + lead
    <3>1. c \in Nat
      BY <1>14
    <3> HIDE DEF c
    <3> QED
      BY <3>1
  <2>4. lead * c \in Int
    <3>1. c \in Nat
      BY <1>14
    <3> HIDE DEF c
    <3> QED
      BY <3>1
  <2>5. Gaps(epochs)[p] \in Int
    BY <1>13, <1>14
  <2>6. Cardinality(Long(i)) = c + 1 /\ lead * c <= epochs[p] - epochs[o]
    BY <1>15, <2>2
  <2>7. lead * (c + 1) <= epochs[i] - epochs[o]
    <3> HIDE DEF c
    <3> QED
      BY <1>13, <1>14, <1>16, <2>3, <2>4, <2>5, <2>6
  <2> QED
    BY <1>6, <2>6, <2>7 DEF Fits
<1>17. CASE ~ (Gaps(epochs)[p] >= lead)
  <2>1. Long(i) = Long(p)
    BY <1>11, <1>12, <1>17
  <2> HIDE DEF Long
  <2> DEFINE c == Cardinality(Long(p))
  <2>2. lead * c \in Int
    <3>1. c \in Nat
      BY <1>14
    <3> HIDE DEF c
    <3> QED
      BY <3>1
  <2>3. Cardinality(Long(i)) = c /\ lead * c <= epochs[p] - epochs[o]
    BY <1>15, <2>1
  <2>4. lead * c <= epochs[i] - epochs[o]
    <3> HIDE DEF c
    <3> QED
      BY <1>14, <2>2, <2>3
  <2> QED
    BY <1>6, <2>3, <2>4 DEF Fits
<1> QED
  BY <1>16, <1>17

(* Of the commits but the newest, those with a later one within t are      *)
(* those with a gap of at most t.                                          *)
LEMMA GapsWithin ==
  ASSUME NEW epochs \in Seq(Int), Len(epochs) >= 2, NEW t \in Int
  PROVE  LET G == DOMAIN epochs \ {NewestCommit(epochs)} IN
         /\ {i \in DOMAIN epochs : \E j \in Later(epochs, i) : epochs[j] - epochs[i] < t}
              = Less(Gaps(epochs), G, t)
         /\ {i \in DOMAIN epochs : \E j \in Later(epochs, i) : epochs[j] - epochs[i] <= t}
              = AtMost(Gaps(epochs), G, t)
<1> DEFINE D == DOMAIN epochs
           n == NewestCommit(epochs)
           G == D \ {n}
<1>1. Valued(epochs, D) /\ \A k \in D : epochs[k] \in Int /\ k \in Int
  BY LogValued DEF Valued
<1>2. \A i \in D : \A k \in Later(epochs, i) : k \in D /\ Below(epochs, i, k)
  BY <1>1 DEF Later, Below
<1>3. Later(epochs, n) = {}
  <2>1. n \in D /\ \A k \in D : k = n \/ Below(epochs, k, n)
    BY NewestIs
  <2> HIDE DEF n, D
  <2>2. ASSUME NEW k \in Later(epochs, n) PROVE FALSE
    <3>1. k \in D /\ Below(epochs, n, k)
      BY <1>2, <2>1, <2>2
    <3>2. k = n \/ Below(epochs, k, n)
      BY <2>1, <3>1
    <3> QED
      BY <1>1, <2>1, <3>1, <3>2, Linear
  <2> QED
    BY <2>2
<1>4. ASSUME NEW i \in G
      PROVE  LET j == NextCommit(epochs, i) IN
             /\ j \in Later(epochs, i) /\ \A k \in Later(epochs, i) : epochs[j] <= epochs[k]
             /\ Gaps(epochs)[i] = epochs[j] - epochs[i]
             /\ epochs[i] \in Int /\ \A k \in Later(epochs, i) : epochs[k] \in Int
  BY <1>1, <1>2, NextIs, GapsAre
<1> HIDE DEF D, n
<1>5. ASSUME NEW i \in G
      PROVE  /\ Gaps(epochs)[i] < t <=> \E j \in Later(epochs, i) : epochs[j] - epochs[i] < t
             /\ Gaps(epochs)[i] <= t <=> \E j \in Later(epochs, i) : epochs[j] - epochs[i] <= t
  <2> DEFINE j == NextCommit(epochs, i)
  <2>1. /\ j \in Later(epochs, i) /\ \A k \in Later(epochs, i) : epochs[j] <= epochs[k]
        /\ Gaps(epochs)[i] = epochs[j] - epochs[i]
        /\ epochs[i] \in Int /\ \A k \in Later(epochs, i) : epochs[k] \in Int
    BY <1>4
  <2> HIDE DEF j
  <2> QED
    BY <2>1
<1>6. Less(Gaps(epochs), G, t)
        = {i \in D : \E j \in Later(epochs, i) : epochs[j] - epochs[i] < t}
  BY <1>3, <1>5 DEF Less
<1>7. AtMost(Gaps(epochs), G, t)
        = {i \in D : \E j \in Later(epochs, i) : epochs[j] - epochs[i] <= t}
  BY <1>3, <1>5 DEF AtMost
<1> QED
  BY <1>6, <1>7 DEF D, n

(* At least half of the gaps are as long as the lead time.                 *)
LEMMA AtLeastHalf ==
  ASSUME NEW value, NEW S, Valued(value, S), S # {}, NEW m \in Int, m = MedianOf(value, S)
  PROVE  (Cardinality(S) + 1) \div 2 <= Cardinality({j \in S : value[j] >= m})
<1> DEFINE n == Cardinality(S)
           L == Less(value, S, m)
<1>1. n \in Nat /\ IsFiniteSet(S) /\ \A j \in S : value[j] \in Int
  BY FS_CardinalityType DEF Valued
<1>2. Cardinality(L) <= n \div 2
  BY MedianIs, ValueAtRank
<1>3. L \in SUBSET S /\ {j \in S : value[j] >= m} = S \ L /\ S \intersect L = L
  BY <1>1 DEF Less
<1> HIDE DEF n, L
<1>4. Cardinality(S \ L) = n - Cardinality(L)
  BY <1>1, <1>3, FS_Difference DEF n
<1>5. Cardinality(L) \in Nat
  BY <1>1, <1>3, PartOf
<1>6. (n + 1) \div 2 <= n - Cardinality(L)
  BY <1>1, <1>2, <1>5
<1> QED
  BY <1>3, <1>4, <1>6 DEF n

(* What dora_from_commit_epochs shows of any log: the lead time does not   *)
(* depend on the order of the log, it is the median of the gaps, and half  *)
(* of the history is as slow.                                              *)
LEMMA EveryLog ==
  ASSUME NEW epochs \in Seq(Int)
  PROVE  LeadTimeTypical(epochs)
<1>0. ASSUME Len(epochs) < 2 PROVE GitFigures(epochs).lead = NONE
  <2>1. ~(Len(epochs) >= 2)
    BY <1>0, LogValued
  <2> QED
    BY <2>1 DEF GitFigures
<1> SUFFICES ASSUME Len(epochs) >= 2
             PROVE  LET lead == GitFigures(epochs).lead
                        oldest == CHOOSE i \in DOMAIN epochs : Rank(epochs, DOMAIN epochs, i) = 0
                    IN /\ GitFigures(Reverse(epochs)) = GitFigures(epochs)
                       /\ 0 <= lead
                       /\ lead * (Len(epochs) \div 2) <= epochs[NewestCommit(epochs)] - epochs[oldest]
                       /\ 2 * Cardinality({i \in DOMAIN epochs :
                                \E j \in Later(epochs, i) : epochs[j] - epochs[i] < lead})
                            <= Len(epochs) - 1
                       /\ Len(epochs) - 1 < 2 * Cardinality({i \in DOMAIN epochs :
                                \E j \in Later(epochs, i) : epochs[j] - epochs[i] <= lead})
  BY <1>0 DEF LeadTimeTypical
<1> DEFINE D == DOMAIN epochs
           newest == NewestCommit(epochs)
           G == D \ {newest}
           lead == GitFigures(epochs).lead
           oldest == CHOOSE i \in D : Rank(epochs, D, i) = 0
           long == {j \in G : Gaps(epochs)[j] >= lead}
<1>1. Valued(epochs, D) /\ Len(epochs) \in Nat /\ Cardinality(D) = Len(epochs)
  BY LogValued
<1>2. /\ DOMAIN Gaps(epochs) = G /\ Valued(Gaps(epochs), G) /\ G # {}
      /\ Cardinality(G) = Len(epochs) - 1 /\ \A i \in G : 0 <= Gaps(epochs)[i]
  BY GapsAre
<1>3. lead = MedianOf(Gaps(epochs), G)
  BY <1>2 DEF GitFigures
<1> HIDE DEF lead
<1>4. lead \in Nat
  <2>1. PICK i \in G : lead = Gaps(epochs)[i]
    BY <1>2, <1>3, MedianIs
  <2> QED
    BY <1>2, <2>1 DEF Valued
<1>5. oldest \in D /\ Rank(epochs, D, oldest) = 0
  <2>1. \E i \in D : Rank(epochs, D, i) = 0
    BY <1>1, RankIsTaken
  <2> QED
    BY <2>1
<1>6. newest \in D /\ Lower(epochs, D, newest) = G
  BY <1>1, NewestIs, Linear DEF Lower
<1>7. Len(epochs) \div 2 <= Cardinality(long)
  <2>1. (Cardinality(G) + 1) \div 2 <= Cardinality({j \in G : Gaps(epochs)[j] >= lead})
    <3> HIDE DEF G
    <3> QED
      BY <1>2, <1>3, <1>4, AtLeastHalf
  <2> HIDE DEF G
  <2> QED
    BY <1>1, <1>2, <2>1
<1>8. lead * Cardinality(long) <= epochs[newest] - epochs[oldest]
  <2> HIDE DEF oldest
  <2> QED
    BY <1>4, <1>5, <1>6, LongGapsFit
<1>9. lead * (Len(epochs) \div 2) <= epochs[newest] - epochs[oldest]
  <2> DEFINE a == Len(epochs) \div 2
             c == Cardinality(long)
             d == epochs[newest] - epochs[oldest]
  <2>1. a \in Nat /\ c \in Nat /\ d \in Int /\ a <= c /\ lead * c <= d
    <3>1. IsFiniteSet(long)
      BY <1>2, FS_Subset DEF Valued
    <3>2. c \in Nat
      BY <3>1, FS_CardinalityType
    <3>3. a \in Nat
      BY <1>1
    <3>4. d \in Int
      BY <1>1, <1>5, <1>6 DEF Valued
    <3> QED
      BY <1>7, <1>8, <3>2, <3>3, <3>4
  <2> HIDE DEF a, c, d
  <2>2. lead * a <= lead * c
    BY <1>4, <2>1
  <2>3. lead * a \in Int /\ lead * c \in Int
    BY <1>4, <2>1
  <2>4. lead * a <= d
    BY <2>1, <2>2, <2>3
  <2> QED
    BY <2>4 DEF a, d
<1>10. /\ 2 * Cardinality({i \in D : \E j \in Later(epochs, i) : epochs[j] - epochs[i] < lead})
            <= Len(epochs) - 1
       /\ Len(epochs) - 1 <
            2 * Cardinality({i \in D : \E j \in Later(epochs, i) : epochs[j] - epochs[i] <= lead})
  <2>1. /\ {i \in D : \E j \in Later(epochs, i) : epochs[j] - epochs[i] < lead}
             = Less(Gaps(epochs), G, lead)
        /\ {i \in D : \E j \in Later(epochs, i) : epochs[j] - epochs[i] <= lead}
             = AtMost(Gaps(epochs), G, lead)
    <3>1. lead \in Int
      BY <1>4
    <3> HIDE DEF lead
    <3> QED
      BY <3>1, GapsWithin, Zenon
  <2> HIDE DEF G
  <2>2. /\ 2 * Cardinality(Less(Gaps(epochs), G, lead)) <= Cardinality(G)
        /\ Cardinality(G) < 2 * Cardinality(AtMost(Gaps(epochs), G, lead))
    BY <1>2, <1>3, <1>4, MedianHalves
  <2> QED
    BY <1>2, <2>1, <2>2
<1> QED
  BY <1>4, <1>9, <1>10, OrderOfLogIsNoMatter DEF lead

-----------------------------------------------------------------------------
(* The two tasks touch nothing of each other.                              *)
BackgroundInv == CloudInv /\ BaselinesInv

THEOREM BackgroundInvariant == Spec => []BackgroundInv
<1>1. Init => BackgroundInv
  BY CloudStarts, BaselinesStart DEF Init, BackgroundInv
<1>2. BackgroundInv /\ [Next]_vars => BackgroundInv'
  <2> SUFFICES ASSUME BackgroundInv, [Next]_vars PROVE BackgroundInv'
    OBVIOUS
  <2>1. CloudInv'
    <3>1. [CloudNext]_cloud
      BY DEF Next, vars, cloud
    <3> QED
      BY <3>1, CloudKeeps DEF BackgroundInv
  <2>2. BaselinesInv'
    <3>1. CASE BaselinesStep(network)
      BY <3>1, BaselinesStepKeeps DEF BackgroundInv
    <3>2. CASE UNCHANGED baselines
      BY <3>2 DEF BackgroundInv, BaselinesInv, NothingStaleIsShown, Shown, baselines
    <3> QED
      BY <3>1, <3>2 DEF Next, vars
  <2> QED
    BY <2>1, <2>2 DEF BackgroundInv
<1> QED
  BY <1>1, <1>2, PTL DEF Spec

(* The prefix table stays one, whatever the requests meet.                 *)
THEOREM CloudTyped == Spec => []CloudTypeOK
<1>1. BackgroundInv => CloudTypeOK
  BY DEF BackgroundInv, CloudInv
<1> QED
  BY <1>1, BackgroundInvariant, PTL

(* A table that calls itself live has something published in it.           *)
THEOREM LiveTableHasAList == Spec => []LiveMeansAList
<1>1. BackgroundInv => LiveMeansAList
  BY LiveHolds DEF BackgroundInv
<1> QED
  BY <1>1, BackgroundInvariant, PTL

(* An address goes to the narrowest prefix known, and to the hardcoded     *)
(* table where nothing published applies, after any number of refreshes.   *)
THEOREM AttributionIsRight == Spec => []AttributionIsMostSpecific
<1>1. BackgroundInv => AttributionIsMostSpecific
  BY AttributionHolds DEF BackgroundInv
<1> QED
  BY <1>1, BackgroundInvariant, PTL

(* Ranks and CI figures go with the fetch that has failed, for every       *)
(* leaderboard, log and answer, although the sections are fetched one      *)
(* after the other and shown together; those of the refresh before stay    *)
(* while one is past its first request, for ever if its next one hangs.    *)
THEOREM BaselinesAreCurrent == Spec => []NothingStaleIsShown
<1>1. BackgroundInv => NothingStaleIsShown
  BY DEF BackgroundInv, BaselinesInv
<1> QED
  BY <1>1, BackgroundInvariant, PTL

(* Of whatever runs GitHub answers, in any number and any order: the       *)
(* figures do not depend on the order (unless two were created in the same *)
(* second), no more have failed than were completed, and the time to       *)
(* restore is the median of the times from a failure to the first success  *)
(* after it in its workflow, the longer of the two in the middle.          *)
THEOREM FiguresOfEveryAnswer ==
  ASSUME NEW conclusions, NEW workflows
  PROVE  \A runs \in AnswersOf(conclusions, workflows) : CiFiguresRight(runs)
BY EveryAnswer

(* Of whatever commits git log gives, in any number and any order: the     *)
(* lead time does not depend on the order, it is the median of the gaps    *)
(* between a commit and the next, and half as many gaps as there are       *)
(* commits are as long and fit in the history; fewer than two commits have *)
(* no lead time.                                                           *)
THEOREM LeadTimeOfEveryLog == \A epochs \in Seq(Int) : LeadTimeTypical(epochs)
BY EveryLog

(* The answers and logs that the runs try are among those.                 *)
THEOREM CiFiguresStayRight == Spec => []CiFiguresAreRight
<1>1. AllAnswers \in SUBSET AnswersOf({"success", "failure", "cancelled"}, {"build", "test"})
  <2> DEFINE R == [conclusion : {"success", "failure", "cancelled"}, created : Int,
                   workflow : {"build", "test"}]
  <2>1. AllRuns \in SUBSET R
    BY DEF AllRuns
  <2> HIDE DEF R
  <2>2. \A m \in Nat : [1..m -> AllRuns] \in SUBSET Seq(R)
    BY <2>1
  <2>3. AllAnswers = UNION {[1..m -> AllRuns] : m \in 0..3}
    BY DEF AllAnswers, BoundedSeq, SeqOf
  <2>4. AllAnswers \in SUBSET Seq(R)
    <3> SUFFICES ASSUME NEW runs \in AllAnswers PROVE runs \in Seq(R)
      OBVIOUS
    <3>1. PICK m \in 0..3 : runs \in [1..m -> AllRuns]
      BY <2>3
    <3>2. m \in Nat
      OBVIOUS
    <3> QED
      BY <2>2, <3>1, <3>2
  <2> QED
    BY <2>4 DEF AnswersOf, R
<1>2. CiFiguresAreRight
  BY <1>1, FiguresOfEveryAnswer DEF CiFiguresAreRight, CiFiguresCheck
<1> QED
  BY <1>2, PTL

THEOREM LeadTimeStaysTypical == Spec => []LeadTimeIsTypical
<1>1. AllLogs \in SUBSET Seq(Int)
  <2>1. \A m \in Nat : [1..m -> 0..3] \in SUBSET Seq(Int)
    OBVIOUS
  <2>2. AllLogs = UNION {[1..m -> 0..3] : m \in 0..4}
    BY DEF AllLogs, BoundedSeq, SeqOf
  <2> SUFFICES ASSUME NEW epochs \in AllLogs PROVE epochs \in Seq(Int)
    OBVIOUS
  <2>3. PICK m \in 0..4 : epochs \in [1..m -> 0..3]
    BY <2>2
  <2>4. m \in Nat
    OBVIOUS
  <2> QED
    BY <2>1, <2>3, <2>4
<1>2. LeadTimeIsTypical
  BY <1>1, LeadTimeOfEveryLog DEF LeadTimeIsTypical, LeadTimeCheck
<1> QED
  BY <1>2, PTL
=============================================================================
