-------------------------- MODULE Telemetry_proofs --------------------------
(***************************************************************************)
(* The telemetry table stays sparse and in order, and a poll is left out   *)
(* of it for a reason: for every number of drives and batteries, of polls  *)
(* and of restarts, and however often the clock is set.                    *)
(*                                                                         *)
(* The table is compared with its newest row only.  That is enough because *)
(* the rows of a subject are already in order, so the newest of them is    *)
(* also the latest; and what is later than the clock is of a time before   *)
(* the clock was last set.                                                 *)
(***************************************************************************)
EXTENDS Telemetry, TLAPS, SequenceTheorems, FiniteSetTheorems, WellFoundedInduction

USE TimeAssumption

IsSeq(s) == \E S : s \in Seq(S)

Recorded ==
  /\ now \in Nat /\ steps \in Nat
  /\ IsSeq(samples)
  /\ \A i \in DOMAIN samples : samples[i].at \in Nat /\ samples[i].steps \in Nat

(* A row is of no later clock than the present one, and one of the future  *)
(* of an earlier.                                                          *)
FutureIsPast ==
  \A i \in DOMAIN samples :
    /\ samples[i].steps <= steps
    /\ samples[i].at > now => samples[i].steps < steps

TableInv == Recorded /\ HistoryIsSparse /\ FutureIsPast

-----------------------------------------------------------------------------
(* A set of natural numbers with an upper bound has a greatest element.    *)
LEMMA Greatest ==
  ASSUME NEW n \in Nat, NEW I \in SUBSET (1..n), I # {}
  PROVE  \E k \in I : \A j \in I : j <= k
<1> DEFINE Below == {m \in Nat : n - m \in I}
<1>1. PICK i \in I : TRUE
  OBVIOUS
<1>2. n - i \in Below
  <2>1. n - i \in Nat /\ n - (n - i) = i
    OBVIOUS
  <2> QED
    BY <2>1, <1>1
<1>3. \E m \in Below : \A l \in Below : ~ (<<l, m>> \in OpToRel(<, Nat))
  <2>1. Below \subseteq Nat /\ Below # {}
    BY <1>2
  <2> QED
    BY <2>1, NatLessThanWellFounded, WFMin
<1>4. PICK m \in Below : \A l \in Below : ~ (l < m)
  BY <1>3 DEF OpToRel
<1>5. ASSUME NEW j \in I PROVE j <= n - m
  <2>1. n - j \in Nat /\ n - (n - j) = j
    OBVIOUS
  <2>2. n - j \in Below
    BY <2>1
  <2>3. ~ (n - j < m)
    BY <1>4, <2>2
  <2> QED
    BY <2>3
<1> QED
  BY <1>4, <1>5

(* A subject with a row has a newest one.                                  *)
LEMMA NewestExists ==
  ASSUME IsSeq(samples), NEW i \in DOMAIN samples
  PROVE  \E k \in DOMAIN samples : IsNewest(k, samples[i].subject)
<1> DEFINE I == {j \in DOMAIN samples : samples[j].subject = samples[i].subject}
<1>1. Len(samples) \in Nat /\ DOMAIN samples = 1..Len(samples)
  BY DEF IsSeq
<1>2. I \in SUBSET (1..Len(samples)) /\ I # {}
  BY <1>1
<1>3. PICK k \in I : \A j \in I : j <= k
  <2> HIDE DEF I
  <2> QED
    BY <1>1, <1>2, Greatest
<1> QED
  BY <1>3 DEF IsNewest

(* A row appended is the last, and the others stay as they are.            *)
LEMMA Appended ==
  ASSUME NEW s, IsSeq(s), NEW row
  PROVE  /\ Len(s) \in Nat /\ DOMAIN s = 1..Len(s)
         /\ IsSeq(Append(s, row))
         /\ DOMAIN Append(s, row) = 1..(Len(s) + 1)
         /\ \A i \in DOMAIN s : Append(s, row)[i] = s[i]
         /\ Append(s, row)[Len(s) + 1] = row
<1> DEFINE t == Append(s, row)
<1>1. PICK S : s \in Seq(S)
  BY DEF IsSeq
<1>2. s \in Seq(S \union {row}) /\ row \in S \union {row}
  BY <1>1
<1>3. /\ t \in Seq(S \union {row}) /\ Len(t) = Len(s) + 1
      /\ \A i \in 1..Len(s) : t[i] = s[i]
      /\ t[Len(s) + 1] = row
  BY <1>2, AppendProperties
<1> QED
  BY <1>1, <1>3 DEF IsSeq

-----------------------------------------------------------------------------
(* A row of the present, appended when the newest of its subject is stale, *)
(* leaves the table sparse.                                                *)
LEMMA SampleKeeps ==
  ASSUME TableInv, NEW d, NEW value, NEW complete, Project(d, value, complete),
         UNCHANGED <<now, steps>>
  PROVE  TableInv'
<1> DEFINE subject == SubjectOf[d]
           row == [subject |-> subject, at |-> now, value |-> value, device |-> d,
                   worn |-> worn[d], counter |-> counter[d], steps |-> steps,
                   complete |-> complete]
<1>1. CASE ~Stale(subject)
  <2>1. samples' = samples
    BY <1>1 DEF Project
  <2> QED
    BY <2>1 DEF TableInv, Recorded, HistoryIsSparse, FutureIsPast
<1>2. CASE Stale(subject)
  <2>1. samples' = Append(samples, row)
    BY <1>2 DEF Project
  <2>2. row.subject = subject /\ row.at = now /\ row.steps = steps
    OBVIOUS
  <2> HIDE DEF row
  <2>3. /\ Len(samples) \in Nat /\ DOMAIN samples = 1..Len(samples)
        /\ DOMAIN samples' = 1..(Len(samples) + 1)
        /\ IsSeq(samples')
        /\ \A i \in DOMAIN samples : samples'[i] = samples[i]
        /\ samples'[Len(samples) + 1] = row
    <3>1. IsSeq(samples)
      BY DEF TableInv, Recorded
    <3>2. /\ Len(samples) \in Nat /\ DOMAIN samples = 1..Len(samples)
          /\ IsSeq(Append(samples, row))
          /\ DOMAIN Append(samples, row) = 1..(Len(samples) + 1)
          /\ \A i \in DOMAIN samples : Append(samples, row)[i] = samples[i]
          /\ Append(samples, row)[Len(samples) + 1] = row
      BY <3>1, Appended
    <3> QED
      BY <2>1, <3>2 DEF IsSeq
  <2> HIDE DEF subject
  <2>4. now' = now /\ steps' = steps /\ now \in Nat /\ steps \in Nat
    BY DEF TableInv, Recorded
  <2>5. Recorded' /\ FutureIsPast'
    <3> SUFFICES ASSUME NEW i \in DOMAIN samples'
                 PROVE  /\ samples'[i].at \in Nat /\ samples'[i].steps \in Nat
                        /\ samples'[i].steps <= steps
                        /\ samples'[i].at > now => samples'[i].steps < steps
      BY <2>3, <2>4 DEF Recorded, FutureIsPast
    <3>1. CASE i \in DOMAIN samples
      BY <3>1, <2>3 DEF TableInv, Recorded, FutureIsPast
    <3>2. CASE i = Len(samples) + 1
      <4>1. samples'[i] = row
        BY <3>2, <2>3
      <4> QED
        BY <4>1, <2>2, <2>4
    <3> QED
      BY <3>1, <3>2, <2>3
  <2>6. ASSUME NEW i \in DOMAIN samples, samples[i].subject = subject
        PROVE  now >= samples[i].at + Interval
    <3>1. PICK k \in DOMAIN samples : IsNewest(k, subject)
      BY <2>6, NewestExists DEF TableInv, Recorded
    <3>2. now - samples[k].at >= Interval
      BY <3>1, <1>2 DEF Stale
    <3>3. i <= k /\ (i = k \/ i < k)
      BY <3>1, <2>3, <2>6 DEF IsNewest
    <3>4. samples[k].at \in Nat /\ samples[i].at \in Nat /\ Interval \in Nat
      BY DEF TableInv, Recorded
    <3>5. samples[k].at >= samples[i].at
      <4>1. CASE i = k
        BY <4>1, <3>4
      <4>2. CASE i < k
        <5>1. samples[k].subject = samples[i].subject
          BY <3>1, <2>6 DEF IsNewest
        <5>2. samples[k].at >= samples[i].at + Interval
          BY <5>1, <4>2 DEF TableInv, HistoryIsSparse
        <5> QED
          BY <5>2, <3>4
      <4> QED
        BY <4>1, <4>2, <3>3
    <3> QED
      BY <3>2, <3>4, <3>5, <2>4
  <2>7. HistoryIsSparse'
    <3> SUFFICES ASSUME NEW i \in DOMAIN samples', NEW j \in DOMAIN samples',
                        i < j, samples'[i].subject = samples'[j].subject
                 PROVE  samples'[j].at >= samples'[i].at + Interval
      BY DEF HistoryIsSparse
    <3>1. i \in DOMAIN samples
      BY <2>3
    <3>2. CASE j \in DOMAIN samples
      BY <3>1, <3>2, <2>3 DEF TableInv, HistoryIsSparse
    <3>3. CASE j = Len(samples) + 1
      BY <3>1, <3>3, <2>2, <2>3, <2>6
    <3> QED
      BY <3>2, <3>3, <2>3
  <2> QED
    BY <2>5, <2>7 DEF TableInv
<1> QED
  BY <1>1, <1>2

LEMMA InitTable == Init => TableInv
<1> SUFFICES ASSUME Init PROVE TableInv
  OBVIOUS
<1>1. now = 0 /\ steps = 0 /\ samples = <<>> /\ DOMAIN samples = {}
  BY DEF Init
<1>2. IsSeq(samples)
  <2>1. <<>> \in Seq({})
    OBVIOUS
  <2> QED
    BY <2>1, <1>1 DEF IsSeq
<1> QED
  BY <1>1, <1>2 DEF TableInv, Recorded, HistoryIsSparse, FutureIsPast

LEMMA NextTable == TableInv /\ [Next]_vars => TableInv'
<1> SUFFICES ASSUME TableInv, [Next]_vars PROVE TableInv'
  OBVIOUS
<1> USE DEF TableInv, Recorded, HistoryIsSparse, FutureIsPast
<1>1. ASSUME NEW d, PollDrive(d) PROVE TableInv'
  BY <1>1, SampleKeeps DEF PollDrive
<1>2. ASSUME NEW d, PollBattery(d) PROVE TableInv'
  BY <1>2, SampleKeeps DEF PollBattery, host
<1>3. ASSUME NEW d, LoseCounter(d) PROVE TableInv'
  BY <1>3 DEF LoseCounter, program
<1>4. ASSUME NEW d, Wear(d) PROVE TableInv'
  BY <1>4 DEF Wear, program
<1>5. CASE Restart
  BY <1>5 DEF Restart, host
<1>6. CASE Tick
  BY <1>6 DEF Tick, program
<1>7. ASSUME NEW time \in 0..MaxTime, SetClock(time) PROVE TableInv'
  <2>1. now' = time /\ steps' = steps + 1 /\ samples' = samples
    BY <1>7 DEF SetClock, program
  <2>2. time \in Nat
    BY <1>7
  <2>3. Recorded' /\ HistoryIsSparse'
    BY <2>1, <2>2
  <2>4. \A i \in DOMAIN samples : samples[i].steps < steps + 1
    OBVIOUS
  <2>5. FutureIsPast'
    BY <2>1, <2>4
  <2> QED
    BY <2>3, <2>5
<1>8. CASE UNCHANGED vars
  BY <1>8 DEF vars, program, host
<1> QED
  BY <1>1, <1>2, <1>3, <1>4, <1>5, <1>6, <1>7, <1>8 DEF Next

(* Whoever polls, however often the program restarts and however the clock *)
(* is set, the samples of a subject are in the order of their times and    *)
(* the interval apart.                                                     *)
THEOREM HistoryStaysSparse == Spec => []HistoryIsSparse
<1>1. TableInv => HistoryIsSparse
  BY DEF TableInv
<1> QED
  BY <1>1, InitTable, NextTable, PTL DEF Spec

-----------------------------------------------------------------------------
(* A poll leaves a sample out only because one is of the last interval, or *)
(* of a time to come.                                                      *)
LEMMA SilentPoll ==
  ASSUME TableInv, NEW d, NEW value, NEW complete, Project(d, value, complete),
         ~shown'.inserted
  PROVE  \E i \in DOMAIN samples :
           /\ IsNewest(i, SubjectOf[shown'.device])
           /\ \/ samples[i].at <= now /\ now < samples[i].at + Interval
              \/ samples[i].at > now /\ samples[i].steps < steps
<1>1. shown'.device = d /\ shown'.inserted = Stale(SubjectOf[d])
  BY DEF Project
<1>2. PICK i \in DOMAIN samples :
        IsNewest(i, SubjectOf[d]) /\ ~(now - samples[i].at >= Interval)
  BY <1>1 DEF Stale
<1>3. samples[i].at \in Nat /\ now \in Nat /\ Interval \in Nat
  BY DEF TableInv, Recorded
<1>4. CASE samples[i].at <= now
  BY <1>1, <1>2, <1>3, <1>4
<1>5. CASE samples[i].at > now
  BY <1>1, <1>2, <1>5 DEF TableInv, FutureIsPast
<1> QED
  BY <1>3, <1>4, <1>5

(* A poll that takes no sample has one from the last interval, or one of a *)
(* time to come from before the clock was set.                             *)
THEOREM SilenceStaysCaused == Spec => SilenceHasCause
<1> DEFINE Caused ==
      shown' # shown /\ shown'.device # NONE /\ ~shown'.inserted =>
        \E i \in DOMAIN samples :
          /\ IsNewest(i, SubjectOf[shown'.device])
          /\ \/ samples[i].at <= now /\ now < samples[i].at + Interval
             \/ samples[i].at > now /\ samples[i].steps < steps
<1>1. TableInv /\ [Next]_vars => [Caused]_vars
  <2> SUFFICES ASSUME TableInv, Next, shown' # shown, shown'.device # NONE, ~shown'.inserted
               PROVE  Caused
    OBVIOUS
  <2>1. ASSUME NEW d, PollDrive(d) PROVE Caused
    BY <2>1, SilentPoll DEF PollDrive
  <2>2. ASSUME NEW d, PollBattery(d) PROVE Caused
    BY <2>2, SilentPoll DEF PollBattery
  <2>3. ~Restart
    BY DEF Restart, Nothing
  <2>4. ASSUME NEW d PROVE ~LoseCounter(d) /\ ~Wear(d)
    BY DEF LoseCounter, Wear, program
  <2>5. ~Tick /\ \A time \in 0..MaxTime : ~SetClock(time)
    BY DEF Tick, SetClock, program
  <2> QED
    BY <2>1, <2>2, <2>3, <2>4, <2>5 DEF Next
<1> QED
  BY <1>1, InitTable, NextTable, PTL DEF Spec, SilenceHasCause

-----------------------------------------------------------------------------
(* What is written to a drive is found in its report, in bytes.            *)
LEMMA LeastIn == ASSUME NEW I \in SUBSET Nat, I # {} PROVE Min(I) \in I /\ \A j \in I : Min(I) <= j
<1>1. \E m \in I : \A l \in I : ~ (<<l, m>> \in OpToRel(<, Nat))
  BY NatLessThanWellFounded, WFMin
<1>2. PICK m \in I : \A l \in I : ~ (l < m)
  BY <1>1 DEF OpToRel
<1>3. \A l \in I : m <= l
  BY <1>2
<1> QED
  BY <1>2, <1>3 DEF Min

LEMMA RawIs ==
  \A table, v : \A I \in SUBSET Nat :
    I # {} /\ (\A i \in I : table[i].raw = v) => RawOf(table, I) = v
BY LeastIn DEF RawOf

LEMMA TwoEntries ==
  ASSUME NEW S, NEW a \in S, NEW b \in S, a # b, \A x \in S : x = a \/ x = b,
         NEW table \in SetToSeqs(S)
  PROVE  table \in Seq(S) /\ \E i, j \in 1..2 : DOMAIN table = {i, j} /\ table[i] = a /\ table[j] = b
<1>1. Cardinality(S) = 2
  <2>1. Cardinality({a}) = 1 /\ IsFiniteSet({a})
    BY FS_Singleton
  <2>2. S = {a} \union {b} /\ b \notin {a}
    OBVIOUS
  <2>3. Cardinality({a} \union {b}) = Cardinality({a}) + 1
    BY <2>1, <2>2, FS_AddElement
  <2> QED
    BY <2>1, <2>2, <2>3
<1>2. table \in [1..2 -> S] /\ \A i, j \in 1..2 : i # j => table[i] # table[j]
  BY <1>1 DEF SetToSeqs
<1>3. table[1] \in {a, b} /\ table[2] \in {a, b} /\ table[1] # table[2] /\ DOMAIN table = {1, 2}
  BY <1>2
<1>4. table \in Seq(S)
  <2>1. PICK n \in Nat : n = 2
    OBVIOUS
  <2>2. table \in [1..n -> S]
    BY <1>2, <2>1
  <2> QED
    BY <2>2
<1>5. CASE table[1] = a /\ table[2] = b
  BY <1>3, <1>4, <1>5
<1>6. CASE table[1] = b /\ table[2] = a
  BY <1>3, <1>4, <1>6
<1> QED
  BY <1>3, <1>5, <1>6

LEMMA SataBytesFound ==
  ASSUME NEW kind \in Kinds \ {"nvme"}, NEW count \in Nat, NEW S, S = Attributes(kind, count),
         NEW table \in SetToSeqs(S)
  PROVE  /\ SataBytes(table) = count * UnitOf(kind)
         /\ table \in Seq(AttributeSet)
<1> DEFINE mib32 == Named(table, {"Host_Writes_32MiB"})
           gib == Named(table, {"Lifetime_Writes_GiB", "Total_Writes_GiB"})
           lbas == {i \in Named(table, {"Total_LBAs_Written"}) : table[i].id \in {241, 246}}
           mirror == {i \in DOMAIN table : table[i].id = 225}
<1>1. /\ mib32 # {} => SataBytes(table) = RawOf(table, mib32) * Mib32
      /\ mib32 = {} /\ gib # {} => SataBytes(table) = RawOf(table, gib) * Gib
      /\ mib32 = {} /\ gib = {} /\ lbas # {} =>
           SataBytes(table) = RawOf(table, lbas)
             * (IF mirror # {} /\ RawOf(table, mirror) = RawOf(table, lbas) THEN Mib32 ELSE Block)
  BY DEF SataBytes
<1>2. CASE kind = "intel"
  <2> DEFINE a == Attribute(225, "Host_Writes_32MiB", count)
             b == Attribute(241, "Host_Writes_32MiB", count)
  <2>1. S = {a, b}
    BY <1>2 DEF Attributes
  <2>2. /\ a.id = 225 /\ a.name = "Host_Writes_32MiB" /\ a.raw = count
        /\ b.id = 241 /\ b.name = "Host_Writes_32MiB" /\ b.raw = count
        /\ a \in AttributeSet /\ b \in AttributeSet
    BY DEF Attribute, AttributeSet
  <2> HIDE DEF a, b
  <2>3. table \in Seq(S) /\ \E i, j \in 1..2 : DOMAIN table = {i, j} /\ table[i] = a /\ table[j] = b
    <3>1. a # b
      BY <2>2
    <3>2. a \in S /\ b \in S /\ \A x \in S : x = a \/ x = b
      BY <2>1
    <3> QED
      BY <3>1, <3>2, TwoEntries
  <2>4. PICK i, j \in 1..2 : DOMAIN table = {i, j} /\ table[i] = a /\ table[j] = b
    BY <2>3
  <2>5. mib32 = {i, j}
    BY <2>2, <2>4 DEF Named
  <2>6. S \subseteq AttributeSet
    BY <2>1, <2>2
  <2> HIDE DEF mib32, gib, lbas, mirror
  <2>7. RawOf(table, mib32) = count
    <3>1. mib32 \in SUBSET Nat /\ mib32 # {} /\ \A k \in mib32 : table[k].raw = count
      BY <2>2, <2>4, <2>5
    <3> QED
      BY <3>1, RawIs, Zenon
  <2>8. UnitOf(kind) = Mib32
    BY <1>2 DEF UnitOf
  <2>9. SataBytes(table) = count * Mib32
    BY <1>1, <2>5, <2>7
  <2> QED
    BY <2>3, <2>6, <2>8, <2>9
<1>3. CASE kind = "intel_lbas"
  <2> DEFINE a == Attribute(225, "Load_Cycle_Count", count)
             b == Attribute(241, "Total_LBAs_Written", count)
  <2>1. S = {a, b}
    BY <1>3 DEF Attributes
  <2>2. /\ a.id = 225 /\ a.name = "Load_Cycle_Count" /\ a.raw = count
        /\ b.id = 241 /\ b.name = "Total_LBAs_Written" /\ b.raw = count
        /\ a \in AttributeSet /\ b \in AttributeSet
    BY DEF Attribute, AttributeSet
  <2> HIDE DEF a, b
  <2>3. table \in Seq(S) /\ \E i, j \in 1..2 : DOMAIN table = {i, j} /\ table[i] = a /\ table[j] = b
    <3>1. a # b
      BY <2>2
    <3>2. a \in S /\ b \in S /\ \A x \in S : x = a \/ x = b
      BY <2>1
    <3> QED
      BY <3>1, <3>2, TwoEntries
  <2>4. PICK i, j \in 1..2 : DOMAIN table = {i, j} /\ table[i] = a /\ table[j] = b
    BY <2>3
  <2>5. mib32 = {} /\ gib = {} /\ lbas = {j} /\ mirror = {i}
    BY <2>2, <2>4 DEF Named
  <2>6. S \subseteq AttributeSet
    BY <2>1, <2>2
  <2> HIDE DEF mib32, gib, lbas, mirror
  <2>7. RawOf(table, lbas) = count /\ RawOf(table, mirror) = count
    <3>1. lbas \in SUBSET Nat /\ lbas # {} /\ \A k \in lbas : table[k].raw = count
      BY <2>2, <2>4, <2>5
    <3>2. mirror \in SUBSET Nat /\ mirror # {} /\ \A k \in mirror : table[k].raw = count
      BY <2>2, <2>4, <2>5
    <3> QED
      BY <3>1, <3>2, RawIs, Zenon
  <2>8. UnitOf(kind) = Mib32
    BY <1>3 DEF UnitOf
  <2>9. SataBytes(table) = count * Mib32
    BY <1>1, <2>5, <2>7
  <2> QED
    BY <2>3, <2>6, <2>8, <2>9
<1>4. CASE kind = "kingston"
  <2> DEFINE a == Attribute(241, "Lifetime_Writes_GiB", count)
             b == Attribute(246, "Total_LBAs_Written", count)
  <2>1. S = {a, b}
    BY <1>4 DEF Attributes
  <2>2. /\ a.id = 241 /\ a.name = "Lifetime_Writes_GiB" /\ a.raw = count
        /\ b.id = 246 /\ b.name = "Total_LBAs_Written" /\ b.raw = count
        /\ a \in AttributeSet /\ b \in AttributeSet
    BY DEF Attribute, AttributeSet
  <2> HIDE DEF a, b
  <2>3. table \in Seq(S) /\ \E i, j \in 1..2 : DOMAIN table = {i, j} /\ table[i] = a /\ table[j] = b
    <3>1. a # b
      BY <2>2
    <3>2. a \in S /\ b \in S /\ \A x \in S : x = a \/ x = b
      BY <2>1
    <3> QED
      BY <3>1, <3>2, TwoEntries
  <2>4. PICK i, j \in 1..2 : DOMAIN table = {i, j} /\ table[i] = a /\ table[j] = b
    BY <2>3
  <2>5. mib32 = {} /\ gib = {i}
    BY <2>2, <2>4 DEF Named
  <2>6. S \subseteq AttributeSet
    BY <2>1, <2>2
  <2> HIDE DEF mib32, gib, lbas, mirror
  <2>7. RawOf(table, gib) = count
    <3>1. gib \in SUBSET Nat /\ gib # {} /\ \A k \in gib : table[k].raw = count
      BY <2>2, <2>4, <2>5
    <3> QED
      BY <3>1, RawIs, Zenon
  <2>8. UnitOf(kind) = Gib
    BY <1>4 DEF UnitOf
  <2>9. SataBytes(table) = count * Gib
    BY <1>1, <2>5, <2>7
  <2> QED
    BY <2>3, <2>6, <2>8, <2>9
<1>5. CASE kind = "lbas"
  <2> DEFINE a == Attribute(225, "Load_Cycle_Count", count + 1)
             b == Attribute(241, "Total_LBAs_Written", count)
  <2>1. S = {a, b}
    BY <1>5 DEF Attributes
  <2>2. /\ a.id = 225 /\ a.name = "Load_Cycle_Count" /\ a.raw = count + 1
        /\ b.id = 241 /\ b.name = "Total_LBAs_Written" /\ b.raw = count
        /\ a \in AttributeSet /\ b \in AttributeSet
    BY DEF Attribute, AttributeSet
  <2> HIDE DEF a, b
  <2>3. table \in Seq(S) /\ \E i, j \in 1..2 : DOMAIN table = {i, j} /\ table[i] = a /\ table[j] = b
    <3>1. a # b
      BY <2>2
    <3>2. a \in S /\ b \in S /\ \A x \in S : x = a \/ x = b
      BY <2>1
    <3> QED
      BY <3>1, <3>2, TwoEntries
  <2>4. PICK i, j \in 1..2 : DOMAIN table = {i, j} /\ table[i] = a /\ table[j] = b
    BY <2>3
  <2>5. mib32 = {} /\ gib = {} /\ lbas = {j} /\ mirror = {i}
    BY <2>2, <2>4 DEF Named
  <2>6. S \subseteq AttributeSet
    BY <2>1, <2>2
  <2> HIDE DEF mib32, gib, lbas, mirror
  <2>7. RawOf(table, lbas) = count /\ RawOf(table, mirror) = count + 1
    <3>1. lbas \in SUBSET Nat /\ lbas # {} /\ \A k \in lbas : table[k].raw = count
      BY <2>2, <2>4, <2>5
    <3>2. mirror \in SUBSET Nat /\ mirror # {} /\ \A k \in mirror : table[k].raw = count + 1
      BY <2>2, <2>4, <2>5
    <3> QED
      BY <3>1, <3>2, RawIs, Zenon
  <2>8. UnitOf(kind) = Block
    BY <1>5 DEF UnitOf
  <2>9. SataBytes(table) = count * Block
    BY <1>1, <2>5, <2>7
  <2> QED
    BY <2>3, <2>6, <2>8, <2>9
<1>6. CASE kind = "micron"
  <2> DEFINE a == Attribute(246, "Total_LBAs_Written", count)
             b == Attribute(241, "Unknown_Attribute", count + 1)
  <2>1. S = {a, b}
    BY <1>6 DEF Attributes
  <2>2. /\ a.id = 246 /\ a.name = "Total_LBAs_Written" /\ a.raw = count
        /\ b.id = 241 /\ b.name = "Unknown_Attribute" /\ b.raw = count + 1
        /\ a \in AttributeSet /\ b \in AttributeSet
    BY DEF Attribute, AttributeSet
  <2> HIDE DEF a, b
  <2>3. table \in Seq(S) /\ \E i, j \in 1..2 : DOMAIN table = {i, j} /\ table[i] = a /\ table[j] = b
    <3>1. a # b
      BY <2>2
    <3>2. a \in S /\ b \in S /\ \A x \in S : x = a \/ x = b
      BY <2>1
    <3> QED
      BY <3>1, <3>2, TwoEntries
  <2>4. PICK i, j \in 1..2 : DOMAIN table = {i, j} /\ table[i] = a /\ table[j] = b
    BY <2>3
  <2>5. mib32 = {} /\ gib = {} /\ lbas = {i} /\ mirror = {}
    BY <2>2, <2>4 DEF Named
  <2>6. S \subseteq AttributeSet
    BY <2>1, <2>2
  <2> HIDE DEF mib32, gib, lbas, mirror
  <2>7. RawOf(table, lbas) = count
    <3>1. lbas \in SUBSET Nat /\ lbas # {} /\ \A k \in lbas : table[k].raw = count
      BY <2>2, <2>4, <2>5
    <3> QED
      BY <3>1, RawIs, Zenon
  <2>8. UnitOf(kind) = Block
    BY <1>6 DEF UnitOf
  <2>9. SataBytes(table) = count * Block
    BY <1>1, <2>5, <2>7
  <2> QED
    BY <2>3, <2>6, <2>8, <2>9
<1> QED
  BY <1>2, <1>3, <1>4, <1>5, <1>6 DEF Kinds

LEMMA BytesFound ==
  ASSUME NEW kind \in Kinds, NEW count \in Nat, NEW report \in Reports(kind, count)
  PROVE  BytesWritten(report) = count * UnitOf(kind)
<1>1. CASE kind = "nvme"
  BY <1>1, AbsenceAssumption DEF Reports, BytesWritten, UnitOf
<1>2. CASE kind # "nvme"
  <2>1. PICK table \in SetToSeqs(Attributes(kind, count)) : report = [nvme |-> NONE, table |-> table]
    BY <1>2 DEF Reports
  <2>2. SataBytes(table) = count * UnitOf(kind) /\ table \in Seq(AttributeSet)
    BY <1>2, SataBytesFound
  <2>3. BytesWritten(report) = SataBytes(table)
    BY <2>1, <2>2, AbsenceAssumption DEF BytesWritten
  <2> QED
    BY <2>2, <2>3
<1> QED
  BY <1>1, <1>2

-----------------------------------------------------------------------------
(* What each sample says of its device: a drive's bytes, or nothing, and a *)
(* battery's health up to the jitter; and what is counted of the wear can  *)
(* be lost but not found again.                                            *)
HostInv ==
  /\ setup \subseteq Devices
  /\ worn \in [Devices -> Nat] /\ counter \in [Devices -> Nat]

Reading(s) ==
  /\ s.device \in Devices /\ s.value \in Int /\ s.worn \in Nat /\ s.counter \in Nat
  /\ s.device \in Batteries =>
       s.value = MaxWear[s.device] + 1 - s.worn \/ s.value = MaxWear[s.device] - s.worn
  /\ s.device \notin Batteries =>
       IF s.complete THEN s.value = s.counter * UnitOf(KindOf[s.device]) ELSE s.value = 0

Uncounted(s) == s.worn - s.counter

ReadingsInv ==
  /\ HostInv
  /\ \A i \in DOMAIN samples : Reading(samples[i])
  /\ \A i \in DOMAIN samples :
       Uncounted(samples[i]) <= worn[samples[i].device] - counter[samples[i].device]
  /\ \A i, j \in DOMAIN samples :
       i <= j /\ samples[i].device = samples[j].device => Uncounted(samples[i]) <= Uncounted(samples[j])
  /\ \A i, j \in DOMAIN samples : i <= j => samples[i].steps <= samples[j].steps

(* What is polled is a reading of the device as it is.                     *)
Polled(d, value, complete) ==
  /\ d \in Devices /\ value \in Int
  /\ d \in Batteries => value = MaxWear[d] + 1 - worn[d] \/ value = MaxWear[d] - worn[d]
  /\ d \notin Batteries => IF complete THEN value = counter[d] * UnitOf(KindOf[d]) ELSE value = 0

LEMMA UnitIsNat == ASSUME NEW kind \in Kinds PROVE UnitOf(kind) \in Nat
BY UnitAssumption DEF UnitOf, Kinds

LEMMA DrivePolled ==
  ASSUME HostInv, NEW d \in setup \ Batteries, PollDrive(d)
  PROVE  \E value : \E complete \in BOOLEAN : Polled(d, value, complete) /\ Project(d, value, complete)
<1>1. d \in Devices /\ KindOf[d] \in Kinds /\ counter[d] \in Nat
  BY SetupAssumption DEF HostInv, Batteries
<1>2. ASSUME NEW report \in Reports(KindOf[d], counter[d]), Project(d, BytesWritten(report), TRUE)
      PROVE  Polled(d, BytesWritten(report), TRUE)
  <2>1. BytesWritten(report) = counter[d] * UnitOf(KindOf[d]) /\ UnitOf(KindOf[d]) \in Nat
    BY <1>1, <1>2, BytesFound, UnitIsNat
  <2>2. counter[d] * UnitOf(KindOf[d]) \in Int
    BY <1>1, <2>1
  <2> QED
    BY <1>1, <2>1, <2>2 DEF Polled
<1>3. Polled(d, BytesWritten(Incomplete), FALSE)
  <2>1. BytesWritten(Incomplete) = 0
    BY DEF BytesWritten, Incomplete
  <2> QED
    BY <1>1, <2>1 DEF Polled
<1> QED
  BY <1>2, <1>3 DEF PollDrive

LEMMA BatteryPolled ==
  ASSUME HostInv, NEW d \in setup \intersect Batteries, PollBattery(d)
  PROVE  \E value : \E complete \in BOOLEAN : Polled(d, value, complete) /\ Project(d, value, complete)
<1>1. PICK jitter \in 0..1 : Project(d, MaxWear[d] + 1 - worn[d] - jitter, TRUE)
  BY DEF PollBattery
<1>2. d \in Devices /\ MaxWear[d] \in Nat /\ worn[d] \in Nat
  BY SetupAssumption DEF HostInv
<1>3. Polled(d, MaxWear[d] + 1 - worn[d] - jitter, TRUE)
  BY <1>2 DEF Polled
<1> QED
  BY <1>1, <1>3

LEMMA ReadingKeeps ==
  ASSUME TableInv, ReadingsInv, NEW d, NEW value, NEW complete \in BOOLEAN,
         Polled(d, value, complete), Project(d, value, complete),
         UNCHANGED <<now, steps, setup, worn, counter>>
  PROVE  ReadingsInv'
<1> DEFINE row == [subject |-> SubjectOf[d], at |-> now, value |-> value, device |-> d,
                   worn |-> worn[d], counter |-> counter[d], steps |-> steps,
                   complete |-> complete]
<1>1. samples' = samples \/ samples' = Append(samples, row)
  BY DEF Project
<1>2. d \in Devices /\ worn[d] \in Nat /\ counter[d] \in Nat
  BY DEF Polled, ReadingsInv, HostInv
<1>3. row.device = d /\ row.worn = worn[d] /\ row.counter = counter[d] /\ row.steps = steps
  OBVIOUS
<1>4. Reading(row)
  <2>1. row.value = value /\ row.complete = complete
    OBVIOUS
  <2> HIDE DEF row
  <2> QED
    BY <1>2, <1>3, <2>1 DEF Reading, Polled
<1> HIDE DEF row
<1>5. CASE samples' = samples
  BY <1>5 DEF ReadingsInv, HostInv
<1>6. CASE samples' = Append(samples, row)
  <2>1. /\ Len(samples) \in Nat /\ DOMAIN samples = 1..Len(samples)
        /\ DOMAIN samples' = 1..(Len(samples) + 1)
        /\ \A i \in DOMAIN samples : samples'[i] = samples[i]
        /\ samples'[Len(samples) + 1] = row
    <3>1. IsSeq(samples)
      BY DEF TableInv, Recorded
    <3> QED
      BY <1>6, <3>1, Appended
  <2>2. HostInv'
    BY DEF ReadingsInv, HostInv
  <2>3. \A i \in DOMAIN samples' :
          /\ Reading(samples'[i])
          /\ Uncounted(samples'[i]) <= worn[samples'[i].device] - counter[samples'[i].device]
    <3>1. Uncounted(row) <= worn[d] - counter[d]
      BY <1>2, <1>3 DEF Uncounted
    <3> QED
      BY <1>3, <1>4, <2>1, <3>1 DEF ReadingsInv
  <2>4. ASSUME NEW i \in DOMAIN samples', NEW j \in DOMAIN samples', i <= j
        PROVE  /\ samples'[i].device = samples'[j].device => Uncounted(samples'[i]) <= Uncounted(samples'[j])
               /\ samples'[i].steps <= samples'[j].steps
    <3>1. CASE j \in DOMAIN samples
      <4>1. i \in DOMAIN samples
        BY <2>1, <2>4, <3>1
      <4> QED
        BY <2>1, <2>4, <3>1, <4>1 DEF ReadingsInv
    <3>2. CASE j = Len(samples) + 1
      <4>1. samples'[j] = row /\ Uncounted(row) = worn[d] - counter[d]
        BY <1>3, <2>1, <3>2 DEF Uncounted
      <4>2. steps \in Nat /\ \A k \in DOMAIN samples : samples[k].steps <= steps
        BY DEF TableInv, Recorded, FutureIsPast
      <4>3. samples'[i].steps <= steps
        BY <1>3, <2>1, <4>2
      <4> QED
        BY <1>3, <2>3, <4>1, <4>3
    <3> QED
      BY <2>1, <3>1, <3>2
  <2>5. /\ \A i, j \in DOMAIN samples' :
             i <= j /\ samples'[i].device = samples'[j].device => Uncounted(samples'[i]) <= Uncounted(samples'[j])
        /\ \A i, j \in DOMAIN samples' : i <= j => samples'[i].steps <= samples'[j].steps
    BY <2>4
  <2>6. worn' = worn /\ counter' = counter
    OBVIOUS
  <2> QED
    BY <2>2, <2>3, <2>5, <2>6 DEF ReadingsInv, Reading, Uncounted
<1> QED
  BY <1>1, <1>5, <1>6

LEMMA InitReadings == Init => ReadingsInv
<1> SUFFICES ASSUME Init PROVE ReadingsInv
  OBVIOUS
<1>1. samples = <<>> /\ DOMAIN samples = {}
  BY DEF Init
<1>2. HostInv
  BY SetupAssumption DEF Init, HostInv
<1> QED
  BY <1>1, <1>2 DEF ReadingsInv

LEMMA NextReadings == TableInv /\ ReadingsInv /\ [Next]_vars => ReadingsInv'
<1> SUFFICES ASSUME TableInv, ReadingsInv, [Next]_vars PROVE ReadingsInv'
  OBVIOUS
<1>1. ASSUME NEW d \in setup \ Batteries, PollDrive(d) PROVE ReadingsInv'
  <2>1. UNCHANGED <<now, steps, setup, worn, counter>>
    BY <1>1 DEF PollDrive
  <2>2. PICK value : \E complete \in BOOLEAN : Polled(d, value, complete) /\ Project(d, value, complete)
    BY <1>1, DrivePolled DEF ReadingsInv
  <2>3. PICK complete \in BOOLEAN : Polled(d, value, complete) /\ Project(d, value, complete)
    BY <2>2
  <2> QED
    BY <2>1, <2>3, ReadingKeeps
<1>2. ASSUME NEW d \in setup \intersect Batteries, PollBattery(d) PROVE ReadingsInv'
  <2>1. UNCHANGED <<now, steps, setup, worn, counter>>
    BY <1>2 DEF PollBattery, host
  <2>2. PICK value : \E complete \in BOOLEAN : Polled(d, value, complete) /\ Project(d, value, complete)
    BY <1>2, BatteryPolled DEF ReadingsInv
  <2>3. PICK complete \in BOOLEAN : Polled(d, value, complete) /\ Project(d, value, complete)
    BY <2>2
  <2> QED
    BY <2>1, <2>3, ReadingKeeps
<1>3. ASSUME samples' = samples, setup' = setup, HostInv',
             \A d \in Devices : worn[d] - counter[d] <= worn'[d] - counter'[d]
      PROVE  ReadingsInv'
  <2>1. \A i \in DOMAIN samples : samples[i].device \in Devices /\ Uncounted(samples[i]) \in Int
    BY DEF ReadingsInv, Reading, Uncounted
  <2>2. \A d \in Devices : worn[d] \in Nat /\ counter[d] \in Nat /\ worn'[d] \in Nat /\ counter'[d] \in Nat
    BY <1>3 DEF ReadingsInv, HostInv
  <2>3. \A i \in DOMAIN samples :
          Uncounted(samples[i]) <= worn'[samples[i].device] - counter'[samples[i].device]
    BY <1>3, <2>1, <2>2 DEF ReadingsInv
  <2> QED
    BY <1>3, <2>3 DEF ReadingsInv, Reading, Uncounted
<1>4. ASSUME NEW d \in setup \ Batteries, LoseCounter(d) PROVE ReadingsInv'
  <2>1. samples' = samples /\ setup' = setup /\ worn' = worn /\ counter' = [counter EXCEPT ![d] = 0]
    BY <1>4 DEF LoseCounter, program
  <2> QED
    BY <1>3, <2>1 DEF ReadingsInv, HostInv
<1>5. ASSUME NEW d \in setup, Wear(d) PROVE ReadingsInv'
  <2>1. /\ samples' = samples /\ setup' = setup
        /\ worn' = [worn EXCEPT ![d] = @ + 1] /\ counter' = [counter EXCEPT ![d] = @ + 1]
    BY <1>5 DEF Wear, program
  <2> QED
    BY <1>3, <2>1 DEF ReadingsInv, HostInv
<1>6. ASSUME UNCHANGED <<samples, setup, worn, counter>> PROVE ReadingsInv'
  BY <1>3, <1>6 DEF ReadingsInv, HostInv
<1>7. Restart \/ Tick \/ (\E time \in 0..MaxTime : SetClock(time)) \/ UNCHANGED vars
        => UNCHANGED <<samples, setup, worn, counter>>
  BY DEF Restart, Tick, SetClock, vars, program, host
<1> QED
  BY <1>1, <1>2, <1>4, <1>5, <1>6, <1>7 DEF Next

(* Whatever its vendor calls the counter and wherever in its report it is, *)
(* a drive's sample is in bytes.                                           *)
THEOREM SamplesStayBytes == Spec => []SamplesAreBytes
<1>1. ReadingsInv => SamplesAreBytes
  BY DEF ReadingsInv, Reading, SamplesAreBytes
<1> QED
  BY <1>1, InitTable, NextTable, InitReadings, NextReadings, PTL DEF Spec

-----------------------------------------------------------------------------
(* High confidence.  A projection is measured when it is made; the clock   *)
(* may be set afterwards, so what is kept is that its first sample is of   *)
(* an earlier clock, and not only of another one.                          *)
Worn(first, last, device) ==
  LET battery == device \in Batteries
      progress == IF battery THEN first.value - last.value ELSE last.value - first.value
      wear == last.worn - first.worn
  IN \/ {first.device, last.device} # {device}
     \/ ~first.complete
     \/ /\ wear > 0
        /\ progress <= IF battery THEN wear + 1 ELSE wear * UnitOf(KindOf[device])

HighInv ==
  shown.confidence = "high" =>
    LET first == Head(shown.series)
        last == Last(shown.series)
    IN /\ first.steps \in Nat /\ steps \in Nat
       /\ \/ MinHistory <= last.at - first.at /\ last.at - first.at <= Window
          \/ first.steps < steps
       /\ Worn(first, last, shown.device)

(* The projection that has just been made.                                 *)
JustShown ==
  shown.confidence = "high" =>
    /\ shown.device \in Devices
    /\ shown.series = Series(samples, SubjectOf[shown.device])
    /\ \E current : Trusted(shown.series, shown.device \in Batteries, current)

(* A series that is not empty runs from the first of the samples kept to   *)
(* the last.                                                               *)
LEMMA SeriesEnds ==
  ASSUME TableInv, NEW subject, Series(samples, subject) # <<>>
  PROVE  \E i, j \in DOMAIN samples :
           /\ i <= j /\ samples[i].at >= now - Window
           /\ Head(Series(samples, subject)) = samples[i]
           /\ Last(Series(samples, subject)) = samples[j]
<1> DEFINE kept == Kept(samples, subject)
           i == Min(kept)
           j == Max(kept)
<1>1. kept # {} /\ Series(samples, subject) = <<samples[i], samples[j]>>
  BY DEF Series
<1>2. Len(samples) \in Nat /\ DOMAIN samples = 1..Len(samples)
  BY DEF TableInv, Recorded, IsSeq
<1>3. kept \in SUBSET (1..Len(samples)) /\ \A k \in kept : samples[k].at >= now - Window
  BY <1>2 DEF Kept
<1> HIDE DEF kept
<1>4. kept \in SUBSET Nat
  BY <1>2, <1>3
<1>5. i \in kept /\ \A k \in kept : i <= k
  BY <1>1, <1>4, LeastIn
<1>6. j \in kept
  <2>1. \E k \in kept : \A l \in kept : l <= k
    BY <1>1, <1>2, <1>3, Greatest
  <2>2. \E k \in kept : \A l \in kept : k >= l
    BY <2>1, <1>4
  <2> QED
    BY <2>2 DEF Max
<1>7. i <= j /\ i \in DOMAIN samples /\ j \in DOMAIN samples /\ samples[i].at >= now - Window
  BY <1>2, <1>3, <1>5, <1>6
<1> HIDE DEF i, j
<1>8. Head(<<samples[i], samples[j]>>) = samples[i] /\ Last(<<samples[i], samples[j]>>) = samples[j]
  BY DEF Last
<1> QED
  BY <1>1, <1>7, <1>8

(* What a drive has counted between two samples it has also worn.          *)
LEMMA DriveWorn ==
  ASSUME NEW first, NEW last, Reading(first), Reading(last), first.device = last.device,
         first.device \notin Batteries, first.complete,
         Uncounted(first) <= Uncounted(last), last.value - first.value > 0
  PROVE  /\ last.worn - first.worn > 0
         /\ last.value - first.value <= (last.worn - first.worn) * UnitOf(KindOf[first.device])
<1> DEFINE u == UnitOf(KindOf[first.device])
           a == first.counter
           b == last.counter
           wear == last.worn - first.worn
<1>1. u \in Nat
  BY SetupAssumption, UnitIsNat DEF Reading, Batteries
<1>2. a \in Nat /\ b \in Nat /\ first.worn \in Nat /\ last.worn \in Nat
  BY DEF Reading
<1>3. first.value = a * u
  BY Zenon DEF Reading
<1>4. last.value = b * u \/ last.value = 0
  BY Zenon DEF Reading
<1>5. b - a <= wear /\ wear \in Int
  BY <1>2 DEF Uncounted
<1>6. last.value - first.value > 0
  OBVIOUS
<1> HIDE DEF u, a, b, wear
<1>7. a * u \in Nat /\ b * u \in Nat
  BY <1>1, <1>2
<1>8. last.value = b * u /\ b * u > a * u
  BY <1>3, <1>4, <1>6, <1>7
<1>9. b - a > 0 /\ b * u - a * u = (b - a) * u
  <2>1. b * u - a * u = (b - a) * u
    BY <1>1, <1>2
  <2>2. CASE b <= a
    <3>1. \A k \in Nat : k * u >= 0
      BY <1>1
    <3>2. a - b \in Nat /\ (a - b) * u = a * u - b * u
      BY <1>1, <1>2, <2>2
    <3> QED
      BY <1>7, <1>8, <3>1, <3>2
  <2> QED
    BY <1>2, <2>1, <2>2
<1>10. wear > 0 /\ (b - a) * u <= wear * u
  <2>1. PICK k \in Nat : wear = (b - a) + k
    <3>1. wear - (b - a) \in Nat /\ wear = (b - a) + (wear - (b - a))
      BY <1>2, <1>5
    <3> QED
      BY <3>1
  <2>2. wear * u = (b - a) * u + k * u
    BY <1>1, <1>2, <2>1
  <2>3. k * u >= 0 /\ (b - a) * u \in Int /\ k * u \in Int
    BY <1>1, <1>2
  <2> QED
    BY <1>2, <1>5, <1>9, <2>2, <2>3
<1>11. last.value - first.value <= wear * u
  BY <1>3, <1>8, <1>9, <1>10
<1> QED
  BY <1>10, <1>11 DEF wear, u

(* What a battery has declined by, but for the jitter, it has worn.        *)
LEMMA BatteryWorn ==
  ASSUME NEW first, NEW last, Reading(first), Reading(last), first.device = last.device,
         first.device \in Batteries, first.value - last.value >= MinDrop
  PROVE  last.worn - first.worn > 0 /\ first.value - last.value <= last.worn - first.worn + 1
<1>1. /\ first.value \in Int /\ last.value \in Int /\ first.worn \in Nat /\ last.worn \in Nat
      /\ MaxWear[first.device] \in Nat
  BY SetupAssumption DEF Reading
<1>2. /\ first.value = MaxWear[first.device] + 1 - first.worn \/ first.value = MaxWear[first.device] - first.worn
      /\ last.value = MaxWear[first.device] + 1 - last.worn \/ last.value = MaxWear[first.device] - last.worn
  BY DEF Reading
<1> QED
  BY <1>1, <1>2, DropAssumption

LEMMA JustShownIsMeasured == TableInv /\ ReadingsInv /\ JustShown => HighInv
<1> SUFFICES ASSUME TableInv, ReadingsInv, JustShown, shown.confidence = "high" PROVE HighInv
  BY DEF HighInv
<1> DEFINE device == shown.device
           series == Series(samples, SubjectOf[device])
           battery == device \in Batteries
<1>1. PICK current : Trusted(series, battery, current)
  BY DEF JustShown
<1>2. shown.series = series /\ device \in Devices
  BY DEF JustShown
<1>3. PICK i \in DOMAIN samples, j \in DOMAIN samples :
        /\ i <= j /\ samples[i].at >= now - Window
        /\ Head(series) = samples[i] /\ Last(series) = samples[j]
  <2>1. series # <<>>
    BY <1>1 DEF Trusted
  <2> QED
    BY <2>1, SeriesEnds
<1> DEFINE first == samples[i]
           last == samples[j]
           wear == last.worn - first.worn
<1>4. /\ last.at - first.at > 0 /\ last.at - first.at >= MinHistory
      /\ IF battery THEN first.value - last.value >= MinDrop ELSE last.value - first.value > 0
  BY <1>1, <1>3 DEF Trusted, Span, Progress
<1>5. /\ first.at \in Nat /\ last.at \in Nat /\ now \in Nat /\ steps \in Nat
      /\ first.steps \in Nat /\ last.steps \in Nat /\ first.steps <= last.steps
      /\ last.at > now => last.steps < steps
  BY <1>3 DEF TableInv, Recorded, FutureIsPast, ReadingsInv
<1>6. Reading(first) /\ Reading(last)
  BY DEF ReadingsInv
<1>7. last.device = first.device => Uncounted(first) <= Uncounted(last)
  BY <1>3 DEF ReadingsInv
<1>8. \/ MinHistory <= last.at - first.at /\ last.at - first.at <= Window
      \/ first.steps < steps
  <2>1. CASE last.at <= now
    BY <1>3, <1>4, <1>5, <2>1
  <2>2. CASE last.at > now
    BY <1>5, <2>2
  <2> QED
    BY <1>5, <2>1, <2>2
<1>9. Worn(first, last, device)
  <2> HIDE DEF first, last
  <2> SUFFICES ASSUME {first.device, last.device} = {device}, first.complete
               PROVE  LET progress == IF battery THEN first.value - last.value ELSE last.value - first.value
                      IN /\ wear > 0
                         /\ progress <= IF battery THEN wear + 1 ELSE wear * UnitOf(KindOf[device])
    BY Zenon DEF Worn
  <2>1. first.device = device /\ last.device = device
    OBVIOUS
  <2>2. CASE battery
    <3>1. first.value - last.value >= MinDrop
      BY <1>4, <2>2
    <3>2. wear > 0 /\ first.value - last.value <= wear + 1
      BY <1>6, <2>1, <2>2, <3>1, BatteryWorn
    <3> QED
      BY <2>2, <3>2
  <2>3. CASE ~battery
    <3>1. last.value - first.value > 0
      BY <1>4, <2>3
    <3>2. wear > 0 /\ last.value - first.value <= wear * UnitOf(KindOf[device])
      BY <1>6, <1>7, <2>1, <2>3, <3>1, DriveWorn
    <3> QED
      BY <2>3, <3>2
  <2> QED
    BY <2>2, <2>3
<1> HIDE DEF first, last
<1>10. first = Head(shown.series) /\ last = Last(shown.series)
  BY <1>2, <1>3 DEF first, last
<1> QED
  BY <1>5, <1>8, <1>9, <1>10 DEF HighInv

LEMMA ProjectShows ==
  ASSUME NEW d \in Devices, NEW value, NEW complete, Project(d, value, complete), now' = now
  PROVE  JustShown'
<1> DEFINE series == Series(samples', SubjectOf[d])
<1>1. /\ shown'.device = d /\ shown'.series = series
      /\ shown'.confidence = IF Trusted(series, d \in Batteries, value) THEN "high" ELSE "low"
  BY DEF Project
<1>2. series = (Series(samples, SubjectOf[d]))'
  BY DEF Series, Kept
<1>3. shown'.confidence = "high" => Trusted(shown'.series, shown'.device \in Batteries, value)
  BY <1>1
<1> QED
  BY <1>1, <1>2, <1>3 DEF JustShown, Batteries

LEMMA NextShows == TableInv /\ ReadingsInv /\ HighInv /\ [Next]_vars => JustShown' \/ HighInv'
<1> SUFFICES ASSUME TableInv, ReadingsInv, HighInv, [Next]_vars PROVE JustShown' \/ HighInv'
  OBVIOUS
<1>1. ASSUME NEW d \in setup \ Batteries, PollDrive(d) PROVE JustShown'
  BY <1>1, ProjectShows DEF PollDrive, ReadingsInv, HostInv
<1>2. ASSUME NEW d \in setup \intersect Batteries, PollBattery(d) PROVE JustShown'
  BY <1>2, ProjectShows DEF PollBattery, host, ReadingsInv, HostInv
<1>3. CASE Restart
  <2>1. shown'.confidence = "low"
    BY <1>3 DEF Restart, Nothing
  <2> QED
    BY <2>1 DEF HighInv
<1>4. ASSUME shown' = shown, steps' = steps \/ steps' = steps + 1 PROVE HighInv'
  <2> SUFFICES ASSUME shown.confidence = "high" PROVE HighInv'
    BY <1>4 DEF HighInv
  <2> DEFINE first == Head(shown.series)
             last == Last(shown.series)
  <2>1. /\ first.steps \in Nat /\ steps \in Nat
        /\ \/ MinHistory <= last.at - first.at /\ last.at - first.at <= Window
           \/ first.steps < steps
    BY DEF HighInv
  <2>2. Worn(first, last, shown.device)
    BY DEF HighInv
  <2>3. /\ steps' \in Nat
        /\ first.steps < steps => first.steps < steps'
    BY <1>4, <2>1
  <2>4. (Worn(first, last, shown.device))'
    <3>1. (Worn(first, last, shown.device))' = Worn(first, last, shown.device)
      BY <1>4 DEF Worn
    <3> QED
      BY <2>2, <3>1
  <2> QED
    BY <1>4, <2>1, <2>3, <2>4 DEF HighInv
<1>5. ASSUME NEW d, LoseCounter(d) \/ Wear(d) PROVE shown' = shown /\ steps' = steps
  BY <1>5 DEF LoseCounter, Wear, program
<1>6. Tick \/ (\E time \in 0..MaxTime : SetClock(time)) \/ UNCHANGED vars
        => shown' = shown /\ (steps' = steps \/ steps' = steps + 1)
  BY DEF Tick, SetClock, vars, program, host
<1> QED
  BY <1>1, <1>2, <1>3, <1>4, <1>5, <1>6 DEF Next

(* High confidence rests on samples that are recent and far enough apart,  *)
(* and on wear that is real, for every clock, restart and lost counter; it *)
(* does not where another drive of the model is sampled in its place, or   *)
(* where the first report in the window had no counter.                    *)
THEOREM HighIsMeasured == Spec => []HighMeansMeasured
<1>1. HighInv => HighMeansMeasured
  <2> SUFFICES ASSUME HighInv, shown.confidence = "high" PROVE HighMeansMeasured
    BY DEF HighMeansMeasured
  <2> DEFINE first == Head(shown.series)
             last == Last(shown.series)
             wear == last.worn - first.worn
             battery == shown.device \in Batteries
  <2>1. \/ MinHistory <= last.at - first.at /\ last.at - first.at <= Window
        \/ first.steps # steps
    BY DEF HighInv
  <2>2. \/ {first.device, last.device} # {shown.device}
        \/ ~first.complete
        \/ /\ wear > 0
           /\ Progress(shown.series, battery) <=
                IF battery THEN wear + 1 ELSE wear * UnitOf(KindOf[shown.device])
    <3>1. Worn(first, last, shown.device)
      BY DEF HighInv
    <3> QED
      BY <3>1, Zenon DEF Worn, Progress
  <2> QED
    BY <2>1, <2>2, Zenon DEF HighMeansMeasured
<1>2. Init => HighInv
  BY DEF Init, Nothing, HighInv
<1> QED
  BY <1>1, <1>2, InitTable, NextTable, InitReadings, NextReadings, NextShows, JustShownIsMeasured,
     PTL DEF Spec

=============================================================================
