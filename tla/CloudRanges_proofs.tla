------------------------- MODULE CloudRanges_proofs -------------------------
(***************************************************************************)
(* The prefix table is always the hardcoded one, followed by prefixes the  *)
(* providers published; so an address no published prefix covers goes      *)
(* where the hardcoded table puts it.  For every width of an address, all  *)
(* tables and all lists.  Background_proofs and Egress_proofs use it.      *)
(***************************************************************************)
EXTENDS CloudRanges, NaturalsInduction, WellFoundedInduction, SequenceTheorems, TLAPS

USE WidthAssumption, HostAssumption, FallbackAssumption, ListAssumption, NetworkAssumption

Extending(entries) ==
  /\ entries \in Seq(Entries)
  /\ Len(entries) >= Len(Fallback)
  /\ \A i \in 1..Len(Fallback) : entries[i] = Fallback[i]
  /\ \A i \in 1..Len(entries) : i > Len(Fallback) => entries[i].detail = "published"

CloudInv ==
  /\ CloudTypeOK
  /\ fetch.pc \in {"aws", "gcp"} => Extending(fetch.entries)
  /\ table = NoTable \/ Extending(table.entries)
  /\ table.source = "none" => table = NoTable
  /\ table.source = "live" => Len(table.entries) > Len(Fallback)

-----------------------------------------------------------------------------
(* A list of prefixes becomes as many published entries.                   *)
LEMMA EntriesPublished ==
  ASSUME NEW prefixes \in Seq(Nets), NEW provider \in Clouds
  PROVE  /\ EntriesOf(prefixes, provider) \in Seq(Entries)
         /\ Len(EntriesOf(prefixes, provider)) = Len(prefixes)
         /\ \A i \in 1..Len(prefixes) : EntriesOf(prefixes, provider)[i].detail = "published"
<1> DEFINE made == EntriesOf(prefixes, provider)
<1>1. Len(prefixes) \in Nat /\ DOMAIN prefixes = 1..Len(prefixes)
  OBVIOUS
<1>2. \A i \in 1..Len(prefixes) : made[i] \in Entries /\ made[i].detail = "published"
  BY <1>1 DEF EntriesOf, Entries
<1>3. made = [i \in 1..Len(prefixes) |-> made[i]]
  BY <1>1 DEF EntriesOf
<1>4. made \in Seq(Entries) /\ Len(made) = Len(prefixes)
  <2> HIDE DEF made
  <2> QED
    BY <1>1, <1>2, <1>3
<1> QED
  BY <1>2, <1>4

(* What has been fetched extends the hardcoded table, and so does more.    *)
LEMMA ExtendedFurther ==
  ASSUME NEW entries, Extending(entries), NEW more \in Seq(Entries),
         \A i \in 1..Len(more) : more[i].detail = "published"
  PROVE  Extending(entries \o more)
<1>1. /\ entries \in Seq(Entries) /\ Len(entries) \in Nat /\ Len(more) \in Nat
      /\ Len(Fallback) \in Nat
  BY DEF Extending
<1>2. entries \o more \in Seq(Entries) /\ Len(entries \o more) = Len(entries) + Len(more)
  BY <1>1
<1>3. \A i \in 1..Len(entries) + Len(more) :
        (entries \o more)[i] = IF i <= Len(entries) THEN entries[i] ELSE more[i - Len(entries)]
  BY <1>1
<1>4. ASSUME NEW i \in 1..Len(Fallback) PROVE (entries \o more)[i] = Fallback[i]
  BY <1>1, <1>3 DEF Extending
<1>5. ASSUME NEW i \in 1..Len(entries \o more), i > Len(Fallback)
      PROVE  (entries \o more)[i].detail = "published"
  <2>1. CASE i <= Len(entries)
    BY <1>1, <1>2, <1>3, <1>5, <2>1 DEF Extending
  <2>2. CASE i > Len(entries)
    <3>1. i - Len(entries) \in 1..Len(more)
      BY <1>1, <1>2, <2>2
    <3> QED
      BY <1>1, <1>2, <1>3, <2>2, <3>1
  <2> QED
    BY <1>1, <1>2, <2>1, <2>2
<1> QED
  BY <1>1, <1>2, <1>4, <1>5 DEF Extending

LEMMA FetchedExtends ==
  ASSUME Extending(fetch.entries), NEW prefixes \in Seq(Nets), NEW provider \in Clouds
  PROVE  Extending(Fetched(prefixes, provider))
<1>1. <<>> \in Seq(Entries) /\ Len(<<>>) = 0
  OBVIOUS
<1>2. Extending(fetch.entries \o <<>>)
  BY <1>1, ExtendedFurther
<1>3. Extending(fetch.entries \o EntriesOf(prefixes, provider))
  BY EntriesPublished, ExtendedFurther
<1> QED
  BY <1>2, <1>3 DEF Fetched

LEMMA FallbackExtends == Extending(Fallback)
BY DEF Extending

-----------------------------------------------------------------------------
(* The initial states, the refreshing task and the readers keep the table. *)
LEMMA CloudStarts == CloudInit => CloudInv
BY DEF CloudInit, CloudInv, CloudTypeOK, NoTable, Asleep

LEMMA RefreshKeepsCloud ==
  ASSUME CloudInv, RefreshStep
  PROVE  CloudInv'
<1> USE DEF CloudInv
<1>0. published.aws \in Seq(Nets) /\ published.gcp \in Seq(Nets)
  BY DEF CloudTypeOK
<1>1. CASE BeginRefresh
  BY <1>1, FallbackExtends DEF BeginRefresh, CloudTypeOK
<1>2. CASE Stall
  BY <1>2 DEF Stall, CloudTypeOK
<1>3. CASE FetchAws
  <2>1. Extending(Fetched(published.aws, "AWS"))
    BY <1>0, <1>3, FetchedExtends DEF FetchAws, Clouds
  <2>2. Fetched(published.aws, "AWS") \in Seq(Entries)
    BY <2>1 DEF Extending
  <2> QED
    BY <1>3, <2>1, <2>2 DEF FetchAws, CloudTypeOK
<1>4. CASE FetchGcp
  <2> DEFINE entries == Fetched(published.gcp, "GCP")
  <2>1. Extending(entries)
    BY <1>0, <1>4, FetchedExtends DEF FetchGcp, Clouds
  <2>2. entries \in Seq(Entries)
    BY <2>1 DEF Extending
  <2>3. /\ fetch' = Asleep /\ UNCHANGED <<published, network>>
        /\ \/ table' = table
           \/ Len(entries) > Len(Fallback) /\ table' = [source |-> "live", entries |-> entries]
    BY <1>4 DEF FetchGcp
  <2> HIDE DEF entries
  <2> QED
    BY <2>1, <2>2, <2>3 DEF CloudTypeOK, Asleep
<1> QED
  BY <1>1, <1>2, <1>3, <1>4 DEF RefreshStep

LEMMA CloudKeeps == CloudInv /\ [CloudNext]_cloud => CloudInv'
<1> SUFFICES ASSUME CloudInv, [CloudNext]_cloud PROVE CloudInv'
  OBVIOUS
<1>1. CASE \E state \in NetworkStates : NetworkBecomes(state)
  BY <1>1 DEF NetworkBecomes, CloudInv, CloudTypeOK
<1>2. CASE \E lists \in [aws : AwsLists, gcp : GcpLists] : Announce(lists)
  BY <1>2 DEF Announce, CloudInv, CloudTypeOK
<1>3. CASE UNCHANGED cloud
  BY <1>3 DEF cloud, CloudInv, CloudTypeOK
<1> QED
  BY <1>1, <1>2, <1>3, RefreshKeepsCloud DEF CloudNext

LEMMA ReaderKeepsCloud ==
  ASSUME CloudInv, table' \in {table, Initialized}, UNCHANGED <<fetch, published, network>>
  PROVE  CloudInv'
BY FallbackExtends DEF CloudInv, CloudTypeOK, Initialized, FallbackTable, Extending

(* No step of the task takes a live table away.                            *)
LEMMA LiveStays ==
  ASSUME RefreshStep, table.source = "live"
  PROVE  table'.source = "live"
BY DEF RefreshStep, BeginRefresh, Stall, FetchAws, FetchGcp

-----------------------------------------------------------------------------
(* A live table is longer than the hardcoded one.                          *)
LEMMA LiveHolds == CloudInv => LiveMeansAList
<1> SUFFICES ASSUME CloudInv, table.source = "live"
             PROVE  \E i \in DOMAIN table.entries : table.entries[i].detail = "published"
  BY DEF LiveMeansAList
<1>1. Extending(table.entries) /\ Len(table.entries) > Len(Fallback)
  BY DEF CloudInv, NoTable
<1>2. /\ Len(Fallback) \in Nat /\ Len(table.entries) \in Nat
      /\ DOMAIN table.entries = 1..Len(table.entries)
  BY <1>1 DEF Extending
<1> QED
  BY <1>1, <1>2 DEF Extending

(* Among the entries that cover an address, one is the longest and, of     *)
(* those, the first.                                                       *)
LEMMA Smallest ==
  ASSUME NEW I \in SUBSET Nat, I # {}
  PROVE  \E k \in I : \A j \in I : k <= j
<1>1. PICK k \in I : \A j \in I : ~ (<<j, k>> \in OpToRel(<, Nat))
  BY NatLessThanWellFounded, WFMin
<1>2. \A j \in I : ~ (j < k)
  BY <1>1 DEF OpToRel
<1> QED
  BY <1>2

LEMMA LongestMatches ==
  ASSUME NEW entries \in Seq(Entries), NEW h, Matching(entries, h) # {}
  PROVE  /\ Longest(entries, h) \in Matching(entries, h)
         /\ \A j \in Matching(entries, h) :
              entries[j].net.len <= entries[Longest(entries, h)].net.len
<1> DEFINE M == Matching(entries, h)
           Short(i) == Width - entries[i].net.len
           Shorts == {Short(i) : i \in M}
<1>1. M \subseteq Nat /\ M # {}
  BY DEF Matching
<1>2. \A i \in M : entries[i].net.len \in 0..Width
  <2>1. \A i \in M : entries[i] \in Entries
    BY DEF Matching
  <2> QED
    BY <2>1 DEF Entries, Nets
<1>3. \A i \in M : Short(i) \in Nat
  BY <1>2
<1>4. PICK w \in Shorts : \A v \in Shorts : w <= v
  <2>1. Shorts \in SUBSET Nat /\ Shorts # {}
    BY <1>1, <1>3
  <2> HIDE DEF Shorts
  <2> QED
    BY <2>1, Smallest
<1> DEFINE L == {i \in M : Short(i) = w}
<1>5. PICK i \in L : \A j \in L : i <= j
  <2>1. L \in SUBSET Nat /\ L # {}
    BY <1>1, <1>4
  <2> HIDE DEF L
  <2> QED
    BY <2>1, Smallest
<1>6. \A j \in M : \/ entries[j].net.len < entries[i].net.len
                   \/ entries[j].net.len = entries[i].net.len /\ i <= j
  <2> SUFFICES ASSUME NEW j \in M
               PROVE  \/ entries[j].net.len < entries[i].net.len
                      \/ entries[j].net.len = entries[i].net.len /\ i <= j
    OBVIOUS
  <2>1. Short(i) <= Short(j) /\ i \in M
    BY <1>4, <1>5
  <2>2. entries[j].net.len \in 0..Width /\ entries[i].net.len \in 0..Width
    BY <1>2, <2>1
  <2>3. CASE entries[j].net.len = entries[i].net.len
    <3>1. j \in L
      BY <2>1, <2>3
    <3> QED
      BY <1>5, <2>3, <3>1
  <2>4. CASE entries[j].net.len # entries[i].net.len
    <3> DEFINE a == entries[i].net.len
               b == entries[j].net.len
    <3>1. a \in 0..Width /\ b \in 0..Width /\ Width - a <= Width - b /\ b # a
      BY <2>1, <2>2, <2>4
    <3> HIDE DEF a, b
    <3>2. b < a
      BY <3>1, WidthAssumption
    <3> QED
      BY <3>2 DEF a, b
  <2> QED
    BY <2>3, <2>4
<1>7. /\ Longest(entries, h) \in M
      /\ \A j \in M : \/ entries[j].net.len < entries[Longest(entries, h)].net.len
                      \/ entries[j].net.len = entries[Longest(entries, h)].net.len
                         /\ Longest(entries, h) <= j
  <2> DEFINE First(k) ==
               \A j \in M : \/ entries[j].net.len < entries[k].net.len
                            \/ entries[j].net.len = entries[k].net.len /\ k <= j
  <2>1. i \in M /\ First(i)
    BY <1>5, <1>6
  <2>2. Longest(entries, h) = CHOOSE k \in M : First(k)
    BY DEF Longest
  <2> HIDE DEF M, First
  <2>3. Longest(entries, h) \in M /\ First(Longest(entries, h))
    BY <2>1, <2>2
  <2> QED
    BY <2>3 DEF First
<1> QED
  BY <1>2, <1>7

(* The attribution is the most specific one, and the hardcoded one where   *)
(* nothing published applies.                                              *)
LEMMA AttributionHolds == CloudInv => AttributionIsMostSpecific
<1> SUFFICES ASSUME CloudInv, NEW ip \in Addresses, ip.host \notin LocalHosts \union SharedHosts
             PROVE  LET h == Canonical(ip)
                        found == Classify(ip)
                        entries == Initialized.entries
                        listed == {i \in Matching(entries, h) : entries[i].detail = "published"}
                    IN /\ Narrowest(entries, h) # {} =>
                            \E i \in Narrowest(entries, h) : found.provider = entries[i].provider
                       /\ listed = {} /\ Narrowest(Fallback, h) # {} =>
                            \E i \in Narrowest(Fallback, h) :
                              found = Is(Fallback[i].provider, "fallback")
  BY DEF AttributionIsMostSpecific, Canonical
<1> DEFINE h == Canonical(ip)
           entries == Initialized.entries
           best == Longest(entries, h)
           listed == {i \in Matching(entries, h) : entries[i].detail = "published"}
<1>1. Extending(entries)
  BY FallbackExtends DEF CloudInv, Initialized, FallbackTable
<1>2. entries \in Seq(Entries) /\ Len(entries) \in Nat /\ Len(Fallback) \in Nat
  BY <1>1 DEF Extending
<1>3. ASSUME Matching(entries, h) # {}
      PROVE  /\ Classify(ip) = Is(entries[best].provider, entries[best].detail)
             /\ best \in Narrowest(entries, h)
  <2>1. Classify(ip) = Is(entries[best].provider, entries[best].detail)
    BY <1>3 DEF Classify, IsShared, IsLocal, Canonical
  <2> HIDE DEF entries
  <2>2. best \in Narrowest(entries, h)
    BY <1>2, <1>3, LongestMatches DEF Narrowest
  <2> QED
    BY <2>1, <2>2
<1>4. Narrowest(entries, h) # {} =>
        \E i \in Narrowest(entries, h) : Classify(ip).provider = entries[i].provider
  BY <1>3 DEF Narrowest, Is
<1>5. ASSUME listed = {}, Narrowest(Fallback, h) # {}
      PROVE  \E i \in Narrowest(Fallback, h) : Classify(ip) = Is(Fallback[i].provider, "fallback")
  <2>1. Matching(entries, h) = Matching(Fallback, h)
    <3>1. ASSUME NEW i \in Matching(entries, h) PROVE i \in 1..Len(Fallback)
      BY <1>1, <1>2, <1>5 DEF Matching, Extending
    <3>2. \A i \in 1..Len(Fallback) : i \in DOMAIN entries /\ entries[i] = Fallback[i]
      BY <1>1, <1>2 DEF Extending
    <3> QED
      BY <3>1, <3>2 DEF Matching
  <2>2. \A i \in Matching(Fallback, h) :
          entries[i] = Fallback[i] /\ entries[i].detail = "fallback"
    <3> SUFFICES ASSUME NEW i \in Matching(Fallback, h)
                 PROVE  entries[i] = Fallback[i] /\ entries[i].detail = "fallback"
      OBVIOUS
    <3>1. i \in 1..Len(Fallback)
      BY DEF Matching
    <3>2. entries[i] = Fallback[i] /\ Fallback[i] \in Entries
      BY <1>1, <3>1 DEF Extending
    <3>3. Fallback[i].detail \in {"fallback", "published"}
      BY <3>2 DEF Entries
    <3>4. entries[i].detail # "published"
      BY <1>5, <2>1
    <3> QED
      BY <3>2, <3>3, <3>4
  <2>3. Matching(entries, h) # {}
    BY <1>5, <2>1 DEF Narrowest
  <2>4. best \in Matching(Fallback, h)
    BY <1>3, <2>1, <2>3 DEF Narrowest
  <2>5. best \in Narrowest(Fallback, h)
    BY <1>3, <2>1, <2>2, <2>3, <2>4 DEF Narrowest
  <2> QED
    BY <1>3, <2>2, <2>3, <2>4, <2>5
<1> QED
  BY <1>4, <1>5
=============================================================================
