---------------------------- MODULE Egress_proofs ----------------------------
(***************************************************************************)
(* What a finished egress table says is true, on every platform, for any   *)
(* sockets and processes, however the host changes while it is read.       *)
(*                                                                         *)
(* What was looked up earlier is tied to what is looked up later by one    *)
(* argument: of two sockets with one inode, or one pair of endpoints, and  *)
(* of two processes with one id, only one is there at a time, so the other *)
(* came or went during the collection and is in "changed".                 *)
(***************************************************************************)
EXTENDS Egress, CloudRanges_proofs, FiniteSetTheorems

(* Where a reader is, and what it has not made yet.                        *)
PlaceInv ==
  /\ platform \in {"linux", "macos", "windows"}
  /\ platform = "linux" => pc \notin {"name", "classify", "label"}
  /\ platform = "macos" => pc \in {"idle", "classify", "label", "done"}
  /\ platform = "windows" => pc \in {"idle", "tcp6", "name", "classify", "label", "done"}
  /\ pc = "idle" => rows = <<>> /\ owner = <<>> /\ bytes = <<>>
  /\ pc # "fds" => next = 1
  /\ pc = "done" => Pending({NONE}) = {}
  /\ platform = "linux" /\ pc \notin {"join", "done"} => Finished = {}

(* What is there at the same time is told apart by its names; nobody waits *)
(* for the other side of a datagram socket to close.                       *)
HostInv ==
  /\ \A s, t \in Sockets : s # t /\ InUse(s) /\ InUse(t) =>
       EndsOf[s] # EndsOf[t] /\ InodeOf[s] # InodeOf[t]
  /\ \A p, q \in Processes : p # q /\ Running(p) /\ Running(q) => PidOf[p] # PidOf[q]
  /\ \A s \in Udp : status[s] # "closing"

(* A socket that was there since the collection began, or came or went.    *)
Seen(s) ==
  /\ Egress(s) /\ (platform # "macos" => s \notin Udp)
  /\ status[s] = "established" \/ s \in changed
  /\ \A t \in Sockets :
       InUse(t) /\ t # s /\ (EndsOf[t] = EndsOf[s] \/ InodeOf[t] = InodeOf[s]) => t \in changed

(* The id of a process that holds the socket, and what it may name now.    *)
OfHolder(s, pid) ==
  \/ Reused(InodeOf, s)
  \/ /\ pid \in {PidOf[p] : p \in HoldersOf[s]}
     /\ \A p \in Processes : Running(p) /\ PidOf[p] = pid => p \in HoldersOf[s] \union changed

(* A process that was running under the id of the row.                     *)
Named(r, p) ==
  /\ PidOf[p] = r.pid
  /\ p \in HoldersOf[r.of] \union changed \/ Reused(InodeOf, r.of)
  /\ Running(p) \/ p \in changed

Unseen(s) == "proc" \in failed \/ s \in changed \/ Visible(s) = {}

RowInv(r) ==
  /\ Seen(r.of)
  /\ r.pid # NONE => OfHolder(r.of, r.pid)
  /\ platform = "macos" => r.pid # NONE
  /\ \A p \in {r.process, r.total} \ {NONE} : Named(r, p)
  /\ r.sent \in {NONE, r.of} \/ Reused(EndsOf, r.of)
  /\ r.shadow => r.pid = NONE /\ r.provider # NONE
  /\ r.pid = NONE /\ (platform = "windows" \/ r.provider # NONE) => Unseen(r.of)

LinuxRow(r) ==
  /\ r.confidence = "live" => r.by = "live"
  /\ r.provider # NONE =>
       /\ HoldersOf[r.of] \subseteq Hidden => r.pid = NONE \/ Reused(InodeOf, r.of)
       /\ "ss" \notin failed => r.of \in changed \union Silent \/ r.sent = r.of

Labelled(r) ==
  r.provider # NONE => (r.provider = "Tailscale" <=> PeerOf[r.of].host \in SharedHosts)

(* An inode is of a socket that a process held which had its id alone.     *)
OwnerInv ==
  \A n \in DOMAIN owner : \E s \in Sockets : \E p \in HoldersOf[s] \ Hidden :
    /\ InodeOf[s] = n /\ PidOf[p] = owner[n]
    /\ InUse(s) \/ s \in changed
    /\ \A q \in Processes : Running(q) /\ PidOf[q] = PidOf[p] => q = p \/ q \in changed

(* What stayed there, held by a process that can be seen, has an owner,    *)
(* unless no descriptor was read.                                          *)
ScanInv ==
  pc \in {"fds", "ss", "flag", "join"} /\ "proc" \notin failed =>
    \A s \in Sockets : \A p \in HoldersOf[s] \ Hidden :
      /\ InUse(s) /\ s \notin changed /\ Running(p) /\ p \notin changed
      /\ pc = "fds" => PidOf[p] < next
      => InodeOf[s] \in DOMAIN owner

(* The counts of ss are under the endpoints of the socket that sent them,  *)
(* and none is missing.                                                    *)
BytesInv ==
  /\ \A key \in DOMAIN bytes :
       bytes[key] \in Sockets /\ EndsOf[bytes[key]] = key /\ (InUse(bytes[key]) \/ bytes[key] \in changed)
  /\ pc \in {"flag", "join"} /\ "ss" \notin failed => \A s \in Sockets \ (Udp \union Silent) :
       InUse(s) /\ s \notin changed => EndsOf[s] \in DOMAIN bytes /\ bytes[EndsOf[s]] = s

(* What stayed established has a row, once its table was read.             *)
ListInv ==
  pc # "idle" =>
    \A s \in Sockets : Standing(s) /\ Covered(s) /\ ~(pc = "tcp6" /\ s \in V6) =>
      \E i \in DOMAIN rows : rows[i].of = s

FlagInv == ~flag => table.source = "live"

Right(r) == RowInv(r) /\ Labelled(r) /\ (platform = "linux" => LinuxRow(r))
RowsInv == \A i \in DOMAIN rows : Right(rows[i])

EgressInv ==
  /\ CloudInv /\ TypeOK
  /\ PlaceInv /\ HostInv
  /\ RowsInv /\ OwnerInv /\ ScanInv /\ BytesInv /\ ListInv /\ FlagInv

-----------------------------------------------------------------------------
(* An order of a finite set has every element of it, and no other.         *)
LEMMA Enumerated ==
  ASSUME NEW S, IsFiniteSet(S)
  PROVE  /\ SetToSeq(S) \in Seq(S)
         /\ \A x \in S : \E i \in DOMAIN SetToSeq(S) : SetToSeq(S)[i] = x
<1> DEFINE n == Cardinality(S)
<1>1. n \in Nat /\ ExistsBijection(1..n, S)
  BY FS_CardinalityType
<1>2. \E f \in [1..n -> S] : IsInjective(f)
  BY <1>1 DEF ExistsBijection, Bijection, Injection
<1>3. SetToSeq(S) \in [1..n -> S] /\ IsInjective(SetToSeq(S))
  BY <1>2 DEF SetToSeq
<1>4. SetToSeq(S) \in Injection(1..n, S)
  BY <1>3 DEF Injection
<1>5. Cardinality(1..n) = n
  BY <1>1, FS_Interval
<1>6. SetToSeq(S) \in Surjection(1..n, S)
  BY <1>4, <1>5, FS_Injection
<1>7. SetToSeq(S) \in Seq(S)
  BY <1>1, <1>3
<1> QED
  BY <1>3, <1>6, <1>7 DEF Surjection

LEMMA FirstIsOne ==
  ASSUME NEW I \in SUBSET Nat, I # {}
  PROVE  First(I) \in I
<1>1. PICK k \in I : \A j \in I : k <= j
  BY Smallest
<1> QED
  BY <1>1 DEF First

LEMMA Largest ==
  ASSUME NEW n \in Nat, NEW I \in SUBSET (1..n), I # {}
  PROVE  (CHOOSE i \in I : \A j \in I : j <= i) \in I
<1> DEFINE K == {n - i : i \in I}
<1>0. \A i \in I : i \in Nat /\ n - i \in Nat
  OBVIOUS
<1>1. K \in SUBSET Nat /\ K # {}
  BY <1>0
<1>2. PICK k \in K : \A j \in K : k <= j
  <2> HIDE DEF K
  <2> QED
    BY <1>1, Smallest
<1>3. PICK i \in I : k = n - i
  BY <1>2
<1>4. \A j \in I : n - i <= n - j
  BY <1>2, <1>3
<1>5. \A j \in I : j <= i
  BY <1>0, <1>4
<1> QED
  BY <1>5

(* Induction up to a number, in the form in which the provers can use it.  *)
LEMMA UpTo ==
  ASSUME NEW n \in Nat, NEW K, 0 \in K, \A k \in 1..n : k - 1 \in K => k \in K
  PROVE  \A k \in 0..n : k \in K
<1> DEFINE Missing == {k \in 0..n : k \notin K}
<1> SUFFICES ASSUME Missing # {} PROVE FALSE
  OBVIOUS
<1>1. Missing \in SUBSET Nat
  OBVIOUS
<1>2. PICK k \in Missing : \A j \in Missing : k <= j
  <2> HIDE DEF Missing
  <2> QED
    BY <1>1, Smallest
<1>3. k \in 1..n /\ k - 1 \in 0..n /\ ~ (k <= k - 1)
  BY <1>2
<1> QED
  BY <1>2, <1>3

LEMMA OneOf == ASSUME NEW S PROVE One(S) \in S \union {NONE} /\ (One(S) = NONE => S = {} \/ NONE \in S)
BY DEF One

-----------------------------------------------------------------------------
(* The parts of ss's output: each socket that has sent anything is counted *)
(* under its endpoints.                                                    *)
SsSockets == {s \in Sockets \ Udp : InUse(s)}

Counts(text, S) ==
  /\ \E n \in Nat : DOMAIN text \subseteq 1..n
  /\ \A i \in DOMAIN text : text[i].sent # NONE =>
       text[i].sent \in S /\ KeyAt(text, i) = EndsOf[text[i].sent]
  /\ \A s \in S \ Silent : \E i \in DOMAIN text : text[i].sent = s /\ KeyAt(text, i) = EndsOf[s]

LEMMA KeyOfHeader ==
  ASSUME NEW text, NEW i, NEW h \in Headers(text, i), \A k \in Headers(text, i) : k = h
  PROVE  KeyAt(text, i) = text[h].key
<1>1. {text[k].key : k \in Headers(text, i)} = {text[h].key}
  OBVIOUS
<1> QED
  BY <1>1 DEF KeyAt, One

LEMMA InlineCounts ==
  ASSUME NEW S, NEW tcp \in Seq(S), \A s \in S : \E i \in DOMAIN tcp : tcp[i] = s
  PROVE  Counts(InlineText(tcp), S)
<1> DEFINE text == InlineText(tcp)
<1>1. Len(tcp) \in Nat /\ DOMAIN tcp = 1..Len(tcp) /\ \A i \in 1..Len(tcp) : tcp[i] \in S
  OBVIOUS
<1>2. DOMAIN text = 1..Len(tcp)
  BY <1>1 DEF InlineText
<1>3. \A i \in 1..Len(tcp) :
        text[i].kind = "header" /\ text[i].key = EndsOf[tcp[i]] /\ text[i].sent = Sent(tcp[i])
  BY <1>1 DEF InlineText, SsLine, SsKey
<1> HIDE DEF text
<1>4. \A i \in 1..Len(tcp) : KeyAt(text, i) = EndsOf[tcp[i]]
  <2> SUFFICES ASSUME NEW i \in 1..Len(tcp) PROVE KeyAt(text, i) = EndsOf[tcp[i]]
    OBVIOUS
  <2>1. i \in Headers(text, i)
    BY <1>1, <1>3 DEF Headers
  <2>2. \A h \in Headers(text, i) : h = i
    <3> SUFFICES ASSUME NEW h \in Headers(text, i), h # i PROVE FALSE
      OBVIOUS
    <3>1. i \in (h + 1)..i
      BY <1>1 DEF Headers
    <3> QED
      BY <1>3, <3>1 DEF Headers
  <2> QED
    BY <1>3, <2>1, <2>2, KeyOfHeader
<1>5. Counts(text, S)
  BY <1>1, <1>2, <1>3, <1>4 DEF Counts, Sent
<1> QED
  BY <1>5 DEF text

LEMMA WrappedCounts ==
  ASSUME NEW S, NEW tcp \in Seq(S), \A s \in S : \E i \in DOMAIN tcp : tcp[i] = s
  PROVE  Counts(WrappedText(tcp), S)
<1> DEFINE text == WrappedText(tcp)
<1>1. Len(tcp) \in Nat /\ DOMAIN tcp = 1..Len(tcp) /\ \A i \in 1..Len(tcp) : tcp[i] \in S
  OBVIOUS
<1>2. DOMAIN text = 1..(2 * Len(tcp))
  BY <1>1 DEF WrappedText
<1>3. \A n \in 1..Len(tcp) :
        /\ text[2 * n - 1].kind = "header" /\ text[2 * n - 1].key = EndsOf[tcp[n]]
        /\ text[2 * n - 1].sent = NONE
        /\ text[2 * n].kind = "info" /\ text[2 * n].sent = Sent(tcp[n])
  <2> SUFFICES ASSUME NEW n \in 1..Len(tcp)
               PROVE  /\ text[2 * n - 1].kind = "header" /\ text[2 * n - 1].key = EndsOf[tcp[n]]
                      /\ text[2 * n - 1].sent = NONE
                      /\ text[2 * n].kind = "info" /\ text[2 * n].sent = Sent(tcp[n])
    OBVIOUS
  <2>1. \A i \in 1..(2 * Len(tcp)) :
          text[i] = IF i % 2 = 1 THEN SsLine("header", EndsOf[tcp[(i + 1) \div 2]], NONE)
                    ELSE SsLine("info", NONE, Sent(tcp[(i + 1) \div 2]))
    BY Zenon DEF WrappedText, SsKey
  <2> HIDE DEF text
  <2>2. 2 * n - 1 \in 1..(2 * Len(tcp)) /\ 2 * n \in 1..(2 * Len(tcp))
    BY <1>1
  <2>3. /\ (2 * n - 1) % 2 = 1 /\ ((2 * n - 1) + 1) \div 2 = n
        /\ (2 * n) % 2 # 1 /\ (2 * n + 1) \div 2 = n
    BY <1>1
  <2>4. text[2 * n - 1] = SsLine("header", EndsOf[tcp[n]], NONE)
    BY <2>1, <2>2, <2>3, Zenon
  <2>5. text[2 * n] = SsLine("info", NONE, Sent(tcp[n]))
    BY <2>1, <2>2, <2>3, Zenon
  <2> QED
    BY <2>4, <2>5 DEF SsLine
<1> HIDE DEF text
<1>4. \A i \in 1..(2 * Len(tcp)) : \E n \in 1..Len(tcp) : i = 2 * n - 1 \/ i = 2 * n
  <2> SUFFICES ASSUME NEW i \in 1..(2 * Len(tcp))
               PROVE  \E n \in 1..Len(tcp) : i = 2 * n - 1 \/ i = 2 * n
    OBVIOUS
  <2>1. (i + 1) \div 2 \in 1..Len(tcp) /\ (i = 2 * ((i + 1) \div 2) - 1 \/ i = 2 * ((i + 1) \div 2))
    BY <1>1
  <2> QED
    BY <2>1
<1>5. \A n \in 1..Len(tcp) : KeyAt(text, 2 * n) = EndsOf[tcp[n]]
  <2> SUFFICES ASSUME NEW n \in 1..Len(tcp) PROVE KeyAt(text, 2 * n) = EndsOf[tcp[n]]
    OBVIOUS
  <2>1. 2 * n - 1 \in 1..(2 * n) /\ \A k \in ((2 * n - 1) + 1)..(2 * n) : k = 2 * n
    BY <1>1
  <2>2. 2 * n - 1 \in Headers(text, 2 * n)
    <3> DEFINE h == 2 * n - 1
               e == 2 * n
    <3>1. text[h].kind = "header" /\ text[e].kind = "info"
      BY <1>3
    <3>2. h \in 1..e /\ \A k \in (h + 1)..e : k = e
      BY <2>1
    <3> HIDE DEF h, e
    <3>3. h \in Headers(text, e)
      BY <3>1, <3>2 DEF Headers
    <3> QED
      BY <3>3 DEF h, e
  <2>3. \A h \in Headers(text, 2 * n) : h = 2 * n - 1
    <3> SUFFICES ASSUME NEW h \in Headers(text, 2 * n), h # 2 * n - 1 PROVE FALSE
      OBVIOUS
    <3>1. h \in 1..(2 * n) /\ text[h].kind = "header"
          /\ \A k \in (h + 1)..(2 * n) : text[k].kind = "info"
      BY DEF Headers
    <3>2. h # 2 * n
      BY <1>3, <3>1
    <3>3. 2 * n - 1 \in (h + 1)..(2 * n)
      BY <1>1, <3>1, <3>2
    <3> QED
      BY <1>3, <3>1, <3>3
  <2>4. KeyAt(text, 2 * n) = text[2 * n - 1].key
    BY <2>2, <2>3, KeyOfHeader
  <2> QED
    BY <1>3, <2>4, Zenon
<1>6. ASSUME NEW i \in 1..(2 * Len(tcp)), text[i].sent # NONE
      PROVE  text[i].sent \in S /\ KeyAt(text, i) = EndsOf[text[i].sent]
  <2>1. PICK n \in 1..Len(tcp) : i = 2 * n - 1 \/ i = 2 * n
    BY <1>4
  <2>2. i = 2 * n
    BY <1>3, <1>6, <2>1
  <2> QED
    BY <1>1, <1>3, <1>5, <1>6, <2>2 DEF Sent
<1>7. ASSUME NEW s \in S \ Silent
      PROVE  \E i \in 1..(2 * Len(tcp)) : text[i].sent = s /\ KeyAt(text, i) = EndsOf[s]
  <2>1. PICK n \in 1..Len(tcp) : tcp[n] = s
    BY <1>1
  <2>2. 2 * n \in 1..(2 * Len(tcp))
    BY <1>1
  <2> QED
    BY <1>3, <1>5, <2>1, <2>2 DEF Sent
<1>8. Counts(text, S)
  <2>1. 2 * Len(tcp) \in Nat
    BY <1>1
  <2> QED
    BY <1>2, <1>6, <1>7, <2>1 DEF Counts
<1> QED
  BY <1>8 DEF text

LEMMA SsTextCounts ==
  ASSUME NEW inline \in BOOLEAN
  PROVE  Counts(SsText(inline), SsSockets)
<1> DEFINE tcp == SetToSeq(SsSockets)
<1>1. tcp \in Seq(SsSockets) /\ \A s \in SsSockets : \E i \in DOMAIN tcp : tcp[i] = s
  <2>1. IsFiniteSet(SsSockets)
    BY HostsAssumption, FS_Subset DEF SsSockets
  <2> QED
    BY <2>1, Enumerated
<1>2. SsText(inline) \in {InlineText(tcp), WrappedText(tcp)}
  BY DEF SsText, SsSockets
<1> HIDE DEF tcp
<1> QED
  BY <1>1, <1>2, InlineCounts, WrappedCounts

(* Parsed, such an output gives under the endpoints of a socket its count. *)
LEMMA ParsedText ==
  ASSUME NEW text, NEW S \in SUBSET Sockets, Counts(text, S),
         \A s, t \in S : s # t => EndsOf[s] # EndsOf[t]
  PROVE  /\ \A key \in DOMAIN ParseSs(text) :
              ParseSs(text)[key] \in S /\ EndsOf[ParseSs(text)[key]] = key
         /\ \A s \in S \ Silent :
              EndsOf[s] \in DOMAIN ParseSs(text) /\ ParseSs(text)[EndsOf[s]] = s
<1> DEFINE of(key) == {i \in Counted(text) : KeyAt(text, i) = key}
           latest(key) == CHOOSE i \in of(key) : \A j \in of(key) : j <= i
<1>1. /\ DOMAIN ParseSs(text) = {KeyAt(text, i) : i \in Counted(text)}
      /\ \A key \in DOMAIN ParseSs(text) : ParseSs(text)[key] = text[latest(key)].sent
  BY DEF ParseSs
<1>2. ASSUME NEW i \in Counted(text)
      PROVE  text[i].sent \in S /\ KeyAt(text, i) = EndsOf[text[i].sent]
  BY DEF Counted, Counts
<1>3. ASSUME NEW s \in S \ Silent
      PROVE  \E i \in Counted(text) : text[i].sent = s /\ KeyAt(text, i) = EndsOf[s]
  <2>1. PICK i \in DOMAIN text : text[i].sent = s /\ KeyAt(text, i) = EndsOf[s]
    BY DEF Counts
  <2>2. s # NONE /\ EndsOf[s] # NONE
    BY NothingIsNone
  <2> QED
    BY <2>1, <2>2 DEF Counted
<1>4. ASSUME NEW key, of(key) # {} PROVE latest(key) \in of(key)
  <2>1. PICK n \in Nat : of(key) \subseteq 1..n
    BY DEF Counts, Counted
  <2> HIDE DEF of
  <2> QED
    BY <1>4, <2>1, Largest
<1>5. ASSUME NEW key \in DOMAIN ParseSs(text)
      PROVE  ParseSs(text)[key] \in S /\ EndsOf[ParseSs(text)[key]] = key
  <2>1. of(key) # {}
    BY <1>1
  <2>2. latest(key) \in Counted(text) /\ KeyAt(text, latest(key)) = key
    BY <1>4, <2>1
  <2> HIDE DEF latest
  <2> QED
    BY <1>1, <1>2, <2>2
<1>6. ASSUME NEW s \in S \ Silent
      PROVE  EndsOf[s] \in DOMAIN ParseSs(text) /\ ParseSs(text)[EndsOf[s]] = s
  <2>1. EndsOf[s] \in DOMAIN ParseSs(text)
    BY <1>1, <1>3
  <2> QED
    BY <1>5, <2>1
<1> QED
  BY <1>5, <1>6

-----------------------------------------------------------------------------
(* What comes or goes during a collection is noted: what was found so far  *)
(* stays right.                                                            *)
Noted ==
  /\ platform' = platform /\ failed \subseteq failed' /\ changed \subseteq changed'
  /\ \A s \in Sockets : status'[s] = status[s] \/ s \in changed'
  /\ \A p \in Processes : alive'[p] = alive[p] \/ p \in changed'

LEMMA ReusedStays ==
  ASSUME Noted, NEW f, NEW x, Reused(f, x)
  PROVE  Reused(f, x)'
BY DEF Noted, Reused

LEMMA SeenStays ==
  ASSUME Noted, NEW s \in Sockets, Seen(s)
  PROVE  Seen(s)'
BY DEF Noted, Seen, Egress, IsLocal, Canonical, InUse

LEMMA OfHolderStays ==
  ASSUME Noted, NEW s \in Sockets, NEW pid, OfHolder(s, pid)
  PROVE  OfHolder(s, pid)'
BY ReusedStays DEF Noted, OfHolder, Running

LEMMA NamedStays ==
  ASSUME Noted, NEW r \in Connections, NEW p \in Processes, Named(r, p)
  PROVE  Named(r, p)'
BY ReusedStays DEF Noted, Named, Running

LEMMA UnseenStays ==
  ASSUME Noted, NEW s \in Sockets, Unseen(s)
  PROVE  Unseen(s)'
BY HostsAssumption DEF Noted, Unseen, Visible, Holders, Running

LEMMA RowStays ==
  ASSUME Noted, NEW r \in Connections, Right(r)
  PROVE  Right(r)'
<1>1. r.of \in Sockets /\ {r.process, r.total} \ {NONE} \subseteq Processes
  BY DEF Connections
<1>2. RowInv(r)'
  BY <1>1, SeenStays, OfHolderStays, NamedStays, UnseenStays, ReusedStays DEF Right, RowInv, Noted
<1>3. Labelled(r)'
  BY DEF Right, Labelled
<1>4. (platform = "linux" => LinuxRow(r))'
  BY <1>1, ReusedStays DEF Right, LinuxRow, Noted
<1> QED
  BY <1>2, <1>3, <1>4 DEF Right

LEMMA RowsStay ==
  ASSUME Noted, rows \in Seq(Connections), RowsInv, UNCHANGED rows
  PROVE  RowsInv'
BY RowStays DEF RowsInv

LEMMA OwnerStays ==
  ASSUME Noted, OwnerInv, UNCHANGED owner
  PROVE  OwnerInv'
BY HostsAssumption DEF Noted, OwnerInv, InUse, Running

LEMMA ScanStays ==
  ASSUME Noted, ScanInv, UNCHANGED <<pc, next, owner>>
  PROVE  ScanInv'
BY HostsAssumption DEF Noted, ScanInv, InUse, Running

LEMMA BytesStay ==
  ASSUME Noted, BytesInv, UNCHANGED bytes, pc' \in {"flag", "join"} => pc \in {"flag", "join"}
  PROVE  BytesInv'
BY DEF Noted, BytesInv, InUse

LEMMA ListStays ==
  ASSUME Noted, ListInv, pc # "idle", pc = "tcp6" => pc' = "tcp6",
         DOMAIN rows' = DOMAIN rows, \A i \in DOMAIN rows : rows'[i].of = rows[i].of
  PROVE  ListInv'
<1>1. \A s \in Sockets : Standing(s)' => Standing(s)
  BY DEF Noted, Standing, Egress, IsLocal, Canonical
<1>2. \A s \in Sockets : (Visible(s) # {})' => Visible(s) # {}
  BY HostsAssumption DEF Noted, Visible, Holders, Running
<1>3. \A s \in Sockets : Covered(s)' => Covered(s)
  BY <1>2 DEF Noted, Covered
<1> QED
  BY <1>1, <1>3 DEF Noted, ListInv

-----------------------------------------------------------------------------
(* The steps of the host.                                                  *)
HostTyped ==
  /\ status \in [Sockets -> {"new", "established", "closing", "closed"}]
  /\ alive \in [Processes -> {"new", "running", "gone"}]
  /\ changed \subseteq Sockets \union Processes

LEMMA HostStep ==
  ASSUME HostTyped, HostInv, HostNext
  PROVE  /\ UNCHANGED <<cloud, reader>>
         /\ HostTyped' /\ HostInv'
         /\ IF pc = "idle" THEN changed' = {} ELSE Noted
<1> USE HostsAssumption DEF HostTyped, HostInv, Note, Noted, InUse, Running, reader
<1>1. ASSUME NEW s \in Sockets, Open(s)
      PROVE  /\ UNCHANGED <<cloud, reader>>
             /\ HostTyped' /\ HostInv'
             /\ IF pc = "idle" THEN changed' = {} ELSE Noted
  BY <1>1 DEF Open
<1>2. ASSUME NEW s \in Sockets, PeerCloses(s)
      PROVE  /\ UNCHANGED <<cloud, reader>>
             /\ HostTyped' /\ HostInv'
             /\ IF pc = "idle" THEN changed' = {} ELSE Noted
  BY <1>2 DEF PeerCloses
<1>3. ASSUME NEW s \in Sockets, Close(s)
      PROVE  /\ UNCHANGED <<cloud, reader>>
             /\ HostTyped' /\ HostInv'
             /\ IF pc = "idle" THEN changed' = {} ELSE Noted
  BY <1>3 DEF Close
<1>4. ASSUME NEW p \in Processes, Start(p)
      PROVE  /\ UNCHANGED <<cloud, reader>>
             /\ HostTyped' /\ HostInv'
             /\ IF pc = "idle" THEN changed' = {} ELSE Noted
  BY <1>4 DEF Start
<1>5. ASSUME NEW p \in Processes, Exit(p)
      PROVE  /\ UNCHANGED <<cloud, reader>>
             /\ HostTyped' /\ HostInv'
             /\ IF pc = "idle" THEN changed' = {} ELSE Noted
  <2> DEFINE last == {s \in Sockets : InUse(s) /\ Holders(s) = {p}}
  <2>1. /\ alive' = [alive EXCEPT ![p] = "gone"]
        /\ status' = [s \in Sockets |-> IF s \in last THEN "closed" ELSE status[s]]
        /\ changed' = IF pc = "idle" THEN {} ELSE changed \union (last \union {p})
        /\ UNCHANGED <<cloud, reader>>
    BY <1>5 DEF Exit
  <2>2. last \subseteq Sockets
    OBVIOUS
  <2> HIDE DEF last
  <2> QED
    BY <2>1, <2>2
<1> QED
  BY <1>1, <1>2, <1>3, <1>4, <1>5 DEF HostNext

LEMMA HostKeeps == EgressInv /\ HostNext => EgressInv'
<1> SUFFICES ASSUME EgressInv, HostNext PROVE EgressInv'
  OBVIOUS
<1>1. /\ UNCHANGED <<cloud, reader>>
      /\ HostTyped' /\ HostInv'
      /\ IF pc = "idle" THEN changed' = {} ELSE Noted
  BY HostStep DEF EgressInv, TypeOK, HostTyped
<1>2. UNCHANGED <<table, fetch, published, network, platform, pc, rows, next, owner, bytes, flag, failed>>
  BY <1>1 DEF cloud, reader
<1>3. CloudInv'
  BY <1>2, CloudKeeps DEF EgressInv, cloud
<1>4. TypeOK'
  BY <1>1, <1>2, <1>3 DEF EgressInv, TypeOK, HostTyped, CloudInv
<1>5. PlaceInv' /\ FlagInv'
  BY <1>2 DEF EgressInv, PlaceInv, FlagInv, Pending, Finished
<1>6. CASE pc = "idle"
  <2>1. rows = <<>> /\ owner = <<>> /\ bytes = <<>>
    BY <1>6 DEF EgressInv, PlaceInv
  <2>2. RowsInv' /\ OwnerInv' /\ ScanInv' /\ BytesInv' /\ ListInv'
    BY <1>2, <1>6, <2>1 DEF RowsInv, OwnerInv, ScanInv, BytesInv, ListInv
  <2> QED
    BY <1>1, <1>3, <1>4, <1>5, <2>2 DEF EgressInv
<1>7. CASE pc # "idle"
  <2>1. Noted
    BY <1>1, <1>7
  <2>2. RowsInv' /\ OwnerInv' /\ ScanInv' /\ BytesInv' /\ ListInv'
    BY <1>2, <1>7, <2>1, RowsStay, OwnerStays, ScanStays, BytesStay, ListStays DEF EgressInv, TypeOK
  <2> QED
    BY <1>1, <1>3, <1>4, <1>5, <2>2 DEF EgressInv
<1> QED
  BY <1>6, <1>7

(* The task that renews the prefix table.                                  *)
LEMMA RefreshKeeps == EgressInv /\ RefreshStep /\ UNCHANGED <<host, reader, changed>> => EgressInv'
<1> SUFFICES ASSUME EgressInv, RefreshStep, UNCHANGED <<host, reader, changed>> PROVE EgressInv'
  OBVIOUS
<1>1. /\ UNCHANGED <<status, alive, changed, platform, pc, rows, next, owner, bytes, flag, failed>>
      /\ Noted
  BY DEF host, reader, Noted
<1>2. CloudInv'
  BY RefreshKeepsCloud DEF EgressInv
<1>3. TypeOK'
  BY <1>1, <1>2 DEF EgressInv, TypeOK, CloudInv
<1>4. PlaceInv' /\ HostInv' /\ ScanInv' /\ BytesInv'
  BY <1>1 DEF EgressInv, PlaceInv, HostInv, ScanInv, BytesInv, InUse, Running, Pending, Finished
<1>5. FlagInv'
  BY <1>1, LiveStays DEF EgressInv, FlagInv
<1>6. RowsInv' /\ OwnerInv'
  BY <1>1, RowsStay, OwnerStays DEF EgressInv, TypeOK
<1>7. ListInv'
  BY <1>1, ListStays DEF EgressInv, ListInv
<1> QED
  BY <1>2, <1>3, <1>4, <1>5, <1>6, <1>7 DEF EgressInv

-----------------------------------------------------------------------------
(* The sockets a table has, as rows.                                       *)
New(r) ==
  /\ r.process = NONE /\ r.total = NONE /\ r.sent = NONE /\ r.provider = NONE
  /\ r.confidence = NONE /\ r.shadow = FALSE

LEMMA NewRow ==
  ASSUME NEW s \in Sockets, NEW pid \in 1..LastPid \union {NONE}
  PROVE  LET r == Row(s, pid, NONE) IN
         r \in Connections /\ r.of = s /\ r.pid = pid /\ New(r)
BY DEF Row, Connections, New

LEMMA RowsOfSet ==
  ASSUME NEW S \in SUBSET Sockets
  PROVE  /\ Rows(S) \in Seq(Connections)
         /\ \A i \in DOMAIN Rows(S) : Rows(S)[i].of \in S /\ Rows(S)[i].pid = NONE /\ New(Rows(S)[i])
         /\ \A s \in S : \E i \in DOMAIN Rows(S) : Rows(S)[i].of = s
<1> DEFINE order == SetToSeq(S)
<1>1. order \in Seq(S) /\ \A s \in S : \E i \in DOMAIN order : order[i] = s
  BY HostsAssumption, FS_Subset, Enumerated
<1>2. Rows(S) = [i \in DOMAIN order |-> Row(order[i], NONE, NONE)]
  BY DEF Rows
<1> HIDE DEF order
<1>3. Len(order) \in Nat /\ DOMAIN order = 1..Len(order) /\ \A i \in DOMAIN order : order[i] \in S
  BY <1>1
<1>4. \A i \in DOMAIN order : LET r == Rows(S)[i] IN
        r \in Connections /\ r.of = order[i] /\ r.pid = NONE /\ New(r)
  <2> SUFFICES ASSUME NEW i \in DOMAIN order
               PROVE  LET r == Rows(S)[i] IN
                      r \in Connections /\ r.of = order[i] /\ r.pid = NONE /\ New(r)
    OBVIOUS
  <2>1. Rows(S)[i] = Row(order[i], NONE, NONE) /\ order[i] \in Sockets
    BY <1>2, <1>3
  <2> DEFINE r == Row(order[i], NONE, NONE)
  <2>2. r \in Connections /\ r.of = order[i] /\ r.pid = NONE /\ New(r)
    BY <2>1, NewRow
  <2> QED
    BY <2>1, <2>2
<1>5. DOMAIN Rows(S) = 1..Len(order)
  BY <1>2, <1>3
<1>6. Rows(S) \in Seq(Connections)
  <2>1. Rows(S) = [i \in 1..Len(order) |-> Rows(S)[i]]
    BY <1>2, <1>3
  <2> HIDE DEF Rows
  <2> QED
    BY <1>3, <1>4, <2>1
<1> QED
  BY <1>1, <1>3, <1>4, <1>5, <1>6

LEMMA OwnerRowsOfFamily ==
  ASSUME HostTyped, NEW family \in SUBSET Sockets
  PROVE  /\ OwnerRows(family) \in Seq(Connections)
         /\ \A i \in DOMAIN OwnerRows(family) :
              LET r == OwnerRows(family)[i] IN
              /\ r.of \in Established(family) /\ New(r)
              /\ r.pid = One({PidOf[p] : p \in Holders(r.of)})
         /\ \A s \in Established(family) : \E i \in DOMAIN OwnerRows(family) : OwnerRows(family)[i].of = s
<1> DEFINE S == Established(family)
           order == SetToSeq(S)
           pid(s) == One({PidOf[p] : p \in Holders(s)})
<1>1. S \subseteq Sockets
  BY DEF Established
<1>2. order \in Seq(S) /\ \A s \in S : \E i \in DOMAIN order : order[i] = s
  BY <1>1, HostsAssumption, FS_Subset, Enumerated
<1>3. OwnerRows(family) = [i \in DOMAIN order |-> Row(order[i], pid(order[i]), NONE)]
  BY DEF OwnerRows
<1>4. \A s \in Sockets : pid(s) \in 1..LastPid \union {NONE}
  BY HostsAssumption DEF One, Holders
<1> HIDE DEF order, pid, S
<1>5. Len(order) \in Nat /\ DOMAIN order = 1..Len(order) /\ \A i \in DOMAIN order : order[i] \in S
  BY <1>2
<1>6. \A i \in DOMAIN order : LET r == OwnerRows(family)[i] IN
        r \in Connections /\ r.of = order[i] /\ r.pid = pid(order[i]) /\ New(r)
  <2> SUFFICES ASSUME NEW i \in DOMAIN order
               PROVE  LET r == OwnerRows(family)[i] IN
                      r \in Connections /\ r.of = order[i] /\ r.pid = pid(order[i]) /\ New(r)
    OBVIOUS
  <2>1. OwnerRows(family)[i] = Row(order[i], pid(order[i]), NONE) /\ order[i] \in Sockets
    BY <1>1, <1>3, <1>5
  <2> DEFINE r == Row(order[i], pid(order[i]), NONE)
  <2>2. r \in Connections /\ r.of = order[i] /\ r.pid = pid(order[i]) /\ New(r)
    BY <1>4, <2>1, NewRow
  <2> QED
    BY <2>1, <2>2
<1>7. OwnerRows(family) \in Seq(Connections)
  <2>1. OwnerRows(family) = [i \in 1..Len(order) |-> OwnerRows(family)[i]]
    BY <1>3, <1>5
  <2> HIDE DEF OwnerRows
  <2> QED
    BY <1>5, <1>6, <2>1
<1>8. DOMAIN OwnerRows(family) = DOMAIN order
  BY <1>3
<1>9. \A s \in S : \E i \in DOMAIN OwnerRows(family) : OwnerRows(family)[i].of = s
  BY <1>2, <1>6, <1>8
<1> QED
  BY <1>5, <1>6, <1>7, <1>8, <1>9 DEF S, pid

(* A socket just found established is seen, and its row is right.          *)
LEMMA JustSeen ==
  ASSUME HostTyped, HostInv, NEW s \in Sockets \ Udp, status[s] = "established", Egress(s)
  PROVE  Seen(s)
BY DEF HostInv, Seen, InUse

LEMMA NewIsRight ==
  ASSUME platform # "macos",
         NEW r \in Connections, New(r), Seen(r.of), r.pid = NONE \/ OfHolder(r.of, r.pid),
         platform = "windows" /\ r.pid = NONE => Unseen(r.of)
  PROVE  Right(r)
BY NothingIsNone DEF New, Right, RowInv, Labelled, LinuxRow

LEMMA Joined ==
  ASSUME NEW a \in Seq(Connections), NEW b \in Seq(Connections)
  PROVE  /\ a \o b \in Seq(Connections)
         /\ DOMAIN (a \o b) = 1..(Len(a) + Len(b)) /\ Len(a) \in Nat /\ Len(b) \in Nat
         /\ \A i \in DOMAIN (a \o b) : \/ i \in DOMAIN a /\ (a \o b)[i] = a[i]
                                       \/ i - Len(a) \in DOMAIN b /\ (a \o b)[i] = b[i - Len(a)]
         /\ \A i \in DOMAIN a : i \in DOMAIN (a \o b) /\ (a \o b)[i] = a[i]
         /\ \A i \in DOMAIN b : Len(a) + i \in DOMAIN (a \o b) /\ (a \o b)[Len(a) + i] = b[i]
OBVIOUS

LEMMA JoinedRows ==
  ASSUME NEW a \in Seq(Connections), NEW b \in Seq(Connections)
  PROVE  /\ a \o b \in Seq(Connections)
         /\ \A i \in DOMAIN (a \o b) : \/ i \in DOMAIN a /\ (a \o b)[i] = a[i]
                                       \/ \E j \in DOMAIN b : (a \o b)[i] = b[j]
         /\ \A i \in DOMAIN a : i \in DOMAIN (a \o b) /\ (a \o b)[i] = a[i]
         /\ \A i \in DOMAIN b : \E j \in DOMAIN (a \o b) : (a \o b)[j] = b[i]
<1> DEFINE c == a \o b
<1>1. /\ c \in Seq(Connections)
      /\ \A i \in DOMAIN c : \/ i \in DOMAIN a /\ c[i] = a[i]
                             \/ i - Len(a) \in DOMAIN b /\ c[i] = b[i - Len(a)]
      /\ \A i \in DOMAIN a : i \in DOMAIN c /\ c[i] = a[i]
      /\ \A i \in DOMAIN b : Len(a) + i \in DOMAIN c /\ c[Len(a) + i] = b[i]
  BY Joined
<1> HIDE DEF c
<1>2. /\ \A i \in DOMAIN c : \/ i \in DOMAIN a /\ c[i] = a[i]
                             \/ \E j \in DOMAIN b : c[i] = b[j]
      /\ \A i \in DOMAIN b : \E j \in DOMAIN c : c[j] = b[i]
  BY <1>1, Zenon
<1> QED
  BY <1>1, <1>2 DEF c

LEMMA EgressStarts == Init => EgressInv
<1> SUFFICES ASSUME Init PROVE EgressInv
  OBVIOUS
<1>1. CloudInv
  BY CloudStarts DEF Init
<1>2. TypeOK
  BY <1>1, HostsAssumption DEF Init, TypeOK, CloudInv
<1>3. PlaceInv /\ RowsInv /\ OwnerInv /\ BytesInv /\ ListInv /\ FlagInv /\ ScanInv
  BY DEF Init, PlaceInv, RowsInv, OwnerInv, BytesInv, ListInv, FlagInv, ScanInv, Pending, Finished
<1>4. HostInv
  <2>1. \A s \in Udp : status[s] # "closing"
    BY HostsAssumption DEF Init
  <2> QED
    BY <2>1 DEF Init, HostInv
<1> QED
  BY <1>1, <1>2, <1>3, <1>4 DEF EgressInv

-----------------------------------------------------------------------------
(* The Linux reader.                                                       *)
LEMMA HostStill ==
  ASSUME EgressInv, UNCHANGED <<status, alive, platform>>, changed' \in {changed, {}}
  PROVE  HostTyped /\ HostTyped' /\ HostInv' /\ (changed' = changed /\ failed \subseteq failed' => Noted)
BY DEF EgressInv, TypeOK, HostTyped, HostInv, InUse, Running, Noted

LEMMA ReadTcpKeeps ==
  ASSUME EgressInv, ReadTcp
  PROVE  EgressInv'
<1> DEFINE S == Established(Sockets \ V6)
<1>1. /\ platform = "linux" /\ pc = "idle" /\ pc' = "tcp6" /\ changed' = {}
      /\ (rows' = Rows(S) /\ failed' = {}) \/ (rows' = <<>> /\ failed' = {"tcp"})
      /\ UNCHANGED <<table, fetch, published, network, status, alive, platform, next, owner, bytes, flag>>
  BY DEF ReadTcp, Step, cloud, host
<1>2. S \in SUBSET (Sockets \ Udp) /\ \A s \in S : status[s] = "established" /\ Egress(s)
  BY DEF Established
<1>3. HostTyped' /\ HostInv'
  BY <1>1, HostStill
<1>4. /\ rows' \in Seq(Connections)
      /\ \A i \in DOMAIN rows' : rows'[i].of \in S /\ rows'[i].pid = NONE /\ New(rows'[i])
      /\ "tcp" \notin failed' => \A s \in S : \E i \in DOMAIN rows' : rows'[i].of = s
  <2>1. S \in SUBSET Sockets
    BY <1>2
  <2> HIDE DEF S
  <2>2. CASE rows' = Rows(S)
    BY <2>1, <2>2, RowsOfSet
  <2>3. CASE rows' = <<>> /\ failed' = {"tcp"}
    <3>1. rows' \in Seq(Connections) /\ DOMAIN rows' = {}
      BY <2>3
    <3> QED
      BY <2>3, <3>1
  <2> QED
    BY <1>1, <2>2, <2>3
<1>5. CloudInv' /\ FlagInv'
  BY <1>1, CloudKeeps DEF EgressInv, FlagInv, cloud
<1>6. TypeOK'
  BY <1>1, <1>3, <1>4, <1>5 DEF EgressInv, TypeOK, HostTyped, CloudInv
<1>7. owner = <<>> /\ bytes = <<>>
  BY <1>1 DEF EgressInv, PlaceInv
<1>8. PlaceInv'
  BY <1>1, <1>4 DEF EgressInv, PlaceInv, Finished, New
<1>9. RowsInv'
  <2> SUFFICES ASSUME NEW i \in DOMAIN rows' PROVE Right(rows[i])'
    BY DEF RowsInv
  <2>1. PICK r : r = rows'[i]
    OBVIOUS
  <2>2. r \in Connections /\ r.of \in S /\ r.pid = NONE /\ New(r)
    <3> HIDE DEF S
    <3> QED
      BY <1>4, <2>1
  <2>3. (Seen(r.of))'
    BY <1>1, <1>2, <1>3, <2>2, JustSeen DEF Seen, HostInv, InUse, Egress
  <2>4. (Right(r))'
    BY <1>1, <2>2, <2>3, NothingIsNone DEF New, Right, RowInv, Labelled, LinuxRow
  <2> QED
    BY <2>1, <2>4
<1>10. OwnerInv' /\ ScanInv' /\ BytesInv'
  BY <1>1, <1>7 DEF OwnerInv, ScanInv, BytesInv
<1>11. ListInv'
  BY <1>1, <1>4 DEF ListInv, Standing, Established, Egress, Covered
<1> QED
  BY <1>3, <1>5, <1>6, <1>8, <1>9, <1>10, <1>11 DEF EgressInv

LEMMA ReadTcp6Keeps ==
  ASSUME EgressInv, ReadTcp6
  PROVE  EgressInv'
<1> DEFINE S == Established(V6)
<1>1. /\ platform = "linux" /\ pc = "tcp6" /\ pc' = (IF rows' = <<>> THEN "done" ELSE "fds")
      /\ (rows' = rows \o Rows(S) /\ failed' = failed) \/ (rows' = rows /\ failed' = failed \union {"tcp6"})
      /\ UNCHANGED <<table, fetch, published, network, status, alive, platform, next, owner, bytes, flag, changed>>
  BY DEF ReadTcp6, Step, cloud, host
<1>2. S \in SUBSET (Sockets \ Udp) /\ \A s \in S : status[s] = "established" /\ Egress(s)
  BY HostsAssumption DEF Established
<1>3. HostTyped /\ HostTyped' /\ HostInv' /\ Noted
  BY <1>1, HostStill
<1>4. /\ Rows(S) \in Seq(Connections) /\ rows \in Seq(Connections)
      /\ \A i \in DOMAIN Rows(S) : Rows(S)[i].of \in S /\ Rows(S)[i].pid = NONE /\ New(Rows(S)[i])
      /\ \A s \in S : \E i \in DOMAIN Rows(S) : Rows(S)[i].of = s
  BY <1>2, RowsOfSet DEF EgressInv, TypeOK
<1>5. /\ rows' \in Seq(Connections)
      /\ \A i \in DOMAIN rows' : \/ i \in DOMAIN rows /\ rows'[i] = rows[i]
                                 \/ \E j \in DOMAIN Rows(S) : rows'[i] = Rows(S)[j]
      /\ \A i \in DOMAIN rows : i \in DOMAIN rows' /\ rows'[i] = rows[i]
      /\ "tcp6" \notin failed' => \A i \in DOMAIN Rows(S) : \E j \in DOMAIN rows' : rows'[j] = Rows(S)[i]
  <2> DEFINE more == Rows(S)
  <2> HIDE DEF more
  <2>1. more \in Seq(Connections) /\ rows \in Seq(Connections)
    BY <1>4 DEF more
  <2>2. CASE rows' = rows \o more
    BY <2>1, <2>2, JoinedRows DEF more
  <2>3. CASE rows' = rows /\ "tcp6" \in failed'
    BY <2>1, <2>3 DEF more
  <2> QED
    BY <1>1, <2>2, <2>3 DEF more
<1>6. CloudInv' /\ FlagInv'
  BY <1>1, CloudKeeps DEF EgressInv, FlagInv, cloud
<1>7. TypeOK'
  BY <1>1, <1>3, <1>5, <1>6 DEF EgressInv, TypeOK, HostTyped, CloudInv
<1>8. PlaceInv'
  <2>1. Finished' = {}
    BY <1>1, <1>4, <1>5 DEF EgressInv, PlaceInv, Finished, New
  <2>2. pc' = "done" => Pending({NONE})' = {}
    BY <1>1 DEF Pending
  <2> QED
    BY <1>1, <2>1, <2>2 DEF EgressInv, PlaceInv
<1>9. RowsInv'
  <2> SUFFICES ASSUME NEW i \in DOMAIN rows' PROVE Right(rows[i])'
    BY DEF RowsInv
  <2>1. PICK r : r = rows'[i]
    OBVIOUS
  <2>2. CASE r \in Connections /\ Right(r)
    BY <1>1, <1>3, <2>1, <2>2, RowStays
  <2>3. CASE r \in Connections /\ r.of \in S /\ r.pid = NONE /\ New(r)
    <3>1. Seen(r.of)
      BY <1>2, <1>3, <2>3, JustSeen DEF EgressInv
    <3>2. Right(r)
      BY <1>1, <2>3, <3>1, NewIsRight
    <3> QED
      BY <1>1, <1>3, <2>1, <2>3, <3>2, RowStays
  <2>4. r \in Connections /\ (Right(r) \/ (r.of \in S /\ r.pid = NONE /\ New(r)))
    BY <1>4, <1>5, <2>1 DEF EgressInv, RowsInv
  <2> QED
    BY <2>2, <2>3, <2>4
<1>10. OwnerInv' /\ BytesInv'
  BY <1>1, <1>3, OwnerStays, BytesStay DEF EgressInv
<1>11. ScanInv'
  <2>1. next' = 1
    BY <1>1 DEF EgressInv, PlaceInv
  <2> QED
    BY <1>1, <2>1, HostsAssumption DEF ScanInv
<1>12. ListInv'
  <2> SUFFICES ASSUME NEW s \in Sockets \ Udp, Standing(s), Covered(s)'
               PROVE  \E i \in DOMAIN rows' : rows'[i].of = s
    BY <1>1 DEF ListInv, Standing, Egress, Covered
  <2>1. CASE s \in V6
    <3>1. s \in S
      BY <2>1 DEF Established, Standing
    <3> HIDE DEF S
    <3>2. "tcp6" \notin failed'
      BY <1>1, <2>1 DEF Covered
    <3> QED
      BY <1>4, <1>5, <3>1, <3>2
  <2>2. CASE s \notin V6
    BY <1>1, <1>5, <2>2 DEF EgressInv, ListInv, Covered
  <2> QED
    BY <2>1, <2>2
<1> QED
  BY <1>3, <1>6, <1>7, <1>8, <1>9, <1>10, <1>11, <1>12 DEF EgressInv

LEMMA ScanFdsKeeps ==
  ASSUME EgressInv, ScanFds
  PROVE  EgressInv'
<1> DEFINE held == [n \in Held(Listed(next)) |-> next]
<1>1. /\ pc = "fds" /\ pc' = "fds" /\ next <= LastPid /\ next' = next + 1 /\ owner' = Merged(owner, held)
      /\ UNCHANGED <<table, fetch, published, network, status, alive, platform, rows, bytes, flag, failed, changed>>
  BY DEF ScanFds, Step, cloud, host
<1>2. HostTyped' /\ HostInv' /\ Noted
  BY <1>1, HostStill
<1>3. CloudInv' /\ FlagInv'
  BY <1>1, CloudKeeps DEF EgressInv, FlagInv, cloud
<1>4. next \in 1..LastPid /\ next' \in 1..LastPid + 1
  BY <1>1, HostsAssumption DEF EgressInv, TypeOK
<1>5. TypeOK' /\ PlaceInv'
  BY <1>1, <1>2, <1>3, <1>4 DEF EgressInv, TypeOK, HostTyped, CloudInv, PlaceInv, Pending, Finished
<1>6. RowsInv' /\ BytesInv' /\ ListInv'
  BY <1>1, <1>2, RowsStay, BytesStay, ListStays DEF EgressInv, TypeOK
<1>7. /\ DOMAIN owner' = DOMAIN owner \union Held(Listed(next))
      /\ \A n \in DOMAIN owner' :
           owner'[n] = IF n \in DOMAIN owner THEN owner[n] ELSE next
  BY <1>1 DEF Merged
<1>8. OwnerInv'
  <2> SUFFICES ASSUME NEW n \in DOMAIN owner'
               PROVE  \E s \in Sockets : \E p \in HoldersOf[s] \ Hidden :
                        /\ InodeOf[s] = n /\ PidOf[p] = owner'[n]
                        /\ InUse(s)' \/ s \in changed'
                        /\ \A q \in Processes : Running(q)' /\ PidOf[q] = PidOf[p] => q = p \/ q \in changed'
    BY DEF OwnerInv
  <2>1. CASE n \in DOMAIN owner
    <3>1. owner'[n] = owner[n]
      BY <1>7, <2>1
    <3> QED
      BY <1>1, <2>1, <3>1 DEF EgressInv, OwnerInv, InUse, Running
  <2>2. CASE n \notin DOMAIN owner
    <3>1. owner'[n] = next /\ n \in Held(Listed(next))
      BY <1>7, <2>2
    <3>2. PICK s \in Sockets : InUse(s) /\ Holders(s) \intersect Listed(next) # {} /\ InodeOf[s] = n
      BY <3>1 DEF Held
    <3>3. PICK p \in Processes : /\ p \in HoldersOf[s] \ Hidden /\ Running(p) /\ PidOf[p] = next
      BY <3>2 DEF Holders, Listed
    <3>4. \A q \in Processes : Running(q) /\ PidOf[q] = PidOf[p] => q = p
      BY <3>3 DEF EgressInv, HostInv
    <3> QED
      BY <1>1, <3>1, <3>2, <3>3, <3>4 DEF InUse, Running
  <2> QED
    BY <2>1, <2>2
<1>9. ScanInv'
  <2> SUFFICES ASSUME NEW s \in Sockets, NEW p \in HoldersOf[s] \ Hidden, "proc" \notin failed,
                      InUse(s), s \notin changed, Running(p), p \notin changed, PidOf[p] < next + 1
               PROVE  InodeOf[s] \in DOMAIN owner'
    BY <1>1 DEF ScanInv, InUse, Running
  <2>0. p \in Processes /\ PidOf[p] \in 1..LastPid
    BY HostsAssumption
  <2>1. CASE PidOf[p] < next
    BY <1>1, <1>7, <2>1 DEF EgressInv, ScanInv
  <2>2. CASE PidOf[p] = next
    <3>1. p \in Holders(s) /\ p \in Listed(next)
      BY <2>0, <2>2 DEF Holders, Listed
    <3>2. InodeOf[s] \in Held(Listed(next))
      BY <3>1 DEF Held
    <3> QED
      BY <1>7, <3>2
  <2> QED
    BY <1>4, <2>0, <2>1, <2>2
<1> QED
  BY <1>2, <1>3, <1>5, <1>6, <1>8, <1>9 DEF EgressInv

LEMMA EndScanKeeps ==
  ASSUME EgressInv, EndScan
  PROVE  EgressInv'
<1>1. /\ pc = "fds" /\ pc' = "ss" /\ next > LastPid /\ next' = 1
      /\ UNCHANGED <<table, fetch, published, network, status, alive, platform, rows, owner, bytes, flag, failed, changed>>
  BY DEF EndScan, Step, cloud, host
<1>2. HostTyped' /\ HostInv' /\ Noted
  BY <1>1, HostStill
<1>3. CloudInv' /\ FlagInv'
  BY <1>1, CloudKeeps DEF EgressInv, FlagInv, cloud
<1>4. TypeOK' /\ PlaceInv'
  BY <1>1, <1>2, <1>3, HostsAssumption
    DEF EgressInv, TypeOK, HostTyped, CloudInv, PlaceInv, Pending, Finished
<1>5. RowsInv' /\ OwnerInv' /\ BytesInv' /\ ListInv'
  BY <1>1, <1>2, RowsStay, OwnerStays, BytesStay, ListStays DEF EgressInv, TypeOK
<1>6. ScanInv'
  <2>1. \A p \in Processes : PidOf[p] < next
    BY <1>1, HostsAssumption DEF EgressInv, TypeOK
  <2> QED
    BY <1>1, <2>1, HostsAssumption DEF EgressInv, ScanInv, InUse, Running
<1> QED
  BY <1>2, <1>3, <1>4, <1>5, <1>6 DEF EgressInv

LEMMA ProcUnreadableKeeps ==
  ASSUME EgressInv, ProcUnreadable
  PROVE  EgressInv'
<1>1. /\ pc = "fds" /\ pc' = "ss" /\ next = 1 /\ failed' = failed \union {"proc"}
      /\ UNCHANGED <<table, fetch, published, network, status, alive, platform, rows, next, owner, bytes, flag, changed>>
  BY DEF ProcUnreadable, Step, cloud, host
<1>2. HostTyped' /\ HostInv' /\ Noted
  BY <1>1, HostStill
<1>3. CloudInv' /\ FlagInv'
  BY <1>1, CloudKeeps DEF EgressInv, FlagInv, cloud
<1>4. TypeOK' /\ PlaceInv'
  BY <1>1, <1>2, <1>3 DEF EgressInv, TypeOK, HostTyped, CloudInv, PlaceInv, Pending, Finished
<1>5. RowsInv' /\ OwnerInv' /\ BytesInv' /\ ListInv'
  BY <1>1, <1>2, RowsStay, OwnerStays, BytesStay, ListStays DEF EgressInv, TypeOK
<1>6. ScanInv'
  BY <1>1 DEF ScanInv
<1> QED
  BY <1>2, <1>3, <1>4, <1>5, <1>6 DEF EgressInv

LEMMA RunSsKeeps ==
  ASSUME EgressInv, RunSs
  PROVE  EgressInv'
<1>1. /\ pc = "ss" /\ pc' = "flag"
      /\ \/ bytes' = <<>> /\ failed' = failed \union {"ss"}
         \/ failed' = failed /\ \E inline \in BOOLEAN : bytes' = ParseSs(SsText(inline))
      /\ UNCHANGED <<table, fetch, published, network, status, alive, platform, rows, next, owner, flag, changed>>
  BY DEF RunSs, Step, cloud, host
<1>2. HostTyped' /\ HostInv' /\ Noted
  BY <1>1, HostStill
<1>3. CloudInv' /\ FlagInv'
  BY <1>1, CloudKeeps DEF EgressInv, FlagInv, cloud
<1>4. TypeOK' /\ PlaceInv'
  BY <1>1, <1>2, <1>3 DEF EgressInv, TypeOK, HostTyped, CloudInv, PlaceInv, Pending, Finished
<1>5. platform = "linux" /\ Finished = {}
  BY <1>1 DEF EgressInv, PlaceInv
<1>6. RowsInv'
  <2> SUFFICES ASSUME NEW i \in DOMAIN rows' PROVE Right(rows[i])'
    BY DEF RowsInv
  <2>1. PICK r : r = rows[i]
    OBVIOUS
  <2>2. r \in Connections /\ Right(r) /\ r.provider = NONE
    BY <1>1, <1>5, <2>1 DEF EgressInv, RowsInv, TypeOK, Finished
  <2>3. (Right(r))'
    BY <1>2, <2>2, RowStays
  <2> QED
    BY <1>1, <2>1, <2>3
<1>7. OwnerInv' /\ ListInv' /\ ScanInv'
  BY <1>1, <1>2, OwnerStays, ListStays DEF EgressInv, ScanInv, InUse, Running
<1>8. BytesInv'
  <2>1. CASE bytes' = <<>> /\ "ss" \in failed'
    BY <2>1 DEF BytesInv
  <2>2. CASE \E inline \in BOOLEAN : bytes' = ParseSs(SsText(inline))
    <3>1. PICK inline \in BOOLEAN : bytes' = ParseSs(SsText(inline))
      BY <2>2
    <3>2. SsSockets \in SUBSET Sockets /\ \A s, t \in SsSockets : s # t => EndsOf[s] # EndsOf[t]
      BY DEF SsSockets, EgressInv, HostInv
    <3>3. /\ \A key \in DOMAIN bytes' : bytes'[key] \in SsSockets /\ EndsOf[bytes'[key]] = key
          /\ \A s \in SsSockets \ Silent : EndsOf[s] \in DOMAIN bytes' /\ bytes'[EndsOf[s]] = s
      BY <3>1, <3>2, SsTextCounts, ParsedText
    <3> QED
      BY <1>1, <3>3 DEF BytesInv, SsSockets, InUse
  <2> QED
    BY <1>1, <2>1, <2>2
<1> QED
  BY <1>2, <1>3, <1>4, <1>6, <1>7, <1>8 DEF EgressInv

LEMMA ReadFlagKeeps ==
  ASSUME EgressInv, ReadFlag
  PROVE  EgressInv'
<1>1. /\ pc = "flag" /\ pc' = "join" /\ table' = Initialized
      /\ flag' = (Initialized.source = "fallback")
      /\ UNCHANGED <<fetch, published, network, status, alive, platform, rows, next, owner, bytes, failed, changed>>
  BY DEF ReadFlag, Step, host
<1>2. HostTyped' /\ HostInv' /\ Noted
  BY <1>1, HostStill
<1>3. CloudInv'
  BY <1>1, ReaderKeepsCloud DEF EgressInv
<1>4. FlagInv'
  BY <1>1 DEF FlagInv, Initialized, FallbackTable, EgressInv, CloudInv, CloudTypeOK
<1>5. flag' \in BOOLEAN
  BY <1>1
<1>6. TypeOK' /\ PlaceInv'
  BY <1>1, <1>2, <1>3, <1>5 DEF EgressInv, TypeOK, HostTyped, CloudInv, PlaceInv, Pending, Finished
<1>7. RowsInv' /\ OwnerInv' /\ BytesInv' /\ ListInv' /\ ScanInv'
  BY <1>1, <1>2, RowsStay, OwnerStays, BytesStay, ListStays
    DEF EgressInv, TypeOK, ScanInv, InUse, Running
<1> QED
  BY <1>2, <1>3, <1>4, <1>6, <1>7 DEF EgressInv

-----------------------------------------------------------------------------
(* What is looked up for a row, whatever has happened to the host by then. *)
LEMMA Classified ==
  ASSUME CloudInv, NEW ip \in Addresses, ~IsLocal(ip)
  PROVE  /\ Classify(ip).provider \in Providers
         /\ Classify(ip).provider = "Tailscale" <=> ip.host \in SharedHosts
         /\ Initialized.source \in {"fallback", "live"}
<1> DEFINE entries == Initialized.entries
           h == Canonical(ip)
<1>1. entries \in Seq(Entries)
  BY FallbackExtends DEF CloudInv, Initialized, FallbackTable, Extending
<1>2. Initialized.source \in {"fallback", "live"}
  BY DEF CloudInv, CloudTypeOK, Initialized, FallbackTable
<1>3. CASE IsShared(ip)
  BY <1>2, <1>3 DEF Classify, Is, IsShared, Canonical, Providers
<1>4. CASE ~IsShared(ip) /\ Matching(entries, h) = {}
  BY <1>2, <1>4 DEF Classify, Is, IsShared, Canonical, Providers
<1>5. CASE ~IsShared(ip) /\ Matching(entries, h) # {}
  <2> DEFINE best == entries[Longest(entries, h)]
  <2>1. Classify(ip) = Is(best.provider, best.detail)
    BY <1>5 DEF Classify
  <2> HIDE DEF entries
  <2>2. Longest(entries, h) \in DOMAIN entries
    BY <1>1, <1>5, LongestMatches DEF Matching
  <2>3. best \in Entries
    BY <1>1, <2>2
  <2>4. best.provider \in Clouds
    BY <2>3 DEF Entries
  <2> QED
    BY <1>2, <1>5, <2>1, <2>4 DEF Is, IsShared, Canonical, Providers, Clouds
<1> QED
  BY <1>3, <1>4, <1>5

LEMMA OwnerFound ==
  ASSUME OwnerInv, NEW s \in Sockets, Seen(s), InodeOf[s] \in DOMAIN owner
  PROVE  /\ OwnerOf(s) \in 1..LastPid
         /\ OfHolder(s, OwnerOf(s))
         /\ HoldersOf[s] \subseteq Hidden => Reused(InodeOf, s)
<1>0. PICK t \in Sockets : \E p \in HoldersOf[t] \ Hidden :
        /\ InodeOf[t] = InodeOf[s] /\ PidOf[p] = OwnerOf(s)
        /\ InUse(t) \/ t \in changed
        /\ \A q \in Processes : Running(q) /\ PidOf[q] = PidOf[p] => q = p \/ q \in changed
  BY DEF OwnerInv, OwnerOf
<1>1. PICK p \in HoldersOf[t] \ Hidden :
        /\ InodeOf[t] = InodeOf[s] /\ PidOf[p] = OwnerOf(s)
        /\ InUse(t) \/ t \in changed
        /\ \A q \in Processes : Running(q) /\ PidOf[q] = PidOf[p] => q = p \/ q \in changed
  BY <1>0
<1>2. p \in Processes /\ OwnerOf(s) \in 1..LastPid
  BY <1>1, HostsAssumption
<1>3. CASE t = s
  BY <1>1, <1>2, <1>3 DEF OfHolder
<1>4. CASE t # s
  <2>1. t \in changed
    BY <1>1, <1>4 DEF Seen
  <2>2. Reused(InodeOf, s)
    BY <1>1, <1>4, <2>1, HostsAssumption DEF Reused
  <2> QED
    BY <1>2, <2>2 DEF OfHolder
<1> QED
  BY <1>3, <1>4

LEMMA OwnerMissing ==
  ASSUME ScanInv, pc = "join", NEW s \in Sockets, Seen(s), InodeOf[s] \notin DOMAIN owner
  PROVE  Unseen(s)
BY HostsAssumption DEF ScanInv, Seen, Unseen, Visible, Holders, InUse

LEMMA NameFound ==
  ASSUME NEW r \in Connections, NEW p \in NameOf(r.pid), r.pid # NONE => OfHolder(r.of, r.pid)
  PROVE  p \in Processes /\ Named(r, p)
<1>1. p \in Processes /\ PidOf[p] = r.pid /\ Running(p)
  BY DEF NameOf
<1>2. r.pid # NONE
  BY <1>1, HostsAssumption, NothingIsNone
<1> QED
  BY <1>1, <1>2 DEF Named, OfHolder

LEMMA CountsOfRow ==
  ASSUME platform = "linux", pc = "join", BytesInv, NEW s \in Sockets, Seen(s),
         NEW sent, sent = IF SsKey(s) \in DOMAIN bytes THEN bytes[SsKey(s)] ELSE NONE
  PROVE  /\ sent \in Sockets \union {NONE}
         /\ sent \in {NONE, s} \/ Reused(EndsOf, s)
         /\ "ss" \notin failed => s \in changed \union Silent \/ sent = s
<1>1. CASE EndsOf[s] \in DOMAIN bytes
  <2>1. sent \in Sockets /\ EndsOf[sent] = EndsOf[s] /\ (InUse(sent) \/ sent \in changed)
    BY <1>1 DEF BytesInv, SsKey
  <2>2. sent = s \/ Reused(EndsOf, s)
    BY <2>1, HostsAssumption DEF Seen, Reused
  <2>3. "ss" \notin failed => s \in changed \union Silent \/ sent = s
    BY <1>1 DEF BytesInv, SsKey, Seen, InUse
  <2> QED
    BY <2>1, <2>2, <2>3
<1>2. CASE EndsOf[s] \notin DOMAIN bytes
  BY <1>2 DEF BytesInv, SsKey, Seen, InUse
<1> QED
  BY <1>1, <1>2

(* The next row to be classified is one of the rows.                       *)
LEMMA FirstPending ==
  ASSUME rows \in Seq(Connections), Pending({NONE}) # {}
  PROVE  First(Pending({NONE})) \in DOMAIN rows /\ rows[First(Pending({NONE}))].provider = NONE
<1>1. Pending({NONE}) \in SUBSET Nat
  BY DEF Pending
<1>2. First(Pending({NONE})) \in Pending({NONE})
  BY <1>1, FirstIsOne
<1> QED
  BY <1>2 DEF Pending

(* One row is replaced by another of the same socket.                      *)
LEMMA RowReplaced ==
  ASSUME EgressInv, Noted, NEW i \in DOMAIN rows, NEW r \in Connections,
         rows' = [rows EXCEPT ![i] = r], r.of = rows[i].of, Right(r)
  PROVE  /\ rows' \in Seq(Connections) /\ DOMAIN rows' = DOMAIN rows
         /\ \A j \in DOMAIN rows : rows'[j].of = rows[j].of
         /\ RowsInv'
<1>1. rows \in Seq(Connections)
  BY DEF EgressInv, TypeOK
<1>2. /\ DOMAIN rows' = DOMAIN rows /\ rows'[i] = r
      /\ \A j \in DOMAIN rows : j # i => rows'[j] = rows[j]
  BY <1>1
<1>3. rows' \in Seq(Connections)
  BY <1>1
<1>4. RowsInv'
  <2> SUFFICES ASSUME NEW j \in DOMAIN rows' PROVE Right(rows[j])'
    BY DEF RowsInv
  <2>1. PICK q : q = rows'[j]
    OBVIOUS
  <2>2. q \in Connections /\ Right(q)
    BY <1>1, <1>2, <2>1 DEF EgressInv, RowsInv
  <2>3. (Right(q))'
    BY <2>2, RowStays
  <2> QED
    BY <2>1, <2>3
<1> QED
  BY <1>2, <1>3, <1>4

LEMMA JoinRowKeeps ==
  ASSUME EgressInv, JoinRow
  PROVE  EgressInv'
<1> DEFINE i == First(Pending({NONE}))
           s == rows[i].of
           pid == OwnerOf(s)
           process == One(NameOf(pid))
           sent == IF SsKey(s) \in DOMAIN bytes THEN bytes[SsKey(s)] ELSE NONE
           provider == Classify(PeerOf[s]).provider
           r == [Row(s, pid, process) EXCEPT
                   !.sent = sent, !.provider = provider, !.by = Initialized.source,
                   !.confidence = Source(flag), !.cost = Cost(sent, provider),
                   !.shadow = (pid = NONE /\ provider \in Metered)]
<1>1. /\ pc = "join" /\ Pending({NONE}) # {} /\ rows' = [rows EXCEPT ![i] = r]
      /\ table' = Initialized
      /\ UNCHANGED <<fetch, published, network, status, alive, platform, pc, next, owner, bytes, flag, failed, changed>>
  BY DEF JoinRow, host
<1>2. HostTyped' /\ HostInv' /\ Noted
  BY <1>1, HostStill
<1>3. CloudInv'
  BY <1>1, ReaderKeepsCloud DEF EgressInv
<1>4. FlagInv'
  BY <1>1 DEF EgressInv, FlagInv, Initialized, NoTable
<1>5. rows \in Seq(Connections) /\ i \in DOMAIN rows
  BY <1>1, FirstPending DEF EgressInv, TypeOK
<1>6. s \in Sockets /\ Seen(s) /\ PeerOf[s] \in Addresses /\ ~IsLocal(PeerOf[s])
  <2>1. rows[i] \in Connections /\ Right(rows[i])
    BY <1>5 DEF EgressInv, RowsInv
  <2>2. s \in Sockets /\ Seen(s)
    BY <2>1 DEF Connections, Right, RowInv
  <2> QED
    BY <2>2, HostsAssumption DEF Seen, Egress
<1> HIDE DEF i
<1>7. /\ pid \in 1..LastPid \union {NONE}
      /\ pid # NONE => OfHolder(s, pid)
      /\ pid = NONE => Unseen(s)
      /\ HoldersOf[s] \subseteq Hidden => pid = NONE \/ Reused(InodeOf, s)
  <2> HIDE DEF s
  <2>1. CASE InodeOf[s] \in DOMAIN owner
    <3>1. pid # NONE
      BY <1>6, <2>1, OwnerFound, HostsAssumption, NothingIsNone DEF EgressInv
    <3> QED
      BY <1>6, <2>1, <3>1, OwnerFound DEF EgressInv
  <2>2. CASE InodeOf[s] \notin DOMAIN owner
    BY <1>1, <1>6, <2>2, OwnerMissing DEF OwnerOf, EgressInv
  <2> QED
    BY <2>1, <2>2
<1>8. /\ sent \in Sockets \union {NONE}
      /\ sent \in {NONE, s} \/ Reused(EndsOf, s)
      /\ "ss" \notin failed => s \in changed \union Silent \/ sent = s
  <2>1. platform = "linux"
    BY <1>1 DEF EgressInv, PlaceInv
  <2> QED
    BY <1>1, <1>6, <2>1, CountsOfRow DEF EgressInv
<1>9. /\ provider \in Providers
      /\ provider = "Tailscale" <=> PeerOf[s].host \in SharedHosts
      /\ Initialized.source \in {"fallback", "live"}
  BY <1>6, Classified DEF EgressInv
<1>10. process \in Processes \union {NONE} /\ (process # NONE => process \in NameOf(pid))
  BY NothingIsNone DEF One, NameOf
<1>11. /\ Source(flag) \in {"fallback", "live"}
       /\ Source(flag) = "live" => Initialized.source = "live"
  BY DEF EgressInv, TypeOK, FlagInv, Source, Initialized, NoTable
<1>12. Cost(sent, provider) \in Sockets \union {"free", NONE}
  BY <1>8 DEF Cost
<1>13. /\ r.of = s /\ r.pid = pid /\ r.process = process /\ r.sent = sent /\ r.total = NONE
       /\ r.provider = provider /\ r.by = Initialized.source /\ r.confidence = Source(flag)
       /\ r.shadow = (pid = NONE /\ provider \in Metered)
       /\ r \in Connections
  <2> HIDE DEF s, pid, process, sent, provider
  <2> QED
    BY <1>6, <1>7, <1>8, <1>9, <1>10, <1>11, <1>12 DEF Row, Connections
<1>14. provider # NONE
  BY <1>9, NothingIsNone
<1> HIDE DEF s, pid, process, sent, provider, r
<1>15. Right(r)
  <2>1. \A p \in {r.process, r.total} \ {NONE} : Named(r, p)
    BY <1>7, <1>10, <1>13, NameFound
  <2>2. RowInv(r)
    <3>1. platform # "macos"
      BY <1>1 DEF EgressInv, PlaceInv
    <3> QED
      BY <1>6, <1>7, <1>8, <1>13, <1>14, <2>1, <3>1 DEF RowInv
  <2>3. Labelled(r)
    BY <1>9, <1>13 DEF Labelled
  <2>4. LinuxRow(r)
    BY <1>7, <1>8, <1>11, <1>13 DEF LinuxRow
  <2> QED
    BY <2>2, <2>3, <2>4 DEF Right
<1>16. /\ rows' \in Seq(Connections) /\ DOMAIN rows' = DOMAIN rows
       /\ \A j \in DOMAIN rows : rows'[j].of = rows[j].of
       /\ RowsInv'
  <2>1. r.of = rows[i].of
    BY <1>13 DEF s
  <2> QED
    BY <1>1, <1>2, <1>5, <1>13, <1>15, <2>1, RowReplaced
<1>17. TypeOK' /\ PlaceInv'
  BY <1>1, <1>2, <1>3, <1>16 DEF EgressInv, TypeOK, HostTyped, CloudInv, PlaceInv
<1>18. OwnerInv' /\ ScanInv' /\ BytesInv' /\ ListInv'
  BY <1>1, <1>2, <1>16, OwnerStays, ScanStays, BytesStay, ListStays DEF EgressInv
<1> QED
  BY <1>2, <1>3, <1>4, <1>16, <1>17, <1>18 DEF EgressInv

LEMMA AnnotateKeeps ==
  ASSUME EgressInv, Annotate
  PROVE  EgressInv'
<1> DEFINE total(r) == One(NameOf(r.pid))
<1>1. /\ pc = "join" /\ pc' = "done" /\ Pending({NONE}) = {}
      /\ UNCHANGED <<table, fetch, published, network, status, alive, platform, next, owner, bytes, flag, failed, changed>>
  BY DEF Annotate, Step, cloud, host
<1>2. \/ rows' = rows
      \/ rows' = [i \in DOMAIN rows |-> [rows[i] EXCEPT !.total = total(rows[i])]]
  BY DEF Annotate
<1>3. HostTyped' /\ HostInv' /\ Noted
  BY <1>1, HostStill
<1>4. CloudInv' /\ FlagInv'
  BY <1>1, CloudKeeps DEF EgressInv, FlagInv, cloud
<1>5. rows \in Seq(Connections) /\ \A i \in DOMAIN rows : rows[i] \in Connections /\ Right(rows[i])
  BY DEF EgressInv, TypeOK, RowsInv
<1>6. ASSUME NEW r \in Connections, Right(r)
      PROVE  LET q == [r EXCEPT !.total = total(r)] IN
             q \in Connections /\ q.of = r.of /\ q.provider = r.provider /\ Right(q)
  <2> DEFINE q == [r EXCEPT !.total = total(r)]
  <2>1. total(r) \in Processes \union {NONE} /\ (total(r) # NONE => total(r) \in NameOf(r.pid))
    BY NothingIsNone DEF One, NameOf
  <2>2. total(r) # NONE => Named(r, total(r))
    BY <1>6, <2>1, NameFound DEF Right, RowInv
  <2> HIDE DEF total
  <2>3. /\ q \in Connections /\ q.total = total(r)
        /\ q.of = r.of /\ q.pid = r.pid /\ q.process = r.process /\ q.sent = r.sent
        /\ q.provider = r.provider /\ q.shadow = r.shadow /\ q.confidence = r.confidence /\ q.by = r.by
    BY <2>1 DEF Connections
  <2> HIDE DEF q
  <2>4. Right(q)
    BY <1>6, <2>2, <2>3 DEF Right, RowInv, Labelled, LinuxRow, Named
  <2> QED
    BY <2>3, <2>4 DEF q
<1>7. /\ DOMAIN rows' = DOMAIN rows
      /\ \A i \in DOMAIN rows :
           /\ rows'[i] \in Connections /\ rows'[i].of = rows[i].of
           /\ rows'[i].provider = rows[i].provider /\ Right(rows'[i])
  <2> HIDE DEF total
  <2> QED
    BY <1>2, <1>5, <1>6
<1>8. rows' \in Seq(Connections)
  <2>1. Len(rows) \in Nat /\ DOMAIN rows = 1..Len(rows)
    BY <1>5
  <2>2. rows' = [i \in 1..Len(rows) |-> rows'[i]]
    BY <1>2, <1>5, <2>1
  <2> QED
    BY <1>7, <2>1, <2>2
<1>9. RowsInv'
  <2> SUFFICES ASSUME NEW i \in DOMAIN rows' PROVE Right(rows[i])'
    BY DEF RowsInv
  <2>1. PICK q : q = rows'[i]
    OBVIOUS
  <2>2. q \in Connections /\ Right(q)
    BY <1>7, <2>1
  <2>3. (Right(q))'
    BY <1>1, <1>3, <2>2, RowStays
  <2> QED
    BY <2>1, <2>3
<1>10. TypeOK' /\ PlaceInv'
  BY <1>1, <1>3, <1>4, <1>7, <1>8 DEF EgressInv, TypeOK, HostTyped, CloudInv, PlaceInv, Pending
<1>11. OwnerInv' /\ ScanInv' /\ BytesInv' /\ ListInv'
  BY <1>1, <1>3, <1>7, OwnerStays, BytesStay, ListStays DEF EgressInv, ScanInv
<1> QED
  BY <1>3, <1>4, <1>9, <1>10, <1>11 DEF EgressInv

-----------------------------------------------------------------------------
(* The macOS reader: what its parser makes of lsof's text is found by      *)
(* reading the text field by field, socket by socket, process by process.  *)

(* The fold over lsof's fields, one field after the other.                 *)
Reads(acc, text) == FoldLeft(ReadField, acc, text)

Reading(h, acc, text) ==
  h[0] = acc /\ \A k \in 1..Len(text) : h[k] = ReadField(h[k - 1], text[k])

(* A table of the fold over every set of places of the text.               *)
Latest(D) == CHOOSE x \in D : \A y \in D : x >= y
FoldStep(f, acc, text, D) == IF D = {} THEN acc ELSE ReadField(f[D \ {Latest(D)}], text[Latest(D)])
Tabled(f, n) == f = [D \in SUBSET (1..n) |-> f[D]]

LEMMA LatestIs ==
  ASSUME NEW n \in Nat, NEW D \in SUBSET (1..n), D # {}
  PROVE  Latest(D) \in D /\ \A y \in D : y <= Latest(D)
<1> DEFINE K == {n - i : i \in D}
<1>0. \A i \in D : i \in Nat /\ n - i \in Nat
  OBVIOUS
<1>1. K \in SUBSET Nat /\ K # {}
  BY <1>0
<1>2. PICK k \in K : \A j \in K : k <= j
  <2> HIDE DEF K
  <2> QED
    BY <1>1, Smallest
<1>3. PICK i \in D : k = n - i
  BY <1>2
<1>4. \A j \in D : n - i <= n - j
  BY <1>2, <1>3
<1>5. \A j \in D : i >= j
  BY <1>0, <1>4
<1>6. Latest(D) \in D /\ \A j \in D : Latest(D) >= j
  BY <1>5 DEF Latest
<1> QED
  BY <1>0, <1>6

LEMMA FoldTable ==
  ASSUME NEW acc, NEW text, NEW n \in Nat
  PROVE  \E f : Tabled(f, n) /\ \A D \in SUBSET (1..n) : f[D] = FoldStep(f, acc, text, D)
<1> DEFINE Upto(f, m) == Tabled(f, n) /\ \A D \in SUBSET (1..m) : f[D] = FoldStep(f, acc, text, D)
           K == {m \in 0..n : \E f : Upto(f, m)}
<1>1. 0 \in K
  <2> DEFINE f == [D \in SUBSET (1..n) |-> acc]
  <2>1. \A D \in SUBSET (1..0) : D = {}
    OBVIOUS
  <2>2. Upto(f, 0)
    BY <2>1 DEF Tabled, FoldStep
  <2> HIDE DEF f, Upto
  <2> QED
    BY <2>2
<1>2. ASSUME NEW m \in 1..n, m - 1 \in K PROVE m \in K
  <2>1. PICK f : Upto(f, m - 1)
    BY <1>2
  <2> DEFINE g == [D \in SUBSET (1..n) |-> FoldStep(f, acc, text, D)]
  <2>2. Tabled(g, n)
    BY DEF Tabled
  <2>3. \A D \in SUBSET (1..m) : D \in SUBSET (1..n)
    OBVIOUS
  <2>4. \A D \in SUBSET (1..(m - 1)) : D \in SUBSET (1..n) /\ g[D] = f[D]
    BY <2>1
  <2>5. ASSUME NEW D \in SUBSET (1..m) PROVE g[D] = FoldStep(g, acc, text, D)
    <3>1. CASE D = {}
      BY <2>3, <3>1 DEF FoldStep
    <3>2. CASE D # {}
      <4> DEFINE C == D \ {Latest(D)}
      <4>1. C \in SUBSET (1..(m - 1))
        <5>1. Latest(D) \in D /\ \A y \in D : y <= Latest(D)
          BY <3>2, LatestIs
        <5>2. Latest(D) \in 1..m
          BY <5>1
        <5>3. ASSUME NEW y \in D, y # Latest(D) PROVE y \in 1..(m - 1)
          <6>1. y \in 1..m /\ y <= Latest(D)
            BY <5>1
          <6> QED
            BY <5>2, <5>3, <6>1
        <5> QED
          BY <5>3
      <4>2. g[C] = f[C]
        BY <2>4, <4>1
      <4>3. g[D] = FoldStep(f, acc, text, D)
        BY <2>3
      <4> HIDE DEF g
      <4> QED
        BY <3>2, <4>2, <4>3 DEF FoldStep
    <3> QED
      BY <3>1, <3>2
  <2>6. Upto(g, m)
    BY <2>2, <2>5
  <2> HIDE DEF g, Upto
  <2> QED
    BY <2>6
<1>3. n \in K
  <2> HIDE DEF K
  <2>1. \A k \in 0..n : k \in K
    BY <1>1, <1>2, UpTo
  <2> QED
    BY <2>1
<1> QED
  BY <1>3

LEMMA ReadsInOrder ==
  ASSUME NEW acc, NEW X, NEW text \in Seq(X)
  PROVE  \E h : Reading(h, acc, text) /\ Reads(acc, text) = h[Len(text)]
<1> DEFINE n == Len(text)
           Iter(f) == f = [D \in SUBSET DOMAIN text |->
                             IF D = {} THEN acc ELSE ReadField(f[D \ {Latest(D)}], text[Latest(D)])]
           F == CHOOSE f : Iter(f)
           h == [k \in 0..n |-> F[1..k]]
<1>1. n \in Nat /\ DOMAIN text = 1..n
  OBVIOUS
<1>2. Reads(acc, text) = F[DOMAIN text]
  BY DEF Reads, FoldLeft, MapThenFoldSet, Max, Latest
<1>3. \E f : Iter(f)
  <2>1. PICK f : Tabled(f, n) /\ \A D \in SUBSET (1..n) : f[D] = FoldStep(f, acc, text, D)
    BY <1>1, FoldTable
  <2>2. f = [D \in SUBSET DOMAIN text |-> FoldStep(f, acc, text, D)]
    BY <1>1, <2>1 DEF Tabled
  <2>3. Iter(f)
    BY <2>2 DEF FoldStep
  <2> QED
    BY <2>3
<1>4. Iter(F)
  <2> HIDE DEF Iter
  <2> QED
    BY <1>3
<1> HIDE DEF F
<1>5. F[{}] = acc /\ \A D \in SUBSET (1..n) : D # {} => F[D] = ReadField(F[D \ {Latest(D)}], text[Latest(D)])
  BY <1>1, <1>4
<1>6. 1..0 = {}
  OBVIOUS
<1>7. ASSUME NEW k \in 1..n PROVE h[k] = ReadField(h[k - 1], text[k])
  <2>0. k \in 1..k /\ k \in Nat
    BY <1>1
  <2>1. 1..k \in SUBSET (1..n) /\ 1..k # {}
    <3>1. \A i \in 1..k : i \in 1..n
      BY <1>1, <2>0
    <3> QED
      BY <2>0, <3>1
  <2>2. Latest(1..k) = k
    <3>1. Latest(1..k) \in 1..k /\ \A y \in 1..k : y <= Latest(1..k)
      BY <1>1, <2>1, LatestIs
    <3> QED
      BY <2>0, <3>1
  <2>3. (1..k) \ {k} = 1..(k - 1)
    BY <2>0
  <2>4. k \in 0..n /\ k - 1 \in 0..n
    BY <1>1
  <2> QED
    BY <1>5, <2>1, <2>2, <2>3, <2>4
<1>8. h[0] = acc /\ h[n] = F[1..n]
  BY <1>1, <1>5, <1>6
<1>9. Reading(h, acc, text) /\ Reads(acc, text) = h[n]
  BY <1>1, <1>2, <1>7, <1>8 DEF Reading
<1> HIDE DEF h
<1> QED
  BY <1>9

LEMMA SameReading ==
  ASSUME NEW acc, NEW X, NEW text \in Seq(X), NEW h, Reading(h, acc, text)
  PROVE  Reads(acc, text) = h[Len(text)]
<1>1. PICK g : Reading(g, acc, text) /\ Reads(acc, text) = g[Len(text)]
  BY ReadsInOrder
<1> DEFINE K == {k \in 0..Len(text) : g[k] = h[k]}
<1>2. 0 \in K /\ \A k \in 1..Len(text) : k - 1 \in K => k \in K
  BY <1>1 DEF Reading
<1>3. \A k \in 0..Len(text) : k \in K
  <2>1. Len(text) \in Nat
    OBVIOUS
  <2> HIDE DEF K
  <2> QED
    BY <1>2, <2>1, UpTo
<1> QED
  BY <1>1, <1>3

(* A text in two parts is read in two parts.                               *)
LEMMA ReadsJoined ==
  ASSUME NEW acc, NEW X, NEW s \in Seq(X), NEW t \in Seq(X)
  PROVE  Reads(acc, s \o t) = Reads(Reads(acc, s), t)
<1>1. PICK h : Reading(h, acc, s \o t) /\ Reads(acc, s \o t) = h[Len(s \o t)]
  <2>1. s \o t \in Seq(X)
    OBVIOUS
  <2> QED
    BY <2>1, ReadsInOrder
<1> DEFINE a == Len(s)
           b == Len(t)
           g == [k \in 0..b |-> h[a + k]]
<1>2. a \in Nat /\ b \in Nat /\ Len(s \o t) = a + b
  OBVIOUS
<1>3. /\ \A k \in 1..a : (s \o t)[k] = s[k]
      /\ \A k \in 1..b : (s \o t)[a + k] = t[k]
  OBVIOUS
<1> HIDE DEF a, b
<1>4. Reading(h, acc, s)
  BY <1>1, <1>2, <1>3 DEF Reading, a
<1>5. Reads(acc, s) = h[a]
  BY <1>4, SameReading DEF a
<1>6. Reading(g, h[a], t)
  <2>1. g[0] = h[a]
    BY <1>2
  <2>2. ASSUME NEW k \in 1..b PROVE g[k] = ReadField(g[k - 1], t[k])
    <3>1. a + k \in 1..(a + b) /\ (a + k) - 1 = a + (k - 1) /\ k \in 0..b /\ k - 1 \in 0..b
      BY <1>2
    <3>2. h[a + k] = ReadField(h[(a + k) - 1], (s \o t)[a + k])
      BY <1>1, <1>2, <3>1 DEF Reading
    <3> QED
      BY <1>3, <3>1, <3>2
  <2> HIDE DEF g
  <2> QED
    BY <2>1, <2>2 DEF Reading, b
<1>7. Reads(h[a], t) = g[b]
  <2> HIDE DEF g
  <2> QED
    BY <1>6, SameReading DEF b
<1> QED
  BY <1>1, <1>2, <1>5, <1>7

LEMMA ReadsNothing == ASSUME NEW acc PROVE Reads(acc, <<>>) = acc
<1>1. Reading([k \in {0} |-> acc], acc, <<>>)
  BY DEF Reading
<1>2. <<>> \in Seq({})
  OBVIOUS
<1> QED
  BY <1>1, <1>2, SameReading

(* Blocks of fields are read one after the other.                          *)
Joins(f, blocks, n) ==
  f[0] = <<>> /\ \A k \in 1..n : f[k] = f[k - 1] \o blocks[k]

LEMMA JoinTable ==
  ASSUME NEW blocks, NEW n \in Nat
  PROVE  \E f : f = [k \in 0..n |-> f[k]] /\ Joins(f, blocks, n)
<1> DEFINE Upto(f, m) == f = [k \in 0..n |-> f[k]] /\ Joins(f, blocks, m)
           K == {m \in 0..n : \E f : Upto(f, m)}
<1>1. 0 \in K
  <2> DEFINE f == [k \in 0..n |-> <<>>]
  <2>1. Upto(f, 0)
    BY DEF Joins
  <2> HIDE DEF f, Upto
  <2> QED
    BY <2>1
<1>2. ASSUME NEW m \in 1..n, m - 1 \in K PROVE m \in K
  <2>1. PICK f : Upto(f, m - 1)
    BY <1>2
  <2> DEFINE g == [k \in 0..n |-> IF k = m THEN f[m - 1] \o blocks[m] ELSE f[k]]
  <2>2. Joins(g, blocks, m)
    <3>1. \A k \in 0..(m - 1) : g[k] = f[k]
      OBVIOUS
    <3>2. g[m] = f[m - 1] \o blocks[m]
      OBVIOUS
    <3> HIDE DEF g
    <3>3. \A k \in 1..m : k = m \/ (k \in 1..(m - 1) /\ k \in 0..(m - 1))
      OBVIOUS
    <3>4. \A k \in 1..m : k - 1 \in 0..(m - 1)
      OBVIOUS
    <3>5. 0 \in 0..(m - 1)
      OBVIOUS
    <3> QED
      BY <2>1, <3>1, <3>2, <3>3, <3>4, <3>5 DEF Joins
  <2>3. Upto(g, m)
    BY <2>2
  <2> HIDE DEF g, Upto
  <2> QED
    BY <2>3
<1>3. n \in K
  <2> HIDE DEF K
  <2>1. \A k \in 0..n : k \in K
    BY <1>1, <1>2, UpTo
  <2> QED
    BY <2>1
<1> QED
  BY <1>3

LEMMA SeqJoin == ASSUME NEW X, NEW s \in Seq(X), NEW t \in Seq(X) PROVE s \o t \in Seq(X)
OBVIOUS

LEMMA Flattened ==
  ASSUME NEW X, NEW blocks \in Seq(Seq(X))
  PROVE  \E f : /\ Joins(f, blocks, Len(blocks))
                /\ \A k \in 0..Len(blocks) : f[k] \in Seq(X)
                /\ FlattenSeq(blocks) = f[Len(blocks)]
<1> DEFINE n == Len(blocks)
           Iter(f) == f = [i \in 1..n |-> IF i = 1 THEN blocks[i] ELSE f[i - 1] \o blocks[i]]
           F == CHOOSE f : Iter(f)
           h == [k \in 0..n |-> IF k = 0 THEN <<>> ELSE F[k]]
<1>1. n \in Nat /\ \A k \in 1..n : blocks[k] \in Seq(X)
  OBVIOUS
<1>2. FlattenSeq(blocks) = IF n = 0 THEN blocks ELSE F[n]
  BY DEF FlattenSeq
<1>3. \E f : Iter(f)
  <2>1. PICK g : g = [k \in 0..n |-> g[k]] /\ Joins(g, blocks, n)
    BY <1>1, JoinTable
  <2> DEFINE f == [i \in 1..n |-> g[i]]
  <2>2. ASSUME NEW i \in 1..n PROVE f[i] = IF i = 1 THEN blocks[i] ELSE f[i - 1] \o blocks[i]
    <3>1. g[i] = g[i - 1] \o blocks[i] /\ g[0] = <<>>
      BY <2>1 DEF Joins
    <3>2. <<>> \o blocks[i] = blocks[i]
      BY <1>1
    <3>3. CASE i = 1
      <4>1. i - 1 = 0
        BY <3>3
      <4>2. g[i] = blocks[i]
        BY <3>1, <3>2, <4>1, Zenon
      <4> QED
        BY <3>3, <4>2
    <3>4. CASE i # 1
      <4>1. i - 1 \in 1..n
        BY <1>1, <3>4
      <4> QED
        BY <3>1, <3>4, <4>1
    <3> QED
      BY <3>3, <3>4
  <2>3. Iter(f)
    BY <2>2
  <2> HIDE DEF f, Iter
  <2> QED
    BY <2>3
<1>4. Iter(F)
  <2> HIDE DEF Iter
  <2> QED
    BY <1>3
<1> HIDE DEF F
<1>5. ASSUME NEW k \in 1..n PROVE h[k] = h[k - 1] \o blocks[k]
  <2>1. F[k] = IF k = 1 THEN blocks[k] ELSE F[k - 1] \o blocks[k]
    BY <1>4
  <2>2. <<>> \o blocks[k] = blocks[k]
    BY <1>1
  <2>3. k \in 0..n /\ k - 1 \in 0..n /\ k # 0 /\ (k - 1 = 0 <=> k = 1)
    BY <1>1
  <2> QED
    BY <2>1, <2>2, <2>3
<1>6. h[0] = <<>>
  BY <1>1
<1>7. FlattenSeq(blocks) = h[n]
  <2>1. CASE n = 0
    BY <1>2, <1>6, <2>1
  <2>2. CASE n # 0
    BY <1>1, <1>2, <2>2
  <2> QED
    BY <2>1, <2>2
<1> HIDE DEF h
<1>8. \A k \in 0..n : h[k] \in Seq(X)
  <2> DEFINE K == {k \in 0..n : h[k] \in Seq(X)}
  <2>1. 0 \in K
    <3>1. <<>> \in Seq(X) /\ 0 \in 0..n
      BY <1>1
    <3> QED
      BY <1>6, <3>1
  <2>2. ASSUME NEW k \in 1..n, k - 1 \in K PROVE k \in K
    <3>1. h[k - 1] \in Seq(X) /\ blocks[k] \in Seq(X) /\ k \in 0..n
      BY <1>1, <2>2
    <3>2. h[k - 1] \o blocks[k] \in Seq(X)
      BY <3>1, SeqJoin
    <3> QED
      BY <1>5, <3>1, <3>2
  <2>3. \A k \in 0..n : k \in K
    <3> HIDE DEF K
    <3> QED
      BY <1>1, <2>1, <2>2, UpTo
  <2> QED
    BY <2>3
<1> QED
  BY <1>5, <1>6, <1>7, <1>8 DEF Joins

(* The lines of the text, and its blocks.                                  *)
Values == Sockets \union Processes \union (1..LastPid) \union {NONE, "TCP", "UDP", "ESTABLISHED", "CLOSE_WAIT", "LISTEN"}
Lines == {Field(tag, value) : tag \in {"p", "c", "f", "P", "n", "T"}, value \in Values}

LEMMA ReadsBlocks ==
  ASSUME NEW acc, NEW blocks \in Seq(Seq(Lines))
  PROVE  \E h : /\ h[0] = acc
                /\ \A k \in 1..Len(blocks) : h[k] = Reads(h[k - 1], blocks[k])
                /\ Reads(acc, FlattenSeq(blocks)) = h[Len(blocks)]
<1>1. PICK f : /\ Joins(f, blocks, Len(blocks))
               /\ \A k \in 0..Len(blocks) : f[k] \in Seq(Lines)
               /\ FlattenSeq(blocks) = f[Len(blocks)]
  BY Flattened
<1> DEFINE n == Len(blocks)
           h == [k \in 0..n |-> Reads(acc, f[k])]
<1>2. n \in Nat /\ \A k \in 1..n : blocks[k] \in Seq(Lines)
  OBVIOUS
<1>3. h[0] = acc
  BY <1>1, <1>2, ReadsNothing DEF Joins
<1>4. ASSUME NEW k \in 1..n PROVE h[k] = Reads(h[k - 1], blocks[k])
  <2>1. k \in 0..n /\ k - 1 \in 0..n
    BY <1>2
  <2>2. f[k] = f[k - 1] \o blocks[k] /\ f[k - 1] \in Seq(Lines) /\ blocks[k] \in Seq(Lines)
    BY <1>1, <1>2, <2>1 DEF Joins
  <2>3. Reads(acc, f[k]) = Reads(Reads(acc, f[k - 1]), blocks[k])
    BY <2>2, ReadsJoined
  <2> QED
    BY <2>1, <2>3
<1>5. Reads(acc, FlattenSeq(blocks)) = h[n]
  BY <1>1, <1>2
<1> HIDE DEF h
<1> QED
  BY <1>3, <1>4, <1>5
-----------------------------------------------------------------------------
(* What one field, one socket and one process of the text do.              *)
Reader(pid, cmd, proto, name, state, out) ==
  [pid |-> pid, cmd |-> cmd, open |-> TRUE, proto |-> proto, name |-> name, state |-> state, out |-> out]

(* The sockets that become rows.                                           *)
Lists(s) == Egress(s) /\ (s \in Udp \/ status[s] = "established")

LEMMA ReadsFour ==
  ASSUME NEW acc, NEW X, NEW text \in Seq(X), Len(text) = 4
  PROVE  Reads(acc, text) =
           ReadField(ReadField(ReadField(ReadField(acc, text[1]), text[2]), text[3]), text[4])
<1>1. PICK h : Reading(h, acc, text) /\ Reads(acc, text) = h[4]
  BY ReadsInOrder
<1>2. h[0] = acc /\ \A k \in 1..4 : h[k] = ReadField(h[k - 1], text[k])
  BY <1>1 DEF Reading
<1>3. /\ h[1] = ReadField(h[0], text[1]) /\ h[2] = ReadField(h[1], text[2])
      /\ h[3] = ReadField(h[2], text[3]) /\ h[4] = ReadField(h[3], text[4])
  <2>1. 1 - 1 = 0 /\ 2 - 1 = 1 /\ 3 - 1 = 2 /\ 4 - 1 = 3
    OBVIOUS
  <2>2. 1 \in 1..4 /\ 2 \in 1..4 /\ 3 \in 1..4 /\ 4 \in 1..4
    OBVIOUS
  <2> QED
    BY <1>2, <2>1, <2>2, Zenon
<1> QED
  BY <1>1, <1>2, <1>3, Zenon

LEMMA ReadsThree ==
  ASSUME NEW acc, NEW X, NEW text \in Seq(X), Len(text) = 3
  PROVE  Reads(acc, text) = ReadField(ReadField(ReadField(acc, text[1]), text[2]), text[3])
<1>1. PICK h : Reading(h, acc, text) /\ Reads(acc, text) = h[3]
  BY ReadsInOrder
<1>2. h[0] = acc /\ \A k \in 1..3 : h[k] = ReadField(h[k - 1], text[k])
  BY <1>1 DEF Reading
<1>3. /\ h[1] = ReadField(h[0], text[1]) /\ h[2] = ReadField(h[1], text[2])
      /\ h[3] = ReadField(h[2], text[3])
  <2>1. 1 - 1 = 0 /\ 2 - 1 = 1 /\ 3 - 1 = 2
    OBVIOUS
  <2>2. 1 \in 1..3 /\ 2 \in 1..3 /\ 3 \in 1..3
    OBVIOUS
  <2> QED
    BY <1>2, <2>1, <2>2, Zenon
<1> QED
  BY <1>1, <1>2, <1>3, Zenon

LEMMA ReadsTwo ==
  ASSUME NEW acc, NEW X, NEW text \in Seq(X), Len(text) = 2
  PROVE  Reads(acc, text) = ReadField(ReadField(acc, text[1]), text[2])
<1>1. PICK h : Reading(h, acc, text) /\ Reads(acc, text) = h[2]
  BY ReadsInOrder
<1>2. h[0] = acc /\ \A k \in 1..2 : h[k] = ReadField(h[k - 1], text[k])
  BY <1>1 DEF Reading
<1>3. h[1] = ReadField(h[0], text[1]) /\ h[2] = ReadField(h[1], text[2])
  <2>1. 1 - 1 = 0 /\ 2 - 1 = 1
    OBVIOUS
  <2>2. 1 \in 1..2 /\ 2 \in 1..2
    OBVIOUS
  <2> QED
    BY <1>2, <2>1, <2>2, Zenon
<1> QED
  BY <1>1, <1>2, <1>3, Zenon

LEMMA FieldsOfSocket ==
  ASSUME NEW acc, NEW proto, NEW name, NEW state
  PROVE  LET r1 == ReadField(acc, Field("f", NONE))
             r2 == ReadField(r1, Field("P", proto))
             r3 == ReadField(r2, Field("n", name))
             r4 == ReadField(r3, Field("T", state))
         IN /\ r3 = Reader(acc.pid, acc.cmd, proto, name, NONE, Flush(acc))
            /\ r4 = Reader(acc.pid, acc.cmd, proto, name, state, Flush(acc))
<1> DEFINE r1 == ReadField(acc, Field("f", NONE))
           r2 == ReadField(r1, Field("P", proto))
           r3 == ReadField(r2, Field("n", name))
           r4 == ReadField(r3, Field("T", state))
           out == Flush(acc)
<1>1. r1 = Reader(acc.pid, acc.cmd, NONE, NONE, NONE, out)
  <2> HIDE DEF out
  <2>1. r1 = Cleared(acc.pid, acc.cmd, TRUE, Flush(acc))
    BY DEF ReadField, Field
  <2> QED
    BY <2>1 DEF Cleared, Reader, out
<1> HIDE DEF r1, out
<1>2. r2 = Reader(acc.pid, acc.cmd, proto, NONE, NONE, out)
  BY <1>1 DEF ReadField, Field, Reader
<1> HIDE DEF r2
<1>3. r3 = Reader(acc.pid, acc.cmd, proto, name, NONE, out)
  BY <1>2 DEF ReadField, Field, Reader
<1> HIDE DEF r3
<1>4. r4 = Reader(acc.pid, acc.cmd, proto, name, state, out)
  BY <1>3 DEF ReadField, Field, Reader
<1> QED
  BY <1>3, <1>4 DEF r1, r2, r3, out

LEMMA LinesOfSocket ==
  ASSUME NEW s \in Sockets
  PROVE  LsofSocket(s) \in Seq(Lines)
<1>1. /\ Field("f", NONE) \in Lines /\ Field("n", s) \in Lines
      /\ Field("P", "UDP") \in Lines /\ Field("P", "TCP") \in Lines
      /\ Field("T", "ESTABLISHED") \in Lines /\ Field("T", "CLOSE_WAIT") \in Lines
  BY DEF Lines, Values
<1>2. CASE s \in Udp
  <2>1. LsofSocket(s) = <<Field("f", NONE), Field("P", "UDP"), Field("n", s)>> \o <<>>
    BY <1>2 DEF LsofSocket
  <2> QED
    BY <1>1, <2>1
<1>3. CASE s \notin Udp
  <2>1. PICK state \in {"ESTABLISHED", "CLOSE_WAIT"} :
          LsofSocket(s) = <<Field("f", NONE), Field("P", "TCP"), Field("n", s)>> \o <<Field("T", state)>>
    BY <1>3 DEF LsofSocket
  <2>2. Field("T", state) \in Lines
    BY <1>1
  <2> QED
    BY <1>1, <2>1, <2>2
<1> QED
  BY <1>2, <1>3

LEMMA SocketRead ==
  ASSUME NEW acc, NEW s \in Sockets
  PROVE  LET r == Reads(acc, LsofSocket(s)) IN
         /\ r.pid = acc.pid /\ r.cmd = acc.cmd
         /\ Flush(r) = IF Lists(s) THEN Append(Flush(acc), Row(s, acc.pid, acc.cmd)) ELSE Flush(acc)
<1> DEFINE r == Reads(acc, LsofSocket(s))
           pid == acc.pid
           cmd == acc.cmd
           out == Flush(acc)
           text == LsofSocket(s)
<1>1. text \in Seq(Lines) /\ s # NONE
  BY LinesOfSocket, NothingIsNone
<1>2. CASE s \in Udp
  <2>1. text = <<Field("f", NONE), Field("P", "UDP"), Field("n", s)>> \o <<>>
    BY <1>2 DEF LsofSocket
  <2>2. Len(text) = 3 /\ text[1] = Field("f", NONE) /\ text[2] = Field("P", "UDP") /\ text[3] = Field("n", s)
    BY <2>1
  <2> HIDE DEF text
  <2>3. Reads(acc, text) = ReadField(ReadField(ReadField(acc, text[1]), text[2]), text[3])
    BY <1>1, <2>2, ReadsThree
  <2>4. Reads(acc, text) = Reader(pid, cmd, "UDP", s, NONE, out)
    BY <2>2, <2>3, FieldsOfSocket
  <2>5. Flush(Reader(pid, cmd, "UDP", s, NONE, out)) = IF Egress(s) THEN Append(out, Row(s, pid, cmd)) ELSE out
    <3> HIDE DEF out, pid, cmd
    <3> QED
      BY <1>1 DEF Flush, Reader
  <2>6. r = Reader(pid, cmd, "UDP", s, NONE, out)
    BY <2>4 DEF text
  <2> QED
    BY <1>2, <2>5, <2>6 DEF Lists, Reader
<1>3. CASE s \notin Udp
  <2> DEFINE state == IF status[s] = "established" THEN "ESTABLISHED" ELSE "CLOSE_WAIT"
  <2>1. text = <<Field("f", NONE), Field("P", "TCP"), Field("n", s)>> \o <<Field("T", state)>>
    BY <1>3 DEF LsofSocket
  <2>2. /\ Len(text) = 4 /\ text[1] = Field("f", NONE) /\ text[2] = Field("P", "TCP")
        /\ text[3] = Field("n", s) /\ text[4] = Field("T", state)
    <3> HIDE DEF state
    <3> QED
      BY <2>1
  <2> HIDE DEF text, state
  <2>3. Reads(acc, text) =
          ReadField(ReadField(ReadField(ReadField(acc, text[1]), text[2]), text[3]), text[4])
    BY <1>1, <2>2, ReadsFour
  <2>4. Reads(acc, text) = Reader(pid, cmd, "TCP", s, state, out)
    BY <2>2, <2>3, FieldsOfSocket
  <2>5. Flush(Reader(pid, cmd, "TCP", s, state, out)) =
          IF state \in {NONE, "ESTABLISHED"} /\ Egress(s) THEN Append(out, Row(s, pid, cmd)) ELSE out
    <3> HIDE DEF out, pid, cmd
    <3> QED
      BY <1>1 DEF Flush, Reader
  <2>6. state \in {NONE, "ESTABLISHED"} <=> status[s] = "established"
    BY NothingIsNone DEF state
  <2>7. r = Reader(pid, cmd, "TCP", s, state, out)
    BY <2>4 DEF text
  <2> QED
    BY <1>3, <2>5, <2>6, <2>7 DEF Lists, Reader
<1> QED
  BY <1>2, <1>3

(* The fields before its sockets say which process it is, and no more.     *)
Heading(p) == <<Field("p", PidOf[p]), Field("c", p)>> \o Listener

LEMMA LinesOfHeading ==
  ASSUME NEW p \in Processes
  PROVE  /\ <<Field("p", PidOf[p]), Field("c", p)>> \in Seq(Lines)
         /\ Listener \in Seq(Lines)
<1>1. PidOf[p] \in Values /\ p \in Values
  BY HostsAssumption DEF Values
<1>2. /\ Field("p", PidOf[p]) \in Lines /\ Field("c", p) \in Lines
      /\ Field("f", NONE) \in Lines /\ Field("P", "TCP") \in Lines
      /\ Field("n", NONE) \in Lines /\ Field("T", "LISTEN") \in Lines
  BY <1>1 DEF Lines, Values
<1> QED
  BY <1>2 DEF Listener

LEMMA HeadingRead ==
  ASSUME NEW acc, NEW p \in Processes
  PROVE  LET r == Reads(acc, Heading(p)) IN
         r.pid = PidOf[p] /\ r.cmd = p /\ Flush(r) = Flush(acc)
<1> DEFINE r == Reads(acc, Heading(p))
           out == Flush(acc)
           who == <<Field("p", PidOf[p]), Field("c", p)>>
           pid == PidOf[p]
<1>1. who \in Seq(Lines) /\ Listener \in Seq(Lines)
  BY LinesOfHeading
<1>2. Len(who) = 2 /\ who[1] = Field("p", pid) /\ who[2] = Field("c", p)
  OBVIOUS
<1>3. /\ Len(Listener) = 4 /\ Listener[1] = Field("f", NONE) /\ Listener[2] = Field("P", "TCP")
      /\ Listener[3] = Field("n", NONE) /\ Listener[4] = Field("T", "LISTEN")
  BY DEF Listener
<1>4. r = Reads(Reads(acc, who), Listener)
  <2>1. r = Reads(acc, who \o Listener)
    BY DEF Heading
  <2> HIDE DEF who, r
  <2> QED
    BY <1>1, <2>1, ReadsJoined
<1> HIDE DEF who, r, pid
<1> DEFINE a == Reads(acc, who)
<1>5. a.pid = pid /\ a.cmd = p /\ Flush(a) = out
  <2>1. a = ReadField(ReadField(acc, who[1]), who[2])
    BY <1>1, <1>2, ReadsTwo
  <2>2. a = [Cleared(pid, NONE, FALSE, out) EXCEPT !.cmd = p]
    BY <1>2, <2>1 DEF ReadField, Field
  <2> HIDE DEF a, out
  <2> QED
    BY <2>2 DEF Cleared, Flush
<1> HIDE DEF a
<1>6. Reads(a, Listener) = Reader(pid, p, "TCP", NONE, "LISTEN", out)
  <2>1. Reads(a, Listener) =
          ReadField(ReadField(ReadField(ReadField(a, Listener[1]), Listener[2]), Listener[3]), Listener[4])
    BY <1>1, <1>3, ReadsFour
  <2> QED
    BY <1>3, <1>5, <2>1, FieldsOfSocket
<1>7. r = Reader(pid, p, "TCP", NONE, "LISTEN", out)
  BY <1>4, <1>6 DEF a
<1>8. Flush(Reader(pid, p, "TCP", NONE, "LISTEN", out)) = out
  BY DEF Flush, Reader
<1> QED
  BY <1>7, <1>8 DEF r, pid, Reader

LEMMA Appended ==
  ASSUME NEW X, NEW s \in Seq(X), NEW x \in X
  PROVE  Append(s, x) \in Seq(X) /\ ToSet(Append(s, x)) = ToSet(s) \union {x}
<1>1. /\ Append(s, x) \in Seq(X) /\ Len(s) \in Nat
      /\ DOMAIN Append(s, x) = 1..(Len(s) + 1) /\ DOMAIN s = 1..Len(s)
      /\ Append(s, x)[Len(s) + 1] = x
      /\ \A i \in 1..Len(s) : Append(s, x)[i] = s[i]
  OBVIOUS
<1>2. 1..(Len(s) + 1) = (1..Len(s)) \union {Len(s) + 1}
  BY <1>1
<1> QED
  BY <1>1, <1>2 DEF ToSet

(* The rows of a process are those of the sockets it holds.                *)
HeldBy(p) == {s \in Sockets : InUse(s) /\ p \in Holders(s)}
RowsOfProcess(p) == {Row(s, PidOf[p], p) : s \in {t \in HeldBy(p) : Lists(t)}}

LEMMA RowOfProcess ==
  ASSUME NEW p \in Processes, NEW s \in Sockets
  PROVE  Row(s, PidOf[p], p) \in Connections
BY HostsAssumption DEF Row, Connections

LEMMA ProcessText ==
  ASSUME NEW p \in Processes
  PROVE  LET held == SetToSeq(HeldBy(p))
             blocks == [i \in DOMAIN held |-> LsofSocket(held[i])]
         IN /\ held \in Seq(HeldBy(p)) /\ \A s \in HeldBy(p) : \E i \in DOMAIN held : held[i] = s
            /\ blocks \in Seq(Seq(Lines)) /\ Len(blocks) = Len(held)
            /\ LsofProcess(p) = Heading(p) \o FlattenSeq(blocks)
            /\ Heading(p) \in Seq(Lines) /\ FlattenSeq(blocks) \in Seq(Lines)
            /\ LsofProcess(p) \in Seq(Lines)
<1> DEFINE held == SetToSeq(HeldBy(p))
           blocks == [i \in DOMAIN held |-> LsofSocket(held[i])]
<1>1. held \in Seq(HeldBy(p)) /\ \A s \in HeldBy(p) : \E i \in DOMAIN held : held[i] = s
  <2>1. IsFiniteSet(HeldBy(p))
    BY HostsAssumption, FS_Subset DEF HeldBy
  <2> QED
    BY <2>1, Enumerated
<1>2. LsofProcess(p) = Heading(p) \o FlattenSeq(blocks)
  BY DEF LsofProcess, Heading, HeldBy
<1> HIDE DEF held
<1>3. Len(held) \in Nat /\ DOMAIN held = 1..Len(held) /\ \A i \in DOMAIN held : held[i] \in Sockets
  BY <1>1 DEF HeldBy
<1>4. \A i \in DOMAIN held : LsofSocket(held[i]) \in Seq(Lines)
  BY <1>3, LinesOfSocket
<1>5. blocks \in Seq(Seq(Lines)) /\ Len(blocks) = Len(held)
  <2>1. blocks = [i \in 1..Len(held) |-> LsofSocket(held[i])]
    BY <1>3
  <2> HIDE DEF blocks
  <2> DEFINE T == Seq(Lines)
  <2>2. blocks \in [1..Len(held) -> T]
    BY <1>3, <1>4, <2>1
  <2> HIDE DEF T
  <2>3. blocks \in Seq(T) /\ Len(blocks) = Len(held)
    BY <1>3, <2>2
  <2> QED
    BY <2>3 DEF T
<1> HIDE DEF blocks
<1>6. FlattenSeq(blocks) \in Seq(Lines)
  <2>1. PICK f : /\ \A k \in 0..Len(blocks) : f[k] \in Seq(Lines)
                 /\ FlattenSeq(blocks) = f[Len(blocks)]
    BY <1>5, Flattened
  <2>2. Len(blocks) \in 0..Len(blocks)
    BY <1>3, <1>5
  <2> QED
    BY <2>1, <2>2
<1>7. Heading(p) \in Seq(Lines)
  BY LinesOfHeading, SeqJoin DEF Heading
<1>8. LsofProcess(p) \in Seq(Lines)
  BY <1>2, <1>6, <1>7, SeqJoin
<1> QED
  BY <1>1, <1>2, <1>5, <1>6, <1>7, <1>8 DEF held, blocks

LEMMA ProcessRead ==
  ASSUME NEW acc, NEW p \in Processes, Flush(acc) \in Seq(Connections)
  PROVE  LET r == Reads(acc, LsofProcess(p)) IN
         /\ Flush(r) \in Seq(Connections)
         /\ ToSet(Flush(r)) = ToSet(Flush(acc)) \union RowsOfProcess(p)
<1> DEFINE r == Reads(acc, LsofProcess(p))
           held == SetToSeq(HeldBy(p))
           blocks == [i \in DOMAIN held |-> LsofSocket(held[i])]
           a == Reads(acc, Heading(p))
           row(s) == Row(s, PidOf[p], p)
<1>1. /\ held \in Seq(HeldBy(p)) /\ \A s \in HeldBy(p) : \E i \in DOMAIN held : held[i] = s
      /\ blocks \in Seq(Seq(Lines)) /\ Len(blocks) = Len(held)
      /\ LsofProcess(p) = Heading(p) \o FlattenSeq(blocks)
      /\ Heading(p) \in Seq(Lines) /\ FlattenSeq(blocks) \in Seq(Lines)
  BY ProcessText
<1>2. \A i \in DOMAIN held : blocks[i] = LsofSocket(held[i])
  OBVIOUS
<1>3. a.pid = PidOf[p] /\ a.cmd = p /\ Flush(a) = Flush(acc)
  BY HeadingRead
<1> HIDE DEF held, blocks, a
<1>4. r = Reads(a, FlattenSeq(blocks))
  BY <1>1, ReadsJoined DEF a
<1> HIDE DEF r
<1>5. PICK h : /\ h[0] = a
               /\ \A k \in 1..Len(blocks) : h[k] = Reads(h[k - 1], blocks[k])
               /\ r = h[Len(blocks)]
  <2>1. \E h : /\ h[0] = a
               /\ \A k \in 1..Len(blocks) : h[k] = Reads(h[k - 1], blocks[k])
               /\ Reads(a, FlattenSeq(blocks)) = h[Len(blocks)]
    <3>1. blocks \in Seq(Seq(Lines))
      BY <1>1
    <3> QED
      BY <3>1, ReadsBlocks
  <2> QED
    BY <1>4, <2>1
<1> DEFINE n == Len(held)
           told(k) == {row(held[i]) : i \in {j \in 1..k : Lists(held[j])}}
           K == {k \in 0..n : /\ h[k].pid = PidOf[p] /\ h[k].cmd = p
                              /\ Flush(h[k]) \in Seq(Connections)
                              /\ ToSet(Flush(h[k])) = ToSet(Flush(acc)) \union told(k)}
<1>6. n \in Nat /\ DOMAIN held = 1..n /\ \A i \in 1..n : held[i] \in Sockets
  BY <1>1 DEF HeldBy
<1>7. 0 \in K
  <2>1. told(0) = {}
    OBVIOUS
  <2> HIDE DEF told
  <2> QED
    BY <1>3, <1>5, <1>6, <2>1
<1>8. ASSUME NEW k \in 1..n, k - 1 \in K PROVE k \in K
  <2> DEFINE b == h[k - 1]
             s == held[k]
  <2>1. h[k] = Reads(b, LsofSocket(s)) /\ s \in Sockets
    BY <1>1, <1>2, <1>5, <1>6
  <2>2. /\ b.pid = PidOf[p] /\ b.cmd = p /\ Flush(b) \in Seq(Connections)
        /\ ToSet(Flush(b)) = ToSet(Flush(acc)) \union told(k - 1)
    BY <1>8
  <2> HIDE DEF b, s
  <2>3. /\ h[k].pid = PidOf[p] /\ h[k].cmd = p
        /\ Flush(h[k]) = IF Lists(s) THEN Append(Flush(b), row(s)) ELSE Flush(b)
    BY <2>1, <2>2, SocketRead
  <2>4. told(k) = IF Lists(s) THEN told(k - 1) \union {row(s)} ELSE told(k - 1)
    <3>1. 1..k = (1..(k - 1)) \union {k}
      BY <1>6
    <3> HIDE DEF row
    <3> QED
      BY <3>1 DEF s
  <2>5. row(s) \in Connections
    BY <2>1, RowOfProcess
  <2> HIDE DEF told, row
  <2>6. Flush(h[k]) \in Seq(Connections) /\ ToSet(Flush(h[k])) = ToSet(Flush(acc)) \union told(k)
    <3>1. CASE Lists(s)
      <4>1. /\ Append(Flush(b), row(s)) \in Seq(Connections)
            /\ ToSet(Append(Flush(b), row(s))) = ToSet(Flush(b)) \union {row(s)}
        BY <2>2, <2>5, Appended
      <4> QED
        BY <2>2, <2>3, <2>4, <3>1, <4>1
    <3>2. CASE ~ Lists(s)
      BY <2>2, <2>3, <2>4, <3>2
    <3> QED
      BY <3>1, <3>2
  <2>7. k \in 0..n
    BY <1>6
  <2> QED
    BY <2>3, <2>6, <2>7
<1>9. n \in K
  <2> HIDE DEF K, n
  <2>1. \A k \in 0..n : k \in K
    BY <1>6, <1>7, <1>8, UpTo
  <2> QED
    BY <1>6, <2>1
<1>10. told(n) = RowsOfProcess(p)
  <2>1. {held[i] : i \in {j \in 1..n : Lists(held[j])}} = {t \in HeldBy(p) : Lists(t)}
    BY <1>1, <1>6
  <2>2. told(n) = {row(s) : s \in {held[i] : i \in {j \in 1..n : Lists(held[j])}}}
    <3> HIDE DEF row
    <3> QED
      OBVIOUS
  <2> HIDE DEF told
  <2> QED
    BY <2>1, <2>2 DEF RowsOfProcess
<1>11. r = h[n]
  BY <1>1, <1>5
<1> QED
  BY <1>9, <1>10, <1>11 DEF r

(* The processes lsof may look into: one to a process id, so finitely many.*)
Shown == {p \in Processes : Running(p) /\ p \notin Hidden}

LEMMA ShownIsFinite ==
  ASSUME \A p, q \in Processes : p # q /\ Running(p) /\ Running(q) => PidOf[p] # PidOf[q]
  PROVE  IsFiniteSet(Shown)
<1> DEFINE f == [p \in Shown |-> PidOf[p]]
<1>1. f \in Injection(Shown, 1..LastPid)
  <2>1. f \in [Shown -> 1..LastPid]
    BY HostsAssumption DEF Shown
  <2>2. \A p, q \in Shown : f[p] = f[q] => p = q
    BY DEF Shown
  <2> HIDE DEF f
  <2> QED
    BY <2>1, <2>2 DEF Injection, IsInjective
<1>2. IsFiniteSet(1..LastPid)
  BY HostsAssumption, FS_Interval
<1> HIDE DEF f
<1> QED
  BY <1>1, <1>2, FS_Injection

(* parse_lsof makes of lsof's text exactly the rows of the connections that *)
(* the visible processes hold, each under its process, whatever the number *)
(* and the order of both.                                                  *)
THEOREM LsofRows ==
  ASSUME \A p, q \in Processes : p # q /\ Running(p) /\ Running(q) => PidOf[p] # PidOf[q]
  PROVE  /\ ParseLsof(LsofText) \in Seq(Connections)
         /\ ToSet(ParseLsof(LsofText)) = UNION {RowsOfProcess(p) : p \in Shown}
<1> DEFINE shown == SetToSeq(Shown)
           blocks == [i \in DOMAIN shown |-> LsofProcess(shown[i])]
           start == Cleared(NONE, NONE, FALSE, <<>>)
           n == Len(shown)
<1>1. shown \in Seq(Shown) /\ \A p \in Shown : \E i \in DOMAIN shown : shown[i] = p
  BY ShownIsFinite, Enumerated
<1>2. ParseLsof(LsofText) = Flush(Reads(start, FlattenSeq(blocks)))
  BY DEF ParseLsof, LsofText, Reads, Shown
<1>3. Flush(start) = <<>>
  BY DEF Flush, Cleared
<1> HIDE DEF shown, start
<1>4. n \in Nat /\ DOMAIN shown = 1..n /\ \A i \in 1..n : shown[i] \in Processes
  BY <1>1 DEF Shown
<1>5. \A i \in 1..n : blocks[i] = LsofProcess(shown[i])
  BY <1>4
<1>6. blocks \in Seq(Seq(Lines)) /\ Len(blocks) = n
  <2> DEFINE T == Seq(Lines)
  <2>1. \A i \in 1..n : LsofProcess(shown[i]) \in T
    BY <1>4, ProcessText
  <2>2. blocks = [i \in 1..n |-> LsofProcess(shown[i])]
    BY <1>4
  <2> HIDE DEF T, blocks
  <2>3. blocks \in [1..n -> T]
    BY <2>1, <2>2
  <2> HIDE DEF n
  <2>4. blocks \in Seq(T) /\ Len(blocks) = n
    BY <1>4, <2>3
  <2> QED
    BY <2>4 DEF T
<1> HIDE DEF blocks, n
<1>7. PICK h : /\ h[0] = start
               /\ \A k \in 1..Len(blocks) : h[k] = Reads(h[k - 1], blocks[k])
               /\ Reads(start, FlattenSeq(blocks)) = h[Len(blocks)]
  BY <1>6, ReadsBlocks
<1> DEFINE told(k) == UNION {RowsOfProcess(shown[i]) : i \in 1..k}
           K == {k \in 0..n : Flush(h[k]) \in Seq(Connections) /\ ToSet(Flush(h[k])) = told(k)}
<1>8. 0 \in K
  <2>1. told(0) = {} /\ <<>> \in Seq(Connections) /\ ToSet(<<>>) = {} /\ 0 \in 0..n
    BY <1>4 DEF ToSet
  <2> HIDE DEF told
  <2> QED
    BY <1>3, <1>7, <2>1
<1>9. ASSUME NEW k \in 1..n, k - 1 \in K PROVE k \in K
  <2> DEFINE b == h[k - 1]
             p == shown[k]
  <2>1. h[k] = Reads(b, LsofProcess(p)) /\ p \in Processes
    BY <1>4, <1>5, <1>6, <1>7
  <2>2. Flush(b) \in Seq(Connections) /\ ToSet(Flush(b)) = told(k - 1)
    BY <1>9
  <2>3. told(k) = told(k - 1) \union RowsOfProcess(p)
    <3>1. 1..k = (1..(k - 1)) \union {k}
      BY <1>4
    <3> QED
      BY <3>1
  <2> HIDE DEF b, p, told
  <2>4. /\ Flush(h[k]) \in Seq(Connections)
        /\ ToSet(Flush(h[k])) = ToSet(Flush(b)) \union RowsOfProcess(p)
    BY <2>1, <2>2, ProcessRead
  <2>5. k \in 0..n
    BY <1>4
  <2> QED
    BY <2>2, <2>3, <2>4, <2>5
<1>10. n \in K
  <2> HIDE DEF K
  <2>1. \A k \in 0..n : k \in K
    BY <1>4, <1>8, <1>9, UpTo
  <2> QED
    BY <1>4, <2>1
<1>11. told(n) = UNION {RowsOfProcess(p) : p \in Shown}
  BY <1>1, <1>4
<1> HIDE DEF told
<1> QED
  BY <1>2, <1>6, <1>7, <1>10, <1>11

(* The rows of one process are right, and what stands is among them.       *)
LEMMA RowsOfProcessAreRight ==
  ASSUME platform = "macos", HostTyped, HostInv, HostInv', UNCHANGED <<status, alive, platform>>,
         NEW p \in Shown, NEW r \in RowsOfProcess(p)
  PROVE  Right(r)'
<1>1. PICK s \in Sockets : InUse(s) /\ p \in Holders(s) /\ Lists(s) /\ r = Row(s, PidOf[p], p)
  BY DEF RowsOfProcess, HeldBy
<1>2. /\ r.of = s /\ r.pid = PidOf[p] /\ r.process = p /\ r.total = NONE /\ r.sent = NONE
      /\ r.provider = NONE /\ r.shadow = FALSE
  BY <1>1 DEF Row
<1>3. p \in Processes /\ Running(p) /\ p \in HoldersOf[s] /\ PidOf[p] # NONE
  BY <1>1, HostsAssumption, NothingIsNone DEF Holders, Shown
<1>4. status[s] = "established"
  BY <1>1 DEF Lists, HostInv, HostTyped, InUse
<1>5. Seen(s)'
  BY <1>1, <1>4 DEF Seen, HostInv, InUse, Lists, Egress
<1>6. OfHolder(s, PidOf[p])'
  <2>1. \A q \in Processes : Running(q)' /\ PidOf[q] = PidOf[p] => q = p
    BY <1>3 DEF HostInv, Running
  <2> QED
    BY <1>3, <2>1 DEF OfHolder
<1>7. Named(r, p)'
  BY <1>2, <1>3 DEF Named, Running
<1>8. RowInv(r)'
  BY <1>2, <1>3, <1>5, <1>6, <1>7 DEF RowInv
<1>9. Labelled(r)'
  BY <1>2 DEF Labelled
<1> QED
  BY <1>8, <1>9 DEF Right

LEMMA RunLsofKeeps ==
  ASSUME EgressInv, RunLsof
  PROVE  EgressInv'
<1> DEFINE listed == ParseLsof(LsofText)
<1>1. /\ platform = "macos" /\ pc = "idle" /\ pc' = "classify" /\ changed' = {}
      /\ (rows' = listed /\ failed' = {}) \/ (rows' = <<>> /\ failed' = {"lsof"})
      /\ UNCHANGED <<table, fetch, published, network, status, alive, platform, next, owner, bytes, flag>>
  BY DEF RunLsof, Step, cloud, host
<1>2. HostTyped /\ HostTyped' /\ HostInv /\ HostInv'
  BY <1>1, HostStill DEF EgressInv
<1>3. CloudInv' /\ FlagInv'
  BY <1>1, CloudKeeps DEF EgressInv, FlagInv, cloud
<1>4. listed \in Seq(Connections) /\ ToSet(listed) = UNION {RowsOfProcess(p) : p \in Shown}
  BY <1>2, LsofRows DEF HostInv
<1> HIDE DEF listed
<1>5. TypeOK'
  <2>1. failed' \subseteq {"lsof"}
    BY <1>1
  <2>2. rows' \in Seq(Connections)
    <3>1. CASE rows' = listed
      BY <1>4, <3>1
    <3>2. CASE rows' = <<>>
      BY <3>2
    <3> QED
      BY <1>1, <3>1, <3>2
  <2> QED
    BY <1>1, <1>2, <1>3, <2>1, <2>2 DEF EgressInv, TypeOK, HostTyped, CloudInv
<1>6. PlaceInv'
  BY <1>1 DEF EgressInv, PlaceInv
<1>7. RowsInv'
  <2> SUFFICES ASSUME NEW i \in DOMAIN rows' PROVE Right(rows[i])'
    BY DEF RowsInv
  <2>1. PICK r : r = rows'[i]
    OBVIOUS
  <2>2. PICK p \in Shown : r \in RowsOfProcess(p)
    <3>1. r \in ToSet(listed)
      BY <1>1, <2>1 DEF ToSet
    <3> QED
      BY <1>4, <3>1
  <2>3. (Right(r))'
    BY <1>1, <1>2, <2>2, RowsOfProcessAreRight
  <2> QED
    BY <2>1, <2>3
<1>8. owner = <<>> /\ bytes = <<>>
  BY <1>1 DEF EgressInv, PlaceInv
<1>9. OwnerInv' /\ ScanInv' /\ BytesInv'
  BY <1>1, <1>8 DEF OwnerInv, ScanInv, BytesInv
<1>10. ListInv'
  <2> SUFFICES ASSUME NEW s \in Sockets, Standing(s)', (Visible(s) # {})', "lsof" \notin failed'
               PROVE  \E i \in DOMAIN rows' : rows'[i].of = s
    BY <1>1 DEF ListInv, Covered
  <2>1. status[s] = "established" /\ Egress(s)
    BY <1>1 DEF Standing, Egress
  <2>2. PICK p \in Processes : p \in Holders(s) /\ p \in Shown
    BY <1>1, HostsAssumption DEF Visible, Holders, Shown, Running
  <2>3. s \in HeldBy(p) /\ Lists(s)
    BY <2>1, <2>2 DEF HeldBy, Lists, InUse
  <2> DEFINE r == Row(s, PidOf[p], p)
  <2>4. r.of = s
    BY DEF Row
  <2>5. r \in RowsOfProcess(p)
    BY <2>3 DEF RowsOfProcess
  <2> HIDE DEF r
  <2>6. r \in ToSet(rows')
    BY <1>1, <1>4, <2>2, <2>5
  <2> QED
    BY <2>4, <2>6 DEF ToSet
<1> QED
  BY <1>2, <1>3, <1>5, <1>6, <1>7, <1>9, <1>10 DEF EgressInv

-----------------------------------------------------------------------------
(* The Windows reader.                                                     *)
LEMMA OwnerRowsAreRight ==
  ASSUME platform = "windows",
         HostTyped, HostInv, UNCHANGED <<status, alive, platform>>, changed' \in {changed, {}},
         NEW family \in SUBSET Sockets
  PROVE  /\ OwnerRows(family) \in Seq(Connections)
         /\ \A i \in DOMAIN OwnerRows(family) : (LET r == OwnerRows(family)[i] IN r \in Connections /\ r.provider = NONE)
         /\ \A r \in {OwnerRows(family)[i] : i \in DOMAIN OwnerRows(family)} : Right(r)'
         /\ \A s \in Established(family) : \E i \in DOMAIN OwnerRows(family) : OwnerRows(family)[i].of = s
<1> DEFINE text == OwnerRows(family)
<1>1. /\ text \in Seq(Connections)
      /\ \A i \in DOMAIN text :
           /\ text[i].of \in Established(family) /\ New(text[i])
           /\ text[i].pid = One({PidOf[p] : p \in Holders(text[i].of)})
      /\ \A s \in Established(family) : \E i \in DOMAIN text : text[i].of = s
  BY OwnerRowsOfFamily
<1> HIDE DEF text
<1>2. \A i \in DOMAIN text : text[i] \in Connections /\ text[i].provider = NONE
  <2>1. \A r \in Connections : New(r) => r.provider = NONE
    BY DEF New
  <2>2. \A i \in DOMAIN text : text[i] \in Connections
    BY <1>1
  <2> QED
    BY <1>1, <2>1, <2>2
<1>3. ASSUME NEW r \in Connections, r.of \in Established(family), New(r),
             r.pid = One({PidOf[p] : p \in Holders(r.of)})
      PROVE  Right(r)'
  <2>1. /\ r.of \in Sockets \ Udp /\ status[r.of] = "established" /\ Egress(r.of)
    BY <1>3 DEF Established
  <2>2. Seen(r.of)'
    BY <2>1 DEF HostInv, Seen, InUse, Egress, IsLocal, Canonical
  <2>3. CASE r.pid = NONE
    <3>1. Holders(r.of) = {}
      BY <1>3, <2>1, <2>3, OneOf, HostsAssumption, NothingIsNone DEF Holders
    <3>2. Unseen(r.of)'
      BY <3>1 DEF Unseen, Visible, Holders, Running
    <3> QED
      BY <1>3, <2>2, <2>3, <3>2, NothingIsNone DEF New, Right, RowInv, Labelled, LinuxRow
  <2>4. CASE r.pid # NONE
    <3>1. r.pid \in {PidOf[p] : p \in Holders(r.of)}
      BY <1>3, <2>4, OneOf
    <3>2. PICK p \in HoldersOf[r.of] : Running(p) /\ PidOf[p] = r.pid
      BY <3>1 DEF Holders
    <3>3. p \in Processes /\ \A q \in Processes : Running(q) /\ PidOf[q] = r.pid => q = p
      BY <2>1, <3>2, HostsAssumption DEF HostInv
    <3>4. OfHolder(r.of, r.pid)'
      BY <3>2, <3>3 DEF OfHolder, Running
    <3> QED
      BY <1>3, <2>2, <2>4, <3>4, NothingIsNone DEF New, Right, RowInv, Labelled, LinuxRow
  <2> QED
    BY <2>3, <2>4
<1>4. \A r \in {text[i] : i \in DOMAIN text} : Right(r)'
  BY <1>1, <1>2, <1>3
<1> QED
  BY <1>1, <1>2, <1>4 DEF text

LEMMA ReadTableKeeps ==
  ASSUME EgressInv, ReadTable
  PROVE  EgressInv'
<1>1. /\ platform = "windows" /\ pc = "idle" /\ pc' = "tcp6" /\ changed' = {}
      /\ (rows' = OwnerRows(Sockets \ V6) /\ failed' = {}) \/ (rows' = <<>> /\ failed' = {"tcp"})
      /\ UNCHANGED <<table, fetch, published, network, status, alive, platform, next, owner, bytes, flag>>
  BY DEF ReadTable, Step, cloud, host
<1>2. HostTyped /\ HostTyped' /\ HostInv /\ HostInv'
  BY <1>1, HostStill DEF EgressInv
<1>3. CloudInv' /\ FlagInv'
  BY <1>1, CloudKeeps DEF EgressInv, FlagInv, cloud
<1>4. /\ rows' \in Seq(Connections)
      /\ \A i \in DOMAIN rows' : rows'[i].provider = NONE
      /\ \A r \in {rows'[i] : i \in DOMAIN rows'} : Right(r)'
      /\ "tcp" \notin failed' => \A s \in Established(Sockets \ V6) : \E i \in DOMAIN rows' : rows'[i].of = s
  <2>1. CASE rows' = <<>> /\ failed' = {"tcp"}
    <3>1. rows' \in Seq(Connections) /\ DOMAIN rows' = {}
      BY <2>1
    <3> QED
      BY <2>1, <3>1
  <2>2. CASE rows' = OwnerRows(Sockets \ V6)
    <3> DEFINE family == Sockets \ V6
               text == OwnerRows(family)
    <3>1. /\ text \in Seq(Connections)
          /\ \A i \in DOMAIN text : text[i].provider = NONE
          /\ \A r \in {text[i] : i \in DOMAIN text} : Right(r)'
          /\ \A s \in Established(family) : \E i \in DOMAIN text : text[i].of = s
      <4> HIDE DEF family
      <4>1. family \in SUBSET Sockets
        BY DEF family
      <4> QED
        BY <1>1, <1>2, <4>1, OwnerRowsAreRight
    <3>2. rows' = text
      BY <2>2
    <3> HIDE DEF text
    <3> QED
      BY <3>1, <3>2
  <2> QED
    BY <1>1, <2>1, <2>2
<1>5. TypeOK'
  BY <1>1, <1>2, <1>3, <1>4 DEF EgressInv, TypeOK, HostTyped, CloudInv
<1>6. PlaceInv'
  BY <1>1 DEF EgressInv, PlaceInv
<1>7. RowsInv'
  <2> SUFFICES ASSUME NEW i \in DOMAIN rows' PROVE Right(rows[i])'
    BY DEF RowsInv
  <2>1. PICK r : r = rows'[i]
    OBVIOUS
  <2>2. (Right(r))'
    BY <1>4, <2>1
  <2> QED
    BY <2>1, <2>2
<1>8. owner = <<>> /\ bytes = <<>>
  BY <1>1 DEF EgressInv, PlaceInv
<1>9. OwnerInv' /\ ScanInv' /\ BytesInv'
  BY <1>1, <1>8 DEF OwnerInv, ScanInv, BytesInv
<1>10. ListInv'
  BY <1>1, <1>4 DEF ListInv, Standing, Established, Egress, Covered
<1> QED
  BY <1>2, <1>3, <1>5, <1>6, <1>7, <1>9, <1>10 DEF EgressInv

LEMMA ReadTable6Keeps ==
  ASSUME EgressInv, ReadTable6
  PROVE  EgressInv'
<1> DEFINE more == OwnerRows(V6)
<1>1. /\ platform = "windows" /\ pc = "tcp6" /\ pc' = "name"
      /\ (rows' = rows \o more /\ failed' = failed) \/ (rows' = rows /\ failed' = failed \union {"tcp6"})
      /\ UNCHANGED <<table, fetch, published, network, status, alive, platform, next, owner, bytes, flag, changed>>
  BY DEF ReadTable6, Step, cloud, host
<1>2. HostTyped /\ HostTyped' /\ HostInv /\ HostInv' /\ Noted
  BY <1>1, HostStill DEF EgressInv
<1>3. CloudInv' /\ FlagInv'
  BY <1>1, CloudKeeps DEF EgressInv, FlagInv, cloud
<1>4. /\ more \in Seq(Connections)
      /\ \A r \in {more[i] : i \in DOMAIN more} : Right(r)'
      /\ \A s \in Established(V6) : \E i \in DOMAIN more : more[i].of = s
  BY <1>1, <1>2, HostsAssumption, OwnerRowsAreRight
<1> HIDE DEF more
<1>5. rows \in Seq(Connections) /\ \A i \in DOMAIN rows : rows[i] \in Connections /\ Right(rows[i])
  BY DEF EgressInv, TypeOK, RowsInv
<1>6. /\ rows' \in Seq(Connections)
      /\ \A i \in DOMAIN rows' : \/ i \in DOMAIN rows /\ rows'[i] = rows[i]
                                 \/ \E j \in DOMAIN more : rows'[i] = more[j]
      /\ \A i \in DOMAIN rows : i \in DOMAIN rows' /\ rows'[i] = rows[i]
      /\ "tcp6" \notin failed' => \A i \in DOMAIN more : \E j \in DOMAIN rows' : rows'[j] = more[i]
  <2>1. CASE rows' = rows /\ "tcp6" \in failed'
    BY <1>5, <2>1
  <2>2. CASE rows' = rows \o more
    <3>1. /\ rows \o more \in Seq(Connections)
          /\ \A i \in DOMAIN (rows \o more) : \/ i \in DOMAIN rows /\ (rows \o more)[i] = rows[i]
                                              \/ \E j \in DOMAIN more : (rows \o more)[i] = more[j]
          /\ \A i \in DOMAIN rows : i \in DOMAIN (rows \o more) /\ (rows \o more)[i] = rows[i]
          /\ \A i \in DOMAIN more : \E j \in DOMAIN (rows \o more) : (rows \o more)[j] = more[i]
      BY <1>4, <1>5, JoinedRows
    <3> QED
      BY <2>2, <3>1
  <2> QED
    BY <1>1, <2>1, <2>2
<1>7. TypeOK' /\ PlaceInv'
  BY <1>1, <1>2, <1>3, <1>6 DEF EgressInv, TypeOK, HostTyped, CloudInv, PlaceInv
<1>8. RowsInv'
  <2> SUFFICES ASSUME NEW i \in DOMAIN rows' PROVE Right(rows[i])'
    BY DEF RowsInv
  <2>1. PICK r : r = rows'[i]
    OBVIOUS
  <2>2. CASE r \in Connections /\ Right(r)
    BY <1>1, <1>2, <2>1, <2>2, RowStays
  <2>3. CASE (Right(r))'
    BY <2>1, <2>3
  <2> QED
    BY <1>4, <1>5, <1>6, <2>1, <2>2, <2>3
<1>9. OwnerInv' /\ ScanInv' /\ BytesInv'
  BY <1>1, <1>2, OwnerStays, BytesStay DEF EgressInv, ScanInv
<1>10. ListInv'
  <2> SUFFICES ASSUME NEW s \in Sockets, Standing(s), Covered(s)'
               PROVE  \E i \in DOMAIN rows' : rows'[i].of = s
    BY <1>1 DEF ListInv, Standing, Egress
  <2>1. CASE s \in V6
    <3>1. "tcp6" \notin failed' /\ s \in Established(V6)
      BY <1>1, <2>1 DEF Covered, Established, Standing
    <3> QED
      BY <1>4, <1>6, <3>1
  <2>2. CASE s \notin V6
    BY <1>1, <1>6, <2>2 DEF EgressInv, ListInv, Covered
  <2> QED
    BY <2>1, <2>2
<1> QED
  BY <1>2, <1>3, <1>7, <1>8, <1>9, <1>10 DEF EgressInv

LEMMA NameRowKeeps ==
  ASSUME EgressInv, NameRow
  PROVE  EgressInv'
<1> DEFINE i == First(Pending({NONE}))
           earlier == {j \in 1..(i - 1) : rows[j].pid = rows[i].pid}
           process == IF earlier # {} THEN rows[First(earlier)].process
                      ELSE One(NameOf(rows[i].pid) \ Hidden)
           r == [rows[i] EXCEPT !.process = process]
<1>1. /\ pc = "name" /\ pc' = "classify" /\ Pending({NONE}) # {}
      /\ rows' = [rows EXCEPT ![i].process = process]
      /\ UNCHANGED <<table, fetch, published, network, status, alive, platform, next, owner, bytes, flag, failed, changed>>
  BY DEF NameRow, Step, cloud, host
<1>2. HostTyped' /\ HostInv' /\ Noted
  BY <1>1, HostStill
<1>3. CloudInv' /\ FlagInv'
  BY <1>1, CloudKeeps DEF EgressInv, FlagInv, cloud
<1>4. rows \in Seq(Connections) /\ i \in DOMAIN rows /\ platform = "windows"
  BY <1>1, FirstPending DEF EgressInv, TypeOK, PlaceInv
<1>5. \A j \in DOMAIN rows : rows[j] \in Connections /\ Right(rows[j])
  BY <1>4 DEF EgressInv, RowsInv
<1> HIDE DEF i
<1>6. process \in Processes \union {NONE} /\ (process # NONE => Named(rows[i], process))
  <2>1. CASE earlier = {}
    <3>1. process \in NameOf(rows[i].pid) \union {NONE}
      BY <2>1, OneOf
    <3>2. rows[i] \in Connections /\ (rows[i].pid # NONE => OfHolder(rows[i].of, rows[i].pid))
      BY <1>4, <1>5 DEF Right, RowInv
    <3> HIDE DEF process
    <3>3. process # NONE => process \in Processes /\ Named(rows[i], process)
      BY <3>1, <3>2, NameFound
    <3> QED
      BY <3>3
  <2>2. CASE earlier # {}
    <3>1. earlier \in SUBSET Nat
      OBVIOUS
    <3>2. First(earlier) \in earlier
      <4> HIDE DEF earlier
      <4> QED
        BY <2>2, <3>1, FirstIsOne
    <3>3. PICK j \in DOMAIN rows : rows[j].pid = rows[i].pid /\ process = rows[j].process
      <4>1. First(earlier) \in DOMAIN rows /\ rows[First(earlier)].pid = rows[i].pid
        BY <1>4, <3>2
      <4>2. process = rows[First(earlier)].process
        BY <2>2
      <4> HIDE DEF process
      <4> QED
        BY <4>1, <4>2
    <3> HIDE DEF process
    <3>4. rows[j] \in Connections /\ rows[i] \in Connections /\ RowInv(rows[j]) /\ RowInv(rows[i])
      BY <1>4, <1>5, <3>3 DEF Right
    <3>5. process \in Processes \union {NONE}
      BY <3>3, <3>4 DEF Connections
    <3>6. process # NONE => Named(rows[j], process)
      BY <3>3, <3>4 DEF RowInv
    <3>7. ASSUME process # NONE PROVE Named(rows[i], process)
      <4>1. PidOf[process] = rows[i].pid /\ (Running(process) \/ process \in changed)
        BY <3>3, <3>6, <3>7 DEF Named
      <4>2. rows[i].pid # NONE /\ process \in Processes
        BY <3>5, <3>7, <4>1, HostsAssumption, NothingIsNone
      <4>3. OfHolder(rows[i].of, rows[i].pid)
        BY <3>4, <4>2 DEF RowInv
      <4> QED
        BY <4>1, <4>2, <4>3 DEF Named, OfHolder
    <3> QED
      BY <3>5, <3>7
  <2> QED
    BY <2>1, <2>2
<1> HIDE DEF process
<1>7. /\ r \in Connections /\ r.of = rows[i].of /\ r.process = process
      /\ r.pid = rows[i].pid /\ r.total = rows[i].total /\ r.sent = rows[i].sent
      /\ r.provider = rows[i].provider /\ r.shadow = rows[i].shadow
  BY <1>4, <1>5, <1>6 DEF Connections
<1>8. rows' = [rows EXCEPT ![i] = r]
  BY <1>1, <1>4
<1> HIDE DEF r
<1>9. Right(r)
  <2>1. Right(rows[i])
    BY <1>4, <1>5
  <2>2. process # NONE => Named(r, process)
    BY <1>6, <1>7 DEF Named
  <2>3. rows[i].total # NONE => Named(r, rows[i].total)
    BY <1>7, <2>1 DEF Right, RowInv, Named
  <2>4. RowInv(r)
    BY <1>7, <2>1, <2>2, <2>3 DEF Right, RowInv
  <2>5. Labelled(r)
    BY <1>7, <2>1 DEF Right, Labelled
  <2> QED
    BY <1>4, <2>4, <2>5 DEF Right
<1>10. /\ rows' \in Seq(Connections) /\ DOMAIN rows' = DOMAIN rows
       /\ \A j \in DOMAIN rows : rows'[j].of = rows[j].of
       /\ RowsInv'
  BY <1>1, <1>2, <1>4, <1>7, <1>8, <1>9, RowReplaced
<1>11. TypeOK' /\ PlaceInv'
  BY <1>1, <1>2, <1>3, <1>4, <1>10 DEF EgressInv, TypeOK, HostTyped, CloudInv, PlaceInv
<1>12. OwnerInv' /\ ScanInv' /\ BytesInv' /\ ListInv'
  BY <1>1, <1>2, <1>10, OwnerStays, BytesStay, ListStays DEF EgressInv, ScanInv
<1> QED
  BY <1>2, <1>3, <1>10, <1>11, <1>12 DEF EgressInv

LEMMA ClassifyRowKeeps ==
  ASSUME EgressInv, ClassifyRow
  PROVE  EgressInv'
<1> DEFINE i == First(Pending({NONE}))
           s == rows[i].of
           provider == Classify(PeerOf[s]).provider
           cost == Cost(NONE, provider)
           shadow == (rows[i].pid = NONE /\ provider \in Metered)
           r == [rows[i] EXCEPT !.provider = provider, !.by = Initialized.source,
                                !.cost = cost, !.shadow = shadow]
<1>1. /\ pc = "classify" /\ pc' = "label" /\ Pending({NONE}) # {}
      /\ rows' = [rows EXCEPT ![i] = r] /\ table' = Initialized
      /\ UNCHANGED <<fetch, published, network, status, alive, platform, next, owner, bytes, flag, failed, changed>>
  BY DEF ClassifyRow, Step, host
<1>2. HostTyped' /\ HostInv' /\ Noted
  BY <1>1, HostStill
<1>3. CloudInv'
  BY <1>1, ReaderKeepsCloud DEF EgressInv
<1>4. FlagInv'
  BY <1>1 DEF EgressInv, FlagInv, Initialized, NoTable
<1>5. rows \in Seq(Connections) /\ i \in DOMAIN rows /\ platform \in {"macos", "windows"}
  BY <1>1, FirstPending DEF EgressInv, TypeOK, PlaceInv
<1>6. rows[i] \in Connections /\ Right(rows[i])
  BY <1>5 DEF EgressInv, RowsInv
<1>7. s \in Sockets /\ PeerOf[s] \in Addresses /\ ~IsLocal(PeerOf[s])
  <2>1. s \in Sockets /\ Seen(s)
    BY <1>6 DEF Connections, Right, RowInv
  <2> QED
    BY <2>1, HostsAssumption DEF Seen, Egress
<1>8. /\ provider \in Providers /\ provider # NONE
      /\ provider = "Tailscale" <=> PeerOf[s].host \in SharedHosts
      /\ Initialized.source \in {"fallback", "live"}
  <2> HIDE DEF s
  <2> QED
    BY <1>7, Classified, NothingIsNone DEF EgressInv
<1>9. cost \in {"free", NONE}
  BY DEF Cost
<1> HIDE DEF i, provider, cost, shadow
<1>10. shadow \in BOOLEAN /\ (shadow => rows[i].pid = NONE)
  BY DEF shadow
<1>11. /\ r \in Connections /\ r.of = s /\ r.process = rows[i].process
       /\ r.pid = rows[i].pid /\ r.total = rows[i].total /\ r.sent = rows[i].sent
       /\ r.provider = provider /\ r.shadow = shadow
  BY <1>6, <1>8, <1>9, <1>10 DEF Connections
<1> HIDE DEF r
<1>12. Right(r)
  <2>1. \A p \in {r.process, r.total} \ {NONE} : Named(r, p)
    BY <1>6, <1>11 DEF Right, RowInv, Named
  <2>2. r.pid = NONE => Unseen(r.of)
    BY <1>5, <1>6, <1>11 DEF Right, RowInv
  <2>3. RowInv(r)
    BY <1>6, <1>8, <1>10, <1>11, <2>1, <2>2 DEF Right, RowInv
  <2>4. Labelled(r)
    BY <1>8, <1>11 DEF Labelled
  <2> QED
    BY <1>5, <2>3, <2>4 DEF Right
<1>13. /\ rows' \in Seq(Connections) /\ DOMAIN rows' = DOMAIN rows
       /\ \A j \in DOMAIN rows : rows'[j].of = rows[j].of
       /\ RowsInv'
  BY <1>1, <1>2, <1>5, <1>11, <1>12, RowReplaced
<1>14. TypeOK' /\ PlaceInv'
  BY <1>1, <1>2, <1>3, <1>5, <1>13 DEF EgressInv, TypeOK, HostTyped, CloudInv, PlaceInv
<1>15. OwnerInv' /\ ScanInv' /\ BytesInv' /\ ListInv'
  BY <1>1, <1>2, <1>13, OwnerStays, BytesStay, ListStays DEF EgressInv, ScanInv
<1> QED
  BY <1>2, <1>3, <1>4, <1>13, <1>14, <1>15 DEF EgressInv

LEMMA LabelRowKeeps ==
  ASSUME EgressInv, LabelRow
  PROVE  EgressInv'
<1> DEFINE i == First({j \in DOMAIN rows : rows[j].confidence = NONE})
           confidence == Source(Initialized.source = "fallback")
           r == [rows[i] EXCEPT !.confidence = confidence]
<1>1. /\ pc = "label" /\ pc' = (IF platform = "windows" THEN "name" ELSE "classify")
      /\ rows' = [rows EXCEPT ![i].confidence = confidence] /\ table' = Initialized
      /\ UNCHANGED <<fetch, published, network, status, alive, platform, next, owner, bytes, flag, failed, changed>>
  BY DEF LabelRow, Step, host
<1>2. HostTyped' /\ HostInv' /\ Noted
  BY <1>1, HostStill
<1>3. CloudInv'
  BY <1>1, ReaderKeepsCloud DEF EgressInv
<1>4. FlagInv'
  BY <1>1 DEF EgressInv, FlagInv, Initialized, NoTable
<1>5. /\ rows \in Seq(Connections) /\ platform \in {"macos", "windows"}
      /\ confidence \in {"fallback", "live"}
  BY <1>1 DEF EgressInv, TypeOK, PlaceInv, Source
<1> HIDE DEF i, confidence
<1>6. /\ rows' \in Seq(Connections) /\ DOMAIN rows' = DOMAIN rows
      /\ \A j \in DOMAIN rows : rows'[j].of = rows[j].of
      /\ RowsInv'
  <2>1. CASE i \in DOMAIN rows
    <3>1. rows[i] \in Connections /\ Right(rows[i])
      BY <1>5, <2>1 DEF EgressInv, RowsInv
    <3>2. /\ r \in Connections /\ r.of = rows[i].of /\ r.process = rows[i].process
          /\ r.pid = rows[i].pid /\ r.total = rows[i].total /\ r.sent = rows[i].sent
          /\ r.provider = rows[i].provider /\ r.shadow = rows[i].shadow
      BY <1>5, <3>1 DEF Connections
    <3>3. rows' = [rows EXCEPT ![i] = r]
      BY <1>1, <1>5, <2>1
    <3> HIDE DEF r
    <3>4. Right(r)
      BY <1>5, <3>1, <3>2 DEF Right, RowInv, Labelled, Named
    <3> QED
      BY <1>1, <1>2, <2>1, <3>2, <3>3, <3>4, RowReplaced
  <2>2. CASE i \notin DOMAIN rows
    <3>1. rows' = rows
      BY <1>1, <1>5, <2>2
    <3> QED
      BY <1>1, <1>2, <1>5, <3>1, RowsStay DEF EgressInv
  <2> QED
    BY <2>1, <2>2
<1>7. TypeOK' /\ PlaceInv'
  BY <1>1, <1>2, <1>3, <1>5, <1>6 DEF EgressInv, TypeOK, HostTyped, CloudInv, PlaceInv
<1>8. OwnerInv' /\ ScanInv' /\ BytesInv' /\ ListInv'
  BY <1>1, <1>2, <1>6, OwnerStays, BytesStay, ListStays DEF EgressInv, ScanInv
<1> QED
  BY <1>2, <1>3, <1>4, <1>6, <1>7, <1>8 DEF EgressInv

LEMMA EndRowsKeeps ==
  ASSUME EgressInv, EndRows
  PROVE  EgressInv'
<1>1. /\ pc \in {"name", "classify"} /\ Pending({NONE}) = {} /\ pc' = "done"
      /\ UNCHANGED <<table, fetch, published, network, status, alive, platform, rows, next, owner, bytes, flag, failed, changed>>
  BY DEF EndRows, cloud, host
<1>2. HostTyped' /\ HostInv' /\ Noted
  BY <1>1, HostStill
<1>3. CloudInv' /\ FlagInv'
  BY <1>1, CloudKeeps DEF EgressInv, FlagInv, cloud
<1>4. platform \in {"macos", "windows"}
  BY <1>1 DEF EgressInv, PlaceInv
<1>5. TypeOK' /\ PlaceInv'
  BY <1>1, <1>2, <1>3, <1>4 DEF EgressInv, TypeOK, HostTyped, CloudInv, PlaceInv, Pending
<1>6. RowsInv' /\ OwnerInv' /\ BytesInv' /\ ScanInv' /\ ListInv'
  BY <1>1, <1>2, RowsStay, OwnerStays, BytesStay, ListStays DEF EgressInv, TypeOK, ScanInv
<1> QED
  BY <1>2, <1>3, <1>5, <1>6 DEF EgressInv

(* Each reader ends with what it has made.                                 *)
LEMMA ReturnKeeps ==
  ASSUME EgressInv, Return
  PROVE  EgressInv'
<1>1. /\ pc = "done" /\ pc' = "idle" /\ rows' = <<>> /\ owner' = <<>> /\ bytes' = <<>>
      /\ flag' = TRUE /\ failed' = {} /\ changed' = {}
      /\ UNCHANGED <<table, fetch, published, network, status, alive, platform, next>>
  BY DEF Return, Step, cloud, host
<1>2. HostTyped' /\ HostInv'
  BY <1>1, HostStill
<1>3. CloudInv' /\ FlagInv'
  BY <1>1, CloudKeeps DEF EgressInv, FlagInv, cloud
<1>4. TypeOK' /\ PlaceInv'
  BY <1>1, <1>2, <1>3 DEF EgressInv, TypeOK, HostTyped, CloudInv, PlaceInv, Pending, Finished
<1>5. RowsInv' /\ OwnerInv' /\ ScanInv' /\ BytesInv' /\ ListInv'
  BY <1>1 DEF RowsInv, OwnerInv, ScanInv, BytesInv, ListInv
<1> QED
  BY <1>2, <1>3, <1>4, <1>5 DEF EgressInv

-----------------------------------------------------------------------------
LEMMA EgressKeeps == EgressInv /\ [Next]_vars => EgressInv'
<1> SUFFICES ASSUME EgressInv, [Next]_vars PROVE EgressInv'
  OBVIOUS
<1>1. CASE HostNext
  BY <1>1, HostKeeps
<1>2. CASE LinuxNext
  BY <1>2, ReadTcpKeeps, ReadTcp6Keeps, ScanFdsKeeps, ProcUnreadableKeeps, EndScanKeeps, RunSsKeeps,
     ReadFlagKeeps, JoinRowKeeps, AnnotateKeeps DEF LinuxNext
<1>3. CASE OtherNext
  BY <1>3, RunLsofKeeps, ReadTableKeeps, ReadTable6Keeps, NameRowKeeps, ClassifyRowKeeps,
     LabelRowKeeps, EndRowsKeeps DEF OtherNext
<1>4. CASE Return
  BY <1>4, ReturnKeeps
<1>5. CASE RefreshStep /\ UNCHANGED <<host, reader, changed>>
  BY <1>5, RefreshKeeps
<1>6. CASE UNCHANGED vars
  <2>1. UNCHANGED <<table, fetch, published, network, status, alive, platform, pc, rows, next, owner, bytes, flag, failed, changed>>
    BY <1>6 DEF vars, cloud, host, reader
  <2>2. HostTyped' /\ HostInv' /\ Noted
    BY <2>1, HostStill
  <2>3. CloudInv' /\ FlagInv'
    BY <2>1, CloudKeeps DEF EgressInv, FlagInv, cloud
  <2>4. TypeOK' /\ PlaceInv'
    BY <2>1, <2>2, <2>3 DEF EgressInv, TypeOK, HostTyped, CloudInv, PlaceInv, Pending, Finished
  <2>5. RowsInv' /\ OwnerInv' /\ ScanInv' /\ BytesInv'
    BY <2>1, <2>2, RowsStay, OwnerStays, ScanStays, BytesStay DEF EgressInv, TypeOK
  <2>6. ListInv'
    BY <2>1, <2>2, ListStays DEF EgressInv, ListInv
  <2> QED
    BY <2>2, <2>3, <2>4, <2>5, <2>6 DEF EgressInv
<1> QED
  BY <1>1, <1>2, <1>3, <1>4, <1>5, <1>6 DEF Next

(* The rows made so far, and what the reader keeps to make the rest, agree *)
(* with what the host has or had meanwhile.                                *)
THEOREM EgressInvariant == Spec => []EgressInv
BY EgressStarts, EgressKeeps, PTL DEF Spec

(* The collection and its rows are of the types the program gives them.    *)
THEOREM EgressTyped == Spec => []TypeOK
<1>1. EgressInv => TypeOK
  BY DEF EgressInv
<1> QED
  BY <1>1, EgressInvariant, PTL

(* The bytes, the process id and the name a row shows are of the socket it *)
(* was made from, and the total is read under that process id, unless what *)
(* it was looked up by came to name another during the collection.  What   *)
(* an earlier process left in the total is not in question here.           *)
THEOREM RowsAreTheirSockets == Spec => []RowsDescribeTheirSocket
<1>1. ASSUME EgressInv PROVE RowsDescribeTheirSocket
  <2> SUFFICES ASSUME NEW i \in DOMAIN rows, NEW r, r = rows[i]
               PROVE  /\ r.sent \in {NONE, r.of} \/ Reused(EndsOf, r.of)
                      /\ \/ r.pid = NONE \/ r.pid \in {PidOf[p] : p \in HoldersOf[r.of]}
                         \/ Reused(InodeOf, r.of)
                      /\ \A p \in {r.process, r.total} \ {NONE} :
                           /\ PidOf[p] = r.pid
                           /\ p \in HoldersOf[r.of] \/ Reused(InodeOf, r.of) \/ p \in changed
    BY DEF RowsDescribeTheirSocket, Finished
  <2>1. RowInv(r)
    BY <1>1 DEF EgressInv, RowsInv, Right
  <2> QED
    BY <2>1 DEF RowInv, OfHolder, Named
<1> QED
  BY <1>1, EgressInvariant, PTL

(* A connection that stands throughout the collection has a row, unless    *)
(* the table of its family, or lsof, could not be read; with a process id  *)
(* if one of its holders could be seen all along, and on Linux with its    *)
(* own bytes if ss answered and it had sent any.                           *)
THEOREM StandingIsListed == Spec => []StandingSocketsAreListed
<1>1. ASSUME EgressInv PROVE StandingSocketsAreListed
  <2> SUFFICES ASSUME pc = "done", NEW s \in Sockets, Standing(s), Covered(s)
               PROVE  \E i \in DOMAIN rows :
                        /\ rows[i].of = s
                        /\ Visible(s) # {} /\ "proc" \notin failed => rows[i].pid # NONE
                        /\ platform # "windows" /\ HoldersOf[s] \subseteq Hidden =>
                             rows[i].pid = NONE \/ Reused(InodeOf, s)
                        /\ platform = "linux" /\ "ss" \notin failed /\ s \notin Silent => rows[i].sent = s
    BY DEF StandingSocketsAreListed
  <2>1. PICK i \in DOMAIN rows : rows[i].of = s
    BY <1>1 DEF EgressInv, ListInv
  <2>2. rows[i].provider # NONE /\ s \notin changed
    BY <1>1 DEF EgressInv, PlaceInv, Pending, Standing
  <2>3. RowInv(rows[i]) /\ (platform = "linux" => LinuxRow(rows[i]))
    BY <1>1 DEF EgressInv, RowsInv, Right
  <2>4. Visible(s) # {} /\ "proc" \notin failed => rows[i].pid # NONE
    BY <2>1, <2>2, <2>3 DEF RowInv, Unseen
  <2>5. CASE platform = "linux"
    BY <2>1, <2>2, <2>3, <2>4, <2>5 DEF LinuxRow
  <2>6. CASE platform = "macos"
    <3>1. ~(HoldersOf[s] \subseteq Hidden)
      BY <2>6 DEF Covered, Visible, Holders
    <3> QED
      BY <2>1, <2>4, <2>6, <3>1
  <2>7. CASE platform = "windows"
    BY <2>1, <2>4, <2>7
  <2> QED
    BY <1>1, <2>5, <2>6, <2>7 DEF EgressInv, PlaceInv
<1> QED
  BY <1>1, EgressInvariant, PTL

(* Only connections to hosts that are not local have a row, none that had  *)
(* ended before the collection, and exactly the mesh peers are shown as    *)
(* such.                                                                   *)
THEOREM OnlyEgressHasRows == Spec => []OnlyEgressIsListed
<1>1. ASSUME EgressInv PROVE OnlyEgressIsListed
  <2> SUFFICES ASSUME NEW i \in DOMAIN rows
               PROVE  /\ status[rows[i].of] = "established" \/ rows[i].of \in changed
                      /\ PeerOf[rows[i].of].host \notin LocalHosts
                      /\ i \in Finished =>
                           (rows[i].provider = "Tailscale" <=> PeerOf[rows[i].of].host \in SharedHosts)
    BY DEF OnlyEgressIsListed
  <2>1. Seen(rows[i].of) /\ Labelled(rows[i])
    BY <1>1 DEF EgressInv, RowsInv, Right, RowInv
  <2> QED
    BY <2>1 DEF Seen, Labelled, Finished, Egress, IsLocal, Canonical
<1> QED
  BY <1>1, EgressInvariant, PTL

(* A shadow alert is only for a connection whose holders are all hidden,   *)
(* or that came or went, itself or a holder of it, during the collection,  *)
(* or was made without reading any descriptor.                             *)
THEOREM AlertsHaveCause == Spec => []ShadowAlertHasCause
<1>1. ASSUME EgressInv PROVE ShadowAlertHasCause
  <2> SUFFICES ASSUME NEW i \in DOMAIN rows, rows[i].shadow
               PROVE  \/ Holders(rows[i].of) \subseteq Hidden \/ "proc" \in failed
                      \/ ({rows[i].of} \union HoldersOf[rows[i].of]) \intersect changed # {}
    BY DEF ShadowAlertHasCause, Finished
  <2>1. Unseen(rows[i].of)
    BY <1>1 DEF EgressInv, RowsInv, Right, RowInv
  <2> QED
    BY <2>1 DEF Unseen, Visible, Holders
<1> QED
  BY <1>1, EgressInvariant, PTL

(* On Linux a row that claims live attribution was classified with a live  *)
(* table.                                                                  *)
THEOREM LiveLabels == Spec => []LiveLabelIsEarned
<1>1. EgressInv => LiveLabelIsEarned
  <2> SUFFICES ASSUME EgressInv, platform = "linux", NEW i \in DOMAIN rows, rows[i].confidence = "live"
               PROVE  rows[i].by = "live"
    BY DEF LiveLabelIsEarned, Finished
  <2> QED
    BY DEF EgressInv, RowsInv, Right, LinuxRow
<1> QED
  BY <1>1, EgressInvariant, PTL
=============================================================================
