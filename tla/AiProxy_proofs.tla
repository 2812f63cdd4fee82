---------------------------- MODULE AiProxy_proofs ----------------------------
(***************************************************************************)
(* What the proxy relays, records and shows, for every number of requests, *)
(* all answers and all ways to cut them into chunks.                       *)
(*                                                                         *)
(* A request is served by its own task: a step of one leaves the state of  *)
(* the others alone, but for the table they all append to.  So the         *)
(* invariant is one per request, and one of the table and of the panel.    *)
(***************************************************************************)
EXTENDS AiProxy, TLAPS, SequenceTheorems, FiniteSetTheorems, WellFoundedInduction

USE ProxyAssumption

Phases == {"none", "send", "sent", "stream", "yield", "end"}
Endings == {"no", "bad_request", "bad_gateway", "error", "complete", "left"}

Calls == [pc : Phases, started : Nat, read : Nat, acc : Seq(Pieces), recorded : BOOLEAN]
Engines == [body : Seq(Pieces), begun : Nat, sent : Seq(Nat), broken : BOOLEAN]
Clients == [received : Nat, ended : Endings]

Typed ==
  /\ call \in [Requests -> Calls]
  /\ engine \in [Requests -> Engines]
  /\ client \in [Requests -> Clients]
  /\ now \in Nat

(* The engine's answer: it is sent in order, after the request has begun.  *)
Answered(r) ==
  /\ call[r].pc \in {"none", "send"} => engine[r].sent = <<>>
  /\ Len(engine[r].sent) <= Len(engine[r].body)
  /\ call[r].pc \in {"sent", "stream", "yield"} => call[r].started <= engine[r].begun
  /\ call[r].started <= now /\ engine[r].begun <= now
  /\ \A i \in DOMAIN engine[r].sent : engine[r].begun <= engine[r].sent[i] /\ engine[r].sent[i] <= now

(* The relay: what is kept of the line in progress is the end of what was  *)
(* read, and what was read is passed on before more is.                    *)
Relayed(r) ==
  /\ call[r].read <= Len(engine[r].sent)
  /\ Len(call[r].acc) <= call[r].read
  /\ call[r].acc = SubSeq(engine[r].body, call[r].read - Len(call[r].acc) + 1, call[r].read)
  /\ call[r].pc \notin {"yield", "end"} => client[r].received = call[r].read
  /\ call[r].pc # "end" => client[r].ended = "no"
  /\ client[r].ended = "complete" =>
       client[r].received = call[r].read /\ call[r].read = Len(engine[r].body)

ServedInv == Typed /\ \A r \in Requests : Answered(r) /\ Relayed(r)

-----------------------------------------------------------------------------
(* The greatest of a set of natural numbers with a bound, and the least.   *)
LEMMA Greatest ==
  ASSUME NEW n \in Nat, NEW I \in SUBSET (0..n), I # {}
  PROVE  Max(I) \in I /\ \A j \in I : j <= Max(I)
<1> DEFINE Below == {m \in Nat : n - m \in I}
<1>1. PICK i \in I : TRUE
  OBVIOUS
<1>2. n - i \in Below
  <2>1. n - i \in Nat /\ n - (n - i) = i
    OBVIOUS
  <2> QED
    BY <2>1, <1>1
<1>3. \E m \in Below : \A l \in Below : ~ (<<l, m>> \in OpToRel(<, Nat))
  <2>1. Below \subseteq Nat /\ Below # {}
    BY <1>2
  <2> QED
    BY <2>1, NatLessThanWellFounded, WFMin
<1>4. PICK m \in Below : \A l \in Below : ~ (l < m)
  BY <1>3 DEF OpToRel
<1>5. ASSUME NEW j \in I PROVE n - m >= j
  <2>1. n - j \in Nat /\ n - (n - j) = j
    OBVIOUS
  <2>2. n - j \in Below
    BY <2>1
  <2>3. ~ (n - j < m)
    BY <1>4, <2>2
  <2> QED
    BY <2>3
<1>6. \E k \in I : \A j \in I : k >= j
  BY <1>4, <1>5
<1>7. Max(I) \in I /\ \A j \in I : Max(I) >= j
  BY <1>6 DEF Max
<1>8. \A j \in I : j <= Max(I)
  BY <1>7
<1> QED
  BY <1>7, <1>8

-----------------------------------------------------------------------------
(* Where the last line before a position starts: after the last newline.   *)
LineStart(pieces, end) == Max({i \in NewlinesOf(pieces) : i < end} \cup {0})

LEMMA LineStarts ==
  ASSUME NEW pieces \in Seq(Pieces), NEW end \in 1..Len(pieces) + 1
  PROVE  /\ LineStart(pieces, end) \in 0..end - 1
         /\ LineStart(pieces, end) # 0 => LineStart(pieces, end) \in NewlinesOf(pieces)
         /\ \A i \in NewlinesOf(pieces) : i < end => i <= LineStart(pieces, end)
         /\ LineAt(pieces, end) = SubSeq(pieces, LineStart(pieces, end) + 1, end - 1)
         /\ LineAt(pieces, end) \in Seq(Pieces)
         /\ Len(LineAt(pieces, end)) = end - 1 - LineStart(pieces, end)
<1> DEFINE I == {i \in NewlinesOf(pieces) : i < end} \cup {0}
           start == LineStart(pieces, end)
<1>1. Len(pieces) \in Nat /\ DOMAIN pieces = 1..Len(pieces) /\ end - 1 \in Nat
  OBVIOUS
<1>2. I \in SUBSET (0..end - 1) /\ I # {}
  BY <1>1 DEF NewlinesOf
<1>3. start \in I /\ \A i \in I : i <= start
  <2>1. start = Max(I)
    BY DEF LineStart
  <2> HIDE DEF I, start
  <2> QED
    BY <1>1, <1>2, <2>1, Greatest
<1>4. start \in 0..end - 1
  BY <1>2, <1>3
<1>5. LineAt(pieces, end) = SubSeq(pieces, start + 1, end - 1)
  BY DEF LineAt, LineStart
<1>6. /\ SubSeq(pieces, start + 1, end - 1) \in Seq(Pieces)
      /\ Len(SubSeq(pieces, start + 1, end - 1)) = end - 1 - start
  <2> HIDE DEF start
  <2>1. \A i \in start + 1..end - 1 : pieces[i] \in Pieces
    BY <1>1, <1>4
  <2>2. start + 1 \in Int /\ end - 1 \in Int
    BY <1>1, <1>4
  <2>3. /\ SubSeq(pieces, start + 1, end - 1) \in Seq(Pieces)
        /\ Len(SubSeq(pieces, start + 1, end - 1)) =
             IF start + 1 <= end - 1 THEN end - 1 - (start + 1) + 1 ELSE 0
    BY <2>1, <2>2, SubSeqProperties
  <2> QED
    BY <1>1, <1>4, <2>3
<1> QED
  BY <1>3, <1>4, <1>5, <1>6

-----------------------------------------------------------------------------
(* Windows of an answer: what lies between two positions of it.            *)
LEMMA Window ==
  ASSUME NEW body \in Seq(Pieces), NEW b \in 0..Len(body), NEW a \in 0..b
  PROVE  /\ SubSeq(body, a + 1, b) \in Seq(Pieces)
         /\ Len(SubSeq(body, a + 1, b)) = b - a
         /\ \A i \in 1..b - a : SubSeq(body, a + 1, b)[i] = body[a + i]
<1>1. a + 1 \in Int /\ b \in Int /\ Len(body) \in Nat
  OBVIOUS
<1>2. \A i \in a + 1..b : body[i] \in Pieces
  OBVIOUS
<1>3. /\ SubSeq(body, a + 1, b) \in Seq(Pieces)
      /\ Len(SubSeq(body, a + 1, b)) = IF a + 1 <= b THEN b - (a + 1) + 1 ELSE 0
      /\ \A i \in 1..b - (a + 1) + 1 : SubSeq(body, a + 1, b)[i] = body[a + 1 + i - 1]
  BY <1>1, <1>2, SubSeqProperties
<1>4. ASSUME NEW i \in 1..b - a PROVE SubSeq(body, a + 1, b)[i] = body[a + i]
  <2>1. i \in 1..b - (a + 1) + 1 /\ a + 1 + i - 1 = a + i
    BY <1>1
  <2>2. SubSeq(body, a + 1, b)[i] = body[a + 1 + i - 1]
    BY <1>3, <2>1
  <2> QED
    BY <2>1, <2>2
<1>5. Len(SubSeq(body, a + 1, b)) = b - a
  BY <1>1, <1>3
<1> QED
  BY <1>3, <1>4, <1>5

LEMMA WindowsMeet ==
  ASSUME NEW body \in Seq(Pieces), NEW c \in 0..Len(body), NEW b \in 0..c, NEW a \in 0..b
  PROVE  SubSeq(body, a + 1, b) \o SubSeq(body, b + 1, c) = SubSeq(body, a + 1, c)
<1> DEFINE s == SubSeq(body, a + 1, b)
           t == SubSeq(body, b + 1, c)
           w == SubSeq(body, a + 1, c)
<1>1. /\ Len(body) \in Nat /\ a \in Nat /\ b \in Nat /\ c \in Nat
      /\ b \in 0..Len(body) /\ a \in 0..c
  OBVIOUS
<1>2. /\ s \in Seq(Pieces) /\ Len(s) = b - a /\ \A i \in 1..b - a : s[i] = body[a + i]
      /\ t \in Seq(Pieces) /\ Len(t) = c - b /\ \A i \in 1..c - b : t[i] = body[b + i]
      /\ w \in Seq(Pieces) /\ Len(w) = c - a /\ \A i \in 1..c - a : w[i] = body[a + i]
  BY <1>1, Window
<1> HIDE DEF s, t, w
<1>3. /\ s \o t \in Seq(Pieces) /\ Len(s \o t) = Len(s) + Len(t)
      /\ \A i \in 1..Len(s) + Len(t) : (s \o t)[i] = IF i <= Len(s) THEN s[i] ELSE t[i - Len(s)]
  BY <1>2, ConcatProperties
<1>4. Len(s \o t) = c - a /\ Len(w) = c - a
  BY <1>1, <1>2, <1>3
<1>5. ASSUME NEW i \in 1..c - a PROVE (s \o t)[i] = w[i]
  <2>1. i \in Nat /\ 1 <= i /\ i <= c - a
    BY <1>1
  <2>2. w[i] = body[a + i]
    BY <1>2
  <2>3. Len(s) = b - a /\ Len(t) = c - b
    BY <1>2
  <2>4. i \in 1..Len(s) + Len(t)
    BY <1>1, <2>1, <2>3
  <2>5. (s \o t)[i] = IF i <= Len(s) THEN s[i] ELSE t[i - Len(s)]
    BY <1>3, <2>4
  <2>6. CASE i <= b - a
    <3>1. i \in 1..b - a
      BY <1>1, <2>1, <2>6
    <3>2. s[i] = body[a + i]
      BY <1>2, <3>1
    <3> QED
      BY <2>2, <2>3, <2>5, <2>6, <3>2
  <2>7. CASE ~(i <= b - a)
    <3>1. i - (b - a) \in 1..c - b /\ b + (i - (b - a)) = a + i
      BY <1>1, <2>1, <2>7
    <3>2. t[i - (b - a)] = body[b + (i - (b - a))]
      BY <1>2, <3>1
    <3>3. (s \o t)[i] = t[i - (b - a)]
      BY <2>3, <2>5, <2>7
    <3> QED
      BY <2>2, <3>1, <3>2, <3>3
  <2> QED
    BY <2>6, <2>7
<1>6. s \o t = w
  BY <1>2, <1>3, <1>4, <1>5, SeqEqual
<1> QED
  BY <1>6 DEF s, t, w

LEMMA WindowOfWindow ==
  ASSUME NEW body \in Seq(Pieces), NEW b \in 0..Len(body), NEW a \in 0..b,
         NEW d \in 0..b - a, NEW c \in 0..d
  PROVE  SubSeq(SubSeq(body, a + 1, b), c + 1, d) = SubSeq(body, a + c + 1, a + d)
<1> DEFINE w == SubSeq(body, a + 1, b)
           s == SubSeq(w, c + 1, d)
           t == SubSeq(body, a + c + 1, a + d)
<1>1. /\ Len(body) \in Nat /\ a \in Nat /\ b \in Nat /\ c \in Nat /\ d \in Nat
      /\ a + d \in 0..Len(body) /\ a + c \in 0..a + d
  OBVIOUS
<1>2. w \in Seq(Pieces) /\ Len(w) = b - a /\ \A i \in 1..b - a : w[i] = body[a + i]
  BY Window
<1>3. /\ t \in Seq(Pieces) /\ Len(t) = (a + d) - (a + c)
      /\ \A i \in 1..(a + d) - (a + c) : t[i] = body[a + c + i]
  BY <1>1, Window
<1> HIDE DEF w
<1>4. d \in 0..Len(w)
  BY <1>2
<1>5. s \in Seq(Pieces) /\ Len(s) = d - c /\ \A i \in 1..d - c : s[i] = w[c + i]
  BY <1>2, <1>4, Window
<1> HIDE DEF s, t
<1>6. Len(s) = d - c /\ Len(t) = d - c
  BY <1>1, <1>3, <1>5
<1>7. ASSUME NEW i \in 1..d - c PROVE s[i] = t[i]
  <2>1. c + i \in 1..b - a /\ i \in 1..(a + d) - (a + c) /\ a + (c + i) = a + c + i
    BY <1>1
  <2>2. s[i] = body[a + (c + i)]
    BY <1>2, <1>5, <2>1
  <2>3. t[i] = body[a + c + i]
    BY <1>3, <2>1
  <2> QED
    BY <2>1, <2>2, <2>3
<1>8. s = t
  BY <1>3, <1>5, <1>6, <1>7, SeqEqual
<1> QED
  BY <1>8 DEF s, t, w

(* What is kept of a buffer is the end of it.                              *)
LEMMA RestIsWindow ==
  ASSUME NEW body \in Seq(Pieces), NEW b \in 0..Len(body), NEW a \in 0..b
  PROVE  LET buffer == SubSeq(body, a + 1, b)
             start == LineStart(buffer, Len(buffer) + 1)
         IN /\ start \in 0..b - a
            /\ Rest(buffer) = SubSeq(body, a + start + 1, b)
            /\ Len(Rest(buffer)) = b - (a + start)
<1> DEFINE buffer == SubSeq(body, a + 1, b)
           start == LineStart(buffer, Len(buffer) + 1)
<1>1. buffer \in Seq(Pieces) /\ Len(buffer) = b - a
  BY Window
<1>2. a \in Nat /\ b \in Nat /\ b - a \in Nat
  OBVIOUS
<1>3. /\ start \in 0..Len(buffer)
      /\ Rest(buffer) = SubSeq(buffer, start + 1, Len(buffer))
      /\ Len(Rest(buffer)) = Len(buffer) - start
  <2> HIDE DEF buffer
  <2>1. Len(buffer) \in Nat /\ Len(buffer) + 1 \in 1..Len(buffer) + 1 /\ Len(buffer) + 1 - 1 = Len(buffer)
    BY <1>1
  <2>2. /\ start \in 0..(Len(buffer) + 1) - 1
        /\ LineAt(buffer, Len(buffer) + 1) = SubSeq(buffer, start + 1, (Len(buffer) + 1) - 1)
        /\ Len(LineAt(buffer, Len(buffer) + 1)) = (Len(buffer) + 1) - 1 - start
    BY <1>1, <2>1, LineStarts
  <2> QED
    BY <2>1, <2>2 DEF Rest
<1> HIDE DEF start
<1>4. start \in 0..b - a /\ b - a \in 0..b - a /\ Len(Rest(buffer)) = b - (a + start)
  BY <1>1, <1>2, <1>3
<1>5. SubSeq(buffer, start + 1, b - a) = SubSeq(body, a + start + 1, a + (b - a))
  BY <1>4, WindowOfWindow
<1>6. a + (b - a) = b
  BY <1>2
<1>7. Rest(buffer) = SubSeq(body, a + start + 1, b)
  BY <1>1, <1>3, <1>5, <1>6
<1> QED
  BY <1>4, <1>7 DEF start

-----------------------------------------------------------------------------
(* What consume_lines looks through: what was kept and the chunk.          *)
LEMMA Buffered ==
  ASSUME ServedInv, NEW r \in Requests, NEW last \in call[r].read..Len(engine[r].sent)
  PROVE  LET chunk == SubSeq(engine[r].body, call[r].read + 1, last)
             base == call[r].read - Len(call[r].acc)
             buffer == call[r].acc \o chunk
         IN /\ last \in 0..Len(engine[r].body) /\ base \in 0..call[r].read /\ base \in 0..last
            /\ call[r].read + Len(chunk) = last
            /\ buffer = SubSeq(engine[r].body, base + 1, last)
            /\ call[r].read + Len(chunk) - Len(buffer) = base
<1> DEFINE body == engine[r].body
           read == call[r].read
           acc == call[r].acc
           chunk == SubSeq(body, read + 1, last)
           base == read - Len(acc)
           buffer == acc \o chunk
<1>1. body \in Seq(Pieces) /\ engine[r].sent \in Seq(Nat) /\ read \in Nat /\ acc \in Seq(Pieces)
  BY DEF ServedInv, Typed, Calls, Engines
<1>2. /\ Len(engine[r].sent) <= Len(body) /\ read <= Len(engine[r].sent) /\ Len(acc) <= read
      /\ acc = SubSeq(body, base + 1, read)
  BY DEF ServedInv, Answered, Relayed
<1>3. Len(body) \in Nat /\ Len(engine[r].sent) \in Nat /\ Len(acc) \in Nat
  BY <1>1
<1> HIDE DEF body, read, acc, base
<1>4. last \in Nat /\ read <= last /\ last <= Len(engine[r].sent)
  BY <1>1, <1>3 DEF read
<1>5. last \in 0..Len(body) /\ read \in 0..last /\ base \in 0..read /\ base \in 0..last
  BY <1>1, <1>2, <1>3, <1>4 DEF base
<1>6. Len(chunk) = last - read
  BY <1>1, <1>5, Window
<1>7. buffer = SubSeq(body, base + 1, last)
  <2>1. SubSeq(body, base + 1, read) \o SubSeq(body, read + 1, last) = SubSeq(body, base + 1, last)
    BY <1>1, <1>5, WindowsMeet
  <2> QED
    BY <1>2, <2>1
<1>8. Len(buffer) = last - base
  <2>1. Len(SubSeq(body, base + 1, last)) = last - base
    BY <1>1, <1>5, Window
  <2> QED
    BY <1>7, <2>1
<1> HIDE DEF chunk, buffer
<1>9. read + Len(chunk) = last /\ read + Len(chunk) - Len(buffer) = base
  BY <1>1, <1>4, <1>5, <1>6, <1>8
<1> QED
  BY <1>5, <1>7, <1>9 DEF chunk, buffer, body, read, acc, base

(* The requests a step does not serve stay as they are while time passes.  *)
LEMMA OthersStay ==
  ASSUME ServedInv, NEW q \in Requests, now' \in Nat, now' >= now,
         call'[q] = call[q], engine'[q] = engine[q], client'[q] = client[q]
  PROVE  (Answered(q) /\ Relayed(q))'
<1>1. /\ call[q].started \in Nat /\ now \in Nat /\ engine[q].sent \in Seq(Nat)
      /\ engine[q].begun \in Nat
  BY DEF ServedInv, Typed, Calls, Engines
<1>2. Relayed(q)'
  BY DEF ServedInv, Relayed
<1>3. Answered(q)'
  <2>1. Answered(q)
    BY DEF ServedInv
  <2>2. \A i \in DOMAIN engine[q].sent : engine[q].sent[i] \in Nat
    BY <1>1
  <2> QED
    BY <1>1, <2>1, <2>2 DEF Answered
<1> QED
  BY <1>2, <1>3

LEMMA InitServed == Init => ServedInv
<1> SUFFICES ASSUME Init PROVE ServedInv
  OBVIOUS
<1>1. \A r \in Requests : engine[r].body \in Seq(Pieces)
  BY BodiesAssumption DEF Init
<1>2. /\ \A r \in Requests : engine[r].begun = 0 /\ engine[r].sent = <<>> /\ engine[r].broken = FALSE
      /\ \A r \in Requests : engine[r] = [body |-> engine[r].body, begun |-> 0, sent |-> <<>>, broken |-> FALSE]
      /\ engine = [r \in Requests |-> engine[r]]
  BY DEF Init
<1>3. engine \in [Requests -> Engines]
  <2>1. \A body \in Seq(Pieces) : [body |-> body, begun |-> 0, sent |-> <<>>, broken |-> FALSE] \in Engines
    BY DEF Engines
  <2>2. \A r \in Requests : engine[r] \in Engines
    BY <1>1, <1>2, <2>1, Zenon
  <2> QED
    BY <1>2, <2>2, Zenon
<1>4. call \in [Requests -> Calls] /\ client \in [Requests -> Clients] /\ now \in Nat
  <2>1. [pc |-> "none", started |-> 0, read |-> 0, acc |-> <<>>, recorded |-> FALSE] \in Calls
    BY DEF Calls, Phases
  <2>2. [received |-> 0, ended |-> "no"] \in Clients
    BY DEF Clients, Endings
  <2> QED
    BY <2>1, <2>2 DEF Init
<1>5. ASSUME NEW r \in Requests PROVE Answered(r) /\ Relayed(r)
  <2>1. /\ call[r].pc = "none" /\ call[r].started = 0 /\ call[r].read = 0 /\ call[r].acc = <<>>
        /\ client[r].received = 0 /\ client[r].ended = "no" /\ now = 0 /\ engine[r].sent = <<>>
        /\ engine[r].begun = 0
    BY <1>2 DEF Init
  <2>2. Len(engine[r].body) \in Nat
    BY <1>1
  <2>3. SubSeq(engine[r].body, 1, 0) = <<>>
    BY SubSeqEmpty
  <2> QED
    BY <2>1, <2>2, <2>3 DEF Answered, Relayed
<1> QED
  BY <1>3, <1>4, <1>5 DEF ServedInv, Typed

-----------------------------------------------------------------------------
(* A request that ends, in whatever way, is complete only if it is whole.  *)
LEMMA EndServed ==
  ASSUME ServedInv, NEW r \in Requests, NEW how \in Endings,
         how = "complete" => client[r].received = call[r].read /\ call[r].read = Len(engine[r].body),
         call' = [call EXCEPT ![r].pc = "end"], client' = [client EXCEPT ![r].ended = how],
         engine' = engine, now' = now
  PROVE  ServedInv'
<1>1. call[r] \in Calls /\ client[r] \in Clients /\ engine[r] \in Engines /\ now \in Nat
  BY DEF ServedInv, Typed
<1>2. Answered(r) /\ Relayed(r)
  BY DEF ServedInv
<1>3. /\ call'[r].pc = "end" /\ call'[r].started = call[r].started /\ call'[r].read = call[r].read
      /\ call'[r].acc = call[r].acc
      /\ client'[r].ended = how /\ client'[r].received = client[r].received
  BY <1>1 DEF ServedInv, Typed, Calls, Clients
<1>4. Typed'
  BY <1>1 DEF ServedInv, Typed, Calls, Phases, Clients
<1>5. (Answered(r) /\ Relayed(r))'
  BY <1>1, <1>2, <1>3 DEF Answered, Relayed
<1>6. \A q \in Requests \ {r} : (Answered(q) /\ Relayed(q))'
  BY <1>1, OthersStay DEF ServedInv, Typed
<1> QED
  BY <1>4, <1>5, <1>6 DEF ServedInv

LEMMA ReceiveServed == ASSUME ServedInv, NEW r \in Requests, Receive(r) PROVE ServedInv'
<1>1. call[r] \in Calls /\ client[r] \in Clients /\ engine[r] \in Engines /\ now \in Nat
  BY DEF ServedInv, Typed
<1>2. now' = now /\ engine' = engine /\ call[r].pc = "none"
  BY DEF Receive
<1>3. CASE call' = [call EXCEPT ![r].pc = "send", ![r].started = now] /\ client' = client
  <2>1. /\ call'[r].pc = "send" /\ call'[r].started = now /\ call'[r].read = call[r].read
        /\ call'[r].acc = call[r].acc
    BY <1>1, <1>3 DEF ServedInv, Typed, Calls
  <2>2. Typed'
    BY <1>1, <1>2, <1>3 DEF ServedInv, Typed, Calls, Phases
  <2>3. Answered(r)'
    <3>1. engine[r].sent = <<>> /\ Len(engine[r].sent) <= Len(engine[r].body) /\ engine[r].begun <= now
      BY <1>2 DEF ServedInv, Answered
    <3> QED
      BY <1>1, <1>2, <2>1, <3>1 DEF Answered
  <2>4. Relayed(r)'
    BY <1>2, <1>3, <2>1 DEF ServedInv, Relayed
  <2>5. \A q \in Requests \ {r} : (Answered(q) /\ Relayed(q))'
    BY <1>1, <1>2, <1>3, OthersStay DEF ServedInv, Typed
  <2> QED
    BY <2>2, <2>3, <2>4, <2>5 DEF ServedInv
<1>4. CASE /\ call' = [call EXCEPT ![r].pc = "end"]
           /\ client' = [client EXCEPT ![r].ended = "bad_request"]
  BY <1>2, <1>4, EndServed DEF Endings
<1> QED
  BY <1>3, <1>4 DEF Receive

LEMMA BeginServed == ASSUME ServedInv, NEW r \in Requests, Begin(r) PROVE ServedInv'
<1>1. call[r] \in Calls /\ client[r] \in Clients /\ engine[r] \in Engines /\ now \in Nat
  BY DEF ServedInv, Typed
<1>2. now' = now /\ call[r].pc = "send"
  BY DEF Begin
<1>3. CASE /\ engine' = [engine EXCEPT ![r].begun = now]
           /\ call' = [call EXCEPT ![r].pc = "sent"] /\ client' = client
  <2>1. /\ call'[r].pc = "sent" /\ call'[r].started = call[r].started /\ call'[r].read = call[r].read
        /\ call'[r].acc = call[r].acc
        /\ engine'[r].begun = now /\ engine'[r].sent = engine[r].sent /\ engine'[r].body = engine[r].body
    BY <1>1, <1>3 DEF ServedInv, Typed, Calls, Engines
  <2>2. Typed'
    BY <1>1, <1>2, <1>3 DEF ServedInv, Typed, Calls, Phases, Engines
  <2>3. Answered(r)'
    <3>1. engine[r].sent = <<>> /\ Len(engine[r].sent) <= Len(engine[r].body) /\ call[r].started <= now
      BY <1>2 DEF ServedInv, Answered
    <3> QED
      BY <1>1, <1>2, <2>1, <3>1 DEF Answered
  <2>4. Relayed(r)'
    BY <1>2, <1>3, <2>1 DEF ServedInv, Relayed
  <2>5. \A q \in Requests \ {r} : (Answered(q) /\ Relayed(q))'
    BY <1>1, <1>2, <1>3, OthersStay DEF ServedInv, Typed
  <2> QED
    BY <2>2, <2>3, <2>4, <2>5 DEF ServedInv
<1>4. CASE /\ call' = [call EXCEPT ![r].pc = "end"]
           /\ client' = [client EXCEPT ![r].ended = "bad_gateway"] /\ engine' = engine
  BY <1>2, <1>4, EndServed DEF Endings
<1> QED
  BY <1>3, <1>4 DEF Begin

LEMMA GenerateServed == ASSUME ServedInv, NEW r \in Requests, Generate(r) PROVE ServedInv'
<1>1. call[r] \in Calls /\ client[r] \in Clients /\ engine[r] \in Engines /\ now \in Nat
  BY DEF ServedInv, Typed
<1>2. /\ now' = now /\ call' = call /\ client' = client
      /\ call[r].pc \in {"sent", "stream", "yield"}
  BY DEF Generate
<1>3. Answered(r) /\ Relayed(r)
  BY DEF ServedInv
<1>4. engine[r].sent \in Seq(Nat) /\ Len(engine[r].sent) \in Nat /\ engine[r].begun \in Nat
  BY <1>1 DEF Engines
<1>5. CASE Len(engine[r].sent) < Len(engine[r].body) /\ engine' = [engine EXCEPT ![r].sent = Append(@, now)]
  <2>1. /\ engine'[r].begun = engine[r].begun /\ engine'[r].sent = Append(engine[r].sent, now)
        /\ engine'[r].body = engine[r].body
    BY <1>1, <1>5 DEF ServedInv, Typed, Engines
  <2>2. /\ Append(engine[r].sent, now) \in Seq(Nat)
        /\ Len(Append(engine[r].sent, now)) = Len(engine[r].sent) + 1
        /\ \A i \in 1..Len(engine[r].sent) : Append(engine[r].sent, now)[i] = engine[r].sent[i]
        /\ Append(engine[r].sent, now)[Len(engine[r].sent) + 1] = now
    BY <1>1, <1>4, AppendProperties
  <2>3. Typed'
    BY <1>1, <1>2, <1>5, <2>2 DEF ServedInv, Typed, Engines
  <2>4. Answered(r)'
    <3>1. /\ call[r].started <= engine[r].begun /\ call[r].started <= now /\ engine[r].begun <= now
          /\ \A i \in 1..Len(engine[r].sent) :
               engine[r].begun <= engine[r].sent[i] /\ engine[r].sent[i] <= now
      BY <1>2, <1>3, <1>4 DEF Answered
    <3>2. DOMAIN Append(engine[r].sent, now) = 1..Len(engine[r].sent) + 1
      BY <1>4, <2>2
    <3>3. \A i \in DOMAIN Append(engine[r].sent, now) :
            /\ engine[r].begun <= Append(engine[r].sent, now)[i]
            /\ Append(engine[r].sent, now)[i] <= now
      <4> SUFFICES ASSUME NEW i \in 1..Len(engine[r].sent) + 1
                   PROVE  /\ engine[r].begun <= Append(engine[r].sent, now)[i]
                          /\ Append(engine[r].sent, now)[i] <= now
        BY <3>2
      <4>1. CASE i = Len(engine[r].sent) + 1
        BY <1>1, <2>2, <3>1, <4>1
      <4>2. CASE i \in 1..Len(engine[r].sent)
        BY <2>2, <3>1, <4>2
      <4> QED
        BY <1>4, <4>1, <4>2
    <3>4. Len(Append(engine[r].sent, now)) <= Len(engine[r].body)
      <4>1. Len(engine[r].body) \in Nat
        BY <1>1 DEF Engines
      <4> QED
        BY <1>4, <1>5, <2>2, <4>1
    <3>5. call'[r] = call[r] /\ engine'[r].sent = Append(engine[r].sent, now)
      BY <1>2, <2>1
    <3> HIDE DEF Answered
    <3>6. /\ call'[r].pc \notin {"none", "send"}
          /\ call'[r].started <= engine'[r].begun
          /\ call'[r].started <= now' /\ engine'[r].begun <= now'
          /\ Len(engine'[r].sent) <= Len(engine'[r].body)
      BY <1>2, <2>1, <3>1, <3>4
    <3> QED
      BY <1>2, <2>1, <3>3, <3>5, <3>6, Zenon DEF Answered
  <2>5. Relayed(r)'
    <3>1. call[r].read <= Len(engine'[r].sent)
      <4>1. call[r].read \in Nat /\ call[r].read <= Len(engine[r].sent)
        BY <1>1, <1>3 DEF Relayed, Calls
      <4> QED
        BY <1>4, <2>1, <2>2, <4>1
    <3> QED
      BY <1>2, <1>3, <2>1, <3>1 DEF Relayed
  <2>6. \A q \in Requests \ {r} : (Answered(q) /\ Relayed(q))'
    BY <1>1, <1>2, <1>5, OthersStay DEF ServedInv, Typed
  <2> QED
    BY <2>3, <2>4, <2>5, <2>6 DEF ServedInv
<1>6. CASE engine' = [engine EXCEPT ![r].broken = Len(engine[r].sent) < Len(engine[r].body)]
  <2>1. /\ engine'[r].begun = engine[r].begun /\ engine'[r].sent = engine[r].sent
        /\ engine'[r].body = engine[r].body
    BY <1>1, <1>6 DEF ServedInv, Typed, Engines
  <2>2. Typed'
    <3>1. (Len(engine[r].sent) < Len(engine[r].body)) \in BOOLEAN
      OBVIOUS
    <3> QED
      BY <1>1, <1>2, <1>6, <3>1 DEF ServedInv, Typed, Engines
  <2>3. Answered(r)' /\ Relayed(r)'
    BY <1>2, <1>3, <2>1 DEF Answered, Relayed
  <2>4. \A q \in Requests \ {r} : (Answered(q) /\ Relayed(q))'
    BY <1>1, <1>2, <1>6, OthersStay DEF ServedInv, Typed
  <2> QED
    BY <2>2, <2>3, <2>4 DEF ServedInv
<1> QED
  BY <1>5, <1>6 DEF Generate

LEMMA RespondServed == ASSUME ServedInv, NEW r \in Requests, Respond(r) PROVE ServedInv'
<1>1. call[r] \in Calls /\ client[r] \in Clients /\ engine[r] \in Engines /\ now \in Nat
  BY DEF ServedInv, Typed
<1>2. now' = now /\ engine' = engine /\ call[r].pc = "sent"
  BY DEF Respond
<1>3. Answered(r) /\ Relayed(r)
  BY DEF ServedInv
<1>4. CASE call' = [call EXCEPT ![r].pc = "stream"] /\ client' = client
  <2>1. /\ call'[r].pc = "stream" /\ call'[r].started = call[r].started /\ call'[r].read = call[r].read
        /\ call'[r].acc = call[r].acc
    BY <1>1, <1>4 DEF ServedInv, Typed, Calls
  <2>2. Typed'
    BY <1>1, <1>2, <1>4 DEF ServedInv, Typed, Calls, Phases
  <2>3. Answered(r)' /\ Relayed(r)'
    BY <1>1, <1>2, <1>3, <1>4, <2>1 DEF Answered, Relayed
  <2>4. \A q \in Requests \ {r} : (Answered(q) /\ Relayed(q))'
    BY <1>1, <1>2, <1>4, OthersStay DEF ServedInv, Typed
  <2> QED
    BY <2>2, <2>3, <2>4 DEF ServedInv
<1>5. CASE /\ call' = [call EXCEPT ![r].pc = "end"]
           /\ client' = [client EXCEPT ![r].ended = "bad_gateway"]
  BY <1>2, <1>5, EndServed DEF Endings
<1> QED
  BY <1>4, <1>5 DEF Respond

LEMMA ChunkServed == ASSUME ServedInv, NEW r \in Requests, Chunk(r) PROVE ServedInv'
<1>1. call[r] \in Calls /\ client[r] \in Clients /\ engine[r] \in Engines /\ now \in Nat
  BY DEF ServedInv, Typed
<1>2. now' = now /\ engine' = engine /\ client' = client /\ call[r].pc = "stream"
  BY DEF Chunk
<1>3. Answered(r) /\ Relayed(r)
  BY DEF ServedInv
<1>4. PICK last \in call[r].read + 1..Len(engine[r].sent) :
        Consume(r, SubSeq(engine[r].body, call[r].read + 1, last))
  BY DEF Chunk
<1> DEFINE body == engine[r].body
           chunk == SubSeq(body, call[r].read + 1, last)
           base == call[r].read - Len(call[r].acc)
           buffer == call[r].acc \o chunk
           found == Accounting(EngineOf[r], buffer)
           acc == IF Len(Rest(buffer)) > MaxBody THEN <<>> ELSE Rest(buffer)
           recorded == call[r].recorded \/ found # {}
<1>5. call' = [call EXCEPT ![r].acc = acc, ![r].recorded = recorded,
                           ![r].read = call[r].read + Len(chunk), ![r].pc = "yield"]
  BY <1>4 DEF Consume
<1>6. body \in Seq(Pieces) /\ Len(body) \in Nat /\ Len(engine[r].sent) \in Nat /\ call[r].read \in Nat
  <2>1. body \in Seq(Pieces) /\ engine[r].sent \in Seq(Nat)
    BY <1>1 DEF Engines
  <2>2. call[r].read \in Nat
    BY <1>1 DEF Calls
  <2> QED
    BY <2>1, <2>2
<1>7. last \in call[r].read..Len(engine[r].sent) /\ last \in Nat
  BY <1>4, <1>6
<1>8. /\ last \in 0..Len(body) /\ base \in 0..last
      /\ call[r].read + Len(chunk) = last
      /\ buffer = SubSeq(body, base + 1, last)
  BY <1>7, Buffered
<1>9. acc \in Seq(Pieces) /\ Len(acc) <= last /\ acc = SubSeq(body, last - Len(acc) + 1, last)
  <2> DEFINE start == LineStart(buffer, Len(buffer) + 1)
  <2>1. start \in 0..last - base /\ Rest(buffer) = SubSeq(body, base + start + 1, last)
        /\ Len(Rest(buffer)) = last - (base + start)
    <3> HIDE DEF body, base, buffer
    <3>1. LET b == SubSeq(body, base + 1, last)
              s == LineStart(b, Len(b) + 1)
          IN s \in 0..last - base /\ Rest(b) = SubSeq(body, base + s + 1, last)
             /\ Len(Rest(b)) = last - (base + s)
      BY <1>6, <1>8, RestIsWindow
    <3> QED
      BY <1>8, <3>1
  <2>0. acc = Rest(buffer) \/ acc = <<>>
    OBVIOUS
  <2> HIDE DEF start, body, base, buffer, acc
  <2>2. base \in Nat /\ start \in Nat /\ base + start \in 0..last
    BY <1>7, <1>8, <2>1
  <2>3. CASE acc = Rest(buffer)
    <3>1. last - Len(acc) = base + start /\ Len(acc) <= last
      BY <1>7, <2>1, <2>2, <2>3
    <3>2. Rest(buffer) \in Seq(Pieces)
      BY <1>6, <1>8, <2>1, <2>2, Window
    <3> QED
      BY <2>1, <2>3, <3>1, <3>2
  <2>4. CASE acc = <<>>
    <3>1. Len(acc) = 0 /\ last - 0 = last /\ SubSeq(body, last + 1, last) = <<>>
      BY <1>7, <2>4, SubSeqEmpty
    <3> QED
      BY <1>7, <2>4, <3>1
  <2> QED
    BY <2>0, <2>3, <2>4
<1>10. recorded \in BOOLEAN
  OBVIOUS
<1> HIDE DEF body, chunk, buffer, acc, found, base, recorded
<1>11. /\ call'[r].pc = "yield" /\ call'[r].started = call[r].started /\ call'[r].read = last
       /\ call'[r].acc = acc
  BY <1>1, <1>5, <1>8 DEF ServedInv, Typed, Calls
<1>12. Typed'
  <2>1. call' = [call EXCEPT ![r] = [call[r] EXCEPT !.acc = acc, !.recorded = recorded, !.read = last, !.pc = "yield"]]
    BY <1>1, <1>5, <1>8 DEF ServedInv, Typed, Calls
  <2>2. [call[r] EXCEPT !.acc = acc, !.recorded = recorded, !.read = last, !.pc = "yield"] \in Calls
    BY <1>1, <1>7, <1>9, <1>10 DEF Calls, Phases
  <2> QED
    BY <1>1, <1>2, <2>1, <2>2 DEF ServedInv, Typed
<1>13. Answered(r)' /\ Relayed(r)'
  <2>1. last <= Len(engine[r].sent)
    BY <1>6, <1>7
  <2> QED
    BY <1>1, <1>2, <1>3, <1>9, <1>11, <2>1 DEF Answered, Relayed, body
<1>14. \A q \in Requests \ {r} : (Answered(q) /\ Relayed(q))'
  BY <1>1, <1>2, <1>5, OthersStay DEF ServedInv, Typed
<1> QED
  BY <1>12, <1>13, <1>14 DEF ServedInv

LEMMA YieldServed == ASSUME ServedInv, NEW r \in Requests, Yield(r) PROVE ServedInv'
<1>1. call[r] \in Calls /\ client[r] \in Clients /\ engine[r] \in Engines /\ now \in Nat
  BY DEF ServedInv, Typed
<1>2. /\ now' = now /\ engine' = engine /\ call[r].pc = "yield"
      /\ call' = [call EXCEPT ![r].pc = "stream"]
      /\ client' = [client EXCEPT ![r].received = call[r].read]
  BY DEF Yield
<1>3. Answered(r) /\ Relayed(r)
  BY DEF ServedInv
<1>4. /\ call'[r].pc = "stream" /\ call'[r].started = call[r].started /\ call'[r].read = call[r].read
      /\ call'[r].acc = call[r].acc
      /\ client'[r].received = call[r].read /\ client'[r].ended = client[r].ended
  BY <1>1, <1>2 DEF ServedInv, Typed, Calls, Clients
<1>5. Typed'
  BY <1>1, <1>2 DEF ServedInv, Typed, Calls, Phases, Clients
<1>6. Answered(r)' /\ Relayed(r)'
  BY <1>1, <1>2, <1>3, <1>4 DEF Answered, Relayed
<1>7. \A q \in Requests \ {r} : (Answered(q) /\ Relayed(q))'
  BY <1>1, <1>2, OthersStay DEF ServedInv, Typed
<1> QED
  BY <1>5, <1>6, <1>7 DEF ServedInv

LEMMA NextServed == ServedInv /\ [Next]_vars => ServedInv'
<1> SUFFICES ASSUME ServedInv, [Next]_vars PROVE ServedInv'
  OBVIOUS
<1>1. ASSUME now' \in Nat, now' >= now, UNCHANGED <<call, engine, client>> PROVE ServedInv'
  BY <1>1, OthersStay DEF ServedInv, Typed
<1>2. now \in Nat
  BY DEF ServedInv, Typed
<1>3. CASE Bind \/ Read \/ UNCHANGED vars
  BY <1>1, <1>2, <1>3 DEF Bind, Read, vars
<1>4. CASE Tick
  BY <1>1, <1>2, <1>4 DEF Tick
<1>5. ASSUME NEW r \in Requests, PassError(r) PROVE ServedInv'
  BY <1>5, EndServed DEF PassError, Endings
<1>6. ASSUME NEW r \in Requests, Finish(r) PROVE ServedInv'
  <2>1. client[r].received = call[r].read /\ call[r].read = Len(engine[r].body)
    BY <1>6 DEF Finish, ServedInv, Relayed
  <2> QED
    BY <1>6, <2>1, EndServed DEF Finish, Endings
<1>7. ASSUME NEW r \in Requests, Leave(r) PROVE ServedInv'
  BY <1>7, EndServed DEF Leave, Endings
<1> QED
  BY <1>3, <1>4, <1>5, <1>6, <1>7, ReceiveServed, BeginServed, GenerateServed, RespondServed,
     ChunkServed, YieldServed DEF Next

(* An answer that ends as complete for the client is the whole of it,      *)
(* however it was cut and whatever else was served meanwhile.              *)
THEOREM CompleteIsWhole == Spec => []CompleteMeansWhole
<1>1. ServedInv => CompleteMeansWhole
  BY DEF ServedInv, Relayed, CompleteMeansWhole
<1> QED
  BY <1>1, InitServed, NextServed, PTL DEF Spec

-----------------------------------------------------------------------------
(* The table, and what the panel has read of it.                           *)
IsSeq(s) == \E S : s \in Seq(S)

TableInv ==
  /\ IsSeq(samples) /\ failures \in [Requests -> Nat]
  /\ RatesAreNotOverstated

PanelInv ==
  /\ panel.read \in {0, 1} /\ panel.values \in [Fields -> Nat]
  /\ panel.values["lastTokensPerSec"] <= Len(samples)
  /\ RateIsCounted

LEMMA Extended ==
  ASSUME NEW s, IsSeq(s), NEW T, NEW t \in Seq(T)
  PROVE  /\ Len(s) \in Nat /\ DOMAIN s = 1..Len(s)
         /\ IsSeq(s \o t) /\ Len(s \o t) = Len(s) + Len(t)
         /\ DOMAIN (s \o t) = 1..Len(s) + Len(t)
         /\ \A k \in DOMAIN s : (s \o t)[k] = s[k]
         /\ \A k \in Len(s) + 1..Len(s) + Len(t) : (s \o t)[k] = t[k - Len(s)]
<1>1. PICK S : s \in Seq(S)
  BY DEF IsSeq
<1>2. s \in Seq(S \union T) /\ t \in Seq(S \union T)
  BY <1>1
<1>3. /\ s \o t \in Seq(S \union T) /\ Len(s \o t) = Len(s) + Len(t)
      /\ \A k \in 1..Len(s) + Len(t) : (s \o t)[k] = IF k <= Len(s) THEN s[k] ELSE t[k - Len(s)]
  BY <1>2, ConcatProperties
<1>4. Len(s) \in Nat /\ Len(t) \in Nat /\ DOMAIN s = 1..Len(s)
  BY <1>1
<1>5. DOMAIN (s \o t) = 1..Len(s) + Len(t)
  BY <1>3
<1>6. IsSeq(s \o t)
  BY <1>3 DEF IsSeq
<1>7. \A k \in DOMAIN s : (s \o t)[k] = s[k]
  BY <1>3, <1>4
<1>8. \A k \in Len(s) + 1..Len(s) + Len(t) : (s \o t)[k] = t[k - Len(s)]
  BY <1>3, <1>4
<1> QED
  BY <1>3, <1>4, <1>5, <1>6, <1>7, <1>8

(* What record_line adds: so many rows of the request, and the rest of its *)
(* lines are refused.                                                      *)
LEMMA Recording ==
  ASSUME ServedInv, TableInv, NEW r \in Requests, call[r].pc = "stream",
         NEW ends \in SUBSET DOMAIN engine[r].sent, Record(r, ends)
  PROVE  /\ IsFiniteSet(ends)
         /\ \E n \in 0..Cardinality(ends) :
              /\ IsSeq(samples') /\ Len(samples) \in Nat /\ DOMAIN samples = 1..Len(samples)
              /\ Len(samples') = Len(samples) + n /\ DOMAIN samples' = 1..Len(samples) + n
              /\ \A k \in DOMAIN samples : samples'[k] = samples[k]
              /\ \A k \in Len(samples) + 1..Len(samples) + n :
                   samples'[k].request = r /\ samples'[k].elapsed >= samples'[k].generated
              /\ failures' = [failures EXCEPT ![r] = @ + (Cardinality(ends) - n)]
<1> DEFINE sent == engine[r].sent
           made(i) == sent[i] - engine[r].begun
           row(i) == [request |-> r, generated |-> made(i),
                      elapsed |-> IF EngineOf[r] = "ollama" THEN made(i) ELSE now - call[r].started]
<1>0. PICK kept \in SUBSET ends : \E order \in SetToSeqs(kept) :
        /\ samples' = samples \o [k \in DOMAIN order |-> row(order[k])]
        /\ failures' = [failures EXCEPT ![r] = @ + Cardinality(ends \ kept)]
  BY Zenon DEF Record
<1>1. PICK order \in SetToSeqs(kept) :
        /\ samples' = samples \o [k \in DOMAIN order |-> row(order[k])]
        /\ failures' = [failures EXCEPT ![r] = @ + Cardinality(ends \ kept)]
  BY <1>0
<1>2. sent \in Seq(Nat) /\ engine[r].begun \in Nat /\ call[r].started \in Nat /\ now \in Nat
  BY DEF ServedInv, Typed, Calls, Engines
<1>3. DOMAIN sent = 1..Len(sent) /\ Len(sent) \in Nat
  BY <1>2
<1>4. ASSUME NEW i \in kept PROVE row(i).request = r /\ row(i).elapsed >= row(i).generated
  <2>1. /\ call[r].started <= engine[r].begun /\ engine[r].begun <= sent[i] /\ sent[i] <= now
    BY DEF ServedInv, Answered
  <2>2. sent[i] \in Nat
    BY <1>2
  <2>3. made(i) \in Int /\ made(i) <= now - call[r].started
    <3> DEFINE at == sent[i]
               begun == engine[r].begun
               started == call[r].started
    <3>1. at \in Nat /\ begun \in Nat /\ started \in Nat /\ started <= begun /\ at <= now
      BY <1>2, <2>1, <2>2
    <3> HIDE DEF at, begun, started
    <3>2. at - begun \in Int /\ at - begun <= now - started
      BY <1>2, <3>1
    <3> QED
      BY <3>2 DEF at, begun, started
  <2>4. row(i).request = r /\ row(i).generated = made(i)
        /\ row(i).elapsed = IF EngineOf[r] = "ollama" THEN made(i) ELSE now - call[r].started
    OBVIOUS
  <2> HIDE DEF made, row
  <2> QED
    BY <1>2, <2>3, <2>4
<1>5. IsFiniteSet(ends) /\ IsFiniteSet(kept) /\ IsFiniteSet(ends \ kept)
  <2>1. IsFiniteSet(1..Len(sent))
    <3>1. \A k \in Nat : IsFiniteSet(1..k)
      BY FS_Interval
    <3> QED
      BY <1>3, <3>1
  <2> QED
    BY <1>3, <2>1, FS_Subset
<1> DEFINE n == Cardinality(kept)
<1>6. n \in 0..Cardinality(ends) /\ Cardinality(ends \ kept) = Cardinality(ends) - n
  <2>1. Cardinality(ends) \in Nat /\ n \in Nat /\ Cardinality(ends \ kept) \in Nat
    BY <1>5, FS_CardinalityType
  <2>2. ends = kept \union (ends \ kept) /\ kept \cap (ends \ kept) = {}
    OBVIOUS
  <2>3. Cardinality(kept \union (ends \ kept))
          = n + Cardinality(ends \ kept) - Cardinality(kept \cap (ends \ kept))
    BY <1>5, FS_Union
  <2>4. Cardinality(ends) = n + Cardinality(ends \ kept)
    <3>1. Cardinality(kept \cap (ends \ kept)) = 0
      BY <2>2, FS_EmptySet
    <3> HIDE DEF n
    <3> QED
      BY <2>1, <2>2, <2>3, <3>1
  <2> HIDE DEF n
  <2> QED
    BY <2>1, <2>4
<1>7. order \in [1..n -> kept]
  BY DEF SetToSeqs
<1> DEFINE t == [k \in DOMAIN order |-> row(order[k])]
           T == {row(i) : i \in kept}
<1>8. t \in Seq(T) /\ Len(t) = n /\ \A k \in 1..n : t[k] = row(order[k]) /\ order[k] \in kept
  <2>1. DOMAIN t = 1..n /\ \A k \in 1..n : t[k] = row(order[k]) /\ order[k] \in kept
    BY <1>7
  <2>2. n \in Nat
    BY <1>6, <1>5, FS_CardinalityType
  <2>3. t \in [1..n -> T]
    BY <2>1
  <2> HIDE DEF t, T, n, row
  <2>4. t \in Seq(T)
    BY <2>2, <2>3
  <2> QED
    BY <2>1, <2>2, <2>4
<1>9. samples' = samples \o t
  BY <1>1
<1>10. IsSeq(samples)
  BY DEF TableInv
<1>11. ASSUME NEW k \in Len(samples) + 1..Len(samples) + n, t[k - Len(samples)] = samples'[k], Len(samples) \in Nat
       PROVE  samples'[k].request = r /\ samples'[k].elapsed >= samples'[k].generated
  <2>1. n \in Nat
    BY <1>6, <1>5, FS_CardinalityType
  <2> HIDE DEF n, t, row
  <2>2. k - Len(samples) \in 1..n
    BY <1>11, <2>1
  <2>3. PICK i \in kept : samples'[k] = row(i)
    BY <1>8, <1>11, <2>2
  <2> QED
    BY <1>4, <2>3
<1> HIDE DEF t, T, n, row
<1>12. /\ Len(samples) \in Nat /\ DOMAIN samples = 1..Len(samples)
       /\ IsSeq(samples \o t) /\ Len(samples \o t) = Len(samples) + Len(t)
       /\ DOMAIN (samples \o t) = 1..Len(samples) + Len(t)
       /\ \A k \in DOMAIN samples : (samples \o t)[k] = samples[k]
       /\ \A k \in Len(samples) + 1..Len(samples) + Len(t) : (samples \o t)[k] = t[k - Len(samples)]
  BY <1>8, <1>10, Extended
<1>13. \A k \in Len(samples) + 1..Len(samples) + n :
         samples'[k].request = r /\ samples'[k].elapsed >= samples'[k].generated
  BY <1>8, <1>9, <1>11, <1>12
<1>14. failures' = [failures EXCEPT ![r] = @ + (Cardinality(ends) - n)]
  BY <1>1, <1>6
<1>15. IsSeq(samples')
  BY <1>9, <1>12
<1> QED
  BY <1>5, <1>6, <1>8, <1>9, <1>12, <1>13, <1>14, <1>15

-----------------------------------------------------------------------------
(* The lines of a window are those of the answer, but for the first: it    *)
(* may have begun before the window does.                                  *)
LEMMA BufferLines ==
  ASSUME NEW body \in Seq(Pieces), NEW b \in 0..Len(body), NEW a \in 0..b, NEW i \in 1..b - a + 1
  PROVE  LET buffer == SubSeq(body, a + 1, b)
             start == LineStart(body, a + i)
         IN /\ NewlinesOf(buffer) = {j \in 1..b - a : a + j \in NewlinesOf(body)}
            /\ LineStart(buffer, i) = IF start >= a THEN start - a ELSE 0
            /\ start >= a => LineAt(buffer, i) = LineAt(body, a + i)
<1> DEFINE buffer == SubSeq(body, a + 1, b)
           start == LineStart(body, a + i)
           s == LineStart(buffer, i)
<1>1. /\ Len(body) \in Nat /\ a \in Nat /\ b \in Nat /\ a <= b /\ b <= Len(body)
      /\ b - a \in Nat /\ i \in Nat /\ 1 <= i /\ i <= b - a + 1 /\ a + i \in 1..Len(body) + 1
  <2>1. Len(body) \in Nat /\ a \in Nat /\ b \in Nat /\ a <= b /\ b <= Len(body)
    OBVIOUS
  <2>2. b - a \in Nat
    BY <2>1
  <2>3. i \in Nat /\ 1 <= i /\ i <= b - a + 1
    BY <2>1, <2>2
  <2> QED
    BY <2>1, <2>2, <2>3
<1>2. /\ buffer \in Seq(Pieces) /\ Len(buffer) = b - a
      /\ \A j \in 1..b - a : buffer[j] = body[a + j]
  BY Window
<1>3. NewlinesOf(buffer) = {j \in 1..b - a : a + j \in NewlinesOf(body)}
  <2>1. DOMAIN buffer = 1..b - a /\ DOMAIN body = 1..Len(body)
    BY <1>1, <1>2
  <2>2. \A j \in 1..b - a : a + j \in 1..Len(body)
    BY <1>1
  <2> HIDE DEF buffer
  <2> QED
    BY <1>2, <2>1, <2>2 DEF NewlinesOf
<1>4. /\ start \in 0..a + i - 1 /\ (start # 0 => start \in NewlinesOf(body))
      /\ \A j \in NewlinesOf(body) : j < a + i => j <= start
      /\ LineAt(body, a + i) = SubSeq(body, start + 1, a + i - 1)
  BY <1>1, LineStarts
<1> HIDE DEF buffer
<1>5. /\ s \in 0..i - 1 /\ (s # 0 => s \in NewlinesOf(buffer))
      /\ \A j \in NewlinesOf(buffer) : j < i => j <= s
      /\ LineAt(buffer, i) = SubSeq(buffer, s + 1, i - 1)
  <2>1. i \in 1..Len(buffer) + 1
    BY <1>1, <1>2
  <2> QED
    BY <1>2, <2>1, LineStarts
<1> HIDE DEF start, s
<1>6. s # 0 => a + s <= start
  <2> SUFFICES ASSUME s # 0 PROVE a + s <= start
    OBVIOUS
  <2>1. a + s \in NewlinesOf(body) /\ a + s < a + i
    BY <1>1, <1>3, <1>5
  <2> QED
    BY <1>4, <2>1
<1>7. start > a => start - a <= s
  <2> SUFFICES ASSUME start > a PROVE start - a <= s
    OBVIOUS
  <2>1. start \in Nat /\ start <= a + i - 1 /\ start \in NewlinesOf(body)
    BY <1>1, <1>4
  <2>2. start - a \in 1..b - a /\ a + (start - a) = start /\ start - a < i
    BY <1>1, <2>1
  <2>3. start - a \in NewlinesOf(buffer)
    BY <1>3, <2>1, <2>2
  <2> QED
    BY <1>5, <2>2, <2>3
<1>8. s \in Nat /\ start \in Nat /\ s <= i - 1 /\ start <= a + i - 1
  BY <1>1, <1>4, <1>5
<1>9. s = IF start >= a THEN start - a ELSE 0
  BY <1>1, <1>6, <1>7, <1>8
<1>10. ASSUME start >= a PROVE LineAt(buffer, i) = LineAt(body, a + i)
  <2>1. s = start - a /\ s \in 0..i - 1 /\ i - 1 \in 0..b - a
    BY <1>1, <1>5, <1>9, <1>10
  <2>2. SubSeq(buffer, s + 1, i - 1) = SubSeq(body, a + s + 1, a + (i - 1))
    BY <2>1, WindowOfWindow DEF buffer
  <2>3. a + s + 1 = start + 1 /\ a + (i - 1) = a + i - 1
    BY <1>1, <1>8, <2>1
  <2> QED
    BY <1>4, <1>5, <2>2, <2>3
<1> QED
  BY <1>3, <1>9, <1>10 DEF buffer, start, s

LEMMA PrefixLines ==
  ASSUME NEW body \in Seq(Pieces), NEW k \in 0..Len(body)
  PROVE  LET seen == SubSeq(body, 1, k)
         IN /\ seen \in Seq(Pieces) /\ Len(seen) = k
            /\ NewlinesOf(seen) = {j \in NewlinesOf(body) : j <= k}
            /\ \A i \in 1..k + 1 : LineAt(seen, i) = LineAt(body, i)
<1> DEFINE seen == SubSeq(body, 1, k)
<1>1. k \in Nat /\ 0 \in 0..k /\ Len(body) \in Nat /\ k <= Len(body) /\ DOMAIN body = 1..Len(body)
  OBVIOUS
<1>2. seen \in Seq(Pieces) /\ Len(seen) = k
  <2>1. SubSeq(body, 0 + 1, k) \in Seq(Pieces) /\ Len(SubSeq(body, 0 + 1, k)) = k - 0
    BY <1>1, Window
  <2>2. 0 + 1 = 1 /\ k - 0 = k
    BY <1>1
  <2> QED
    BY <2>1, <2>2
<1>3. ASSUME NEW i \in 1..k + 1
      PROVE  NewlinesOf(seen) = {j \in NewlinesOf(body) : j <= k} /\ LineAt(seen, i) = LineAt(body, i)
  <2>1. 0 + 1 = 1 /\ k - 0 = k /\ 0 + i = i /\ i \in 1..k - 0 + 1 /\ \A j \in 1..k : 0 + j = j
    BY <1>1
  <2>2. LineStart(body, 0 + i) >= 0
    <3>1. i \in 1..Len(body) + 1
      BY <1>1
    <3>2. LineStart(body, i) \in 0..i - 1
      BY <3>1, LineStarts
    <3> QED
      BY <1>1, <2>1, <3>2
  <2>3. LET buffer == SubSeq(body, 0 + 1, k)
            start == LineStart(body, 0 + i)
        IN /\ NewlinesOf(buffer) = {j \in 1..k - 0 : 0 + j \in NewlinesOf(body)}
           /\ start >= 0 => LineAt(buffer, i) = LineAt(body, 0 + i)
    BY <1>1, <2>1, BufferLines
  <2>4. LineAt(seen, i) = LineAt(body, i)
    BY <2>1, <2>2, <2>3
  <2>5. NewlinesOf(seen) = {j \in 1..k : j \in NewlinesOf(body)}
    BY <2>1, <2>3
  <2>6. \A j \in NewlinesOf(body) : j \in 1..Len(body)
    BY <1>1 DEF NewlinesOf
  <2> QED
    BY <1>1, <2>4, <2>5, <2>6
<1>4. 1 \in 1..k + 1
  BY <1>1
<1> QED
  BY <1>2, <1>3, <1>4

-----------------------------------------------------------------------------
(* The accounting lines of an answer up to a position, and those of its    *)
(* lines that are too long for the valve.                                  *)
Lines(kind, body, k) == {i \in NewlinesOf(body) : i <= k /\ IsAccounting(kind, LineAt(body, i))}
Long(body, k) == {i \in NewlinesOf(body) : i <= k /\ Len(LineAt(body, i)) > MaxBody}

(* What is kept of the line in progress is all of it, or the line is too   *)
(* long.                                                                   *)
Whole(body, base, read) ==
  LET start == LineStart(body, read + 1)
  IN start <= base /\ (base = start \/ read - start > MaxBody)

LEMMA AccountingIsShort ==
  ASSUME NEW kind, NEW line, IsAccounting(kind, line)
  PROVE  Len(line) = 2 /\ ~(Len(line) > MaxBody)
<1>1. line = <<"{final", "}">> \/ line = <<"{usage", "}">>
  BY DEF IsAccounting
<1>2. Len(line) = 2
  <2>1. \A a, b : Len(<<a, b>>) = 2
    OBVIOUS
  <2> QED
    BY <1>1, <2>1, Zenon
<1> QED
  BY <1>2, ValveAssumption

(* Where a line ends that began before the window, nothing else can have   *)
(* ended in between.                                                       *)
LEMMA SameStart ==
  ASSUME NEW body \in Seq(Pieces), NEW read \in 0..Len(body), NEW base \in 0..read,
         Whole(body, base, read), NEW e \in read + 1..Len(body) + 1, LineStart(body, e) < base
  PROVE  LineStart(body, e) = LineStart(body, read + 1) /\ read - LineStart(body, e) > MaxBody
<1> DEFINE start == LineStart(body, read + 1)
           s == LineStart(body, e)
<1>1. /\ Len(body) \in Nat /\ read \in Nat /\ base \in Nat /\ e \in Nat /\ base <= read /\ read < e
      /\ e \in 1..Len(body) + 1 /\ read + 1 \in 1..Len(body) + 1
  OBVIOUS
<1>2. /\ start \in 0..read + 1 - 1 /\ (start # 0 => start \in NewlinesOf(body))
      /\ \A j \in NewlinesOf(body) : j < read + 1 => j <= start
  BY <1>1, LineStarts
<1>3. /\ s \in 0..e - 1 /\ (s # 0 => s \in NewlinesOf(body))
      /\ \A j \in NewlinesOf(body) : j < e => j <= s
  BY <1>1, LineStarts
<1>4. start <= base /\ (base = start \/ read - start > MaxBody)
  BY DEF Whole
<1>5. s < base
  OBVIOUS
<1> HIDE DEF start, s
<1>6. start \in Nat /\ s \in Nat /\ start <= read
  BY <1>1, <1>2, <1>3
<1>7. start <= s
  BY <1>1, <1>2, <1>3, <1>6
<1>8. s <= start
  BY <1>1, <1>2, <1>3, <1>5, <1>6
<1>9. s = start /\ read - s > MaxBody
  BY <1>4, <1>5, <1>6, <1>7, <1>8
<1> QED
  BY <1>9 DEF start, s

(* The accounting lines of a window, by their place in the answer.         *)
FoundIn(kind, body, base, last) ==
  {base + i : i \in Accounting(kind, SubSeq(body, base + 1, last))}

(* What is found in the buffer are the accounting lines that end in the    *)
(* chunk, and of the others at most such as are too long.                  *)
LEMMA Found ==
  ASSUME NEW kind, NEW body \in Seq(Pieces), NEW last \in 0..Len(body), NEW read \in 0..last,
         NEW base \in 0..read, Whole(body, base, read)
  PROVE  LET found == FoundIn(kind, body, base, last)
             lines == Lines(kind, body, last) \ Lines(kind, body, read)
             long == Long(body, last) \ Long(body, read)
         IN found \subseteq read + 1..last /\ lines \subseteq found /\ found \subseteq lines \union long
<1> DEFINE buffer == SubSeq(body, base + 1, last)
           found == {base + i : i \in Accounting(kind, buffer)}
           lines == Lines(kind, body, last) \ Lines(kind, body, read)
           long == Long(body, last) \ Long(body, read)
<1>1. /\ Len(body) \in Nat /\ read \in Nat /\ base \in Nat /\ last \in Nat
      /\ base <= read /\ read <= last /\ last <= Len(body)
      /\ base \in 0..last /\ read \in 0..Len(body) /\ read + 1 \in 1..Len(body) + 1
      /\ DOMAIN body = 1..Len(body)
  OBVIOUS
<1>2. ASSUME NEW e \in NewlinesOf(body), base < e, e <= last
      PROVE  e \in read + 1..last
  <2>1. e \in 1..Len(body)
    BY <1>1 DEF NewlinesOf
  <2>2. LineStart(body, read + 1) <= base
    BY DEF Whole
  <2>3. e < read + 1 => e <= LineStart(body, read + 1)
    BY <1>1, LineStarts
  <2>4. LineStart(body, read + 1) \in 0..read + 1 - 1
    BY <1>1, LineStarts
  <2> QED
    BY <1>1, <1>2, <2>1, <2>2, <2>3, <2>4
<1>3. ASSUME NEW i \in 1..last - base
      PROVE  /\ i \in NewlinesOf(buffer) <=> base + i \in NewlinesOf(body)
             /\ LineStart(body, base + i) >= base => LineAt(buffer, i) = LineAt(body, base + i)
  <2>1. i \in 1..last - base + 1
    BY <1>1
  <2>2. LET b == SubSeq(body, base + 1, last)
            s == LineStart(body, base + i)
        IN /\ NewlinesOf(b) = {j \in 1..last - base : base + j \in NewlinesOf(body)}
           /\ s >= base => LineAt(b, i) = LineAt(body, base + i)
    BY <1>1, <2>1, BufferLines
  <2> HIDE DEF buffer
  <2>3. /\ NewlinesOf(buffer) = {j \in 1..last - base : base + j \in NewlinesOf(body)}
        /\ LineStart(body, base + i) >= base => LineAt(buffer, i) = LineAt(body, base + i)
    BY <2>2 DEF buffer
  <2> QED
    BY <2>3
<1>4. NewlinesOf(buffer) \subseteq 1..last - base
  <2>1. DOMAIN buffer = 1..last - base
    BY <1>1, Window
  <2> QED
    BY <2>1 DEF NewlinesOf
<1>5. ASSUME NEW e \in NewlinesOf(body), e \in read + 1..last, LineStart(body, e) < base
      PROVE  e \in long /\ ~IsAccounting(kind, LineAt(body, e))
  <2>1. e \in Nat /\ e \in read + 1..Len(body) + 1 /\ e \in 1..Len(body) + 1 /\ e > read /\ e <= last
    BY <1>1, <1>5
  <2>2. read - LineStart(body, e) > MaxBody
    BY <1>1, <1>5, <2>1, SameStart
  <2>3. Len(LineAt(body, e)) = e - 1 - LineStart(body, e) /\ LineStart(body, e) \in 0..e - 1
    BY <2>1, LineStarts
  <2>4. Len(LineAt(body, e)) > MaxBody
    <3> DEFINE s == LineStart(body, e)
    <3>1. s \in Nat /\ e - 1 - s >= read - s
      BY <1>1, <2>1, <2>3
    <3> HIDE DEF s
    <3>2. e - 1 - s > MaxBody
      BY <1>1, <2>1, <2>2, <3>1 DEF s
    <3> QED
      BY <2>3, <3>2 DEF s
  <2>5. ~(e <= read)
    BY <1>1, <2>1
  <2>6. e \in long
    BY <2>1, <2>4, <2>5 DEF Long
  <2> QED
    BY <2>4, <2>6, AccountingIsShort
<1> HIDE DEF buffer
<1>6. found \subseteq read + 1..last
  <2> SUFFICES ASSUME NEW i \in Accounting(kind, buffer) PROVE base + i \in read + 1..last
    OBVIOUS
  <2>1. i \in NewlinesOf(buffer) /\ i \in 1..last - base
    BY <1>4 DEF Accounting
  <2>2. base + i \in NewlinesOf(body) /\ base < base + i /\ base + i <= last
    BY <1>1, <1>3, <2>1
  <2> QED
    BY <1>2, <2>2
<1>7. lines \subseteq found
  <2> SUFFICES ASSUME NEW e \in lines PROVE e \in found
    OBVIOUS
  <2>1. /\ e \in NewlinesOf(body) /\ e <= last /\ IsAccounting(kind, LineAt(body, e)) /\ ~(e <= read)
    BY DEF Lines
  <2>2. e \in 1..Len(body)
    BY <1>1, <2>1 DEF NewlinesOf
  <2>3. e \in read + 1..last
    BY <1>1, <2>1, <2>2
  <2>4. LineStart(body, e) >= base
    <3>1. ~(LineStart(body, e) < base)
      BY <1>5, <2>1, <2>3
    <3>2. LineStart(body, e) \in 0..e - 1
      <4>1. e \in 1..Len(body) + 1
        BY <1>1, <2>2
      <4> QED
        BY <4>1, LineStarts
    <3> QED
      BY <1>1, <2>2, <3>1, <3>2
  <2>5. e - base \in 1..last - base /\ base + (e - base) = e
    BY <1>1, <2>3
  <2>6. e - base \in NewlinesOf(buffer) /\ LineAt(buffer, e - base) = LineAt(body, e)
    BY <1>3, <2>1, <2>4, <2>5
  <2>7. e - base \in Accounting(kind, buffer)
    BY <2>1, <2>6 DEF Accounting
  <2> QED
    BY <2>5, <2>7
<1>8. found \subseteq lines \union long
  <2> SUFFICES ASSUME NEW i \in Accounting(kind, buffer) PROVE base + i \in lines \union long
    OBVIOUS
  <2> DEFINE e == base + i
  <2>1. i \in NewlinesOf(buffer) /\ i \in 1..last - base /\ IsAccounting(kind, LineAt(buffer, i))
    BY <1>4 DEF Accounting
  <2>2. e \in NewlinesOf(body) /\ e \in read + 1..last
    BY <1>3, <1>6, <2>1
  <2>3. CASE LineStart(body, e) < base
    BY <1>5, <2>2, <2>3
  <2>4. CASE ~(LineStart(body, e) < base)
    <3>1. LineStart(body, e) >= base
      <4>1. e \in 1..Len(body) + 1
        BY <1>1, <2>2
      <4>2. LineStart(body, e) \in 0..e - 1
        BY <4>1, LineStarts
      <4>3. e \in Nat
        BY <1>1, <2>2
      <4> HIDE DEF e
      <4> QED
        BY <1>1, <2>4, <4>2, <4>3
    <3>2. IsAccounting(kind, LineAt(body, e))
      BY <1>3, <2>1, <3>1
    <3>3. e <= last /\ ~(e <= read)
      BY <1>1, <2>2
    <3> QED
      BY <2>2, <3>2, <3>3 DEF Lines
  <2> QED
    BY <2>3, <2>4
<1> QED
  BY <1>6, <1>7, <1>8 DEF buffer, FoundIn

(* What consume_lines leaves is whole again, or of a line that is too      *)
(* long.                                                                   *)
LEMMA StaysWhole ==
  ASSUME NEW body \in Seq(Pieces), NEW last \in 0..Len(body), NEW read \in 0..last,
         NEW base \in 0..read, Whole(body, base, read)
  PROVE  LET rest == Rest(SubSeq(body, base + 1, last))
             acc == IF Len(rest) > MaxBody THEN <<>> ELSE rest
         IN Whole(body, last - Len(acc), last)
<1> DEFINE buffer == SubSeq(body, base + 1, last)
           rest == Rest(buffer)
           acc == IF Len(rest) > MaxBody THEN <<>> ELSE rest
           start == LineStart(body, last + 1)
           s == LineStart(buffer, Len(buffer) + 1)
<1>1. /\ Len(body) \in Nat /\ read \in Nat /\ base \in Nat /\ last \in Nat
      /\ base <= read /\ read <= last /\ last <= Len(body)
      /\ base \in 0..last /\ read \in 0..Len(body) /\ last + 1 \in read + 1..Len(body) + 1
      /\ last + 1 \in 1..Len(body) + 1
  OBVIOUS
<1>2. Len(buffer) = last - base /\ Len(buffer) + 1 = last - base + 1
  BY <1>1, Window
<1>3. s = IF start >= base THEN start - base ELSE 0
  <2>1. last - base + 1 \in 1..last - base + 1 /\ base + (last - base + 1) = last + 1
    BY <1>1
  <2>2. LET b == SubSeq(body, base + 1, last)
            st == LineStart(body, base + (last - base + 1))
        IN LineStart(b, last - base + 1) = IF st >= base THEN st - base ELSE 0
    BY <1>1, <2>1, BufferLines
  <2> QED
    BY <1>2, <2>1, <2>2
<1>4. Len(rest) = last - (base + s)
  <2>1. LET b == SubSeq(body, base + 1, last)
            st == LineStart(b, Len(b) + 1)
        IN Len(Rest(b)) = last - (base + st)
    BY <1>1, RestIsWindow
  <2> QED
    BY <2>1
<1>5. start \in Nat /\ start <= last
  <2>1. start \in 0..last + 1 - 1
    BY <1>1, LineStarts
  <2> HIDE DEF start
  <2> QED
    BY <1>1, <2>1
<1>6. start < base => last - start > MaxBody
  <2> SUFFICES ASSUME start < base PROVE last - start > MaxBody
    OBVIOUS
  <2>1. read - start > MaxBody
    BY <1>1, SameStart
  <2> HIDE DEF start
  <2> QED
    BY <1>1, <1>5, <2>1
<1>7. Len(acc) = IF Len(rest) > MaxBody THEN 0 ELSE Len(rest)
  OBVIOUS
<1>8. start <= last - Len(acc) /\ (last - Len(acc) = start \/ last - start > MaxBody)
  <2> HIDE DEF start, s, rest, acc, buffer
  <2>1. CASE start >= base
    BY <1>1, <1>3, <1>4, <1>5, <1>7, <2>1
  <2>2. CASE start < base
    BY <1>1, <1>3, <1>4, <1>5, <1>6, <1>7, <2>2
  <2> QED
    BY <1>1, <1>5, <2>1, <2>2
<1> QED
  BY <1>8 DEF Whole

-----------------------------------------------------------------------------
(* The rows of a request, with those refused, against its lines.           *)
RowsOf(rows, r) == {k \in DOMAIN rows : rows[k].request = r}
Count(r) == Cardinality(RowsOf(samples, r)) + failures[r]

Due(r) ==
  LET kind == EngineOf[r]
      body == engine[r].body
      lines == Lines(kind, body, call[r].read)
      rest == LineAt(body, call[r].read + 1)
      done == client[r].ended = "complete"
      due == Cardinality(lines) + (IF done /\ lines = {} /\ IsAccounting(kind, rest) THEN 1 ELSE 0)
      more == Cardinality(Long(body, call[r].read)) + (IF done /\ Len(rest) > MaxBody THEN 1 ELSE 0)
  IN due <= Count(r) /\ Count(r) <= due + more

LinesInv(r) ==
  /\ Whole(engine[r].body, call[r].read - Len(call[r].acc), call[r].read)
  /\ Lines(EngineOf[r], engine[r].body, call[r].read) # {} => call[r].recorded
  /\ call[r].recorded => Count(r) >= 1
  /\ Due(r)

SamplesInv == TableInv /\ \A r \in Requests : LinesInv(r)

LEMMA LinesStay ==
  ASSUME NEW q \in Requests, LinesInv(q), engine'[q].body = engine[q].body,
         call'[q].read = call[q].read, call'[q].acc = call[q].acc,
         call'[q].recorded = call[q].recorded,
         client'[q].ended = "complete" <=> client[q].ended = "complete",
         RowsOf(samples', q) = RowsOf(samples, q), failures'[q] = failures[q]
  PROVE  LinesInv(q)'
<1>1. Count(q)' = Count(q)
  <2>1. (RowsOf(samples, q))' = RowsOf(samples', q)
    BY DEF RowsOf
  <2> QED
    BY <2>1, Zenon DEF Count
<1>2. Due(q)'
  <2>1. Due(q)
    BY DEF LinesInv
  <2> HIDE DEF Count
  <2>2. Due(q)' = Due(q)
    BY <1>1, Zenon DEF Due
  <2> QED
    BY <2>1, <2>2
<1> QED
  BY <1>1, <1>2, Zenon DEF LinesInv

LEMMA RowsFinite ==
  ASSUME TableInv, NEW q
  PROVE  IsFiniteSet(RowsOf(samples, q)) /\ Cardinality(RowsOf(samples, q)) \in Nat
<1>1. DOMAIN samples = 1..Len(samples) /\ Len(samples) \in Nat
  BY DEF TableInv, IsSeq
<1>2. IsFiniteSet(1..Len(samples))
  <2>1. \A k \in Nat : IsFiniteSet(1..k)
    BY FS_Interval
  <2> QED
    BY <1>1, <2>1
<1>3. RowsOf(samples, q) \in SUBSET (1..Len(samples))
  BY <1>1 DEF RowsOf
<1>4. IsFiniteSet(RowsOf(samples, q))
  BY <1>2, <1>3, FS_Subset
<1> QED
  BY <1>4, FS_CardinalityType

(* A step that records lines counts them for its request and leaves the    *)
(* rows of the others.                                                     *)
LEMMA Counted ==
  ASSUME ServedInv, TableInv, NEW r \in Requests, call[r].pc = "stream",
         NEW ends \in SUBSET DOMAIN engine[r].sent, Record(r, ends)
  PROVE  /\ TableInv'
         /\ Len(samples) \in Nat /\ Len(samples') \in Nat /\ Len(samples) <= Len(samples')
         /\ IsFiniteSet(ends) /\ Count(r) \in Nat
         /\ Count(r)' = Count(r) + Cardinality(ends)
         /\ \A q \in Requests \ {r} :
              RowsOf(samples', q) = RowsOf(samples, q) /\ failures'[q] = failures[q]
<1>1. IsFiniteSet(ends) /\ Cardinality(ends) \in Nat
  BY Recording, FS_CardinalityType
<1>2. PICK n \in 0..Cardinality(ends) :
        /\ IsSeq(samples') /\ Len(samples) \in Nat /\ DOMAIN samples = 1..Len(samples)
        /\ Len(samples') = Len(samples) + n /\ DOMAIN samples' = 1..Len(samples) + n
        /\ \A k \in DOMAIN samples : samples'[k] = samples[k]
        /\ \A k \in Len(samples) + 1..Len(samples) + n :
             samples'[k].request = r /\ samples'[k].elapsed >= samples'[k].generated
        /\ failures' = [failures EXCEPT ![r] = @ + (Cardinality(ends) - n)]
  BY Recording
<1> DEFINE len == Len(samples)
           new == len + 1..len + n
<1>3. n \in Nat /\ n <= Cardinality(ends) /\ Cardinality(ends) - n \in Nat /\ len \in Nat
  BY <1>1, <1>2
<1>4. failures \in [Requests -> Nat]
  BY DEF TableInv
<1>5. /\ failures'[r] = failures[r] + (Cardinality(ends) - n) /\ failures' \in [Requests -> Nat]
      /\ \A q \in Requests \ {r} : failures'[q] = failures[q]
  BY <1>2, <1>3, <1>4
<1>6. DOMAIN samples' = DOMAIN samples \union new /\ DOMAIN samples \cap new = {}
  BY <1>2, <1>3
<1>7. TableInv'
  <2>1. \A k \in DOMAIN samples' : samples'[k].elapsed >= samples'[k].generated
    <3>1. \A k \in DOMAIN samples : samples[k].elapsed >= samples[k].generated
      BY DEF TableInv, RatesAreNotOverstated
    <3> QED
      BY <1>2, <1>6, <3>1
  <2> QED
    BY <1>2, <1>5, <2>1 DEF TableInv, RatesAreNotOverstated, IsSeq
<1>8. ASSUME NEW q \in Requests \ {r} PROVE RowsOf(samples', q) = RowsOf(samples, q)
  BY <1>2, <1>6 DEF RowsOf
<1>9. RowsOf(samples', r) = RowsOf(samples, r) \union new /\ RowsOf(samples, r) \cap new = {}
  BY <1>2, <1>6 DEF RowsOf
<1>10. IsFiniteSet(RowsOf(samples, r)) /\ Cardinality(RowsOf(samples, r)) \in Nat
  BY RowsFinite
<1>11. IsFiniteSet(new) /\ Cardinality(new) = n
  <2>1. len + 1 \in Int /\ len + n \in Int
    BY <1>3
  <2>2. IsFiniteSet(new) /\ Cardinality(new) = IF len + 1 > len + n THEN 0 ELSE (len + n) - (len + 1) + 1
    BY <2>1, FS_Interval
  <2> HIDE DEF new, len
  <2> QED
    BY <1>3, <2>2
<1>12. Cardinality(RowsOf(samples', r)) = Cardinality(RowsOf(samples, r)) + n
  <2> HIDE DEF new, len
  <2>1. Cardinality(RowsOf(samples, r) \union new)
          = Cardinality(RowsOf(samples, r)) + Cardinality(new) - Cardinality(RowsOf(samples, r) \cap new)
    BY <1>10, <1>11, FS_Union
  <2>2. Cardinality(RowsOf(samples, r) \cap new) = 0
    BY <1>9, FS_EmptySet
  <2> QED
    BY <1>3, <1>9, <1>10, <1>11, <2>1, <2>2
<1>13. Count(r) \in Nat /\ Count(r)' = Count(r) + Cardinality(ends)
  <2>1. Count(r)' = Cardinality(RowsOf(samples', r)) + failures'[r]
    BY DEF Count, RowsOf
  <2>2. Count(r) = Cardinality(RowsOf(samples, r)) + failures[r] /\ failures[r] \in Nat
    BY <1>4 DEF Count
  <2> DEFINE rows == Cardinality(RowsOf(samples, r))
             refused == failures[r]
             lines == Cardinality(ends)
  <2>3. rows \in Nat /\ refused \in Nat /\ lines \in Nat
    BY <1>1, <1>10, <2>2
  <2>4. Count(r)' = rows + n + (refused + (lines - n)) /\ Count(r) = rows + refused
    BY <1>5, <1>12, <2>1, <2>2, Zenon
  <2> HIDE DEF rows, refused, lines, Count
  <2>5. rows + n + (refused + (lines - n)) = rows + refused + lines /\ rows + refused \in Nat
    BY <1>3, <2>3
  <2>6. Count(r)' = Count(r) + lines /\ Count(r) \in Nat
    BY <2>4, <2>5
  <2> QED
    BY <2>6 DEF lines
<1> QED
  BY <1>1, <1>2, <1>3, <1>5, <1>7, <1>8, <1>13

LEMMA LinesFinite ==
  ASSUME NEW kind, NEW body \in Seq(Pieces), NEW k
  PROVE  /\ IsFiniteSet(Lines(kind, body, k)) /\ Cardinality(Lines(kind, body, k)) \in Nat
         /\ IsFiniteSet(Long(body, k)) /\ Cardinality(Long(body, k)) \in Nat
<1>1. IsFiniteSet(1..Len(body))
  <2>1. \A n \in Nat : IsFiniteSet(1..n)
    BY FS_Interval
  <2>2. Len(body) \in Nat
    OBVIOUS
  <2> QED
    BY <2>1, <2>2
<1>2. Lines(kind, body, k) \in SUBSET (1..Len(body)) /\ Long(body, k) \in SUBSET (1..Len(body))
  BY DEF Lines, Long, NewlinesOf
<1>3. IsFiniteSet(Lines(kind, body, k)) /\ IsFiniteSet(Long(body, k))
  BY <1>1, <1>2, FS_Subset
<1> QED
  BY <1>3, FS_CardinalityType

(* What is between a set and a larger one is what the larger has more.     *)
LEMMA Grown ==
  ASSUME NEW S, NEW T, IsFiniteSet(T), S \subseteq T
  PROVE  /\ IsFiniteSet(T \ S) /\ Cardinality(T \ S) \in Nat /\ Cardinality(S) \in Nat
         /\ Cardinality(T) = Cardinality(S) + Cardinality(T \ S)
<1>1. IsFiniteSet(S) /\ IsFiniteSet(T \ S)
  BY FS_Subset
<1>2. Cardinality(S) \in Nat /\ Cardinality(T \ S) \in Nat
  BY <1>1, FS_CardinalityType
<1>3. S \union (T \ S) = T /\ S \cap (T \ S) = {}
  OBVIOUS
<1>4. Cardinality(S \union (T \ S)) = Cardinality(S) + Cardinality(T \ S) - Cardinality(S \cap (T \ S))
  BY <1>1, FS_Union
<1>5. Cardinality(S \cap (T \ S)) = 0
  BY <1>3, FS_EmptySet
<1> DEFINE more == Cardinality(T \ S)
<1>6. Cardinality(T) = Cardinality(S) + more - 0
  BY <1>3, <1>4, <1>5, Zenon
<1>7. more \in Nat
  BY <1>2
<1> HIDE DEF more
<1>8. Cardinality(T) = Cardinality(S) + more
  BY <1>2, <1>6, <1>7
<1> QED
  BY <1>1, <1>2, <1>8 DEF more

(* The state consume_lines leaves.                                         *)
LEMMA Consumed ==
  ASSUME ServedInv, NEW r \in Requests, Chunk(r)
  PROVE  \E last \in call[r].read + 1..Len(engine[r].sent) :
           LET base == call[r].read - Len(call[r].acc)
               buffer == SubSeq(engine[r].body, base + 1, last)
               found == Accounting(EngineOf[r], buffer)
               rest == Rest(buffer)
           IN /\ last \in 0..Len(engine[r].body) /\ call[r].read \in 0..last /\ base \in 0..call[r].read
              /\ Record(r, FoundIn(EngineOf[r], engine[r].body, base, last))
              /\ call'[r].read = last
              /\ call'[r].acc = IF Len(rest) > MaxBody THEN <<>> ELSE rest
              /\ call'[r].recorded <=> call[r].recorded \/ found # {}
              /\ \A q \in Requests \ {r} : call'[q] = call[q]
<1>1. call \in [Requests -> Calls] /\ engine[r] \in Engines
  BY DEF ServedInv, Typed
<1>2. PICK last \in call[r].read + 1..Len(engine[r].sent) :
        Consume(r, SubSeq(engine[r].body, call[r].read + 1, last))
  BY DEF Chunk
<1> DEFINE body == engine[r].body
           chunk == SubSeq(body, call[r].read + 1, last)
           base == call[r].read - Len(call[r].acc)
           buffer == call[r].acc \o chunk
           from == call[r].read + Len(chunk) - Len(buffer)
           found == Accounting(EngineOf[r], buffer)
           acc == IF Len(Rest(buffer)) > MaxBody THEN <<>> ELSE Rest(buffer)
           recorded == call[r].recorded \/ found # {}
<1>3. /\ call' = [call EXCEPT ![r].acc = acc, ![r].recorded = recorded,
                              ![r].read = call[r].read + Len(chunk), ![r].pc = "yield"]
      /\ Record(r, {from + i : i \in found})
  BY <1>2 DEF Consume
<1>4. call[r].read \in Nat /\ engine[r].sent \in Seq(Nat)
  BY <1>1 DEF Calls, Engines
<1>5. last \in call[r].read..Len(engine[r].sent) /\ call[r].read \in 0..last
  <2>1. Len(engine[r].sent) \in Nat
    BY <1>4
  <2> QED
    BY <1>2, <1>4, <2>1
<1>6. /\ last \in 0..Len(body) /\ base \in 0..call[r].read /\ call[r].read + Len(chunk) = last
      /\ buffer = SubSeq(body, base + 1, last) /\ from = base
  BY <1>5, Buffered
<1> HIDE DEF chunk, buffer, acc, found, recorded, from
<1>7. /\ call'[r].read = last /\ call'[r].acc = acc /\ call'[r].recorded = recorded
      /\ \A q \in Requests \ {r} : call'[q] = call[q]
  BY <1>1, <1>3, <1>6 DEF Calls
<1>8. call'[r].recorded <=> recorded
  BY <1>7, Zenon
<1>9. Record(r, FoundIn(EngineOf[r], engine[r].body, base, last))
  <2>1. {from + i : i \in found} = FoundIn(EngineOf[r], engine[r].body, base, last)
    BY <1>6, Zenon DEF FoundIn, found
  <2> QED
    BY <1>3, <2>1
<1> QED
  BY <1>2, <1>5, <1>6, <1>7, <1>8, <1>9, Zenon DEF acc, found, recorded

LEMMA ChunkLines ==
  ASSUME ServedInv, SamplesInv, NEW r \in Requests, Chunk(r)
  PROVE  SamplesInv' /\ Len(samples) \in Nat /\ Len(samples') \in Nat /\ Len(samples) <= Len(samples')
<1> DEFINE body == engine[r].body
           kind == EngineOf[r]
           read == call[r].read
           base == read - Len(call[r].acc)
<1>1. engine' = engine /\ client' = client /\ call[r].pc = "stream"
  BY DEF Chunk
<1>2. PICK last \in read + 1..Len(engine[r].sent) :
        LET buffer == SubSeq(body, base + 1, last)
            found == Accounting(kind, buffer)
            rest == Rest(buffer)
        IN /\ last \in 0..Len(body) /\ read \in 0..last /\ base \in 0..read
           /\ Record(r, FoundIn(kind, body, base, last))
           /\ call'[r].read = last
           /\ call'[r].acc = IF Len(rest) > MaxBody THEN <<>> ELSE rest
           /\ call'[r].recorded <=> call[r].recorded \/ found # {}
           /\ \A q \in Requests \ {r} : call'[q] = call[q]
  BY Consumed
<1> DEFINE found == Accounting(kind, SubSeq(body, base + 1, last))
           ends == FoundIn(kind, body, base, last)
           lines == Lines(kind, body, last) \ Lines(kind, body, read)
           long == Long(body, last) \ Long(body, read)
<1>3. body \in Seq(Pieces) /\ engine[r].sent \in Seq(Nat)
  BY DEF ServedInv, Typed, Engines
<1>4. LinesInv(r) /\ TableInv /\ \A q \in Requests : LinesInv(q)
  BY DEF SamplesInv
<1>5. Whole(body, base, read)
  BY <1>4 DEF LinesInv
<1>6. ends \subseteq read + 1..last /\ lines \subseteq ends /\ ends \subseteq lines \union long
  <2> HIDE DEF body, kind, read, base
  <2>1. last \in 0..Len(body) /\ read \in 0..last /\ base \in 0..read
    BY <1>2
  <2> QED
    BY <1>3, <1>5, <2>1, Found
<1>7. ends \in SUBSET DOMAIN engine[r].sent
  <2>1. DOMAIN engine[r].sent = 1..Len(engine[r].sent) /\ Len(engine[r].sent) \in Nat
    BY <1>3
  <2>2. \A i \in read + 1..last : i \in 1..Len(engine[r].sent)
    BY <1>2, <2>1
  <2> QED
    BY <1>6, <2>1, <2>2
<1>8. /\ TableInv' /\ IsFiniteSet(ends) /\ Count(r) \in Nat
      /\ Len(samples) \in Nat /\ Len(samples') \in Nat /\ Len(samples) <= Len(samples')
      /\ Count(r)' = Count(r) + Cardinality(ends)
      /\ \A q \in Requests \ {r} :
           RowsOf(samples', q) = RowsOf(samples, q) /\ failures'[q] = failures[q]
  BY <1>1, <1>2, <1>4, <1>7, Counted
<1>9. \A q \in Requests \ {r} : LinesInv(q)'
  BY <1>1, <1>2, <1>4, <1>8, LinesStay
<1>10. Whole(body, last - Len(call'[r].acc), last)
  BY <1>2, <1>3, <1>5, StaysWhole
<1>11. /\ Cardinality(Lines(kind, body, last)) = Cardinality(Lines(kind, body, read)) + Cardinality(lines)
       /\ Cardinality(Long(body, last)) = Cardinality(Long(body, read)) + Cardinality(long)
       /\ Cardinality(Lines(kind, body, read)) \in Nat /\ Cardinality(Long(body, read)) \in Nat
       /\ Cardinality(lines) \in Nat /\ Cardinality(long) \in Nat /\ Cardinality(ends) \in Nat
       /\ Cardinality(lines) <= Cardinality(ends)
       /\ Cardinality(ends) <= Cardinality(lines) + Cardinality(long)
  <2>1. IsFiniteSet(Lines(kind, body, last)) /\ IsFiniteSet(Long(body, last))
    BY <1>3, LinesFinite
  <2>2. Lines(kind, body, read) \subseteq Lines(kind, body, last) /\ Long(body, read) \subseteq Long(body, last)
    <3>1. \A i \in NewlinesOf(body) : i <= read => i <= last
      <4>1. \A i \in NewlinesOf(body) : i \in Nat
        BY <1>3 DEF NewlinesOf
      <4>2. read \in Nat /\ last \in Nat /\ read <= last
        BY <1>2
      <4> QED
        BY <4>1, <4>2
    <3> QED
      BY <3>1 DEF Lines, Long
  <2> HIDE DEF ends
  <2>3. IsFiniteSet(lines) /\ IsFiniteSet(long)
    BY <2>1, <2>2, Grown
  <2>4. /\ Cardinality(Lines(kind, body, last)) = Cardinality(Lines(kind, body, read)) + Cardinality(lines)
        /\ Cardinality(Lines(kind, body, read)) \in Nat /\ Cardinality(lines) \in Nat
    BY <2>1, <2>2, Grown
  <2>5. /\ Cardinality(Long(body, last)) = Cardinality(Long(body, read)) + Cardinality(long)
        /\ Cardinality(Long(body, read)) \in Nat /\ Cardinality(long) \in Nat
    BY <2>1, <2>2, Grown
  <2> HIDE DEF lines, long
  <2>6. Cardinality(lines) <= Cardinality(ends) /\ Cardinality(ends) \in Nat
    BY <1>6, <1>8, FS_Subset, FS_CardinalityType
  <2>7. Cardinality(ends) <= Cardinality(lines) + Cardinality(long)
    <3>1. IsFiniteSet(lines \union long) /\ IsFiniteSet(lines \cap long)
          /\ Cardinality(lines \union long) = Cardinality(lines) + Cardinality(long) - Cardinality(lines \cap long)
      BY <2>3, FS_Union, FS_Subset
    <3>2. Cardinality(ends) <= Cardinality(lines \union long)
      BY <1>6, <3>1, FS_Subset
    <3>3. Cardinality(lines \cap long) \in Nat
      BY <3>1, FS_CardinalityType
    <3> QED
      BY <2>4, <2>5, <2>6, <3>1, <3>2, <3>3
  <2> QED
    BY <2>4, <2>5, <2>6, <2>7
<1>12. client[r].ended # "complete"
  BY <1>1 DEF ServedInv, Relayed
<1>13. Cardinality(Lines(kind, body, read)) <= Count(r)
       /\ Count(r) <= Cardinality(Lines(kind, body, read)) + Cardinality(Long(body, read))
  <2>1. Due(r)
    BY <1>4 DEF LinesInv
  <2> HIDE DEF Count
  <2> QED
    BY <1>11, <1>12, <2>1 DEF Due
<1>14. found # {} => Cardinality(ends) >= 1
  <2> SUFFICES ASSUME found # {} PROVE Cardinality(ends) >= 1
    OBVIOUS
  <2>1. ends # {}
    BY DEF FoundIn
  <2> HIDE DEF ends
  <2> QED
    BY <1>8, <1>11, <2>1, FS_EmptySet
<1>15. LinesInv(r)'
  <2> DEFINE n == Count(r) + Cardinality(ends)
  <2>1. /\ Cardinality(Lines(kind, body, last)) <= n
        /\ n <= Cardinality(Lines(kind, body, last)) + Cardinality(Long(body, last))
        /\ n \in Nat
    <3> DEFINE lines1 == Cardinality(Lines(kind, body, read))
               long1 == Cardinality(Long(body, read))
               more == Cardinality(ends)
               count == Count(r)
               lines2 == Cardinality(lines)
               long2 == Cardinality(long)
    <3>1. lines1 \in Nat /\ long1 \in Nat /\ more \in Nat /\ count \in Nat
          /\ lines2 \in Nat /\ long2 \in Nat
          /\ lines2 <= more /\ more <= lines2 + long2
          /\ lines1 <= count /\ count <= lines1 + long1
      BY <1>8, <1>11, <1>13
    <3>2. /\ Cardinality(Lines(kind, body, last)) = lines1 + lines2
          /\ Cardinality(Long(body, last)) = long1 + long2
      BY <1>11
    <3> HIDE DEF lines1, long1, lines2, long2, more, count
    <3>3. /\ lines1 + lines2 <= count + more /\ count + more \in Nat
          /\ count + more <= lines1 + lines2 + (long1 + long2)
      BY <3>1
    <3> QED
      BY <3>2, <3>3, Zenon DEF more, count
  <2>2. Due(r)'
    <3>1. /\ call'[r].read = last /\ Count(r)' = n /\ engine'[r].body = body
          /\ client'[r].ended # "complete"
      BY <1>1, <1>2, <1>8, <1>12
    <3>2. Cardinality(Lines(kind, body, last)) \in Nat /\ Cardinality(Long(body, last)) \in Nat
      BY <1>3, LinesFinite
    <3> HIDE DEF n, Count
    <3> QED
      BY <2>1, <3>1, <3>2 DEF Due
  <2>3. (Lines(kind, body, last) # {}) => call'[r].recorded
    <3>1. CASE Lines(kind, body, read) # {}
      BY <1>2, <1>4, <3>1, Zenon DEF LinesInv
    <3>2. CASE Lines(kind, body, read) = {} /\ Lines(kind, body, last) # {}
      <4>1. ends # {}
        BY <1>6, <3>2
      <4>2. found # {}
        BY <4>1 DEF FoundIn
      <4> QED
        BY <1>2, <4>2, Zenon
    <3> QED
      BY <3>1, <3>2
  <2>4. call'[r].recorded => n >= 1
    <3>1. call[r].recorded => Count(r) >= 1
      BY <1>4 DEF LinesInv
    <3>2. call'[r].recorded => call[r].recorded \/ found # {}
      BY <1>2, Zenon
    <3>3. Count(r) >= 1 => n >= 1
      <4> HIDE DEF ends, Count
      <4> QED
        BY <1>8, <1>11
    <3>4. Cardinality(ends) >= 1 => n >= 1
      <4> HIDE DEF ends, Count
      <4> QED
        BY <1>8, <1>11
    <3> QED
      BY <1>14, <3>1, <3>2, <3>3, <3>4, Zenon
  <2>5. call'[r].read = last /\ Count(r)' = n /\ engine'[r].body = body
    BY <1>1, <1>2, <1>8
  <2> HIDE DEF n, found, ends
  <2> QED
    BY <1>10, <2>2, <2>3, <2>4, <2>5, Zenon DEF LinesInv
<1>16. SamplesInv'
  BY <1>8, <1>9, <1>15 DEF SamplesInv
<1> QED
  BY <1>8, <1>16

(* The line in progress, where so much of an answer was read.              *)
LEMMA LastLine ==
  ASSUME NEW body \in Seq(Pieces), NEW read \in 0..Len(body)
  PROVE  LET start == LineStart(body, read + 1)
         IN /\ start \in Nat /\ start <= read
            /\ LineAt(body, read + 1) = SubSeq(body, start + 1, read)
            /\ Len(LineAt(body, read + 1)) = read - start
<1> DEFINE end == read + 1
           start == LineStart(body, end)
<1>1. end \in 1..Len(body) + 1 /\ end - 1 = read /\ read \in Nat
  OBVIOUS
<1> HIDE DEF end
<1>2. /\ start \in 0..end - 1 /\ LineAt(body, end) = SubSeq(body, start + 1, end - 1)
      /\ Len(LineAt(body, end)) = end - 1 - start
  BY <1>1, LineStarts
<1> HIDE DEF start
<1>3. /\ start \in Nat /\ start <= read
      /\ LineAt(body, end) = SubSeq(body, start + 1, read) /\ Len(LineAt(body, end)) = read - start
  BY <1>1, <1>2
<1> QED
  BY <1>3 DEF start, end

(* At the end of an answer a last line without a newline is looked at: the *)
(* whole of it, unless it is too long.                                     *)
LEMMA FinishLines ==
  ASSUME ServedInv, SamplesInv, NEW r \in Requests, Finish(r)
  PROVE  SamplesInv' /\ Len(samples) \in Nat /\ Len(samples') \in Nat /\ Len(samples) <= Len(samples')
<1> DEFINE body == engine[r].body
           kind == EngineOf[r]
           read == call[r].read
           acc == call[r].acc
           start == LineStart(body, read + 1)
           rest == LineAt(body, read + 1)
           flush == ~call[r].recorded /\ IsAccounting(kind, acc)
           ends == IF flush THEN {read} ELSE {}
           lines == Lines(kind, body, read)
           long == Long(body, read)
<1>1. /\ engine' = engine /\ call[r].pc = "stream" /\ read = Len(body)
      /\ Record(r, ends)
      /\ call' = [call EXCEPT ![r].pc = "end"] /\ client' = [client EXCEPT ![r].ended = "complete"]
  BY DEF Finish
<1>2. /\ call \in [Requests -> Calls] /\ client \in [Requests -> Clients]
      /\ body \in Seq(Pieces) /\ engine[r].sent \in Seq(Nat) /\ read \in Nat /\ acc \in Seq(Pieces)
  BY DEF ServedInv, Typed, Calls, Engines
<1>3. LinesInv(r) /\ TableInv /\ \A q \in Requests : LinesInv(q)
  BY DEF SamplesInv
<1>4. /\ read <= Len(engine[r].sent) /\ Len(acc) <= read
      /\ acc = SubSeq(body, read - Len(acc) + 1, read)
      /\ client[r].ended # "complete"
  BY <1>1 DEF ServedInv, Relayed
<1>5. ends \in SUBSET DOMAIN engine[r].sent
  <2> SUFFICES ASSUME IsAccounting(kind, acc) PROVE read \in DOMAIN engine[r].sent
    OBVIOUS
  <2>1. Len(acc) = 2
    BY AccountingIsShort
  <2>2. DOMAIN engine[r].sent = 1..Len(engine[r].sent) /\ Len(engine[r].sent) \in Nat
    BY <1>2
  <2> HIDE DEF acc, read
  <2> QED
    BY <1>2, <1>4, <2>1, <2>2
<1>6. /\ TableInv' /\ Count(r) \in Nat
      /\ Len(samples) \in Nat /\ Len(samples') \in Nat /\ Len(samples) <= Len(samples')
      /\ Count(r)' = Count(r) + Cardinality(ends)
      /\ \A q \in Requests \ {r} :
           RowsOf(samples', q) = RowsOf(samples, q) /\ failures'[q] = failures[q]
  BY <1>1, <1>3, <1>5, Counted
<1>7. /\ \A q \in Requests \ {r} : call'[q] = call[q] /\ client'[q] = client[q]
      /\ call'[r].read = read /\ call'[r].acc = acc /\ call'[r].recorded = call[r].recorded
      /\ client'[r].ended = "complete"
  BY <1>1, <1>2 DEF Calls, Clients
<1>8. \A q \in Requests \ {r} : LinesInv(q)'
  BY <1>1, <1>3, <1>6, <1>7, LinesStay
<1>9. /\ Cardinality(lines) \in Nat /\ Cardinality(long) \in Nat
      /\ Cardinality(lines) <= Count(r) /\ Count(r) <= Cardinality(lines) + Cardinality(long)
  <2>1. Cardinality(lines) \in Nat /\ Cardinality(long) \in Nat
    BY <1>2, LinesFinite
  <2>2. Due(r)
    BY <1>3 DEF LinesInv
  <2> HIDE DEF Count
  <2> QED
    BY <1>4, <2>1, <2>2 DEF Due
<1>10. acc = rest \/ Len(rest) > MaxBody
  <2>1. read \in 0..Len(body)
    BY <1>1, <1>2
  <2>2. rest = SubSeq(body, start + 1, read) /\ Len(rest) = read - start
    BY <1>2, <2>1, LastLine
  <2>3. read - Len(acc) = start \/ read - start > MaxBody
    BY <1>3 DEF LinesInv, Whole
  <2> HIDE DEF start, rest, acc, read
  <2> QED
    BY <1>4, <2>2, <2>3
<1>11. IsAccounting(kind, rest) => acc = rest
  BY <1>10, AccountingIsShort
<1>12. lines # {} => call[r].recorded
  BY <1>3 DEF LinesInv
<1>13. call[r].recorded => Count(r) >= 1
  BY <1>3 DEF LinesInv
<1>14. lines = {} => Cardinality(lines) = 0
  BY FS_EmptySet
<1> DEFINE due == Cardinality(lines) + (IF lines = {} /\ IsAccounting(kind, rest) THEN 1 ELSE 0)
           more == Cardinality(long) + (IF Len(rest) > MaxBody THEN 1 ELSE 0)
           n == Count(r) + Cardinality(ends)
<1>15. due <= n /\ n <= due + more /\ n \in Nat /\ Count(r) <= n
  <2>1. CASE flush
    <3>1. Cardinality(ends) = 1
      BY <2>1, FS_Singleton
    <3>2. lines = {}
      BY <1>12, <2>1
    <3>3. IsAccounting(kind, rest) \/ Len(rest) > MaxBody
      BY <1>10, <2>1
    <3>4. n = Count(r) + 1 /\ Cardinality(lines) = 0
      BY <1>14, <3>1, <3>2
    <3> HIDE DEF n, lines, long, rest, Count
    <3> QED
      BY <1>6, <1>9, <3>2, <3>3, <3>4
  <2>2. CASE ~flush
    <3>1. n = Count(r)
      <4>1. Cardinality(ends) = 0
        BY <2>2, FS_EmptySet
      <4> HIDE DEF ends, Count
      <4> QED
        BY <1>6, <4>1
    <3>2. CASE lines = {} /\ IsAccounting(kind, rest)
      <4>1. Count(r) >= 1
        BY <1>11, <1>13, <2>2, <3>2
      <4>2. Cardinality(lines) = 0
        BY <1>14, <3>2
      <4> HIDE DEF n, lines, long, rest, Count
      <4> QED
        BY <1>6, <1>9, <3>1, <3>2, <4>1, <4>2
    <3>3. CASE ~(lines = {} /\ IsAccounting(kind, rest))
      <4> HIDE DEF n, lines, long, rest, Count
      <4> QED
        BY <1>6, <1>9, <3>1, <3>3
    <3> QED
      BY <3>2, <3>3
  <2> QED
    BY <2>1, <2>2
<1>16. LinesInv(r)'
  <2>1. /\ engine'[r].body = body /\ call'[r].read = read /\ call'[r].acc = acc
        /\ call'[r].recorded = call[r].recorded /\ client'[r].ended = "complete" /\ Count(r)' = n
    BY <1>1, <1>6, <1>7
  <2>2. Whole(body, read - Len(acc), read)
    BY <1>3 DEF LinesInv
  <2>3. call[r].recorded => n >= 1
    <3>1. Count(r) >= 1 => n >= 1
      <4> HIDE DEF n, Count
      <4> QED
        BY <1>6, <1>15
    <3> QED
      BY <1>13, <3>1
  <2> HIDE DEF n, Count
  <2>4. Due(r)'
    BY <1>15, <2>1, Zenon DEF Due
  <2> HIDE DEF body, read, acc
  <2> QED
    BY <1>12, <2>1, <2>2, <2>3, <2>4, Zenon DEF LinesInv
<1>17. SamplesInv'
  BY <1>6, <1>8, <1>16 DEF SamplesInv
<1> QED
  BY <1>6, <1>17

-----------------------------------------------------------------------------
(* The rows of every request, and what the panel shows of them: from the   *)
(* start, and with every step.                                             *)
LEMMA InitSamples == Init => SamplesInv /\ PanelInv
<1> SUFFICES ASSUME Init PROVE SamplesInv /\ PanelInv
  OBVIOUS
<1>1. samples = <<>> /\ DOMAIN samples = {} /\ Len(samples) = 0 /\ IsSeq(samples)
  BY DEF Init, IsSeq
<1>2. TableInv
  BY <1>1 DEF Init, TableInv, RatesAreNotOverstated
<1>3. PanelInv
  BY <1>1 DEF Init, PanelInv, RateIsCounted, Fields
<1>4. ASSUME NEW r \in Requests PROVE LinesInv(r)
  <2> DEFINE body == engine[r].body
             kind == EngineOf[r]
  <2>1. /\ call[r].read = 0 /\ call[r].acc = <<>> /\ call[r].recorded = FALSE
        /\ client[r].ended = "no" /\ failures[r] = 0
    BY <1>4 DEF Init
  <2>2. body \in Seq(Pieces)
    BY InitServed DEF ServedInv, Typed, Engines
  <2>3. \A i \in NewlinesOf(body) : ~(i <= 0)
    BY <2>2 DEF NewlinesOf
  <2>4. Lines(kind, body, 0) = {} /\ Long(body, 0) = {}
    BY <2>3 DEF Lines, Long
  <2>5. Count(r) = 0
    <3>1. RowsOf(samples, r) = {}
      BY <1>1 DEF RowsOf
    <3> QED
      BY <2>1, <3>1, FS_EmptySet DEF Count
  <2>6. Whole(body, 0, 0)
    <3>1. 0 \in 0..Len(body)
      BY <2>2
    <3>2. LineStart(body, 0 + 1) \in Nat /\ LineStart(body, 0 + 1) <= 0
      BY <2>2, <3>1, LastLine
    <3> QED
      BY <3>2 DEF Whole
  <2>7. call[r].read - Len(call[r].acc) = 0
    <3>1. Len(<<>>) = 0 /\ 0 - 0 = 0
      OBVIOUS
    <3> QED
      BY <2>1, <3>1, Zenon
  <2>8. Due(r)
    <3>1. Cardinality(Lines(kind, body, 0)) = 0 /\ Cardinality(Long(body, 0)) = 0
      BY <2>4, FS_EmptySet
    <3> HIDE DEF body, kind, Count
    <3>2. client[r].ended # "complete"
      BY <2>1
    <3> QED
      BY <2>1, <2>5, <3>1, <3>2 DEF Due, body, kind
  <2> QED
    BY <2>1, <2>4, <2>6, <2>7, <2>8 DEF LinesInv
<1> QED
  BY <1>2, <1>3, <1>4 DEF SamplesInv

(* A step that neither reads nor records, whatever it does to a request    *)
(* but complete it, leaves the rows and the lines alone.                   *)
LEMMA NothingRecorded ==
  ASSUME SamplesInv, samples' = samples, failures' = failures,
         \A q \in Requests :
           /\ engine'[q].body = engine[q].body /\ call'[q].read = call[q].read
           /\ call'[q].acc = call[q].acc /\ call'[q].recorded = call[q].recorded
           /\ client'[q].ended = "complete" <=> client[q].ended = "complete"
  PROVE  SamplesInv'
<1>1. TableInv'
  BY DEF SamplesInv, TableInv, RatesAreNotOverstated, IsSeq
<1>2. ASSUME NEW q \in Requests PROVE LinesInv(q)'
  <2>1. RowsOf(samples', q) = RowsOf(samples, q) /\ failures'[q] = failures[q] /\ LinesInv(q)
    BY <1>2 DEF SamplesInv
  <2> QED
    BY <1>2, <2>1, LinesStay
<1> QED
  BY <1>1, <1>2 DEF SamplesInv

LEMMA NextSamples ==
  ASSUME ServedInv, SamplesInv, [Next]_vars
  PROVE  SamplesInv' /\ Len(samples) \in Nat /\ Len(samples') \in Nat /\ Len(samples) <= Len(samples')
<1>1. /\ call \in [Requests -> Calls] /\ engine \in [Requests -> Engines]
      /\ client \in [Requests -> Clients]
  BY DEF ServedInv, Typed
<1>2. Len(samples) \in Nat
  BY DEF SamplesInv, TableInv, IsSeq
<1>3. ASSUME samples' = samples PROVE Len(samples') \in Nat /\ Len(samples) <= Len(samples')
  BY <1>2, <1>3
<1>4. CASE Bind \/ Read \/ Tick \/ UNCHANGED vars
  <2>1. UNCHANGED <<call, engine, client, samples, failures>>
    BY <1>4 DEF Bind, Read, Tick, vars
  <2> QED
    BY <1>2, <1>3, <2>1, NothingRecorded
<1>5. ASSUME NEW r \in Requests,
             Receive(r) \/ Begin(r) \/ Respond(r) \/ Yield(r) \/ PassError(r) \/ Leave(r)
      PROVE  SamplesInv' /\ samples' = samples
  <2>1. samples' = samples /\ failures' = failures
    BY <1>5 DEF Receive, Begin, Respond, Yield, PassError, Leave
  <2>2. client[r].ended # "complete"
    BY <1>5 DEF ServedInv, Relayed, Receive, Begin, Respond, Yield, PassError, Leave
  <2>3. \A q \in Requests : engine'[q].body = engine[q].body
    <3>1. CASE engine' = engine
      BY <3>1
    <3>2. ASSUME engine' = [engine EXCEPT ![r].begun = now]
          PROVE  \A q \in Requests : engine'[q].body = engine[q].body
      BY <1>1, <3>2, Zenon DEF Engines
    <3> QED
      BY <1>5, <3>1, <3>2, Zenon DEF Receive, Begin, Respond, Yield, PassError, Leave
  <2>4. \A q \in Requests : /\ call'[q].read = call[q].read /\ call'[q].acc = call[q].acc
                            /\ call'[q].recorded = call[q].recorded
    <3>1. ASSUME NEW pc, call' = [call EXCEPT ![r].pc = pc]
          PROVE  \A q \in Requests : /\ call'[q].read = call[q].read /\ call'[q].acc = call[q].acc
                                     /\ call'[q].recorded = call[q].recorded
      BY <1>1, <3>1, Zenon DEF Calls
    <3>2. ASSUME call' = [call EXCEPT ![r].pc = "send", ![r].started = now]
          PROVE  \A q \in Requests : /\ call'[q].read = call[q].read /\ call'[q].acc = call[q].acc
                                     /\ call'[q].recorded = call[q].recorded
      BY <1>1, <3>2, Zenon DEF Calls
    <3> QED
      BY <1>5, <3>1, <3>2, Zenon DEF Receive, Begin, Respond, Yield, PassError, Leave
  <2>5. \A q \in Requests : client'[q].ended = "complete" <=> client[q].ended = "complete"
    BY <1>1, <1>5, <2>2 DEF Receive, Begin, Respond, Yield, PassError, Leave, Clients
  <2> QED
    BY <2>1, <2>3, <2>4, <2>5, NothingRecorded
<1>6. ASSUME NEW r \in Requests, Generate(r) PROVE SamplesInv' /\ samples' = samples
  <2>1. UNCHANGED <<call, client, samples, failures>>
    BY <1>6 DEF Generate
  <2>2. \A q \in Requests : engine'[q].body = engine[q].body
    <3>1. ASSUME NEW t, engine' = [engine EXCEPT ![r].sent = Append(@, t)]
          PROVE  \A q \in Requests : engine'[q].body = engine[q].body
      BY <1>1, <3>1, Zenon DEF Engines
    <3>2. ASSUME NEW b, engine' = [engine EXCEPT ![r].broken = b]
          PROVE  \A q \in Requests : engine'[q].body = engine[q].body
      BY <1>1, <3>2, Zenon DEF Engines
    <3> QED
      BY <1>6, <3>1, <3>2, Zenon DEF Generate
  <2> QED
    BY <2>1, <2>2, NothingRecorded
<1>7. ASSUME NEW r \in Requests,
             \/ Receive(r) \/ Begin(r) \/ Generate(r) \/ Respond(r)
             \/ Chunk(r) \/ Yield(r) \/ PassError(r) \/ Finish(r) \/ Leave(r)
      PROVE  SamplesInv' /\ Len(samples) \in Nat /\ Len(samples') \in Nat /\ Len(samples) <= Len(samples')
  BY <1>2, <1>3, <1>5, <1>6, <1>7, ChunkLines, FinishLines
<1> QED
  BY <1>4, <1>7, <1>2, <1>3 DEF Next, Bind, Read, Tick, vars

LEMMA NextPanel ==
  ASSUME PanelInv, [Next]_vars, Len(samples) \in Nat, Len(samples') \in Nat,
         Len(samples) <= Len(samples')
  PROVE  PanelInv'
<1>1. CASE Read
  <2>1. CASE panel.read = 0
    <3>1. ReadOrder[panel.read + 1] = "lastTokensPerSec" /\ (panel.read + 1) % 2 = 1
      BY <2>1 DEF ReadOrder
    <3>2. panel'.read = 1 /\ panel'.values = [panel.values EXCEPT !["lastTokensPerSec"] = Len(samples)]
      BY <1>1, <3>1 DEF Read
    <3>3. samples' = samples
      BY <1>1 DEF Read
    <3> QED
      BY <3>2, <3>3 DEF PanelInv, RateIsCounted, Fields
  <2>2. CASE panel.read = 1
    <3>1. ReadOrder[panel.read + 1] = "samples" /\ (panel.read + 1) % 2 = 0
      BY <2>2 DEF ReadOrder
    <3>2. panel'.read = 0 /\ panel'.values = [panel.values EXCEPT !["samples"] = Len(samples)]
      BY <1>1, <3>1 DEF Read
    <3>3. samples' = samples
      BY <1>1 DEF Read
    <3> QED
      BY <3>2, <3>3 DEF PanelInv, RateIsCounted, Fields
  <2> QED
    BY <2>1, <2>2 DEF PanelInv
<1>2. CASE panel' = panel
  BY <1>2 DEF PanelInv, RateIsCounted, Fields
<1> QED
  BY <1>1, <1>2 DEF Next, vars, Bind, Tick, Receive, Begin, Generate, Respond, Chunk, Yield,
     PassError, Finish, Leave

(* No rate is better than the engine's.                                    *)
THEOREM RatesStayHonest == Spec => []RatesAreNotOverstated
<1>1. SamplesInv => RatesAreNotOverstated
  BY DEF SamplesInv, TableInv
<1>2. ServedInv /\ SamplesInv /\ [Next]_vars => ServedInv' /\ SamplesInv'
  BY NextServed, NextSamples
<1>3. Init => ServedInv /\ SamplesInv
  BY InitServed, InitSamples
<1> QED
  BY <1>1, <1>2, <1>3, PTL DEF Spec

(* The rate on the panel is one of those counted next to it, though rows   *)
(* are inserted between the reads.                                         *)
THEOREM RateIsAmongTheCounted == Spec => []RateIsCounted
<1>1. PanelInv => RateIsCounted
  BY DEF PanelInv
<1>2. ServedInv /\ SamplesInv /\ PanelInv /\ [Next]_vars => ServedInv' /\ SamplesInv' /\ PanelInv'
  BY NextServed, NextSamples, NextPanel
<1>3. Init => ServedInv /\ SamplesInv /\ PanelInv
  BY InitServed, InitSamples
<1> QED
  BY <1>1, <1>2, <1>3, PTL DEF Spec

-----------------------------------------------------------------------------
(* What was read of an answer, line by line, against the answer itself.    *)
LEMMA SeenLines ==
  ASSUME NEW kind, NEW body \in Seq(Pieces), NEW read \in 0..Len(body)
  PROVE  LET seen == SubSeq(body, 1, read)
             rest == LineAt(body, read + 1)
             long == {i \in NewlinesOf(seen) \cup {Len(seen) + 1} : Len(LineAt(seen, i)) > MaxBody}
         IN /\ Accounting(kind, seen) = Lines(kind, body, read) /\ Rest(seen) = rest
            /\ long = Long(body, read) \union (IF Len(rest) > MaxBody THEN {read + 1} ELSE {})
            /\ read + 1 \notin Long(body, read)
<1> DEFINE seen == SubSeq(body, 1, read)
           rest == LineAt(body, read + 1)
           long == {i \in NewlinesOf(seen) \cup {Len(seen) + 1} : Len(LineAt(seen, i)) > MaxBody}
<1>1. Len(body) \in Nat /\ read \in Nat /\ read <= Len(body) /\ DOMAIN body = 1..Len(body)
  OBVIOUS
<1>2. /\ Len(seen) = read /\ NewlinesOf(seen) = {j \in NewlinesOf(body) : j <= read}
      /\ \A i \in 1..read + 1 : LineAt(seen, i) = LineAt(body, i)
  BY PrefixLines
<1>3. \A i \in NewlinesOf(body) : i <= read => i \in 1..read + 1 /\ i # read + 1
  BY <1>1 DEF NewlinesOf
<1> HIDE DEF seen
<1>4. Accounting(kind, seen) = Lines(kind, body, read)
  BY <1>2, <1>3 DEF Accounting, Lines
<1>5. Rest(seen) = rest
  <2>1. read + 1 \in 1..read + 1
    BY <1>1
  <2> QED
    BY <1>2, <2>1 DEF Rest
<1>6. long = Long(body, read) \union (IF Len(rest) > MaxBody THEN {read + 1} ELSE {})
  <2>1. LineAt(seen, read + 1) = rest
    BY <1>2, <1>5 DEF Rest
  <2>2. {i \in NewlinesOf(seen) : Len(LineAt(seen, i)) > MaxBody} = Long(body, read)
    BY <1>2, <1>3 DEF Long
  <2> HIDE DEF rest
  <2>3. long = {i \in NewlinesOf(seen) : Len(LineAt(seen, i)) > MaxBody}
                 \union (IF Len(rest) > MaxBody THEN {read + 1} ELSE {})
    BY <1>2, <2>1
  <2> QED
    BY <2>2, <2>3
<1>7. read + 1 \notin Long(body, read)
  BY <1>3 DEF Long
<1> QED
  BY <1>4, <1>5, <1>6, <1>7 DEF seen

(* The rows of a request are those of its accounting lines, however its    *)
(* answer was cut; only a line that is too long may add one to them.       *)
THEOREM SamplesAreOfLines == Spec => []SamplesAreTheLines
<1>1. ASSUME ServedInv, SamplesInv PROVE SamplesAreTheLines
  <2> SUFFICES ASSUME NEW r \in Requests
               PROVE  LET seen == SubSeq(engine[r].body, 1, call[r].read)
                          lines == Accounting(EngineOf[r], seen)
                          tail == lines = {} /\ client[r].ended = "complete"
                                  /\ IsAccounting(EngineOf[r], Rest(seen))
                          due == Cardinality(lines) + (IF tail THEN 1 ELSE 0)
                          long == {i \in NewlinesOf(seen) \cup {Len(seen) + 1} :
                                     Len(LineAt(seen, i)) > MaxBody}
                      IN Count(r) \in due..due + Cardinality(long)
    BY <1>1, Zenon DEF SamplesAreTheLines, Count, RowsOf
  <2> DEFINE body == engine[r].body
             kind == EngineOf[r]
             read == call[r].read
             seen == SubSeq(body, 1, read)
             rest == LineAt(body, read + 1)
             lines == Lines(kind, body, read)
             done == client[r].ended = "complete"
             extra == IF Len(rest) > MaxBody THEN {read + 1} ELSE {}
             long == Long(body, read) \union extra
             tail == IF lines = {} /\ done /\ IsAccounting(kind, rest) THEN 1 ELSE 0
  <2>1. body \in Seq(Pieces) /\ read \in 0..Len(body)
    <3>1. body \in Seq(Pieces) /\ read \in Nat /\ engine[r].sent \in Seq(Nat)
      BY <1>1 DEF ServedInv, Typed, Engines, Calls
    <3>2. read <= Len(engine[r].sent) /\ Len(engine[r].sent) <= Len(body)
      BY <1>1 DEF ServedInv, Answered, Relayed
    <3>3. Len(engine[r].sent) \in Nat /\ Len(body) \in Nat
      BY <3>1
    <3> HIDE DEF body, read
    <3> QED
      BY <3>1, <3>2, <3>3
  <2>2. /\ Accounting(kind, seen) = lines /\ Rest(seen) = rest
        /\ {i \in NewlinesOf(seen) \cup {Len(seen) + 1} : Len(LineAt(seen, i)) > MaxBody} = long
        /\ read + 1 \notin Long(body, read)
    <3> HIDE DEF body, read, kind
    <3> QED
      BY <2>1, SeenLines
  <2>3. /\ Cardinality(lines) \in Nat /\ IsFiniteSet(Long(body, read))
        /\ Cardinality(Long(body, read)) \in Nat
    BY <2>1, LinesFinite
  <2>4. Cardinality(long) = Cardinality(Long(body, read)) + (IF Len(rest) > MaxBody THEN 1 ELSE 0)
    <3>1. CASE Len(rest) > MaxBody
      <4>1. long = Long(body, read) \union {read + 1}
        BY <3>1
      <4>2. Cardinality(long) = Cardinality(Long(body, read)) + 1
        BY <2>2, <2>3, <4>1, FS_AddElement
      <4> QED
        BY <3>1, <4>2
    <3>2. CASE ~(Len(rest) > MaxBody)
      <4>1. long = Long(body, read)
        BY <3>2
      <4> HIDE DEF long
      <4> QED
        BY <2>3, <3>2, <4>1
    <3> QED
      BY <3>1, <3>2
  <2>5. Count(r) \in Nat
    <3>1. TableInv
      BY <1>1 DEF SamplesInv
    <3>2. Cardinality(RowsOf(samples, r)) \in Nat /\ failures[r] \in Nat
      BY <3>1, RowsFinite DEF TableInv
    <3> QED
      BY <3>2 DEF Count
  <2>6. Cardinality(lines) + tail <= Count(r) /\ Count(r) <= Cardinality(lines) + tail + Cardinality(long)
    <3>1. Due(r)
      BY <1>1 DEF SamplesInv, LinesInv
    <3> DEFINE more == Cardinality(Long(body, read)) + (IF done /\ Len(rest) > MaxBody THEN 1 ELSE 0)
               due == Cardinality(lines) + (IF done /\ lines = {} /\ IsAccounting(kind, rest) THEN 1 ELSE 0)
    <3>2. due <= Count(r) /\ Count(r) <= due + more
      BY <3>1, Zenon DEF Due
    <3>3. due = Cardinality(lines) + tail
      OBVIOUS
    <3>4. more <= Cardinality(long) /\ more \in Nat /\ Cardinality(long) \in Nat
      BY <2>3, <2>4
    <3>5. due \in Nat
      BY <2>3
    <3> HIDE DEF more, due, long, tail, lines, Count
    <3> QED
      BY <2>5, <3>2, <3>3, <3>4, <3>5
  <2>7. Cardinality(lines) + tail \in Nat /\ Cardinality(long) \in Nat
    BY <2>3, <2>4
  <2>8. Count(r) \in Cardinality(lines) + tail..Cardinality(lines) + tail + Cardinality(long)
    <3> HIDE DEF long, tail, lines, Count
    <3> QED
      BY <2>5, <2>6, <2>7
  <2> HIDE DEF Count, long
  <2> QED
    BY <2>2, <2>8, Zenon
<1>2. ServedInv /\ SamplesInv /\ [Next]_vars => ServedInv' /\ SamplesInv'
  BY NextServed, NextSamples
<1>3. Init => ServedInv /\ SamplesInv
  BY InitServed, InitSamples
<1> QED
  BY <1>1, <1>2, <1>3, PTL DEF Spec

=============================================================================
