------------------------- MODULE EgressProbe_proofs -------------------------
(***************************************************************************)
(* The egress probe counts for a process only what that process sent, as   *)
(* long as exits are watched and leaders exit last: for every number of    *)
(* processes, threads, elements and sends.                                 *)
(*                                                                         *)
(* The point is a pointer that outlives its entry.  As long as the leader  *)
(* exits last, a thread inside account() keeps its process's entry in      *)
(* place, so the element it points to is still the process's own when it   *)
(* stores.                                                                 *)
(***************************************************************************)
EXTENDS EgressProbe, TLAPS

USE ThreadAssumption, LivesAssumption, NothingAssumption

Calm == ~unwatched /\ ~orphaned

(* Only live threads are inside account(), with a send and, once the       *)
(* lookup has found one, with an element.                                  *)
ProbesRun ==
  \A p \in Pids, t \in Threads :
    LET r == probe[p][t] IN
    /\ r.pc # "away" => t \in threads[p] /\ r.send \in Sends
    /\ r.pc \in {"found", "loaded"} => r.at \in Elements

LeaderStays == \A p \in Pids : threads[p] # {} => Leader \in threads[p]

EntriesOwn ==
  \A e \in Elements, p \in Pids : element[e].key = p =>
    threads[p] # {} /\ element[e].counter \subseteq sent[p]

ProbesOwn ==
  \A p \in Pids, t \in Threads :
    LET r == probe[p][t] IN
    /\ r.pc # "away" => r.send \in sent[p]
    /\ r.pc \in {"found", "loaded"} =>
         element[r.at].key = p /\ r.counter \subseteq sent[p]

ProbeInv ==
  /\ TypeOK
  /\ ProbesRun
  /\ Calm => LeaderStays /\ EntriesOwn /\ ProbesOwn

-----------------------------------------------------------------------------
(* Nothing is attached, counted or running at first.                       *)
LEMMA InitInv == Init => ProbeInv
<1> SUFFICES ASSUME Init PROVE ProbeInv
  OBVIOUS
<1>1. TypeOK
  <2>1. probe \in [Pids -> [Threads -> ProbeRecord]]
    BY DEF Init, Away, ProbeRecord
  <2>2. element \in [Elements -> [key : Pids \union {NONE}, counter : SUBSET Sends]]
    BY DEF Init
  <2>3. life \in [Pids -> 0..MaxLives] /\ threads \in [Pids -> SUBSET Threads]
    BY DEF Init
  <2> QED
    BY <2>1, <2>2, <2>3 DEF Init, TypeOK
<1>2. ProbesRun /\ LeaderStays /\ EntriesOwn /\ ProbesOwn
  BY DEF Init, Away, ProbesRun, LeaderStays, EntriesOwn, ProbesOwn
<1> QED
  BY <1>1, <1>2 DEF ProbeInv

(* Attaching a program changes nothing else.                               *)
LEMMA AttachKeepsInv ==
  ASSUME ProbeInv, NEW program \in Kprobes \union {"exit"}, Attach(program)
  PROVE  ProbeInv'
<1>1. attached' \in {{"tcp_sendmsg"}, Kprobes, Kprobes \union {"exit"}}
  BY DEF Attach, Kprobes
<1>2. UNCHANGED <<element, probe, lives, history>>
  BY DEF Attach
<1> QED
  BY <1>1, <1>2 DEF lives, history, ProbeInv, TypeOK, ProbesRun, Calm, LeaderStays, EntriesOwn,
                    ProbesOwn

(* Detaching them all empties the map while no program runs.               *)
LEMMA AttachFailsKeepsInv == ASSUME ProbeInv, AttachFails PROVE ProbeInv'
<1> USE DEF AttachFails, lives, history
<1>1. TypeOK'
  BY DEF ProbeInv, TypeOK
<1>2. \A p \in Pids, t \in Threads : probe[p][t].pc = "away"
  BY DEF Sending
<1>3. ProbesRun' /\ EntriesOwn' /\ ProbesOwn'
  BY <1>2 DEF ProbesRun, EntriesOwn, ProbesOwn
<1> QED
  BY <1>1, <1>3 DEF ProbeInv, Calm, LeaderStays

(* A thread inside account() steps on: what changes is its own record.     *)
LEMMA AdvanceOne ==
  ASSUME ProbeInv, NEW p \in Pids, NEW t \in Threads, NEW r \in ProbeRecord,
         probe' = [probe EXCEPT ![p][t] = r]
  PROVE  /\ probe' \in [Pids -> [Threads -> ProbeRecord]]
         /\ \A q \in Pids, u \in Threads :
              probe'[q][u] = IF q = p /\ u = t THEN r ELSE probe[q][u]
         /\ \A q \in Pids : q # p => probe'[q] = probe[q]
<1>1. probe \in [Pids -> [Threads -> ProbeRecord]]
  BY DEF ProbeInv, TypeOK
<1> QED
  BY <1>1

(* A lookup starts a send of the process and finds its entry, if any.      *)
Entered(p, t, x, r) ==
  /\ probe' = [probe EXCEPT ![p][t] = r]
  /\ r.pc \in {"found", "absent"} /\ r.send = x /\ r.counter = {}
  /\ r.pc = "found" => r.at \in Elements /\ element[r.at].key = p
  /\ r.pc = "absent" => EntryOf(p) = {}

LEMMA LookupEnters ==
  ASSUME NEW p \in Pids, NEW t \in Threads, NEW x \in Sends, Lookup(p, t, x)
  PROVE  \E r \in ProbeRecord : Entered(p, t, x, r)
<1>1. ASSUME NEW e \in EntryOf(p), Advance(p, t, "found", x, e, {})
      PROVE  \E r \in ProbeRecord : Entered(p, t, x, r)
  <2> DEFINE s == [pc |-> "found", send |-> x, at |-> e, counter |-> {}]
  <2>1. s \in ProbeRecord
    BY <1>1 DEF ProbeRecord, EntryOf
  <2>2. Entered(p, t, x, s)
    BY <1>1 DEF Advance, EntryOf, Entered
  <2> QED
    BY <2>1, <2>2
<1>2. ASSUME EntryOf(p) = {}, Advance(p, t, "absent", x, NONE, {})
      PROVE  \E r \in ProbeRecord : Entered(p, t, x, r)
  <2> DEFINE s == [pc |-> "absent", send |-> x, at |-> NONE, counter |-> {}]
  <2>1. s \in ProbeRecord
    BY DEF ProbeRecord
  <2>2. Entered(p, t, x, s)
    BY <1>2 DEF Advance, Entered
  <2> QED
    BY <2>1, <2>2
<1> QED
  BY <1>1, <1>2 DEF Lookup

LEMMA LookupKeepsInv ==
  ASSUME ProbeInv, NEW p \in Pids, NEW t \in Threads, NEW x \in Sends, Lookup(p, t, x)
  PROVE  ProbeInv'
<1>1. PICK r \in ProbeRecord : Entered(p, t, x, r)
  BY LookupEnters
<1>2. /\ probe' \in [Pids -> [Threads -> ProbeRecord]]
      /\ \A q \in Pids, u \in Threads :
           probe'[q][u] = IF q = p /\ u = t THEN r ELSE probe[q][u]
  <2>1. probe' = [probe EXCEPT ![p][t] = r]
    BY <1>1 DEF Entered
  <2> QED
    BY <2>1, AdvanceOne
<1>3. /\ UNCHANGED <<attached, element, lives, past, missed, unwatched, orphaned>>
      /\ t \in threads[p]
      /\ x \in sent'[p] /\ \A q \in Pids : sent[q] \subseteq sent'[q]
  BY DEF Lookup, ProbeInv, TypeOK
<1>4. TypeOK'
  <2>1. sent' \in [Pids -> SUBSET Sends] /\ raced' \subseteq Pids
    BY DEF Lookup, ProbeInv, TypeOK
  <2> QED
    BY <1>2, <1>3, <2>1 DEF ProbeInv, TypeOK, lives
<1>5. ProbesRun'
  BY <1>1, <1>2, <1>3 DEF ProbeInv, ProbesRun, Entered, lives
<1>6. ASSUME Calm PROVE LeaderStays' /\ EntriesOwn' /\ ProbesOwn'
  <2>1. LeaderStays' /\ EntriesOwn'
    BY <1>3, <1>6 DEF ProbeInv, LeaderStays, EntriesOwn, lives
  <2>2. ProbesOwn'
    BY <1>1, <1>2, <1>3, <1>6 DEF ProbeInv, ProbesOwn, Entered
  <2> QED
    BY <2>1, <2>2
<1> QED
  BY <1>3, <1>4, <1>5, <1>6 DEF ProbeInv, Calm

(* A load reads the process's own element.                                 *)
LEMMA LoadKeepsInv ==
  ASSUME ProbeInv, NEW p \in Pids, NEW t \in Threads, Load(p, t)
  PROVE  ProbeInv'
<1> DEFINE old == probe[p][t]
           new == [pc |-> "loaded", send |-> old.send, at |-> old.at,
                   counter |-> element[old.at].counter]
<1>1. old \in ProbeRecord /\ old.pc = "found" /\ old.at \in Elements /\ old.send \in Sends
      /\ t \in threads[p]
  BY DEF Load, ProbeInv, TypeOK, ProbesRun
<1>2. UNCHANGED <<attached, element, lives, history>>
  BY DEF Load
<1>3. new \in ProbeRecord
  BY <1>1 DEF ProbeInv, TypeOK, ProbeRecord
<1>4. /\ probe' \in [Pids -> [Threads -> ProbeRecord]]
      /\ \A q \in Pids, u \in Threads :
           probe'[q][u] = IF q = p /\ u = t THEN new ELSE probe[q][u]
  <2>1. probe' = [probe EXCEPT ![p][t] = new]
    BY DEF Load, Advance
  <2> HIDE DEF new
  <2> QED
    BY <1>3, <2>1, AdvanceOne
<1>5. TypeOK' /\ ProbesRun'
  <2>1. TypeOK'
    BY <1>2, <1>4 DEF ProbeInv, TypeOK, lives, history
  <2>2. ProbesRun'
    BY <1>1, <1>2, <1>4 DEF ProbeInv, ProbesRun, lives
  <2> QED
    BY <2>1, <2>2
<1>6. ASSUME Calm PROVE LeaderStays' /\ EntriesOwn' /\ ProbesOwn'
  <2>1. LeaderStays' /\ EntriesOwn'
    BY <1>2, <1>6 DEF ProbeInv, LeaderStays, EntriesOwn, lives, history
  <2>2. old.send \in sent[p] /\ element[old.at].counter \subseteq sent[p] /\ element[old.at].key = p
    BY <1>1, <1>6 DEF ProbeInv, EntriesOwn, ProbesOwn
  <2>3. ProbesOwn'
    BY <1>2, <1>4, <1>6, <2>2 DEF ProbeInv, ProbesOwn, history
  <2> QED
    BY <2>1, <2>3
<1> QED
  BY <1>2, <1>5, <1>6 DEF ProbeInv, Calm, history

(* A store writes the process's own element, with its own sends.           *)
LEMMA StoreKeepsInv ==
  ASSUME ProbeInv, NEW p \in Pids, NEW t \in Threads, Store(p, t)
  PROVE  ProbeInv'
<1> DEFINE old == probe[p][t]
           total == old.counter \union {old.send}
<1>1. old \in ProbeRecord /\ old.pc = "loaded" /\ old.at \in Elements /\ old.send \in Sends
  BY DEF Store, ProbeInv, TypeOK, ProbesRun
<1>2. UNCHANGED <<attached, lives, history>>
  BY DEF Store
<1>3. /\ probe' \in [Pids -> [Threads -> ProbeRecord]]
      /\ \A q \in Pids, u \in Threads :
           probe'[q][u] = IF q = p /\ u = t THEN Away ELSE probe[q][u]
  <2>1. Away \in ProbeRecord
    BY DEF Away, ProbeRecord
  <2>2. probe' = [probe EXCEPT ![p][t] = Away]
    BY DEF Store
  <2> QED
    BY <2>1, <2>2, AdvanceOne
<1>4. element' = [element EXCEPT ![old.at] = [key |-> element[old.at].key, counter |-> total]]
  BY DEF Store
<1>5. /\ element' \in [Elements -> [key : Pids \union {NONE}, counter : SUBSET Sends]]
      /\ \A e \in Elements : element'[e].key = element[e].key
                             /\ (e # old.at => element'[e] = element[e])
      /\ element'[old.at].counter = total
  <2>1. total \in SUBSET Sends /\ element[old.at].key \in Pids \union {NONE}
    BY <1>1 DEF ProbeRecord, ProbeInv, TypeOK
  <2> QED
    BY <1>1, <1>4, <2>1 DEF ProbeInv, TypeOK
<1>6. TypeOK' /\ ProbesRun'
  BY <1>2, <1>3, <1>5 DEF ProbeInv, TypeOK, ProbesRun, Away, lives, history
<1>7. ASSUME Calm PROVE LeaderStays' /\ EntriesOwn' /\ ProbesOwn'
  <2>1. LeaderStays'
    BY <1>2, <1>7 DEF ProbeInv, LeaderStays, lives
  <2>2. total \subseteq sent[p] /\ element[old.at].key = p
    BY <1>1, <1>7 DEF ProbeInv, ProbesOwn
  <2>3. EntriesOwn'
    BY <1>1, <1>2, <1>5, <1>7, <2>2 DEF ProbeInv, EntriesOwn, lives, history
  <2>4. ProbesOwn'
    BY <1>2, <1>3, <1>5, <1>7 DEF ProbeInv, ProbesRun, ProbesOwn, Away, history
  <2> QED
    BY <2>1, <2>3, <2>4
<1> QED
  BY <1>2, <1>6, <1>7 DEF ProbeInv, Calm, history

(* An insertion gives the process an element that was its own or free.     *)
LEMMA InsertKeepsInv ==
  ASSUME ProbeInv, NEW p \in Pids, NEW t \in Threads, Insert(p, t)
  PROVE  ProbeInv'
<1> DEFINE old == probe[p][t]
<1>1. old \in ProbeRecord /\ old.pc = "absent" /\ old.send \in Sends /\ t \in threads[p]
  BY DEF Insert, ProbeInv, TypeOK, ProbesRun
<1>2. UNCHANGED <<attached, lives, sent, past, raced, unwatched, orphaned>>
  BY DEF Insert
<1>3. /\ probe' \in [Pids -> [Threads -> ProbeRecord]]
      /\ \A q \in Pids, u \in Threads :
           probe'[q][u] = IF q = p /\ u = t THEN Away ELSE probe[q][u]
  <2>1. Away \in ProbeRecord
    BY DEF Away, ProbeRecord
  <2>2. probe' = [probe EXCEPT ![p][t] = Away]
    BY DEF Insert
  <2> QED
    BY <2>1, <2>2, AdvanceOne
<1>4. \/ element' = element
      \/ \E e \in Elements :
           /\ element[e].key \in {p, NONE}
           /\ element' = [element EXCEPT ![e] = [key |-> p, counter |-> {old.send}]]
  BY DEF Insert, EntryOf, Free
<1>5. /\ element' \in [Elements -> [key : Pids \union {NONE}, counter : SUBSET Sends]]
      /\ \A e \in Elements :
           \/ element'[e] = element[e]
           \/ /\ element[e].key \in {p, NONE}
              /\ element'[e].key = p /\ element'[e].counter = {old.send}
  <2>1. element \in [Elements -> [key : Pids \union {NONE}, counter : SUBSET Sends]]
    BY DEF ProbeInv, TypeOK
  <2>2. CASE element' = element
    BY <2>1, <2>2
  <2>3. ASSUME NEW e \in Elements, element[e].key \in {p, NONE},
               element' = [element EXCEPT ![e] = [key |-> p, counter |-> {old.send}]]
        PROVE  <1>5!1 /\ <1>5!2
    <3>1. [key |-> p, counter |-> {old.send}] \in [key : Pids \union {NONE}, counter : SUBSET Sends]
      BY <1>1
    <3> QED
      BY <2>1, <2>3, <3>1
  <2> QED
    BY <1>4, <2>2, <2>3
<1>6. TypeOK' /\ ProbesRun'
  <2>1. missed' \subseteq Pids
    BY DEF Insert, ProbeInv, TypeOK
  <2>2. TypeOK'
    BY <1>2, <1>3, <1>5, <2>1 DEF ProbeInv, TypeOK, lives
  <2>3. ProbesRun'
    BY <1>2, <1>3 DEF ProbeInv, ProbesRun, Away, lives
  <2> QED
    BY <2>2, <2>3
<1>7. ASSUME Calm PROVE LeaderStays' /\ EntriesOwn' /\ ProbesOwn'
  <2>1. LeaderStays'
    BY <1>2, <1>7 DEF ProbeInv, LeaderStays, lives
  <2>2. old.send \in sent[p] /\ threads[p] # {}
    BY <1>1, <1>7 DEF ProbeInv, ProbesOwn
  <2>3. EntriesOwn'
    BY <1>2, <1>5, <1>7, <2>2 DEF ProbeInv, EntriesOwn, lives
  <2>4. ProbesOwn'
    BY <1>2, <1>3, <1>5, <1>7 DEF ProbeInv, ProbesRun, ProbesOwn, Away
  <2> QED
    BY <2>1, <2>3, <2>4
<1> QED
  BY <1>2, <1>6, <1>7 DEF ProbeInv, Calm

(* The leader's exit leaves no entry and no thread behind: the others have *)
(* exited, so none of them is inside account().                            *)
LEMMA ExitKeepsInv ==
  ASSUME ProbeInv, NEW p \in Pids, NEW t \in Threads, Exit(p, t)
  PROVE  ProbeInv'
<1>1. /\ UNCHANGED <<attached, probe, life, sent, past, raced, missed>>
      /\ t \in threads[p] /\ probe[p][t].pc = "away"
      /\ threads' = [threads EXCEPT ![p] = threads[p] \ {t}]
  BY DEF Exit
<1>2. /\ element' \in [Elements -> [key : Pids \union {NONE}, counter : SUBSET Sends]]
      /\ \A e \in Elements :
           \/ element'[e] = element[e]
           \/ t = Leader /\ element[e].key = p /\ element'[e].key = NONE
      /\ t = Leader /\ "exit" \in attached => \A e \in Elements : element'[e].key # p
  BY DEF Exit, Evict, ProbeInv, TypeOK
<1>3. TypeOK' /\ ProbesRun'
  BY <1>1, <1>2 DEF Exit, ProbeInv, TypeOK, ProbesRun
<1>4. ASSUME Calm' PROVE LeaderStays' /\ EntriesOwn' /\ ProbesOwn'
  <2>1. /\ Calm
        /\ t = Leader => threads[p] = {Leader}
        /\ "exit" \notin attached => EntryOf(p) = {}
    BY <1>4 DEF Exit, Calm
  <2>2. LeaderStays'
    BY <1>1, <2>1 DEF ProbeInv, LeaderStays, TypeOK
  <2>3. t = Leader => \A e \in Elements : element'[e].key # p
    BY <1>2, <2>1 DEF EntryOf
  <2>4. t # Leader => threads'[p] # {}
    BY <1>1, <2>1 DEF ProbeInv, LeaderStays, TypeOK
  <2>5. EntriesOwn'
    BY <1>1, <1>2, <2>1, <2>3, <2>4 DEF ProbeInv, EntriesOwn, TypeOK
  <2>6. t = Leader => \A u \in Threads : probe[p][u].pc = "away"
    BY <1>1, <2>1 DEF ProbeInv, ProbesRun
  <2>7. ProbesOwn'
    BY <1>1, <1>2, <2>1, <2>6 DEF ProbeInv, ProbesRun, ProbesOwn
  <2> QED
    BY <2>2, <2>5, <2>7
<1> QED
  BY <1>3, <1>4 DEF ProbeInv

(* A new process finds no entry under its id, and nobody inside account(). *)
LEMMA SpawnKeepsInv == ASSUME ProbeInv, NEW p \in Pids, Spawn(p) PROVE ProbeInv'
<1>1. /\ UNCHANGED <<attached, element, probe, unwatched, orphaned>>
      /\ threads[p] = {} /\ threads' = [threads EXCEPT ![p] = {Leader}]
      /\ sent' = [sent EXCEPT ![p] = {}]
  BY DEF Spawn
<1>2. TypeOK'
  <2>1. life' \in [Pids -> 0..MaxLives]
    BY DEF Spawn, ProbeInv, TypeOK
  <2>2. past' \in [Pids -> SUBSET Sends] /\ raced' \subseteq Pids /\ missed' \subseteq Pids
    BY DEF Spawn, ProbeInv, TypeOK
  <2> QED
    BY <1>1, <2>1, <2>2 DEF ProbeInv, TypeOK
<1>3. \A u \in Threads : probe[p][u].pc = "away"
  BY <1>1 DEF ProbeInv, ProbesRun
<1>4. ProbesRun'
  BY <1>1, <1>3 DEF ProbeInv, ProbesRun, TypeOK
<1>5. ASSUME Calm PROVE LeaderStays' /\ EntriesOwn' /\ ProbesOwn'
  <2>1. LeaderStays' /\ EntriesOwn'
    BY <1>1, <1>5 DEF ProbeInv, TypeOK, LeaderStays, EntriesOwn
  <2>2. ProbesOwn'
    BY <1>1, <1>3, <1>5 DEF ProbeInv, TypeOK, ProbesOwn
  <2> QED
    BY <2>1, <2>2
<1> QED
  BY <1>1, <1>2, <1>4, <1>5 DEF ProbeInv, Calm

LEMMA CloneKeepsInv ==
  ASSUME ProbeInv, NEW p \in Pids, NEW t \in Threads, Clone(p, t)
  PROVE  ProbeInv'
BY DEF Clone, ProbeInv, TypeOK, ProbesRun, Calm, LeaderStays, EntriesOwn, ProbesOwn, history

-----------------------------------------------------------------------------
(* The inductive invariant holds in every state.                           *)
THEOREM ProbeInvariant == Spec => []ProbeInv
<1>1. ProbeInv /\ [Next]_vars => ProbeInv'
  <2> SUFFICES ASSUME ProbeInv, [Next]_vars PROVE ProbeInv'
    OBVIOUS
  <2>1. CASE \E program \in Kprobes \union {"exit"} : Attach(program)
    BY <2>1, AttachKeepsInv
  <2>2. CASE AttachFails
    BY <2>2, AttachFailsKeepsInv
  <2>3. CASE \E p \in Pids : Spawn(p)
    BY <2>3, SpawnKeepsInv
  <2>4. CASE \E p \in Pids, t \in Threads : Account(p, t) \/ Exit(p, t) \/ Clone(p, t)
    BY <2>4, LookupKeepsInv, LoadKeepsInv, StoreKeepsInv, InsertKeepsInv, ExitKeepsInv,
       CloneKeepsInv DEF Account
  <2>5. CASE UNCHANGED vars
    BY <2>5 DEF vars, lives, history, ProbeInv, TypeOK, ProbesRun, Calm, LeaderStays,
                EntriesOwn, ProbesOwn
  <2> QED
    BY <2>1, <2>2, <2>3, <2>4, <2>5 DEF Next
<1> QED
  BY <1>1, InitInv, PTL DEF Spec

(* The probe's accounting is honest as long as exits are watched and       *)
(* leaders exit last: an entry belongs to a live process and counts only   *)
(* what that process sent.                                                 *)
THEOREM ProbeIsHonest == Spec => []OwnBytesOnly
<1>1. ProbeInv => OwnBytesOnly
  <2> SUFFICES ASSUME ProbeInv, Calm, NEW p \in Pids, NEW e \in EntryOf(p)
               PROVE  threads[p] # {} /\ CountedFor(p) \subseteq sent[p]
    BY DEF OwnBytesOnly, Calm
  <2> QED
    BY DEF ProbeInv, EntriesOwn, EntryOf, CountedFor
<1> QED
  BY <1>1, ProbeInvariant, PTL

-----------------------------------------------------------------------------
(* Why nothing is lost either.  A process has one element, one send at a   *)
(* time unless it raced, and between its sends the element holds them all. *)
OneEntryEach ==
  \A e, f \in Elements : element[e].key = element[f].key /\ element[e].key # NONE => e = f

Alone(p) ==
  \A t, u \in Threads : probe[p][t].pc # "away" /\ probe[p][u].pc # "away" => t = u

Whole(p) ==
  /\ CountedFor(p) = sent[p] \ UnderWay(p)
  /\ \A t \in Threads :
       /\ probe[p][t].pc = "absent" => EntryOf(p) = {}
       /\ probe[p][t].pc = "loaded" => probe[p][t].counter = element[probe[p][t].at].counter

Healthy == Calm /\ attached # {"failed"}

CountInv ==
  /\ OneEntryEach
  /\ \A p \in Pids \ raced : Alone(p)
  /\ Healthy => \A p \in Pids \ (raced \union missed) : threads[p] # {} => Whole(p)

(* What the operators of the count depend on.                              *)
SameEntries(p) ==
  \A e \in Elements :
    /\ element'[e].key = p <=> element[e].key = p
    /\ element[e].key = p => element'[e].counter = element[e].counter

LEMMA SameEntriesCount ==
  ASSUME NEW p \in Pids, SameEntries(p)
  PROVE  EntryOf(p)' = EntryOf(p) /\ CountedFor(p)' = CountedFor(p)
<1>1. EntryOf(p)' = EntryOf(p)
  BY DEF SameEntries, EntryOf
<1> QED
  BY <1>1 DEF SameEntries, EntryOf, CountedFor

LEMMA SameSendsUnderWay ==
  ASSUME NEW p \in Pids,
         \A t \in Threads : /\ probe'[p][t].pc # "away" <=> probe[p][t].pc # "away"
                            /\ probe'[p][t].send = probe[p][t].send
  PROVE  UnderWay(p)' = UnderWay(p)
BY DEF UnderWay, Sending

(* A process is left alone when its entry and its threads are.             *)
LEMMA WholeFrame ==
  ASSUME ProbesOwn, NEW p \in Pids, Whole(p), SameEntries(p), probe'[p] = probe[p],
         ProbesRun, sent'[p] = sent[p]
  PROVE  Whole(p)'
<1>1. EntryOf(p)' = EntryOf(p) /\ CountedFor(p)' = CountedFor(p)
  BY SameEntriesCount
<1>2. UnderWay(p)' = UnderWay(p)
  BY SameSendsUnderWay
<1>3. ASSUME NEW t \in Threads, probe[p][t].pc = "loaded"
      PROVE  element'[probe[p][t].at].counter = element[probe[p][t].at].counter
  BY <1>3 DEF ProbesOwn, ProbesRun, SameEntries
<1> QED
  BY <1>1, <1>2, <1>3 DEF Whole

LEMMA LookupKeepsCount ==
  ASSUME ProbeInv, CountInv, NEW p \in Pids, NEW t \in Threads, NEW x \in Sends, Lookup(p, t, x)
  PROVE  CountInv'
<1>1. PICK r \in ProbeRecord : Entered(p, t, x, r)
  BY LookupEnters
<1>2. probe' = [probe EXCEPT ![p][t] = r]
  BY <1>1 DEF Entered
<1>3. /\ \A q \in Pids, u \in Threads :
           probe'[q][u] = IF q = p /\ u = t THEN r ELSE probe[q][u]
      /\ \A q \in Pids : q # p => probe'[q] = probe[q]
  BY <1>2, AdvanceOne
<1>4. /\ UNCHANGED <<attached, element, lives, past, missed, unwatched, orphaned>>
      /\ x \notin sent[p] /\ sent' = [sent EXCEPT ![p] = sent[p] \union {x}]
      /\ raced \subseteq raced' /\ (p \notin raced' => Sending(p) = {})
  BY DEF Lookup
<1>5. OneEntryEach' /\ \A q \in Pids : SameEntries(q)
  BY <1>4 DEF CountInv, OneEntryEach, SameEntries
<1>6. ASSUME NEW q \in Pids \ raced' PROVE Alone(q)'
  BY <1>3, <1>4 DEF CountInv, Alone, Sending
<1>7. ASSUME Healthy', NEW q \in Pids \ (raced \union missed)', threads'[q] # {}
      PROVE  Whole(q)'
  <2>1. Healthy /\ Whole(q) /\ ProbesOwn /\ ProbesRun
    BY <1>4, <1>7 DEF Healthy, Calm, CountInv, ProbeInv, lives
  <2>2. CASE q # p
    <3>1. sent'[q] = sent[q]
      BY <1>4, <2>2 DEF ProbeInv, TypeOK
    <3> QED
      BY <1>3, <1>5, <2>1, <2>2, <3>1, WholeFrame
  <2>3. CASE q = p
    <3>1. Sending(p) = {} /\ UnderWay(p) = {}
      BY <1>4, <1>7, <2>3 DEF UnderWay
    <3>2. Sending(p)' = {t}
      BY <1>1, <1>3, <3>1 DEF Sending, Entered
    <3>3. UnderWay(p)' = {x}
      BY <1>1, <1>3, <3>2 DEF UnderWay, Entered
    <3>4. EntryOf(p)' = EntryOf(p) /\ CountedFor(p)' = CountedFor(p)
      BY <1>5, SameEntriesCount
    <3>5. sent'[p] = sent[p] \union {x}
      BY <1>4 DEF ProbeInv, TypeOK
    <3>6. CountedFor(p)' = sent'[p] \ UnderWay(p)'
      BY <1>4, <2>1, <2>3, <3>1, <3>3, <3>4, <3>5 DEF Whole
    <3>7. \A u \in Threads : u # t => probe'[p][u].pc = "away"
      BY <1>3, <3>1 DEF Sending
    <3> QED
      BY <1>1, <1>3, <2>3, <3>4, <3>6, <3>7 DEF Whole, Entered
  <2> QED
    BY <2>2, <2>3
<1> QED
  BY <1>5, <1>6, <1>7 DEF CountInv

LEMMA LoadKeepsCount ==
  ASSUME ProbeInv, CountInv, NEW p \in Pids, NEW t \in Threads, Load(p, t)
  PROVE  CountInv'
<1> DEFINE old == probe[p][t]
           new == [pc |-> "loaded", send |-> old.send, at |-> old.at,
                   counter |-> element[old.at].counter]
<1>1. /\ old \in ProbeRecord /\ old.pc = "found" /\ old.at \in Elements
      /\ UNCHANGED <<attached, element, lives, history>>
  BY DEF Load, ProbeInv, TypeOK, ProbesRun
<1>2. \A q \in Pids, u \in Threads :
        probe'[q][u] = IF q = p /\ u = t THEN new ELSE probe[q][u]
  <2>1. probe' = [probe EXCEPT ![p][t] = new]
    BY DEF Load, Advance
  <2>2. new \in ProbeRecord
    BY <1>1 DEF ProbeInv, TypeOK, ProbeRecord
  <2> HIDE DEF new
  <2> QED
    BY <2>1, <2>2, AdvanceOne
<1>3. OneEntryEach' /\ \A q \in Pids : SameEntries(q)
  BY <1>1 DEF CountInv, OneEntryEach, SameEntries
<1>4. ASSUME NEW q \in Pids \ raced' PROVE Alone(q)'
  BY <1>1, <1>2 DEF CountInv, Alone, history
<1>5. ASSUME Healthy', NEW q \in Pids \ (raced \union missed)', threads'[q] # {}
      PROVE  Whole(q)'
  <2>1. Healthy /\ Whole(q)
    BY <1>1, <1>5 DEF Healthy, Calm, CountInv, lives, history
  <2>2. EntryOf(q)' = EntryOf(q) /\ CountedFor(q)' = CountedFor(q)
    BY <1>3, SameEntriesCount
  <2>3. UnderWay(q)' = UnderWay(q)
    BY <1>1, <1>2, SameSendsUnderWay
  <2> QED
    BY <1>1, <1>2, <2>1, <2>2, <2>3 DEF Whole, history
<1> QED
  BY <1>3, <1>4, <1>5 DEF CountInv

LEMMA StoreKeepsCount ==
  ASSUME ProbeInv, CountInv, NEW p \in Pids, NEW t \in Threads, Store(p, t)
  PROVE  CountInv'
<1> DEFINE old == probe[p][t]
           total == old.counter \union {old.send}
<1>1. /\ old \in ProbeRecord /\ old.pc = "loaded" /\ old.at \in Elements
      /\ UNCHANGED <<attached, lives, history>>
  BY DEF Store, ProbeInv, TypeOK, ProbesRun
<1>2. /\ \A q \in Pids, u \in Threads :
           probe'[q][u] = IF q = p /\ u = t THEN Away ELSE probe[q][u]
      /\ \A q \in Pids : q # p => probe'[q] = probe[q]
  <2>1. Away \in ProbeRecord
    BY DEF Away, ProbeRecord
  <2>2. probe' = [probe EXCEPT ![p][t] = Away]
    BY DEF Store
  <2> QED
    BY <2>1, <2>2, AdvanceOne
<1>3. /\ \A e \in Elements : element'[e].key = element[e].key
                             /\ (e # old.at => element'[e] = element[e])
      /\ element'[old.at].counter = total
  BY <1>1 DEF Store, ProbeInv, TypeOK
<1>4. OneEntryEach'
  BY <1>3 DEF CountInv, OneEntryEach
<1>5. ASSUME NEW q \in Pids \ raced' PROVE Alone(q)'
  BY <1>1, <1>2 DEF CountInv, Alone, history, Away
<1>6. ASSUME Healthy', NEW q \in Pids \ (raced \union missed)', threads'[q] # {}
      PROVE  Whole(q)'
  <2>1. Healthy /\ Alone(q) /\ Whole(q) /\ ProbesOwn /\ ProbesRun
    BY <1>1, <1>6 DEF Healthy, Calm, CountInv, ProbeInv, lives, history
  <2>2. element[old.at].key = p /\ old.send \in sent[p]
    BY <1>1, <2>1 DEF ProbesOwn
  <2>3. CASE q # p
    <3>1. SameEntries(q)
      BY <1>1, <1>3, <2>2, <2>3 DEF SameEntries
    <3> QED
      BY <1>1, <1>2, <2>1, <2>3, <3>1, WholeFrame DEF history
  <2>4. CASE q = p
    <3>1. Sending(p) = {t}
      BY <1>1, <2>1, <2>4 DEF Sending, Alone
    <3>2. UnderWay(p) = {old.send}
      BY <3>1 DEF UnderWay
    <3>3. Sending(p)' = {}
      BY <1>2, <3>1 DEF Sending, Away
    <3>4. UnderWay(p)' = {}
      BY <3>3 DEF UnderWay
    <3>5. EntryOf(p) = {old.at} /\ EntryOf(p)' = {old.at}
      BY <1>1, <1>3, <2>2, NothingAssumption DEF EntryOf, CountInv, OneEntryEach
    <3>6. CountedFor(p) = element[old.at].counter /\ CountedFor(p)' = total
      BY <1>3, <3>5 DEF CountedFor
    <3>7. old.counter = element[old.at].counter
      BY <1>1, <2>1, <2>4 DEF Whole
    <3>8. CountedFor(p)' = sent'[p] \ UnderWay(p)'
      BY <1>1, <2>1, <2>2, <2>4, <3>2, <3>4, <3>6, <3>7 DEF Whole, history
    <3>9. \A u \in Threads : probe'[p][u].pc = "away"
      BY <3>3 DEF Sending
    <3> QED
      BY <2>4, <3>8, <3>9 DEF Whole
  <2> QED
    BY <2>3, <2>4
<1> QED
  BY <1>4, <1>5, <1>6 DEF CountInv

LEMMA InsertKeepsCount ==
  ASSUME ProbeInv, CountInv, NEW p \in Pids, NEW t \in Threads, Insert(p, t)
  PROVE  CountInv'
<1> DEFINE old == probe[p][t]
<1>1. /\ old \in ProbeRecord /\ old.pc = "absent"
      /\ UNCHANGED <<attached, lives, sent, past, raced, unwatched, orphaned>>
      /\ missed \subseteq missed'
  BY DEF Insert, ProbeInv, TypeOK
<1>2. /\ \A q \in Pids, u \in Threads :
           probe'[q][u] = IF q = p /\ u = t THEN Away ELSE probe[q][u]
      /\ \A q \in Pids : q # p => probe'[q] = probe[q]
  <2>1. Away \in ProbeRecord
    BY DEF Away, ProbeRecord
  <2>2. probe' = [probe EXCEPT ![p][t] = Away]
    BY DEF Insert
  <2> QED
    BY <2>1, <2>2, AdvanceOne
<1>3. \/ element' = element /\ p \in missed'
      \/ \E e \in Elements :
           /\ element[e].key = p \/ (element[e].key = NONE /\ EntryOf(p) = {})
           /\ element' = [element EXCEPT ![e] = [key |-> p, counter |-> {old.send}]]
  BY DEF Insert, EntryOf, Free
<1>4. \A e \in Elements :
        \/ element'[e] = element[e]
        \/ /\ element[e].key \in {p, NONE}
           /\ element'[e].key = p /\ element'[e].counter = {old.send}
  <2>1. element \in [Elements -> [key : Pids \union {NONE}, counter : SUBSET Sends]]
    BY DEF ProbeInv, TypeOK
  <2> QED
    BY <1>3, <2>1
<1>5. OneEntryEach'
  <2>1. OneEntryEach
    BY DEF CountInv
  <2>2. CASE element' = element
    BY <2>1, <2>2 DEF OneEntryEach
  <2>3. ASSUME NEW e \in Elements,
               element[e].key = p \/ (element[e].key = NONE /\ EntryOf(p) = {}),
               element' = [element EXCEPT ![e] = [key |-> p, counter |-> {old.send}]]
        PROVE  OneEntryEach'
    <3>1. element'[e].key = p /\ \A f \in Elements : f # e => element'[f] = element[f]
      <4>1. element \in [Elements -> [key : Pids \union {NONE}, counter : SUBSET Sends]]
        BY DEF ProbeInv, TypeOK
      <4> QED
        BY <2>3, <4>1
    <3>2. \A f \in Elements : f # e => element[f].key # p
      BY <2>1, <2>3, NothingAssumption DEF OneEntryEach, EntryOf
    <3> QED
      BY <2>1, <3>1, <3>2 DEF OneEntryEach
  <2> QED
    BY <1>3, <2>2, <2>3
<1>6. ASSUME NEW q \in Pids \ raced' PROVE Alone(q)'
  BY <1>1, <1>2 DEF CountInv, Alone, Away
<1>7. ASSUME Healthy', NEW q \in Pids \ (raced \union missed)', threads'[q] # {}
      PROVE  Whole(q)'
  <2>1. Healthy /\ Alone(q) /\ Whole(q) /\ ProbesOwn /\ ProbesRun
    BY <1>1, <1>7 DEF Healthy, Calm, CountInv, ProbeInv, lives
  <2>2. CASE q # p
    <3>1. SameEntries(q)
      BY <1>4, <2>2, NothingAssumption DEF SameEntries
    <3> QED
      BY <1>1, <1>2, <2>1, <2>2, <3>1, WholeFrame
  <2>3. CASE q = p
    <3>1. Sending(p) = {t} /\ EntryOf(p) = {}
      BY <1>1, <2>1, <2>3 DEF Sending, Alone, Whole
    <3>2. UnderWay(p) = {old.send} /\ CountedFor(p) = {}
      BY <3>1 DEF UnderWay, CountedFor
    <3>3. Sending(p)' = {}
      BY <1>2, <3>1 DEF Sending, Away
    <3>4. UnderWay(p)' = {}
      BY <3>3 DEF UnderWay
    <3>5. PICK e \in Elements :
            element' = [element EXCEPT ![e] = [key |-> p, counter |-> {old.send}]]
      BY <1>3, <1>7, <2>3
    <3>6. element'[e].key = p /\ element'[e].counter = {old.send}
      BY <3>5 DEF ProbeInv, TypeOK
    <3>7. EntryOf(p)' = {e}
      BY <3>1, <3>5, <3>6 DEF EntryOf, ProbeInv, TypeOK
    <3>8. CountedFor(p)' = {old.send}
      BY <3>6, <3>7 DEF CountedFor
    <3>9. old.send \in sent[p]
      BY <1>1, <2>1 DEF ProbesOwn
    <3>10. CountedFor(p)' = sent'[p] \ UnderWay(p)'
      BY <1>1, <2>1, <2>3, <3>2, <3>4, <3>8, <3>9 DEF Whole
    <3>11. \A u \in Threads : probe'[p][u].pc = "away"
      BY <3>3 DEF Sending
    <3> QED
      BY <2>3, <3>10, <3>11 DEF Whole
  <2> QED
    BY <2>2, <2>3
<1> QED
  BY <1>5, <1>6, <1>7 DEF CountInv

(* The exit of a thread other than the leader leaves the entry in place.   *)
LEMMA ExitKeepsCount ==
  ASSUME ProbeInv, CountInv, NEW p \in Pids, NEW t \in Threads, Exit(p, t)
  PROVE  CountInv'
<1>1. /\ UNCHANGED <<attached, probe, life, sent, past, raced, missed>>
      /\ threads' = [threads EXCEPT ![p] = threads[p] \ {t}]
  BY DEF Exit
<1>2. \A e \in Elements :
        \/ element'[e] = element[e]
        \/ t = Leader /\ element[e].key = p /\ element'[e].key = NONE
  BY DEF Exit, Evict, ProbeInv, TypeOK
<1>3. OneEntryEach'
  BY <1>2 DEF CountInv, OneEntryEach
<1>4. ASSUME NEW q \in Pids \ raced' PROVE Alone(q)'
  BY <1>1 DEF CountInv, Alone
<1>5. ASSUME Healthy', NEW q \in Pids \ (raced \union missed)', threads'[q] # {}
      PROVE  Whole(q)'
  <2>1. Healthy /\ (t = Leader => threads[p] = {Leader})
    BY <1>1, <1>5 DEF Exit, Healthy, Calm
  <2>2. threads[q] # {} /\ ~(t = Leader /\ q = p)
    BY <1>1, <1>5, <2>1 DEF ProbeInv, TypeOK
  <2>3. Whole(q) /\ ProbesOwn /\ ProbesRun
    BY <1>1, <1>5, <2>1, <2>2 DEF CountInv, ProbeInv, Healthy
  <2>4. SameEntries(q)
    BY <1>2, <2>2, NothingAssumption DEF SameEntries
  <2> QED
    BY <1>1, <2>3, <2>4, WholeFrame
<1> QED
  BY <1>3, <1>4, <1>5 DEF CountInv

(* A new process starts with nothing sent and nothing counted.             *)
LEMMA SpawnKeepsCount ==
  ASSUME ProbeInv, CountInv, NEW p \in Pids, Spawn(p)
  PROVE  CountInv'
<1>1. /\ UNCHANGED <<attached, element, probe, unwatched, orphaned>>
      /\ threads[p] = {} /\ threads' = [threads EXCEPT ![p] = {Leader}]
      /\ sent' = [sent EXCEPT ![p] = {}]
      /\ raced' = raced \ {p} /\ missed' = missed \ {p}
  BY DEF Spawn
<1>2. \A u \in Threads : probe[p][u].pc = "away"
  BY <1>1 DEF ProbeInv, ProbesRun
<1>3. OneEntryEach' /\ \A q \in Pids : SameEntries(q)
  BY <1>1 DEF CountInv, OneEntryEach, SameEntries
<1>4. ASSUME NEW q \in Pids \ raced' PROVE Alone(q)'
  BY <1>1, <1>2 DEF CountInv, Alone
<1>5. ASSUME Healthy', NEW q \in Pids \ (raced \union missed)', threads'[q] # {}
      PROVE  Whole(q)'
  <2>1. Healthy /\ EntriesOwn /\ ProbesOwn /\ ProbesRun
    BY <1>1, <1>5 DEF Healthy, Calm, ProbeInv
  <2>2. CASE q # p
    <3>1. Whole(q) /\ sent'[q] = sent[q]
      BY <1>1, <1>5, <2>1, <2>2 DEF CountInv, ProbeInv, TypeOK
    <3> QED
      BY <1>1, <1>3, <2>1, <3>1, WholeFrame
  <2>3. CASE q = p
    <3>1. EntryOf(p) = {}
      BY <1>1, <2>1 DEF EntriesOwn, EntryOf
    <3>2. CountedFor(p)' = {}
      BY <1>1, <3>1 DEF CountedFor, EntryOf
    <3>3. sent'[p] = {}
      BY <1>1 DEF ProbeInv, TypeOK
    <3> QED
      BY <1>1, <1>2, <2>3, <3>2, <3>3 DEF Whole
  <2> QED
    BY <2>2, <2>3
<1> QED
  BY <1>3, <1>4, <1>5 DEF CountInv

(* The other steps start no send and count none.                           *)
LEMMA QuietStepKeepsCount ==
  ASSUME ProbeInv, CountInv,
         UNCHANGED <<element, probe, sent, raced, missed, unwatched, orphaned>>,
         attached' = {"failed"} <=> attached = {"failed"},
         \A p \in Pids : threads'[p] # {} <=> threads[p] # {}
  PROVE  CountInv'
<1>1. OneEntryEach' /\ \A p \in Pids \ raced : Alone(p)'
  BY DEF CountInv, OneEntryEach, Alone
<1>2. ASSUME Healthy', NEW p \in Pids \ (raced \union missed)', threads'[p] # {}
      PROVE  Whole(p)'
  <2>1. Whole(p)
    BY <1>2 DEF CountInv, Healthy, Calm
  <2> QED
    BY <2>1 DEF Whole, CountedFor, UnderWay, Sending, EntryOf
<1> QED
  BY <1>1, <1>2 DEF CountInv

LEMMA StepKeepsCount ==
  ASSUME ProbeInv, CountInv, [Next]_vars
  PROVE  CountInv'
<1>1. ASSUME NEW program \in Kprobes \union {"exit"}, Attach(program) PROVE CountInv'
  <2>1. attached' # {"failed"} /\ attached # {"failed"}
    BY <1>1 DEF Attach, Kprobes
  <2> QED
    BY <1>1, <2>1, QuietStepKeepsCount DEF Attach, lives, history
<1>2. CASE AttachFails
  <2>1. OneEntryEach'
    BY <1>2 DEF AttachFails, OneEntryEach
  <2>2. \A p \in Pids \ raced : Alone(p)'
    BY <1>2 DEF AttachFails, CountInv, Alone
  <2> QED
    BY <1>2, <2>1, <2>2 DEF AttachFails, CountInv, Healthy, history
<1>3. ASSUME NEW p \in Pids, NEW t \in Threads, Clone(p, t) PROVE CountInv'
  <2>1. \A q \in Pids : threads'[q] # {} <=> threads[q] # {}
    BY <1>3 DEF Clone, ProbeInv, TypeOK
  <2> QED
    BY <1>3, <2>1, QuietStepKeepsCount DEF Clone, history
<1>4. CASE UNCHANGED vars
  BY <1>4, QuietStepKeepsCount DEF vars, lives, history
<1>5. ASSUME NEW p \in Pids, NEW t \in Threads, Account(p, t) PROVE CountInv'
  BY <1>5, LookupKeepsCount, LoadKeepsCount, StoreKeepsCount, InsertKeepsCount DEF Account
<1> QED
  BY <1>1, <1>2, <1>3, <1>4, <1>5, ExitKeepsCount, SpawnKeepsCount DEF Next

LEMMA InitCount == Init => CountInv
<1> SUFFICES ASSUME Init PROVE CountInv
  OBVIOUS
<1>1. OneEntryEach /\ \A p \in Pids : Alone(p) /\ threads[p] = {}
  BY DEF Init, OneEntryEach, Alone, Away
<1> QED
  BY <1>1 DEF CountInv

(* Every byte a live process sent is counted once its send has returned,   *)
(* unless its sends overlapped or it found the map full: for every number  *)
(* of processes, threads, elements and sends.                              *)
THEOREM ProbeIsComplete == Spec => []AllBytesUnlessRaced
<1>1. CountInv => AllBytesUnlessRaced
  BY DEF CountInv, AllBytesUnlessRaced, Healthy, Calm, Whole
<1> QED
  BY <1>1, InitCount, StepKeepsCount, ProbeInvariant, PTL DEF Spec

(* Every variable of the probe keeps its type: above all the state of      *)
(* account() in a thread.                                                  *)
THEOREM ProbeTyped == Spec => []TypeOK
<1>1. ProbeInv => TypeOK
  BY DEF ProbeInv
<1> QED
  BY <1>1, ProbeInvariant, PTL
=============================================================================
