----------------------------- MODULE EgressProbe -----------------------------
(***************************************************************************)
(* The eBPF egress probe: ebpf/src/main.rs, and its loading by             *)
(* monitors/ebpf_egress.rs.                                                *)
(*                                                                         *)
(* Two kprobes add the bytes of each send to the map entry of the sending  *)
(* process, a tracepoint removes the entry when the process's leader       *)
(* thread exits.  The programs run on several CPUs at once, in the context *)
(* of the thread that sends or exits.                                      *)
(*                                                                         *)
(* A counter is modelled as the set of sends it counts.  The map is the    *)
(* kernel's: a fixed stock of elements, a lookup returns a pointer to an   *)
(* element, and an element that was removed can be taken by another        *)
(* process at once, old pointers notwithstanding.                          *)
(***************************************************************************)
EXTENDS Integers

CONSTANTS
  Pids,          \* process ids (tgids other than 0)
  Threads,       \* the threads a process can have
  Leader,        \* the thread whose id is the process's
  Elements,      \* the elements of EGRESS_BYTES (16384 of them)
  Sends,         \* bound: the sends of a behaviour
  MaxLives,      \* bound: how many processes have one id in turn
  NONE

ASSUME ThreadAssumption == Leader \in Threads
ASSUME LivesAssumption == MaxLives \in Nat
ASSUME NothingAssumption == NONE \notin Pids \union Elements \union Sends

VARIABLES
  attached,      \* the programs attached so far, or given up
  element,       \* EGRESS_BYTES: the key and the counter of each element
  probe,         \* the state of account() in each thread
  life,          \* external: how many processes have had the id
  threads,       \* external: the live threads of the process with the id
  sent,          \* history: the sends of the process that has the id
  past,          \* history: those of the processes that had it before
  raced,         \* history: processes two of whose sends overlapped
  missed,        \* history: processes that found the map full
  unwatched,     \* history: a counted process exited before "exit" was attached
  orphaned       \* history: a leader exited before another of its threads

lives == <<life, threads>>
history == <<sent, past, raced, missed, unwatched, orphaned>>
vars == <<attached, element, probe, lives, history>>

Kprobes == {"tcp_sendmsg", "udp_sendmsg"}
Away == [pc |-> "away", send |-> NONE, at |-> NONE, counter |-> {}]
ProbeRecord == [pc : {"away", "found", "loaded", "absent"}, send : Sends \union {NONE},
                at : Elements \union {NONE}, counter : SUBSET Sends]

TypeOK ==
  /\ attached \in {{}, {"tcp_sendmsg"}, Kprobes, Kprobes \union {"exit"}, {"failed"}}
  /\ element \in [Elements -> [key : Pids \union {NONE}, counter : SUBSET Sends]]
  /\ probe \in [Pids -> [Threads -> ProbeRecord]]
  /\ life \in [Pids -> 0..MaxLives]
  /\ threads \in [Pids -> SUBSET Threads]
  /\ sent \in [Pids -> SUBSET Sends] /\ past \in [Pids -> SUBSET Sends]
  /\ raced \subseteq Pids /\ missed \subseteq Pids
  /\ unwatched \in BOOLEAN /\ orphaned \in BOOLEAN

Init ==
  /\ attached = {}
  /\ element = [e \in Elements |-> [key |-> NONE, counter |-> {}]]
  /\ probe = [p \in Pids |-> [t \in Threads |-> Away]]
  /\ life = [p \in Pids |-> 0]
  /\ threads = [p \in Pids |-> {}]
  /\ sent = [p \in Pids |-> {}] /\ past = [p \in Pids |-> {}]
  /\ raced = {} /\ missed = {} /\ unwatched = FALSE /\ orphaned = FALSE

Sending(p) == {t \in Threads : probe[p][t].pc # "away"}
EntryOf(p) == {e \in Elements : element[e].key = p}
Free == EntryOf(NONE)

-----------------------------------------------------------------------------
(* Mutant of Attach: the exit program comes first.                         *)
AttachExitFirst(program) ==
  /\ \/ attached = {} /\ program = "exit"
     \/ attached = {"exit"} /\ program = "tcp_sendmsg"
     \/ attached = {"exit", "tcp_sendmsg"} /\ program = "udp_sendmsg"
  /\ attached' = attached \union {program}
  /\ UNCHANGED <<element, probe, lives, history>>

(* load_and_attach: one program after the other; an error detaches those   *)
(* that are attached, once they have returned.                             *)
Attach(program) ==
  /\ \/ attached = {} /\ program = "tcp_sendmsg"
     \/ attached = {"tcp_sendmsg"} /\ program = "udp_sendmsg"
     \/ attached = Kprobes /\ program = "exit"
  /\ attached' = attached \union {program}
  /\ UNCHANGED <<element, probe, lives, history>>

AttachFails ==
  /\ attached \in {{}, {"tcp_sendmsg"}, Kprobes}
  /\ \A p \in Pids : Sending(p) = {}
  /\ attached' = {"failed"}
  /\ element' = [e \in Elements |-> [key |-> NONE, counter |-> {}]]
  /\ UNCHANGED <<probe, lives, history>>

-----------------------------------------------------------------------------
(* account: a lookup, then either a load and a store through the pointer   *)
(* it returned, or an insertion.                                           *)
Advance(p, t, pc, x, e, counter) ==
  probe' = [probe EXCEPT ![p][t] = [pc |-> pc, send |-> x, at |-> e, counter |-> counter]]

Lookup(p, t, x) ==
  /\ t \in threads[p] /\ probe[p][t].pc = "away"
  /\ \E kprobe \in Kprobes : kprobe \in attached
  /\ \A q \in Pids : x \notin sent[q] \union past[q]
  /\ sent' = [sent EXCEPT ![p] = @ \union {x}]
  /\ \/ \E e \in EntryOf(p) : Advance(p, t, "found", x, e, {})
     \/ EntryOf(p) = {} /\ Advance(p, t, "absent", x, NONE, {})
  /\ raced' = IF Sending(p) = {} THEN raced ELSE raced \union {p}
  /\ UNCHANGED <<attached, element, lives, past, missed, unwatched, orphaned>>

Load(p, t) ==
  /\ probe[p][t].pc = "found"
  /\ LET found == probe[p][t] IN
       Advance(p, t, "loaded", found.send, found.at, element[found.at].counter)
  /\ UNCHANGED <<attached, element, lives, history>>

Store(p, t) ==
  /\ probe[p][t].pc = "loaded"
  /\ LET loaded == probe[p][t] IN
       element' = [element EXCEPT ![loaded.at] =
                     [key |-> element[loaded.at].key,
                      counter |-> loaded.counter \union {loaded.send}]]
  /\ probe' = [probe EXCEPT ![p][t] = Away]
  /\ UNCHANGED <<attached, lives, history>>

(* Another thread's insertion may have come first: its counter is replaced. *)
(* With no element left the insertion fails and its error is ignored.      *)
Insert(p, t) ==
  /\ probe[p][t].pc = "absent"
  /\ \/ \E e \in IF EntryOf(p) # {} THEN EntryOf(p) ELSE Free :
          /\ element' = [element EXCEPT ![e] = [key |-> p, counter |-> {probe[p][t].send}]]
          /\ UNCHANGED missed
     \/ /\ EntryOf(p) = {} /\ Free = {}
        /\ missed' = missed \union {p}
        /\ UNCHANGED element
  /\ probe' = [probe EXCEPT ![p][t] = Away]
  /\ UNCHANGED <<attached, lives, sent, past, raced, unwatched, orphaned>>

(* Mutants of Evict: the total is kept over the exit; any thread's exit    *)
(* removes it.                                                             *)
EvictNever(p, t) == element' = element

EvictAtAnyExit(p, t) ==
  element' = IF "exit" \in attached
               THEN [e \in Elements |->
                      IF element[e].key = p
                        THEN [key |-> NONE, counter |-> element[e].counter] ELSE element[e]]
               ELSE element

(* sched_process_exit: the leader's exit removes the entry; the element    *)
(* keeps its bytes until it is taken again.                                *)
Evict(p, t) ==
  element' = IF t = Leader /\ "exit" \in attached
               THEN [e \in Elements |->
                      IF element[e].key = p
                        THEN [key |-> NONE, counter |-> element[e].counter] ELSE element[e]]
               ELSE element

Exit(p, t) ==
  /\ t \in threads[p] /\ probe[p][t].pc = "away"
  /\ threads' = [threads EXCEPT ![p] = @ \ {t}]
  /\ Evict(p, t)
  /\ unwatched' = (unwatched \/ ("exit" \notin attached /\ EntryOf(p) # {}))
  /\ orphaned' = (orphaned \/ (t = Leader /\ threads[p] # {Leader}))
  /\ UNCHANGED <<attached, probe, life, sent, past, raced, missed>>

-----------------------------------------------------------------------------
(* External: processes start, under an id that is free, and have threads.  *)
Spawn(p) ==
  /\ threads[p] = {} /\ life[p] < MaxLives
  /\ threads' = [threads EXCEPT ![p] = {Leader}]
  /\ life' = [life EXCEPT ![p] = @ + 1]
  /\ past' = [past EXCEPT ![p] = @ \union sent[p]]
  /\ sent' = [sent EXCEPT ![p] = {}]
  /\ raced' = raced \ {p} /\ missed' = missed \ {p}
  /\ UNCHANGED <<attached, element, probe, unwatched, orphaned>>

Clone(p, t) ==
  /\ threads[p] # {} /\ t \notin threads[p] /\ t # Leader
  /\ threads' = [threads EXCEPT ![p] = @ \union {t}]
  /\ UNCHANGED <<attached, element, probe, life, history>>

Account(p, t) ==
  \/ \E x \in Sends : Lookup(p, t, x)
  \/ Load(p, t) \/ Store(p, t) \/ Insert(p, t)

Next ==
  \/ \E program \in Kprobes \union {"exit"} : Attach(program)
  \/ AttachFails
  \/ \E p \in Pids : Spawn(p)
  \/ \E p \in Pids, t \in Threads : Account(p, t) \/ Exit(p, t) \/ Clone(p, t)

Spec == Init /\ [][Next]_vars

-----------------------------------------------------------------------------
CountedFor(p) == UNION {element[e].counter : e \in EntryOf(p)}
UnderWay(p) == {probe[p][t].send : t \in Sending(p)}

(* As long as every exit was watched and no leader exited before the other *)
(* threads, an entry belongs to a live process and counts only what that   *)
(* process sent, whoever had its id or its element before                  *)
(* (sched_process_exit against account).                                   *)
OwnBytesOnly ==
  ~unwatched /\ ~orphaned =>
    \A p \in Pids : EntryOf(p) # {} =>
      threads[p] # {} /\ CountedFor(p) \subseteq sent[p]

(* And it counts all of them, except for sends that overlapped in one      *)
(* process (the README's under-count) or found the map full (account).     *)
AllBytesUnlessRaced ==
  ~unwatched /\ ~orphaned /\ attached # {"failed"} =>
    \A p \in Pids : threads[p] # {} /\ p \notin raced \union missed =>
      CountedFor(p) = sent[p] \ UnderWay(p)

(* Stated of the program and not true of it: an entry is evicted "when it  *)
(* exits, so a recycled PID can never inherit a dead process's cumulative  *)
(* total" (sched_process_exit; the README repeats it).  Held only to exits *)
(* that were watched.                                                      *)
RecycledPidStartsClean ==
  ~unwatched => \A p \in Pids : CountedFor(p) \intersect past[p] = {}
=============================================================================
