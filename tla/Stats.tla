-------------------------------- MODULE Stats --------------------------------
(***************************************************************************)
(* The calls of get_stats (main.rs) and the slots that keep what is slow   *)
(* to find out.  The panel calls once a second (main.js) without waiting   *)
(* for an answer; the command is not async, so Tauri runs one call at a    *)
(* time, in their order, and the mutexes of the state are never contended. *)
(* Time passes in seconds, and only in the functions cached is given: what *)
(* else a call does takes no time here.  Its commands have no timeouts, so *)
(* nothing relates what a function takes to the time to live of its entry. *)
(***************************************************************************)
EXTENDS Integers, Sequences, SequencesExt, FiniteSetsExt, Functions

CONSTANTS
  Order,   \* the slots, in the order get_stats looks at them
  TTL,     \* TTL_INVENTORY, ...
  Cost,    \* bound: how long the function of each may take
  NONE,    \* an empty slot
  MaxWaiting  \* bound: a call is added to fewer than these

Slots == ToSet(Order)
SumOfCosts(slots) == FoldFunctionOnSet(+, 0, Cost, slots)

ASSUME OrderAssumption == Order \in Seq(Slots) /\ IsInjective(Order) /\ Order # <<>>
ASSUME NoneAssumption == NONE \notin [age : Nat, read : Nat]
ASSUME TimesAssumption == TTL \in [Slots -> Nat \ {0}] /\ Cost \in [Slots -> Nat]
ASSUME WaitingAssumption == MaxWaiting \in Nat

VARIABLES
  calls,   \* external: the calls that wait, by how long they do
  call,    \* the one that runs; pc is the slot it is at, took its time there
  slots,   \* by slot: the age of the entry, and of what was read for it
  shown,   \* the last answer: the age of each part of it
  spell    \* history: how long the command has not been idle, the slots
           \* computed in that time and those computed again

vars == <<calls, call, slots, shown, spell>>

Cap == 1 + Max(Range(TTL)) + 2 * SumOfCosts(Slots)  \* ages are counted up to here
Older(age) == Min({age + 1, Cap})

Running == call.pc \in DOMAIN Order
Slot == Order[call.pc]
Idle == [pc |-> 0, computing |-> FALSE, took |-> 0, delay |-> 0, ages |-> [s \in Slots |-> 0]]
Rest == [length |-> 0, once |-> {}, again |-> {}]

Init ==
  /\ calls = <<0>> /\ call = Idle
  /\ slots = [s \in Slots |-> NONE]
  /\ shown = Idle.ages
  /\ spell = Rest

-----------------------------------------------------------------------------
(* A call starts, and refreshes what is never cached.                      *)
Begin ==
  /\ call.pc = 0 /\ calls # <<>>
  /\ call' = [Idle EXCEPT !.pc = 1, !.delay = Head(calls)]
  /\ calls' = Tail(calls)
  /\ UNCHANGED <<slots, shown, spell>>

(* cached: an entry is fresh or computed again; it is dated when that is   *)
(* done, and holds what was read before.                                   *)
Fresh(s) == slots[s] # NONE /\ slots[s].age < TTL[s]

\* Mutant of Hit: an entry that is used is kept.
HitAndRenew ==
  /\ Running /\ ~call.computing /\ Fresh(Slot)
  /\ call' = [call EXCEPT !.pc = @ + 1, !.ages[Slot] = slots[Slot].read]
  /\ slots' = [slots EXCEPT ![Slot].age = 0]
  /\ UNCHANGED <<calls, shown, spell>>
Hit ==
  /\ Running /\ ~call.computing /\ Fresh(Slot)
  /\ call' = [call EXCEPT !.pc = @ + 1, !.ages[Slot] = slots[Slot].read]
  /\ UNCHANGED <<calls, slots, shown, spell>>

Miss ==
  /\ Running /\ ~call.computing /\ ~Fresh(Slot)
  /\ call' = [call EXCEPT !.computing = TRUE]
  /\ spell' = [spell EXCEPT !.once = @ \union {Slot},
                            !.again = @ \union ({Slot} \intersect spell.once)]
  /\ UNCHANGED <<calls, slots, shown>>

\* Mutant of Store: an entry is made once and never replaced.
StoreOnce(s, read) ==
  slots' = [slots EXCEPT ![s] = IF @ = NONE THEN [age |-> 0, read |-> read] ELSE @]
Store(s, read) == slots' = [slots EXCEPT ![s] = [age |-> 0, read |-> read]]

Computed ==
  /\ call.computing
  /\ Store(Slot, call.took)
  /\ call' = [call EXCEPT !.pc = @ + 1, !.computing = FALSE, !.took = 0, !.ages[Slot] = call.took]
  /\ UNCHANGED <<calls, shown, spell>>

(* The answer is put together, returned and rendered.                      *)
Answer ==
  /\ call.pc = Len(Order) + 1
  /\ shown' = call.ages
  /\ call' = Idle
  /\ UNCHANGED <<calls, slots, spell>>

(* A second passes, for a function that is not done or when there is       *)
(* nothing to do, and tick calls, unless its window is hidden.             *)
Second ==
  /\ \/ call.computing /\ call.took < Cost[Slot]
     \/ call.pc = 0 /\ calls = <<>>
  /\ \E new \in {<<>>, <<0>>} :
       /\ new # <<>> => Len(calls) < MaxWaiting
       /\ calls' = [i \in DOMAIN calls |-> Older(calls[i])] \o new
  /\ call' = IF call.computing
             THEN [call EXCEPT !.took = @ + 1, !.delay = Older(@),
                               !.ages = [i \in Slots |->
                                 IF \E k \in 1..call.pc - 1 : Order[k] = i THEN Older(@[i]) ELSE 0]]
             ELSE call
  /\ slots' = [s \in Slots |->
       IF slots[s] = NONE THEN NONE
       ELSE [age |-> Older(slots[s].age), read |-> Older(slots[s].read)]]
  /\ spell' = IF call.computing THEN [spell EXCEPT !.length = Older(@)] ELSE Rest
  /\ UNCHANGED shown

Next == Begin \/ Hit \/ Miss \/ Computed \/ Answer \/ Second

Spec == Init /\ [][Next]_vars

-----------------------------------------------------------------------------
(* Polling keeps up: the calls behind a slow one find what it computed.    *)
(* Whatever expires together and however long the functions take, one is   *)
(* called a second time only when the command has not been idle for the    *)
(* time its entry lives; until then no call waits longer than all of them  *)
(* take together, and no more calls wait than that.                        *)
PollingKeepsUp ==
  /\ \A s \in spell.again : spell.length >= TTL[s]
  /\ spell.again = {} => /\ \A i \in DOMAIN calls : calls[i] <= SumOfCosts(Slots)
                         /\ call.delay <= SumOfCosts(Slots)
                         /\ Len(calls) <= SumOfCosts(Slots) + 1

(* What an answer shows was read at most the time to live ago when its     *)
(* entry was looked at, but for the time it took to compute it, which is   *)
(* before the entry is dated, and that of the slots after it.              *)
PartsAreFresh ==
  \A i \in DOMAIN Order :
    LET later == {Order[k] : k \in i + 1..Len(Order)}
    IN shown[Order[i]] < TTL[Order[i]] + Cost[Order[i]] + SumOfCosts(later)

=============================================================================
