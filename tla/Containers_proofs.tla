-------------------------- MODULE Containers_proofs -------------------------
(***************************************************************************)
(* The update check and the monitor that uses it, for every set of         *)
(* callers, images and digests and all time bounds.                        *)
(*                                                                         *)
(* The first part is about Registry under arbitrary callers. RegistryInv   *)
(* is inductive: a verdict is honest because the cached digest is          *)
(* (EntryIsRecent), which holds because the answer it was stored from is   *)
(* (AnswerIsRecent), which holds because the registry read the tag while   *)
(* the request was under way (TagIsNamed).                                 *)
(*                                                                         *)
(* The second is about the monitor, which uses the check as Registry's     *)
(* callers may: the first part then holds of the check inside it.          *)
(***************************************************************************)
EXTENDS Containers, TLAPS

USE CheckableAssumption, NoneAssumption, TimeAssumption

(* Overwriting one field of a call's record leaves the others alone.       *)
LEMMA SetDigest ==
  ASSUME NEW r \in CallRecord, NEW d \in MaybeDigest
  PROVE  LET s == [r EXCEPT !.digest = d] IN
         /\ s \in CallRecord
         /\ s.digest = d /\ s.pc = r.pc /\ s.image = r.image /\ s.wait = r.wait
BY DEF CallRecord

LEMMA SetWait ==
  ASSUME NEW r \in CallRecord, r.wait < RequestLimit
  PROVE  LET s == [r EXCEPT !.wait = r.wait + 1] IN
         /\ s \in CallRecord
         /\ s.wait = r.wait + 1
         /\ s.pc = r.pc /\ s.image = r.image /\ s.digest = r.digest
BY DEF CallRecord

(* Init establishes the invariant: the cache is empty, no call is under    *)
(* way and only the digest a tag names now has been named.                 *)
LEMMA InitInv == Init => RegistryInv
<1> SUFFICES ASSUME Init PROVE RegistryInv
  OBVIOUS
<1>1. TypeOK
  BY DEF Init, TypeOK, MaybeDigest, Idle, InFlight, Requests, CallRecord
<1>2. TagIsNamed
  BY DEF Init, TagIsNamed, MaybeDigest
<1>3. AnswerIsRecent
  BY DEF Init, AnswerIsRecent, InFlight, Idle, Requests
<1>4. EntryIsRecent /\ FailureIsRecent /\ EntryAgeIsFetchAge
  BY DEF Init, EntryIsRecent, FailureIsRecent, EntryAgeIsFetchAge, Fresh
<1> QED
  BY <1>1, <1>2, <1>3, <1>4 DEF RegistryInv

(* Storing a digest its tag named at most RequestLimit ago, or a failure,  *)
(* and returning the verdict keeps the invariant.                          *)
LEMMA FinishKeepsInv ==
  ASSUME RegistryInv,
         NEW k \in Checkers, NEW i \in Images,
         NEW l \in MaybeDigest, NEW remote \in MaybeDigest,
         remote # NONE => lastNamed[i][remote] <= RequestLimit,
         Finish(k, i, l, remote)
  PROVE  RegistryInv'
<1> USE DEF RegistryInv, Finish, Store
<1>1. TypeOK'
  BY DEF TypeOK, Return, Verdict, InFlight, Requests, MaybeDigest, CallRecord
<1>2. TagIsNamed'
  BY DEF TypeOK, TagIsNamed
<1>3. AnswerIsRecent'
  BY DEF TypeOK, AnswerIsRecent, InFlight, Requests, Return
<1>4. EntryIsRecent'
  BY DEF TypeOK, EntryIsRecent, Fresh
<1>5. FailureIsRecent'
  BY DEF TypeOK, FailureIsRecent, Fresh
<1>6. EntryAgeIsFetchAge'
  BY DEF TypeOK, EntryAgeIsFetchAge
<1> QED
  BY <1>1, <1>2, <1>3, <1>4, <1>5, <1>6

(* A step that changes nothing but the calls keeps the invariant when each *)
(* answer under way is still a digest its tag named recently enough.       *)
LEMMA CallsKeepInv ==
  ASSUME RegistryInv,
         UNCHANGED <<cache, tag, lastNamed, lastFailed, lastEnded>>,
         TypeOK', AnswerIsRecent'
  PROVE  RegistryInv'
BY DEF RegistryInv, TagIsNamed, EntryIsRecent, FailureIsRecent,
       EntryAgeIsFetchAge, Fresh

LEMMA CallKeepsInv ==
  ASSUME RegistryInv,
         NEW k \in Checkers, NEW i \in Images, NEW l \in MaybeDigest,
         Call(k, i, l)
  PROVE  RegistryInv'
<1>1. CASE l = NONE /\ CallWithoutDigest(k, i)
  <2>1. TypeOK'
    BY <1>1 DEF RegistryInv, CallWithoutDigest, Return, TypeOK, MaybeDigest, InFlight, Requests, CallRecord
  <2>2. AnswerIsRecent'
    BY <1>1 DEF RegistryInv, CallWithoutDigest, Return, TypeOK, AnswerIsRecent, InFlight, Requests
  <2> QED
    BY <1>1, <2>1, <2>2, CallsKeepInv DEF CallWithoutDigest
<1>2. CASE CallHit(k, i, l)
  <2>1. TypeOK'
    BY <1>2 DEF RegistryInv, CallHit, Return, Verdict, TypeOK, MaybeDigest, InFlight, Requests, CallRecord
  <2>2. AnswerIsRecent'
    BY <1>2 DEF RegistryInv, CallHit, Return, TypeOK, AnswerIsRecent, InFlight, Requests
  <2> QED
    BY <1>2, <2>1, <2>2, CallsKeepInv DEF CallHit
<1>3. CASE CallMiss(k, i, l)
  <2>1. TypeOK'
    BY <1>3 DEF RegistryInv, CallMiss, Send, TypeOK, MaybeDigest, InFlight, Requests, CallRecord
  <2>2. AnswerIsRecent'
    BY <1>3 DEF RegistryInv, CallMiss, Send, TypeOK, AnswerIsRecent, InFlight, Requests
  <2> QED
    BY <1>3, <2>1, <2>2, CallsKeepInv DEF CallMiss
<1>4. CASE CallUncheckable(k, i, l)
  BY <1>4, FinishKeepsInv DEF CallUncheckable, MaybeDigest
<1> QED
  BY <1>1, <1>2, <1>3, <1>4 DEF Call

(* The registry reads the tag while the request is under way.              *)
LEMMA ServeKeepsInv ==
  ASSUME RegistryInv, NEW k \in Checkers, ServeManifest(k)
  PROVE  RegistryInv'
<1> USE DEF RegistryInv, ServeManifest
<1> DEFINE answered == [call[k] EXCEPT !.digest = tag[call[k].image]]
<1>1. call[k].image \in Images /\ call[k].wait \in Nat
  BY DEF TypeOK, InFlight, Requests, CallRecord
<1>2. /\ answered \in CallRecord
      /\ answered.digest = tag[call[k].image] /\ answered.pc = call[k].pc
      /\ answered.image = call[k].image /\ answered.wait = call[k].wait
  BY <1>1, SetDigest DEF TypeOK
<1>3. /\ \A j \in Checkers \ {k} : call'[j] = call[j]
      /\ call'[k] = answered
      /\ call' \in [Checkers -> CallRecord]
  BY <1>2 DEF TypeOK
<1> HIDE DEF answered
<1>4. TypeOK'
  BY <1>1, <1>2, <1>3 DEF TypeOK, InFlight
<1>5. lastNamed[call[k].image][tag[call[k].image]] = 0
  BY <1>1 DEF TagIsNamed
<1>6. AnswerIsRecent'
  BY <1>1, <1>2, <1>3, <1>5 DEF AnswerIsRecent
<1> QED
  BY <1>4, <1>6, CallsKeepInv

LEMMA NextRequestKeepsInv ==
  ASSUME RegistryInv, NEW k \in Checkers, InFlight(k),
         NEW request \in {"token", "retry"}, NextRequest(k, request)
  PROVE  RegistryInv'
<1> USE DEF RegistryInv, NextRequest, Send
<1>1. call[k].image \in Images /\ call[k].local \in MaybeDigest
  BY DEF TypeOK, CallRecord
<1>2. TypeOK'
  BY <1>1 DEF TypeOK, InFlight, Requests, CallRecord, MaybeDigest
<1>3. AnswerIsRecent'
  BY DEF TypeOK, AnswerIsRecent
<1> QED
  BY <1>2, <1>3, CallsKeepInv

(* An answer under way is at most as old as its request, so it arrives in  *)
(* time; a failure needs no digest at all.                                 *)
LEMMA AnswerKeepsInv ==
  ASSUME RegistryInv, NEW k \in Checkers, ReceiveDigest(k) \/ RequestFails(k)
  PROVE  RegistryInv'
<1>1. /\ InFlight(k) /\ call[k].image \in Images
      /\ call[k].local \in MaybeDigest /\ call[k].digest \in MaybeDigest
      /\ call[k].wait \in 0..RequestLimit
  BY DEF RegistryInv, ReceiveDigest, RequestFails, TypeOK, CallRecord
<1>2. CASE ReceiveDigest(k)
  <2>1. lastNamed[call[k].image][call[k].digest] <= RequestLimit
    <3>1. call[k].digest # NONE
      BY <1>2 DEF ReceiveDigest
    <3>2. lastNamed[call[k].image][call[k].digest] <= call[k].wait
      BY <3>1 DEF RegistryInv, AnswerIsRecent
    <3>3. lastNamed[call[k].image][call[k].digest] \in Nat
      BY <1>1, <3>1 DEF RegistryInv, TypeOK, MaybeDigest
    <3> QED
      BY <1>1, <3>2, <3>3
  <2> QED
    BY <1>1, <1>2, <2>1, FinishKeepsInv DEF ReceiveDigest
<1>3. CASE RequestFails(k)
  BY <1>1, <1>3, FinishKeepsInv DEF RequestFails, MaybeDigest
<1> QED
  BY <1>2, <1>3

LEMMA ReleaseKeepsInv ==
  ASSUME RegistryInv, NEW S \in SUBSET Checkers, Release(S)
  PROVE  RegistryInv'
<1> USE DEF RegistryInv, Release
<1>1. Idle \in CallRecord /\ Idle.pc = "idle" /\ Idle.digest = NONE
  BY DEF Idle, CallRecord, MaybeDigest
<1>2. TypeOK'
  BY <1>1 DEF TypeOK, InFlight, Requests
<1>3. AnswerIsRecent'
  BY <1>1 DEF AnswerIsRecent, TypeOK
<1> QED
  BY <1>2, <1>3, CallsKeepInv

LEMMA PushKeepsInv ==
  ASSUME RegistryInv, NEW i \in Checkable, NEW d \in MaybeDigest, Push(i, d)
  PROVE  RegistryInv'
<1> USE DEF RegistryInv, Push
<1>1. TypeOK'
  BY DEF TypeOK, InFlight
<1>2. \A j \in Images, e \in Digests : lastNamed'[j][e] <= lastNamed[j][e]
  BY DEF TypeOK
<1>3. TagIsNamed'
  BY DEF TypeOK, TagIsNamed, MaybeDigest
<1>4. AnswerIsRecent'
  BY <1>2 DEF TypeOK, AnswerIsRecent, CallRecord, MaybeDigest, InFlight, Requests
<1>5. EntryIsRecent'
  BY <1>2 DEF TypeOK, EntryIsRecent, Fresh, MaybeDigest
<1>6. FailureIsRecent' /\ EntryAgeIsFetchAge'
  BY DEF FailureIsRecent, EntryAgeIsFetchAge, Fresh
<1> QED
  BY <1>1, <1>3, <1>4, <1>5, <1>6

(* A tick ages the answer under way, the cached entry and the history of   *)
(* the tag alike, so each bound on their difference survives.              *)
LEMMA TickKeepsInv ==
  ASSUME RegistryInv, Tick
  PROVE  RegistryInv'
<1> USE DEF RegistryInv, Tick
<1>1. ASSUME NEW k \in Checkers
      PROVE  /\ call'[k] \in CallRecord
             /\ call'[k].pc = call[k].pc /\ call'[k].image = call[k].image
             /\ call'[k].digest = call[k].digest
             /\ call'[k].wait = IF InFlight(k) THEN call[k].wait + 1 ELSE call[k].wait
  BY <1>1, SetWait DEF TypeOK
<1>2. ASSUME NEW i \in Images
      PROVE  /\ cache'[i].age = Older(cache[i].age, TTL)
             /\ cache'[i].remote = cache[i].remote
             /\ cache'[i] \in [age : 0..TTL, remote : MaybeDigest]
  BY <1>2 DEF TypeOK, Older
<1>3. ASSUME NEW i \in Images, NEW d \in Digests
      PROVE  /\ lastNamed'[i][d] \in 0..Horizon
             /\ lastNamed'[i][d] <= lastNamed[i][d] + 1
             /\ d = tag[i] => lastNamed'[i][d] = 0
  BY <1>3 DEF TypeOK, Older
<1>4. TypeOK'
  <2>1. call' \in [Checkers -> CallRecord]
    BY <1>1
  <2>2. cache' \in [Images -> [age : 0..TTL, remote : MaybeDigest]]
    BY <1>2
  <2>3. lastNamed' \in [Images -> [Digests -> 0..Horizon]]
    BY <1>3
  <2>4. lastFailed' \in [Images -> 0..TTL] /\ lastEnded' \in [Images -> 0..TTL]
    BY DEF TypeOK, Older
  <2> QED
    BY <1>1, <2>1, <2>2, <2>3, <2>4 DEF TypeOK, InFlight
<1>5. TagIsNamed'
  BY <1>3 DEF TypeOK, TagIsNamed, MaybeDigest
<1>6. AnswerIsRecent'
  <2> SUFFICES ASSUME NEW k \in Checkers, call'[k].digest # NONE
               PROVE  /\ call'[k].pc \in {"head", "retry"}
                      /\ lastNamed'[call'[k].image][call'[k].digest] <= call'[k].wait
    BY DEF AnswerIsRecent
  <2>1. /\ call[k].pc \in {"head", "retry"}
        /\ lastNamed[call[k].image][call[k].digest] <= call[k].wait
    BY <1>1 DEF AnswerIsRecent
  <2>2. InFlight(k) /\ call[k].image \in Images /\ call[k].digest \in Digests
        /\ call[k].wait \in Nat
    BY <1>1, <2>1 DEF InFlight, Requests, TypeOK, CallRecord, MaybeDigest
  <2>3. lastNamed[call[k].image][call[k].digest] \in Nat
        /\ lastNamed'[call[k].image][call[k].digest] \in Nat
    BY <1>3, <2>2 DEF TypeOK
  <2>4. lastNamed'[call[k].image][call[k].digest]
          <= lastNamed[call[k].image][call[k].digest] + 1
    BY <1>3, <2>2
  <2>5. call'[k].wait = call[k].wait + 1
    BY <1>1, <2>2
  <2>6. lastNamed'[call[k].image][call[k].digest] <= call'[k].wait
    BY <2>1, <2>2, <2>3, <2>4, <2>5
  <2> QED
    BY <1>1, <2>1, <2>6
<1>7. EntryIsRecent'
  <2> SUFFICES ASSUME NEW i \in Images, cache'[i].age < TTL, cache'[i].remote # NONE
               PROVE  lastNamed'[i][cache'[i].remote] <= cache'[i].age + RequestLimit
    BY DEF EntryIsRecent, Fresh
  <2>1. cache[i].age \in 0..TTL /\ cache[i].remote \in MaybeDigest
    BY DEF TypeOK
  <2>2. cache[i].age < TTL /\ cache'[i].age = cache[i].age + 1
        /\ cache'[i].remote = cache[i].remote
    BY <1>2, <2>1 DEF Older
  <2>3. lastNamed[i][cache[i].remote] <= cache[i].age + RequestLimit
    BY <2>2 DEF EntryIsRecent, Fresh
  <2>4. cache[i].remote \in Digests
    BY <2>1, <2>2 DEF MaybeDigest
  <2>5. lastNamed[i][cache[i].remote] \in Nat /\ lastNamed'[i][cache[i].remote] \in Nat
    BY <1>3, <2>4 DEF TypeOK
  <2> QED
    BY <1>3, <2>1, <2>2, <2>3, <2>4, <2>5
<1>8. FailureIsRecent'
  BY <1>2 DEF TypeOK, FailureIsRecent, Fresh, Older
<1>9. EntryAgeIsFetchAge'
  BY <1>2 DEF TypeOK, EntryAgeIsFetchAge
<1> QED
  BY <1>4, <1>5, <1>6, <1>7, <1>8, <1>9

LEMMA StepKeepsInv == RegistryInv /\ [Next]_registryVars => RegistryInv'
<1> SUFFICES ASSUME RegistryInv, [Next]_registryVars PROVE RegistryInv'
  OBVIOUS
<1>1. ASSUME NEW k \in Checkers, Step(k) PROVE RegistryInv'
  <2>1. CASE \E i \in Images, l \in MaybeDigest : Call(k, i, l)
    BY <2>1, CallKeepsInv
  <2>2. CASE ServeManifest(k)
    BY <2>2, ServeKeepsInv
  <2>3. CASE ReceiveChallenge(k)
    BY <2>3, NextRequestKeepsInv DEF ReceiveChallenge, InFlight, Requests
  <2>4. CASE ReceiveToken(k)
    BY <2>4, NextRequestKeepsInv DEF ReceiveToken, InFlight, Requests
  <2>5. CASE ReceiveDigest(k) \/ RequestFails(k) \/ RequestTimeout(k)
    BY <2>5, AnswerKeepsInv DEF RequestTimeout
  <2> QED
    BY <1>1, <2>1, <2>2, <2>3, <2>4, <2>5 DEF Step
<1>2. CASE \E S \in SUBSET Checkers : Release(S)
  BY <1>2, ReleaseKeepsInv
<1>3. CASE \E i \in Checkable, d \in MaybeDigest : Push(i, d)
  BY <1>3, PushKeepsInv
<1>4. CASE Tick
  BY <1>4, TickKeepsInv
<1>5. CASE UNCHANGED registryVars
  BY <1>5 DEF registryVars, RegistryInv, TypeOK, InFlight, TagIsNamed, AnswerIsRecent,
              EntryIsRecent, FailureIsRecent, EntryAgeIsFetchAge, Fresh
<1> QED
  BY <1>1, <1>2, <1>3, <1>4, <1>5 DEF Next

(* The cache, the calls under way and the registry's history are well      *)
(* typed and agree in every reachable state of check_update's callers.     *)
THEOREM RegistryInvariant == Spec => []RegistryInv
BY InitInv, StepKeepsInv, PTL DEF Spec

-----------------------------------------------------------------------------
(* A call's own steps leave the other calls alone.                         *)
LEMMA StepOfOther ==
  ASSUME TypeOK, NEW j \in Checkers, Step(j), NEW k \in Checkers, j # k
  PROVE  call'[k] = call[k]
<1>1. \E record : call' = [call EXCEPT ![j] = record]
  <2>1. CASE \E i \in Images, l \in MaybeDigest : Call(j, i, l)
    BY <2>1 DEF Call, CallWithoutDigest, CallHit, CallMiss, CallUncheckable, Finish,
                Return, Send
  <2>2. CASE ServeManifest(j)
    BY <2>2 DEF ServeManifest
  <2>3. CASE ReceiveChallenge(j) \/ ReceiveToken(j)
    BY <2>3 DEF ReceiveChallenge, ReceiveToken, NextRequest, Send
  <2>4. CASE ReceiveDigest(j) \/ RequestFails(j) \/ RequestTimeout(j)
    BY <2>4 DEF ReceiveDigest, RequestFails, RequestTimeout, Finish, Return
  <2> QED
    BY <2>1, <2>2, <2>3, <2>4 DEF Step
<1> QED
  BY <1>1 DEF TypeOK

(* What a caller can be told by a step: a verdict from the cache, or one   *)
(* from the fetch that this step stored.                                   *)
LEMMA ReturnCases ==
  ASSUME RegistryInv, [Next]_registryVars, NEW k \in Checkers, Returns(k)
  PROVE  \E i \in Images, l \in MaybeDigest :
           \/ CallWithoutDigest(k, i)
           \/ CallHit(k, i, l)
           \/ \E remote \in MaybeDigest :
                /\ Finish(k, i, l, remote)
                /\ remote # NONE => lastNamed[i][remote] <= RequestLimit
<1> USE DEF Returns
<1>1. call[k].pc # "done" /\ call'[k].pc = "done"
  OBVIOUS
<1>2. ASSUME NEW j \in Checkers, Step(j), j # k PROVE FALSE
  BY <1>1, <1>2, StepOfOther DEF RegistryInv
<1>3. ~UNCHANGED registryVars
  BY <1>1 DEF registryVars
<1>4. ~ \E S \in SUBSET Checkers : Release(S)
  BY <1>1 DEF Release, Idle
<1>5. ~ \E i \in Checkable, d \in MaybeDigest : Push(i, d)
  BY <1>1 DEF Push
<1>6. ~Tick
  <2> SUFFICES ASSUME Tick PROVE FALSE
    OBVIOUS
  <2>1. call[k] \in CallRecord /\ (InFlight(k) => call[k].wait < RequestLimit)
    BY DEF Tick, RegistryInv, TypeOK
  <2>2. call'[k].pc = call[k].pc
    BY <2>1, SetWait DEF Tick
  <2> QED
    BY <1>1, <2>2
<1>7. Step(k)
  BY <1>2, <1>3, <1>4, <1>5, <1>6 DEF Next
<1>8. CASE \E i \in Images, l \in MaybeDigest : Call(k, i, l)
  <2>1. PICK i \in Images, l \in MaybeDigest : Call(k, i, l)
    BY <1>8
  <2>2. ~CallMiss(k, i, l)
    BY <1>1 DEF CallMiss, Send, RegistryInv, TypeOK
  <2>3. CASE CallUncheckable(k, i, l)
    BY <2>3 DEF CallUncheckable, MaybeDigest
  <2> QED
    BY <2>1, <2>2, <2>3 DEF Call
<1>9. ~ServeManifest(k)
  <2> SUFFICES ASSUME ServeManifest(k) PROVE FALSE
    OBVIOUS
  <2>1. call[k] \in CallRecord /\ call[k].image \in Images /\ call[k].pc # "done"
    BY DEF ServeManifest, RegistryInv, TypeOK, InFlight, Requests
  <2>2. call'[k].pc = call[k].pc
    BY <2>1, SetDigest DEF ServeManifest, RegistryInv, TypeOK
  <2> QED
    BY <1>1, <2>1, <2>2
<1>10. ~ReceiveChallenge(k) /\ ~ReceiveToken(k)
  BY <1>1 DEF ReceiveChallenge, ReceiveToken, NextRequest, Send, RegistryInv, TypeOK
<1>11. CASE ReceiveDigest(k) \/ RequestFails(k) \/ RequestTimeout(k)
  <2>1. /\ call[k].image \in Images
        /\ call[k].local \in MaybeDigest /\ call[k].digest \in MaybeDigest
        /\ call[k].wait \in 0..RequestLimit
    BY <1>11 DEF RegistryInv, ReceiveDigest, RequestFails, RequestTimeout, TypeOK, CallRecord
  <2>2. CASE ReceiveDigest(k)
    <3>1. call[k].digest \in Digests
          /\ lastNamed[call[k].image][call[k].digest] <= call[k].wait
      BY <2>1, <2>2 DEF ReceiveDigest, RegistryInv, AnswerIsRecent, MaybeDigest
    <3>2. lastNamed[call[k].image][call[k].digest] \in Nat
      BY <2>1, <3>1 DEF RegistryInv, TypeOK
    <3>3. lastNamed[call[k].image][call[k].digest] <= RequestLimit
      BY <2>1, <3>1, <3>2
    <3> QED
      BY <2>1, <2>2, <3>3 DEF ReceiveDigest
  <2>3. CASE RequestFails(k) \/ RequestTimeout(k)
    BY <2>1, <2>3 DEF RequestFails, RequestTimeout, MaybeDigest
  <2> QED
    BY <1>11, <2>2, <2>3
<1> QED
  BY <1>7, <1>8, <1>9, <1>10, <1>11 DEF Step

(* A fetch of an image starts only by a lookup that found no fresh entry.  *)
LEMMA StartCases ==
  ASSUME RegistryInv, [Next]_registryVars, NEW k \in Checkers, Starts(k)
  PROVE  \E i \in Images, l \in MaybeDigest : CallMiss(k, i, l)
<1> USE DEF Starts
<1>1. call[k].pc = "idle" /\ call'[k].pc = "head"
  OBVIOUS
<1>2. ASSUME NEW j \in Checkers, Step(j), j # k PROVE FALSE
  BY <1>1, <1>2, StepOfOther DEF RegistryInv
<1>3. ~UNCHANGED registryVars
  BY <1>1 DEF registryVars
<1>4. ~ \E S \in SUBSET Checkers : Release(S)
  BY <1>1 DEF Release, Idle
<1>5. ~ \E i \in Checkable, d \in MaybeDigest : Push(i, d)
  BY <1>1 DEF Push
<1>6. ~Tick
  BY <1>1 DEF Tick, InFlight, Requests
<1>7. Step(k)
  BY <1>2, <1>3, <1>4, <1>5, <1>6 DEF Next
<1>8. \E i \in Images, l \in MaybeDigest : Call(k, i, l)
  BY <1>1, <1>7 DEF Step, ServeManifest, ReceiveDigest, ReceiveChallenge, ReceiveToken,
                    RequestFails, RequestTimeout, InFlight, Requests, RegistryInv,
                    AnswerIsRecent
<1>9. PICK i \in Images, l \in MaybeDigest : Call(k, i, l)
  BY <1>8
<1>10. ~CallWithoutDigest(k, i) /\ ~CallHit(k, i, l) /\ ~CallUncheckable(k, i, l)
  BY <1>1 DEF CallWithoutDigest, CallHit, CallUncheckable, Finish, Return, RegistryInv, TypeOK
<1> QED
  BY <1>9, <1>10 DEF Call

(* A call that returns compares with a digest its tag named recently.    *)
LEMMA FreshVerdictHolds == RegistryInv /\ [Next]_registryVars => FreshVerdictStep
<1> SUFFICES ASSUME RegistryInv, [Next]_registryVars, NEW k \in Checkers,
                    Returns(k), call'[k].verdict # "unknown"
             PROVE  \E d \in Digests :
                      /\ lastNamed[call'[k].image][d] < TTL + RequestLimit
                      /\ call'[k].verdict = Verdict(d, call'[k].local)
  BY DEF FreshVerdictStep
<1>1. PICK i \in Images, l \in MaybeDigest :
         \/ CallWithoutDigest(k, i)
         \/ CallHit(k, i, l)
         \/ \E remote \in MaybeDigest :
              /\ Finish(k, i, l, remote)
              /\ remote # NONE => lastNamed[i][remote] <= RequestLimit
  BY ReturnCases
<1>2. ~CallWithoutDigest(k, i)
  BY DEF CallWithoutDigest, Return, RegistryInv, TypeOK
<1>3. CASE CallHit(k, i, l)
  <2>1. /\ call'[k].image = i /\ call'[k].local = l
        /\ call'[k].verdict = Verdict(cache[i].remote, l)
    BY <1>3 DEF CallHit, Return, RegistryInv, TypeOK
  <2>2. cache[i].remote \in Digests /\ cache[i].remote # NONE
    BY <2>1 DEF Verdict, RegistryInv, TypeOK, MaybeDigest
  <2>3. /\ lastNamed[i][cache[i].remote] <= cache[i].age + RequestLimit
        /\ cache[i].age < TTL
    BY <1>3, <2>2 DEF CallHit, RegistryInv, EntryIsRecent, Fresh
  <2>4. cache[i].age \in Nat /\ lastNamed[i][cache[i].remote] \in Nat
    BY <2>2 DEF RegistryInv, TypeOK
  <2>5. lastNamed[i][cache[i].remote] < TTL + RequestLimit
    BY <2>3, <2>4
  <2> QED
    BY <2>1, <2>2, <2>5
<1>4. ASSUME NEW remote \in MaybeDigest, Finish(k, i, l, remote),
             remote # NONE => lastNamed[i][remote] <= RequestLimit
      PROVE  \E d \in Digests :
               /\ lastNamed[call'[k].image][d] < TTL + RequestLimit
               /\ call'[k].verdict = Verdict(d, call'[k].local)
  <2>1. /\ call'[k].image = i /\ call'[k].local = l
        /\ call'[k].verdict = Verdict(remote, l)
    BY <1>4 DEF Finish, Return, RegistryInv, TypeOK
  <2>2. remote \in Digests /\ remote # NONE
    BY <2>1 DEF Verdict, MaybeDigest
  <2>3. lastNamed[i][remote] \in Nat
    BY <2>2 DEF RegistryInv, TypeOK
  <2>4. lastNamed[i][remote] < TTL + RequestLimit
    BY <1>4, <2>2, <2>3
  <2> QED
    BY <2>1, <2>2, <2>4
<1> QED
  BY <1>1, <1>2, <1>3, <1>4

-----------------------------------------------------------------------------
(* A "true" or "false" answer compares the caller's digest with one the    *)
(* tag named less than TTL + RequestLimit ago: for any number of           *)
(* concurrent callers, whatever order their answers arrive in.             *)
THEOREM VerdictIsFresh == Spec => FreshVerdict
BY FreshVerdictHolds, RegistryInvariant, PTL DEF Spec, FreshVerdict

(* A call that returns "unknown" has a failed fetch behind it.           *)
LEMMA UnknownHasCauseHolds == RegistryInv /\ [Next]_registryVars => UnknownHasCauseStep
<1> SUFFICES ASSUME RegistryInv, [Next]_registryVars, NEW k \in Checkers, Returns(k),
                    call'[k].verdict = "unknown", call'[k].local # NONE
             PROVE  lastFailed'[call'[k].image] < TTL
  BY DEF UnknownHasCauseStep
<1>1. PICK i \in Images, l \in MaybeDigest :
         \/ CallWithoutDigest(k, i)
         \/ CallHit(k, i, l)
         \/ \E remote \in MaybeDigest : Finish(k, i, l, remote)
  BY ReturnCases
<1>2. ~CallWithoutDigest(k, i)
  BY DEF CallWithoutDigest, Return, RegistryInv, TypeOK
<1>3. CASE CallHit(k, i, l)
  <2>1. /\ call'[k].image = i /\ Verdict(cache[i].remote, l) = "unknown"
        /\ lastFailed' = lastFailed /\ cache[i].age < TTL
    BY <1>3 DEF CallHit, Return, RegistryInv, TypeOK, Fresh
  <2>2. cache[i].remote = NONE
    BY <2>1 DEF Verdict
  <2>3. lastFailed[i] <= cache[i].age /\ lastFailed[i] \in Nat /\ cache[i].age \in Nat
    BY <2>1, <2>2 DEF RegistryInv, TypeOK, FailureIsRecent, Fresh
  <2> QED
    BY <2>1, <2>3
<1>4. ASSUME NEW remote \in MaybeDigest, Finish(k, i, l, remote)
      PROVE  lastFailed'[call'[k].image] < TTL
  <2>1. call'[k].image = i /\ Verdict(remote, l) = "unknown"
    BY <1>4 DEF Finish, Return, RegistryInv, TypeOK
  <2>2. remote = NONE
    BY <2>1 DEF Verdict
  <2> QED
    BY <1>4, <2>1, <2>2 DEF Finish, Store, RegistryInv, TypeOK
<1> QED
  BY <1>1, <1>2, <1>3, <1>4

(* An "unknown" answer to a caller that has a digest means a fetch of that *)
(* image really failed less than TTL ago.                                  *)
THEOREM UnknownIsCaused == Spec => UnknownHasCause
BY UnknownHasCauseHolds, RegistryInvariant, PTL DEF Spec, UnknownHasCause

(* A call that starts a fetch finds the last one long ended.             *)
LEMMA RetryRateLimitedHolds == RegistryInv /\ [Next]_registryVars => RetryRateLimitedStep
<1> SUFFICES ASSUME RegistryInv, [Next]_registryVars, NEW k \in Checkers, Starts(k)
             PROVE  lastEnded[call'[k].image] = TTL
  BY DEF RetryRateLimitedStep
<1>1. PICK i \in Images, l \in MaybeDigest : CallMiss(k, i, l)
  BY StartCases
<1>2. call'[k].image = i /\ ~(cache[i].age < TTL)
  BY <1>1 DEF CallMiss, Send, Fresh, RegistryInv, TypeOK
<1>3. cache[i].age \in 0..TTL /\ lastEnded[i] = cache[i].age
  BY DEF RegistryInv, TypeOK, EntryAgeIsFetchAge
<1> QED
  BY <1>2, <1>3

(* Once a fetch has ended no other fetch of the image starts for TTL, so a *)
(* registry that is down is asked at most once per TTL and caller.         *)
THEOREM RetryIsRateLimited == Spec => RetryRateLimited
BY RetryRateLimitedHolds, RegistryInvariant, PTL DEF Spec, RetryRateLimited

-----------------------------------------------------------------------------
(* A call without a local digest asks no registry and knows nothing.       *)
DigestlessIsSilent ==
  \A k \in Checkers : call[k].local = NONE =>
    ~InFlight(k) /\ call[k].verdict = "unknown"

LEMMA StepKeepsDigestless ==
  ASSUME RegistryInv, DigestlessIsSilent, [Next]_registryVars
  PROVE  DigestlessIsSilent'
<1> USE DEF RegistryInv, DigestlessIsSilent
<1>0. call \in [Checkers -> CallRecord]
  BY DEF TypeOK
<1>1. ASSUME NEW k \in Checkers, Step(k) PROVE DigestlessIsSilent'
  <2>1. \A j \in Checkers : j # k => call'[j] = call[j]
    BY <1>1, StepOfOther
  <2>2. call'[k].local = NONE => call'[k].pc \notin Requests /\ call'[k].verdict = "unknown"
    <3>1. CASE \E i \in Images, l \in MaybeDigest : Call(k, i, l)
      BY <1>0, <3>1 DEF Call, CallWithoutDigest, CallHit, CallMiss, CallUncheckable, Finish,
                      Return, Send, Requests
    <3>2. CASE ServeManifest(k)
      BY <1>0, <3>2 DEF ServeManifest, InFlight, Requests, CallRecord
    <3>3. CASE ReceiveChallenge(k) \/ ReceiveToken(k)
      BY <1>0, <3>3 DEF ReceiveChallenge, ReceiveToken, NextRequest, Send, InFlight, Requests
    <3>4. CASE ReceiveDigest(k) \/ RequestFails(k) \/ RequestTimeout(k)
      BY <1>0, <3>4 DEF ReceiveDigest, RequestFails, RequestTimeout, Finish, Return, InFlight, Requests
    <3> QED
      BY <1>1, <3>1, <3>2, <3>3, <3>4 DEF Step
  <2> QED
    BY <2>1, <2>2 DEF InFlight
<1>2. CASE \E S \in SUBSET Checkers : Release(S)
  BY <1>2 DEF Release, Idle, InFlight, Requests
<1>3. CASE \E i \in Checkable, d \in MaybeDigest : Push(i, d)
  BY <1>3 DEF Push, InFlight
<1>4. CASE Tick
  <2>1. ASSUME NEW k \in Checkers
        PROVE  call'[k].pc = call[k].pc /\ call'[k].local = call[k].local
               /\ call'[k].verdict = call[k].verdict
    <3>1. call'[k] \in {call[k], [call[k] EXCEPT !.wait = call[k].wait + 1]}
      BY <1>4 DEF Tick
    <3> QED
      BY <1>0, <3>1 DEF CallRecord
  <2> QED
    BY <2>1 DEF InFlight
<1>5. CASE UNCHANGED registryVars
  BY <1>5 DEF registryVars, InFlight
<1> QED
  BY <1>1, <1>2, <1>3, <1>4, <1>5 DEF Next

(* check_update answers None at once when the image has no repo digest: no *)
(* request is ever made for a local build.                                 *)
THEOREM DigestlessAsksNobody == Spec => []DigestlessIsSilent
<1>1. Init => DigestlessIsSilent
  BY DEF Init, Idle, DigestlessIsSilent, InFlight, Requests
<1> QED
  BY <1>1, RegistryInvariant, StepKeepsDigestless, PTL DEF Spec

-----------------------------------------------------------------------------
USE ImageAssumption, BudgetAssumption, TimeAssumption

(* What the refinement needs of the monitor's state: the digests handed to *)
(* check_update are digests, or none.                                      *)
RowsTyped ==
  /\ rows \in [Checkers -> Row]
  /\ held \in [Images -> MaybeDigest]

(* Every way a refresh fills, keeps or clears its rows leaves them typed.  *)
LEMMA StepKeepsRows ==
  ASSUME RowsTyped, [ContainersNext]_vars
  PROVE  RowsTyped'
<1> USE DEF RowsTyped
<1>1. NoRows \in [Checkers -> Row]
  BY DEF NoRows, Absent, Row, MaybeDigest
<1>2. CASE UNCHANGED vars
  BY <1>2 DEF vars, loopVars, dockerVars
<1>3. CASE TimePasses
  BY <1>3 DEF TimePasses, dockerVars
<1>4. CASE External
  <2>1. CASE \E state \in {"up", "down", "hung"} : DockerBecomes(state)
    BY <2>1 DEF DockerBecomes, loopVars
  <2>5. CASE \E b \in Breakable : BreakOrMend(b)
    BY <2>5 DEF BreakOrMend, loopVars
  <2>2. CASE \E k \in Checkers : StartOrExit(k)
    BY <2>2 DEF StartOrExit, loopVars
  <2>3. CASE \E i \in Images, d \in MaybeDigest : ReplaceImage(i, d)
    BY <2>3 DEF ReplaceImage, loopVars
  <2>4. CASE \E i \in Checkable, d \in Digests : PushManifest(i, d)
    BY <2>4 DEF PushManifest, loopVars, dockerVars
  <2> QED
    BY <1>4, <2>1, <2>2, <2>3, <2>4, <2>5 DEF External
<1>5. CASE Collect
  <2>1. CASE PsLists
    BY <2>1 DEF PsLists, Continue, dockerVars, Absent, Row, MaybeDigest
  <2>2. CASE PsFails \/ Enrich \/ Ping
    BY <2>2 DEF PsFails, Enrich, Ping, Continue, dockerVars
  <2>3. CASE ReadImages
    <3>1. \A k \in Checkers : DigestByRef(ImageOf[k]) \in MaybeDigest
      BY DEF DigestByRef, MaybeDigest
    <3>2. rows' \in [Checkers -> Row]
      BY <1>1, <2>3, <3>1 DEF ReadImages, NoRows, Row
    <3> QED
      BY <2>3, <3>2 DEF ReadImages, Continue, dockerVars
  <2>4. CASE List
    BY <2>4 DEF List, Continue, dockerVars, Absent, Row, MaybeDigest
  <2>5. CASE BothUnavailable
    BY <1>1, <2>5 DEF BothUnavailable, EndWith, dockerVars
  <2>6. ASSUME NEW k \in Checkers, Detail(k) PROVE RowsTyped'
    <3>1. held[ImageOf[k]] \in MaybeDigest
      OBVIOUS
    <3>2. rows' \in [Checkers -> Row]
      BY <2>6, <3>1 DEF Detail, Row
    <3> QED
      BY <2>6, <3>2 DEF Detail, Continue, dockerVars
  <2> QED
    BY <1>5, <2>1, <2>2, <2>3, <2>4, <2>5, <2>6 DEF Collect
<1>6. CASE \E k \in Checkers : StartCheck(k) \/ CheckStep(k) \/ CheckTimesOut(k)
  BY <1>6 DEF StartCheck, CheckStep, CheckTimesOut, loopVars, dockerVars
<1>7. CASE Publish \/ Expire \/ Wake
  BY <1>1, <1>7 DEF Publish, EndWith, Expire, Wake, dockerVars
<1> QED
  BY <1>2, <1>3, <1>4, <1>5, <1>6, <1>7 DEF ContainersNext, Refresh

(* Every step of the monitor is a step of the update check, or leaves it   *)
(* alone.                                                                  *)
LEMMA StepImplements ==
  ASSUME RowsTyped, [ContainersNext]_vars
  PROVE  [Next]_registryVars
<1>1. CASE UNCHANGED vars
  BY <1>1 DEF vars
<1>2. CASE TimePasses
  BY <1>2 DEF TimePasses, Next
<1>3. CASE External
  BY <1>3 DEF External, DockerBecomes, BreakOrMend, StartOrExit, ReplaceImage, PushManifest,
              Next, MaybeDigest
<1>4. CASE Collect
  BY <1>4 DEF Collect, PsLists, PsFails, Enrich, ReadImages, Ping, List, BothUnavailable,
              Detail, Continue
<1>5. ASSUME NEW k \in Checkers, StartCheck(k) \/ CheckStep(k) \/ CheckTimesOut(k)
      PROVE  Step(k)
  <2>1. ImageOf[k] \in Images /\ rows[k].local \in MaybeDigest
    BY DEF RowsTyped, Row
  <2> QED
    BY <1>5, <2>1 DEF StartCheck, CheckStep, CheckTimesOut, Step
<1>6. CASE Publish \/ Expire
  BY <1>6 DEF Publish, Expire, Next
<1>7. CASE Wake
  BY <1>7 DEF Wake
<1> QED
  BY <1>1, <1>2, <1>3, <1>4, <1>5, <1>6, <1>7 DEF ContainersNext, Refresh, Next

(* The monitor implements Registry: it starts every check with a digest it *)
(* read, takes every answer, and may drop the checks at any suspension.    *)
THEOREM MonitorImplementsRegistry == ContainersSpec => ImplementsRegistry
<1>1. ContainersInit => RowsTyped
  BY DEF ContainersInit, RowsTyped, NoRows, Absent, Row, MaybeDigest
<1>2. RowsTyped /\ [ContainersNext]_vars => RowsTyped'
  BY StepKeepsRows
<1>3. ContainersInit => Init
  BY DEF ContainersInit
<1>4. RowsTyped /\ [ContainersNext]_vars => [Next]_registryVars
  BY StepImplements
<1> QED
  BY <1>1, <1>2, <1>3, <1>4, PTL DEF ContainersSpec, ImplementsRegistry, Spec

(* So the verdicts given inside the monitor are as fresh, and as rarely    *)
(* unknown, as those of the update check on its own.                       *)
COROLLARY MonitorVerdictsAreFresh == ContainersSpec => FreshVerdict /\ UnknownHasCause
BY MonitorImplementsRegistry, VerdictIsFresh, UnknownIsCaused DEF ImplementsRegistry

-----------------------------------------------------------------------------
(* The invariant behind what the monitor publishes: checks are of the rows *)
(* they were started for, ...                                              *)
CallsAreRows ==
  \A k \in Checkers : call[k].pc # "idle" =>
    /\ pc = "checks" /\ k \in Listed
    /\ call[k].image = ImageOf[k] /\ call[k].local = rows[k].local

(* ... the digest of a row was held during the refresh, ...                *)
DigestsWereHeld ==
  /\ Refreshing => \A i \in Images : held[i] \in heldDuring[i]
  /\ ~Refreshing => rows = NoRows
  /\ \A k \in Checkers : rows[k].local # NONE => rows[k].local \in heldDuring[ImageOf[k]]

(* ... a verdict compares it with a digest named not long before the       *)
(* refresh began, ...                                                      *)
VerdictsAreRecent ==
  \A k \in Checkers : call[k].pc = "done" /\ call[k].verdict # "unknown" =>
    \E d \in Digests :
      /\ lastNamed[ImageOf[k]][d] < TTL + RequestLimit + elapsed
      /\ call[k].verdict = Verdict(d, rows[k].local)

(* ... and a backend that has worked since the refresh began works now and *)
(* has not been given up.                                                  *)
WorkIsNoted ==
  /\ worked \subseteq Working
  /\ pc \in {"asleep", "ping", "list"} => "cli" \notin worked

MonitorInv ==
  /\ ContainersTypeOK
  /\ CallsAreRows /\ DigestsWereHeld /\ VerdictsAreRecent /\ WorkIsNoted

MonitorTypes == ContainersTypeOK /\ TypeOK

-----------------------------------------------------------------------------
(* The history of the tags counts ticks.                                   *)
LEMMA HistoryTyped ==
  ASSUME RegistryInv
  PROVE  /\ lastNamed \in [Images -> [Digests -> 0..Horizon]]
         /\ \A i \in Images, d \in Digests : lastNamed[i][d] \in Nat
         /\ \A k \in Checkers : ImageOf[k] \in Images
<1>1. lastNamed \in [Images -> [Digests -> 0..Horizon]]
  BY DEF RegistryInv, TypeOK
<1> QED
  BY <1>1

(* What a refresh collects, and what it publishes, is typed.               *)
LEMMA ViewsTyped ==
  ASSUME ContainersTypeOK, TypeOK
  PROVE  /\ NoRows \in [Checkers -> Row]
         /\ Unavailable \in [status : {"ok", "unavailable"}, rows : [Checkers -> Row]]
         /\ CheckedView \in [status : {"ok", "unavailable"}, rows : [Checkers -> Row]]
<1>1. NoRows \in [Checkers -> Row] /\ Absent \in Row
  BY DEF NoRows, Absent, Row, MaybeDigest
<1>2. ASSUME NEW k \in Checkers
      PROVE  [rows[k] EXCEPT !.update = call[k].verdict] \in Row
  <2>1. call[k].verdict \in {"unknown", "update", "current"} /\ rows[k] \in Row
    BY DEF TypeOK, CallRecord, ContainersTypeOK
  <2> QED
    BY <2>1 DEF Row
<1> QED
  BY <1>1, <1>2 DEF Unavailable, CheckedView

(* What a check does to its caller: it keeps the row it was started for.   *)
LEMMA CheckKeepsRow ==
  ASSUME RegistryInv, MonitorInv, NEW k \in Checkers,
         StartCheck(k) \/ CheckStep(k) \/ CheckTimesOut(k)
  PROVE  /\ pc = "checks" /\ k \in Listed /\ Step(k)
         /\ call'[k].image = ImageOf[k] /\ call'[k].local = rows[k].local
         /\ call[k].pc # "done" /\ lastNamed' = lastNamed
<1> USE DEF MonitorInv, RegistryInv
<1>0. call \in [Checkers -> CallRecord]
  BY DEF TypeOK
<1>1. CASE StartCheck(k)
  <2>1. ImageOf[k] \in Images /\ rows[k].local \in MaybeDigest
    BY DEF ContainersTypeOK, Row
  <2>2. /\ pc = "checks" /\ k \in Listed /\ Call(k, ImageOf[k], rows[k].local)
    BY <1>1 DEF StartCheck
  <2>3. /\ call[k].pc = "idle" /\ lastNamed' = lastNamed
        /\ call'[k].image = ImageOf[k] /\ call'[k].local = rows[k].local
    BY <1>0, <2>2 DEF Call, CallWithoutDigest, CallHit, CallMiss, CallUncheckable, Return, Send,
                    Finish
  <2> QED
    BY <2>1, <2>2, <2>3 DEF Step
<1>2. CASE CheckStep(k) \/ CheckTimesOut(k)
  <2>1. InFlight(k) /\ Step(k) /\ lastNamed' = lastNamed
    BY <1>2 DEF CheckStep, CheckTimesOut, Step, ServeManifest, ReceiveDigest, ReceiveChallenge,
                ReceiveToken, NextRequest, RequestFails, RequestTimeout, Finish, InFlight, Requests
  <2>2. call'[k].image = call[k].image /\ call'[k].local = call[k].local
    BY <1>0, <1>2 DEF CheckStep, CheckTimesOut, ServeManifest, ReceiveDigest, ReceiveChallenge,
                ReceiveToken, NextRequest, RequestFails, RequestTimeout, Finish, Return, Send,
                CallRecord
  <2> QED
    BY <2>1, <2>2 DEF CallsAreRows, InFlight, Requests
<1> QED
  BY <1>1, <1>2

-----------------------------------------------------------------------------
(* No refresh outlives its budget and no pause its length: every step      *)
(* keeps the monitor's types.                                              *)
LEMMA StepKeepsTypes ==
  ASSUME ContainersTypeOK, RegistryInv, [ContainersNext]_vars
  PROVE  ContainersTypeOK'
<1> USE DEF ContainersTypeOK, Refreshing, DockerCalls
<1>1. RowsTyped'
  BY StepKeepsRows DEF RowsTyped
<1>2. changes' \in 0..MaxChanges
  BY DEF ContainersNext, vars
<1>3. CASE UNCHANGED vars
  BY <1>3 DEF vars, loopVars, dockerVars, historyVars
<1>4. CASE TimePasses
  <2>1. elapsed' \in Nat /\ (elapsed' <= IF Refreshing' THEN Budget ELSE Nap)
    BY <1>4 DEF TimePasses, MayWait
  <2> QED
    BY <1>1, <1>2, <1>4, <2>1 DEF TimePasses, RowsTyped, dockerVars, historyVars
<1>5. CASE External
  <2>1. ASSUME NEW state \in {"up", "down", "hung"}, DockerBecomes(state) PROVE ContainersTypeOK'
    BY <1>1, <1>2, <2>1 DEF DockerBecomes, loopVars, RowsTyped
  <2>5. ASSUME NEW b \in Breakable, BreakOrMend(b) PROVE ContainersTypeOK'
    BY <1>1, <1>2, <2>5 DEF BreakOrMend, loopVars, RowsTyped
  <2>2. ASSUME NEW k \in Checkers, StartOrExit(k) PROVE ContainersTypeOK'
    BY <1>1, <1>2, <2>2 DEF StartOrExit, loopVars, historyVars, RowsTyped
  <2>3. ASSUME NEW i \in Images, NEW d \in MaybeDigest, ReplaceImage(i, d)
        PROVE  ContainersTypeOK'
    BY <1>1, <1>2, <2>3 DEF ReplaceImage, loopVars, RowsTyped
  <2>4. CASE \E i \in Checkable, d \in Digests : PushManifest(i, d)
    BY <1>1, <1>2, <2>4 DEF PushManifest, loopVars, dockerVars, historyVars, RowsTyped
  <2> QED
    BY <1>5, <2>1, <2>2, <2>3, <2>4, <2>5 DEF External
<1>6. ASSUME NEW view, EndWith(view), view \in [status : {"ok", "unavailable"}, rows : [Checkers -> Row]]
      PROVE  ContainersTypeOK'
  <2>1. [i \in Images |-> {}] \in [Images -> SUBSET MaybeDigest]
    OBVIOUS
  <2>2. view \in [status : {"none", "ok", "unavailable"}, rows : [Checkers -> Row]]
    BY <1>6
  <2>3. /\ heldDuring' \in [Images -> SUBSET MaybeDigest]
        /\ published' \in [status : {"none", "ok", "unavailable"}, rows : [Checkers -> Row]]
        /\ pc' = "asleep" /\ elapsed' = 0 /\ todo' = {}
        /\ expired' \in BOOLEAN /\ worked' \subseteq Backends
        /\ UNCHANGED dockerVars
    BY <1>6, <2>1, <2>2 DEF EndWith
  <2> QED
    BY <1>1, <1>2, <2>3 DEF dockerVars, RowsTyped
<1>7. ASSUME NEW next \in {"checks"} \union DockerCalls, Continue(next), Refreshing, todo' \subseteq Checkers
      PROVE  ContainersTypeOK'
  BY <1>1, <1>2, <1>7 DEF Continue, dockerVars, historyVars, RowsTyped
<1>8. TypeOK
  BY DEF RegistryInv
<1>9. CASE Collect
  <2>1. CASE PsLists \/ PsFails \/ Enrich \/ ReadImages \/ Ping \/ List
    BY <1>7, <2>1 DEF PsLists, PsFails, Enrich, ReadImages, Ping, List
  <2>2. CASE BothUnavailable
    BY <1>6, <1>8, <2>2, ViewsTyped DEF BothUnavailable
  <2>3. ASSUME NEW k \in Checkers, Detail(k) PROVE ContainersTypeOK'
    BY <1>7, <2>3 DEF Detail
  <2> QED
    BY <1>9, <2>1, <2>2, <2>3 DEF Collect
<1>10. CASE \E k \in Checkers : StartCheck(k) \/ CheckStep(k) \/ CheckTimesOut(k)
  BY <1>1, <1>2, <1>10 DEF StartCheck, CheckStep, CheckTimesOut, loopVars, dockerVars, historyVars, RowsTyped
<1>11. CASE Publish
  BY <1>6, <1>8, <1>11, ViewsTyped DEF Publish
<1>12. CASE Expire
  <2>1. [i \in Images |-> {}] \in [Images -> SUBSET MaybeDigest]
    OBVIOUS
  <2>2. /\ heldDuring' \in [Images -> SUBSET MaybeDigest] /\ published' = published
        /\ pc' = "asleep" /\ elapsed' = 0 /\ todo' = {}
        /\ expired' \in BOOLEAN /\ worked' \subseteq Backends
        /\ UNCHANGED dockerVars
    BY <1>12, <2>1 DEF Expire
  <2> QED
    BY <1>1, <1>2, <2>2 DEF dockerVars, RowsTyped
<1>13. CASE Wake
  BY <1>1, <1>2, <1>13 DEF Wake, Working, dockerVars, RowsTyped
<1> QED
  BY <1>3, <1>4, <1>5, <1>9, <1>10, <1>11, <1>12, <1>13 DEF ContainersNext, Refresh

-----------------------------------------------------------------------------
(* Until the checks begin no call is under way, so a step that reads or    *)
(* fills rows disturbs none.                                               *)
LEMMA CollectKeepsMonitor ==
  ASSUME MonitorInv, MonitorTypes', Collect, ~BothUnavailable
  PROVE  MonitorInv'
<1> USE DEF MonitorInv, MonitorTypes
<1>1. /\ pc \notin {"checks", "asleep"} /\ pc' # "asleep"
      /\ UNCHANGED <<registryVars, elapsed, dockerVars, historyVars>>
  BY DEF Collect, PsLists, PsFails, Enrich, ReadImages, Ping, List, Detail, Continue
<1>2. \A k \in Checkers : call[k].pc = "idle" /\ call'[k].pc = "idle"
  BY <1>1 DEF CallsAreRows, registryVars
<1>3. CallsAreRows' /\ VerdictsAreRecent'
  BY <1>2 DEF CallsAreRows, VerdictsAreRecent
<1>4. \A i \in Images : held[i] \in heldDuring[i]
  BY <1>1 DEF DigestsWereHeld, Refreshing
<1>5. ASSUME NEW k \in Checkers, rows'[k].local # NONE
      PROVE  rows'[k].local \in heldDuring[ImageOf[k]]
  <2>1. ImageOf[k] \in Images /\ Absent.local = NONE
    BY DEF Absent
  <2>2. ASSUME NEW state PROVE [Absent EXCEPT !.state = state].local = NONE
    BY DEF Absent
  <2>3. CASE PsLists \/ List
    BY <1>5, <2>1, <2>2, <2>3 DEF PsLists, List
  <2>4. CASE PsFails \/ Enrich \/ Ping
    BY <1>5, <2>4 DEF PsFails, Enrich, Ping, DigestsWereHeld
  <2>5. rows \in [Checkers -> Row]
    BY DEF ContainersTypeOK
  <2>6. ASSUME NEW d PROVE [rows[k] EXCEPT !.local = d].local = d
    BY <2>5 DEF Row
  <2>7. CASE ReadImages
    <3>1. rows'[k] \in {rows[k], Absent, [rows[k] EXCEPT !.local = DigestByRef(ImageOf[k])]}
      BY <2>7 DEF ReadImages
    <3> QED
      BY <1>4, <1>5, <2>1, <2>6, <3>1 DEF DigestByRef, DigestsWereHeld
  <2>8. ASSUME NEW j \in Checkers, Detail(j) PROVE rows'[k].local \in heldDuring[ImageOf[k]]
    <3>1. rows'[k] = rows[k] \/ (k = j /\ rows'[k] = [rows[k] EXCEPT !.local = held[ImageOf[k]]])
      BY <2>5, <2>8 DEF Detail
    <3> QED
      BY <1>4, <1>5, <2>1, <2>6, <3>1 DEF DigestsWereHeld
  <2> QED
    BY <2>3, <2>4, <2>7, <2>8 DEF Collect
<1>6. DigestsWereHeld'
  BY <1>1, <1>4, <1>5 DEF DigestsWereHeld, Refreshing, dockerVars, historyVars
<1>7. worked' \subseteq Working'
  BY <1>1 DEF WorkIsNoted, Working, dockerVars, historyVars
<1>8. pc' \in {"asleep", "ping", "list"} => "cli" \notin worked'
  <2>1. CASE PsFails
    BY <1>1, <2>1 DEF PsFails, WorkIsNoted, Working, historyVars
  <2>2. CASE Ping
    BY <1>1, <2>2 DEF Ping, WorkIsNoted, historyVars
  <2>3. CASE PsLists \/ Enrich \/ ReadImages \/ List \/ \E k \in Checkers : Detail(k)
    BY <2>3 DEF PsLists, Enrich, ReadImages, List, Detail, Continue
  <2> QED
    BY <2>1, <2>2, <2>3 DEF Collect
<1> QED
  BY <1>3, <1>6, <1>7, <1>8 DEF WorkIsNoted

(* A check that ends gives a verdict of its row and of a recent digest.    *)
LEMMA CheckKeepsMonitor ==
  ASSUME MonitorInv, RegistryInv, MonitorTypes', NEW k \in Checkers,
         StartCheck(k) \/ CheckStep(k) \/ CheckTimesOut(k)
  PROVE  MonitorInv'
<1> USE DEF MonitorInv, MonitorTypes
<1>1. UNCHANGED <<loopVars, dockerVars, historyVars>>
  BY DEF StartCheck, CheckStep, CheckTimesOut
<1>2. /\ pc = "checks" /\ k \in Listed /\ Step(k)
      /\ call'[k].image = ImageOf[k] /\ call'[k].local = rows[k].local
      /\ call[k].pc # "done" /\ lastNamed' = lastNamed
  BY CheckKeepsRow
<1>3. \A j \in Checkers : j # k => call'[j] = call[j]
  BY <1>2, StepOfOther DEF RegistryInv
<1>4. CallsAreRows'
  BY <1>1, <1>2, <1>3 DEF CallsAreRows, loopVars, Listed
<1>5. DigestsWereHeld' /\ WorkIsNoted'
  BY <1>1 DEF DigestsWereHeld, WorkIsNoted, Working, loopVars, dockerVars, historyVars, Refreshing
<1>6. VerdictsAreRecent'
  <2> SUFFICES ASSUME NEW j \in Checkers, call'[j].pc = "done", call'[j].verdict # "unknown"
               PROVE  \E d \in Digests :
                        /\ lastNamed[ImageOf[j]][d] < TTL + RequestLimit + elapsed
                        /\ call'[j].verdict = Verdict(d, rows[j].local)
    BY <1>1, <1>2 DEF VerdictsAreRecent, loopVars
  <2>1. CASE j # k
    BY <1>3, <2>1 DEF VerdictsAreRecent
  <2>2. CASE j = k
    <3>1. FreshVerdictStep
      BY <1>2, FreshVerdictHolds DEF Next
    <3>2. PICK d \in Digests :
            /\ lastNamed[ImageOf[k]][d] < TTL + RequestLimit
            /\ call'[k].verdict = Verdict(d, rows[k].local)
      BY <1>2, <2>2, <3>1 DEF FreshVerdictStep, Returns
    <3>3. lastNamed[ImageOf[k]][d] \in Nat /\ elapsed \in Nat
      BY HistoryTyped DEF ContainersTypeOK
    <3>4. lastNamed[ImageOf[k]][d] < TTL + RequestLimit + elapsed
      <4> HIDE DEF MonitorInv, MonitorTypes
      <4> QED
        BY <3>2, <3>3
    <3> QED
      BY <2>2, <3>2, <3>4
  <2> QED
    BY <2>1, <2>2
<1> QED
  BY <1>4, <1>5, <1>6

(* A refresh that ends, or is dropped, leaves nothing behind.              *)
LEMMA EndKeepsMonitor ==
  ASSUME MonitorInv, MonitorTypes',
         \/ BothUnavailable \/ Publish \/ Expire
  PROVE  MonitorInv'
<1> USE DEF MonitorInv, MonitorTypes
<1>1. pc' = "asleep" /\ rows' = NoRows
  BY DEF BothUnavailable, Publish, Expire, EndWith
<1>2. \A k \in Checkers : call'[k].pc = "idle"
  <2>1. CASE BothUnavailable
    BY <2>1 DEF BothUnavailable, SocketFails, registryVars, CallsAreRows
  <2>2. CASE Publish \/ Expire
    BY <2>2 DEF Publish, Expire, Release, Idle
  <2> QED
    BY <2>1, <2>2
<1>3. worked' = {}
  BY DEF BothUnavailable, Publish, Expire, EndWith
<1> QED
  BY <1>1, <1>2, <1>3 DEF CallsAreRows, VerdictsAreRecent, DigestsWereHeld, WorkIsNoted, Refreshing,
                          NoRows, Absent

(* A tick makes digests and refresh older by the same.                     *)
LEMMA TickKeepsMonitor ==
  ASSUME MonitorInv, RegistryInv, MonitorTypes', TimePasses
  PROVE  MonitorInv'
<1> USE DEF MonitorInv, MonitorTypes
<1>1. /\ UNCHANGED <<pc, rows, todo, dockerVars, historyVars>>
      /\ Tick /\ elapsed' = elapsed + 1
  BY DEF TimePasses
<1>2. ASSUME NEW k \in Checkers
      PROVE  /\ call'[k].pc = call[k].pc /\ call'[k].image = call[k].image
             /\ call'[k].local = call[k].local /\ call'[k].verdict = call[k].verdict
  <2>1. call[k] \in CallRecord
    BY DEF RegistryInv, TypeOK
  <2>2. call'[k] \in {call[k], [call[k] EXCEPT !.wait = call[k].wait + 1]}
    BY <1>1 DEF Tick
  <2> QED
    BY <2>1, <2>2 DEF CallRecord
<1>3. CallsAreRows'
  BY <1>1, <1>2 DEF CallsAreRows, Listed
<1>4. DigestsWereHeld' /\ WorkIsNoted'
  BY <1>1 DEF DigestsWereHeld, WorkIsNoted, Working, dockerVars, historyVars, Refreshing
<1>5. VerdictsAreRecent'
  <2> SUFFICES ASSUME NEW k \in Checkers, call[k].pc = "done", call[k].verdict # "unknown"
               PROVE  \E d \in Digests :
                        /\ lastNamed'[ImageOf[k]][d] < TTL + RequestLimit + elapsed'
                        /\ call[k].verdict = Verdict(d, rows[k].local)
    BY <1>1, <1>2 DEF VerdictsAreRecent
  <2>1. PICK d \in Digests :
          /\ lastNamed[ImageOf[k]][d] < TTL + RequestLimit + elapsed
          /\ call[k].verdict = Verdict(d, rows[k].local)
    BY DEF VerdictsAreRecent
  <2>2. ImageOf[k] \in Images
    OBVIOUS
  <2>3. lastNamed[ImageOf[k]][d] \in Nat /\ elapsed \in Nat
    BY HistoryTyped DEF ContainersTypeOK
  <2>4. lastNamed'[ImageOf[k]][d] \in {0, lastNamed[ImageOf[k]][d], lastNamed[ImageOf[k]][d] + 1}
    BY <1>1, <2>2 DEF Tick, Older
  <2>5. lastNamed'[ImageOf[k]][d] < TTL + RequestLimit + elapsed'
    <3> HIDE DEF MonitorInv, MonitorTypes
    <3> QED
      BY <1>1, <2>1, <2>3, <2>4
  <2> QED
    BY <2>1, <2>5
<1> QED
  BY <1>3, <1>4, <1>5

(* What happens outside adds to the history of the refresh under way.      *)
LEMMA ExternalKeepsMonitor ==
  ASSUME MonitorInv, RegistryInv, MonitorTypes', External
  PROVE  MonitorInv'
<1> USE DEF MonitorInv, MonitorTypes
<1>1. UNCHANGED <<pc, elapsed, rows, call>>
  BY DEF External, DockerBecomes, BreakOrMend, StartOrExit, ReplaceImage, PushManifest, Push, registryVars,
         loopVars
<1>2. CallsAreRows'
  BY <1>1 DEF CallsAreRows, Listed
<1>3. VerdictsAreRecent'
  <2>1. CASE lastNamed' = lastNamed
    BY <1>1, <2>1 DEF VerdictsAreRecent
  <2>2. ASSUME NEW i \in Checkable, NEW d \in Digests, PushManifest(i, d)
        PROVE  VerdictsAreRecent'
    <3>1. /\ i \in Images /\ lastNamed \in [Images -> [Digests -> 0..Horizon]]
          /\ \A j \in Images, e \in Digests : lastNamed[j][e] \in Nat
      BY CheckableAssumption, HistoryTyped
    <3>2. ASSUME NEW j \in Images, NEW e \in Digests
          PROVE  lastNamed'[j][e] \in {0, lastNamed[j][e]}
      BY <2>2, <3>1 DEF PushManifest, Push
    <3>3. ASSUME NEW j \in Images, NEW e \in Digests
          PROVE  lastNamed'[j][e] <= lastNamed[j][e]
      BY <3>1, <3>2
    <3>4. \A j \in Images, e \in Digests :
            lastNamed[j][e] < TTL + RequestLimit + elapsed
              => lastNamed'[j][e] < TTL + RequestLimit + elapsed
      <4>1. elapsed \in Nat
        BY DEF ContainersTypeOK
      <4>2. \A j \in Images, e \in Digests : lastNamed[j][e] \in Nat /\ lastNamed'[j][e] \in Nat
        BY <3>1, <3>2
      <4> HIDE DEF MonitorInv, MonitorTypes
      <4> QED
        BY <3>3, <4>1, <4>2
    <3>5. \A k \in Checkers : ImageOf[k] \in Images
      OBVIOUS
    <3> QED
      BY <1>1, <3>4, <3>5 DEF VerdictsAreRecent
  <2> QED
    BY <2>1, <2>2 DEF External, DockerBecomes, BreakOrMend, StartOrExit, ReplaceImage, registryVars
<1>4. DigestsWereHeld' /\ WorkIsNoted'
  <2>1. ASSUME NEW state, DockerBecomes(state) PROVE DigestsWereHeld' /\ WorkIsNoted'
    BY <1>1, <2>1 DEF DockerBecomes, DigestsWereHeld, WorkIsNoted, Refreshing
  <2>5. ASSUME NEW b, BreakOrMend(b) PROVE DigestsWereHeld' /\ WorkIsNoted'
    BY <1>1, <2>5 DEF BreakOrMend, DigestsWereHeld, WorkIsNoted, Refreshing
  <2>2. ASSUME NEW k, StartOrExit(k) PROVE DigestsWereHeld' /\ WorkIsNoted'
    BY <1>1, <2>2 DEF StartOrExit, DigestsWereHeld, WorkIsNoted, Working, Refreshing, historyVars
  <2>3. ASSUME NEW i \in Images, NEW d \in MaybeDigest, ReplaceImage(i, d)
        PROVE  DigestsWereHeld' /\ WorkIsNoted'
    <3>1. held \in [Images -> MaybeDigest] /\ heldDuring \in [Images -> SUBSET MaybeDigest]
      BY DEF ContainersTypeOK
    <3>2. \A j \in Images : heldDuring[j] \subseteq heldDuring'[j]
      BY <2>3, <3>1 DEF ReplaceImage
    <3>3. Refreshing => \A j \in Images : held'[j] \in heldDuring'[j]
      BY <2>3, <3>1 DEF ReplaceImage, DigestsWereHeld
    <3>4. DigestsWereHeld'
      BY <1>1, <3>2, <3>3 DEF DigestsWereHeld, Refreshing
    <3> QED
      BY <1>1, <2>3, <3>4 DEF ReplaceImage, WorkIsNoted, Working
  <2>4. ASSUME NEW i, NEW d, PushManifest(i, d) PROVE DigestsWereHeld' /\ WorkIsNoted'
    BY <1>1, <2>4 DEF PushManifest, DigestsWereHeld, WorkIsNoted, Working, Refreshing, dockerVars,
                historyVars
  <2> QED
    BY <2>1, <2>2, <2>3, <2>4, <2>5 DEF External
<1> QED
  BY <1>2, <1>3, <1>4

(* A refresh begins with an empty history.                                 *)
LEMMA WakeKeepsMonitor ==
  ASSUME MonitorInv, MonitorTypes', Wake
  PROVE  MonitorInv'
<1> USE DEF MonitorInv, MonitorTypes
<1>1. /\ ~Refreshing /\ UNCHANGED <<call, rows, held, docker, failing>>
      /\ heldDuring' = [i \in Images |-> {held[i]}] /\ worked' = Working /\ pc' = "ps"
  BY DEF Wake, registryVars, dockerVars, Refreshing
<1>2. \A k \in Checkers : call[k].pc = "idle"
  BY <1>1 DEF CallsAreRows, Refreshing
<1>3. \A k \in Checkers : rows[k].local = NONE
  BY <1>1 DEF DigestsWereHeld, NoRows, Absent
<1>4. DigestsWereHeld'
  BY <1>1, <1>3 DEF DigestsWereHeld, Refreshing, Wake
<1>5. WorkIsNoted'
  BY <1>1 DEF WorkIsNoted, Working
<1> QED
  BY <1>1, <1>2, <1>4, <1>5 DEF CallsAreRows, VerdictsAreRecent

LEMMA StepKeepsMonitor ==
  ASSUME MonitorInv, RegistryInv, RegistryInv', [ContainersNext]_vars
  PROVE  MonitorInv'
<1>1. MonitorTypes'
  BY StepKeepsTypes DEF MonitorInv, MonitorTypes, RegistryInv
<1>2. CASE UNCHANGED vars
  BY <1>2 DEF vars, registryVars, loopVars, dockerVars, historyVars, MonitorInv, ContainersTypeOK,
              CallsAreRows, DigestsWereHeld, VerdictsAreRecent, WorkIsNoted, Working, Refreshing, Listed
<1>3. CASE \E k \in Checkers : StartCheck(k) \/ CheckStep(k) \/ CheckTimesOut(k)
  BY <1>1, <1>3, CheckKeepsMonitor
<1> QED
  BY <1>1, <1>2, <1>3, CollectKeepsMonitor, EndKeepsMonitor, TickKeepsMonitor,
     ExternalKeepsMonitor, WakeKeepsMonitor DEF ContainersNext, Refresh

LEMMA MonitorStarts == ContainersInit => MonitorInv
<1> SUFFICES ASSUME ContainersInit PROVE MonitorInv
  OBVIOUS
<1> USE DEF ContainersInit
<1>1. \A k \in Checkers : call[k].pc = "idle" /\ rows[k].local = NONE
  BY DEF Init, Idle, NoRows, Absent
<1>2. CallsAreRows /\ DigestsWereHeld /\ VerdictsAreRecent /\ WorkIsNoted
  BY <1>1 DEF CallsAreRows, DigestsWereHeld, VerdictsAreRecent, WorkIsNoted, Refreshing
<1>3. NoRows \in [Checkers -> Row]
  BY DEF NoRows, Absent, Row, MaybeDigest
<1>4. ContainersTypeOK
  <2>1. heldDuring \in [Images -> SUBSET MaybeDigest] /\ worked \subseteq Backends
    BY DEF Working
  <2>2. published \in [status : {"none", "ok", "unavailable"}, rows : [Checkers -> Row]]
    BY <1>3 DEF NotCollected
  <2>3. expired \in BOOLEAN
    OBVIOUS
  <2> QED
    BY <1>3, <2>1, <2>2, <2>3 DEF ContainersTypeOK, Refreshing, DockerCalls
<1> QED
  BY <1>2, <1>4 DEF MonitorInv

(* Inside the monitor check_update keeps its invariant, and the monitor    *)
(* keeps its own, for any containers, images, budgets and pauses.          *)
THEOREM MonitorInvariant == ContainersSpec => [](RegistryInv /\ MonitorInv)
<1>1. ContainersSpec => []RegistryInv
  BY MonitorImplementsRegistry, RegistryInvariant DEF ImplementsRegistry
<1>2. ContainersInit => MonitorInv
  BY MonitorStarts
<1>3. MonitorInv /\ RegistryInv /\ RegistryInv' /\ [ContainersNext]_vars => MonitorInv'
  BY StepKeepsMonitor
<1> QED
  BY <1>1, <1>2, <1>3, PTL DEF ContainersSpec

(* Every variable of the monitor keeps its type: above all no refresh      *)
(* lasts longer than Budget and no pause longer than Nap.                  *)
THEOREM MonitorTyped == ContainersSpec => []ContainersTypeOK
<1>1. MonitorInv => ContainersTypeOK
  BY DEF MonitorInv
<1> QED
  BY <1>1, MonitorInvariant, PTL

-----------------------------------------------------------------------------
(* The cache is only written by the end of a refresh.                      *)
LEMMA OnlyEndsPublish ==
  ASSUME [ContainersNext]_vars
  PROVE  published' = published \/ BothUnavailable \/ Publish
<1>1. CASE \E k \in Checkers : StartCheck(k) \/ CheckStep(k) \/ CheckTimesOut(k)
  BY <1>1 DEF StartCheck, CheckStep, CheckTimesOut, loopVars
<1>2. CASE Collect
  BY <1>2 DEF Collect, PsLists, PsFails, Enrich, ReadImages, Ping, List, Detail, Continue
<1>3. CASE Wake \/ Expire
  BY <1>3 DEF Wake, Expire
<1>4. CASE TimePasses \/ External \/ UNCHANGED vars
  BY <1>4 DEF TimePasses, External, DockerBecomes, BreakOrMend, StartOrExit, ReplaceImage, PushManifest,
              vars, loopVars
<1> QED
  BY <1>1, <1>2, <1>3, <1>4 DEF ContainersNext, Refresh

(* What the end of a refresh publishes for a container whose image was     *)
(* compared.                                                               *)
LEMMA PublishHoldsVerdicts ==
  ASSUME MonitorInv, RegistryInv, DigestlessIsSilent, Publish, NEW k \in Checkers,
         published'.rows[k].update # "unknown"
  PROVE  /\ published'.rows[k].local \in heldDuring[ImageOf[k]]
         /\ \E d \in Digests :
              /\ lastNamed[ImageOf[k]][d] < TTL + RequestLimit + Budget
              /\ published'.rows[k].update = Verdict(d, published'.rows[k].local)
<1>1. AllChecked /\ published' = CheckedView
  BY DEF Publish, EndWith
<1>2. k \in Listed /\ published'.rows[k] = [rows[k] EXCEPT !.update = call[k].verdict]
  BY <1>1 DEF CheckedView, Absent
<1>3. rows[k] \in Row
  BY DEF MonitorInv, ContainersTypeOK
<1>4. published'.rows[k].local = rows[k].local /\ published'.rows[k].update = call[k].verdict
  BY <1>2, <1>3 DEF Row
<1>5. call[k].pc = "done" /\ call[k].verdict # "unknown"
  BY <1>1, <1>2, <1>4 DEF AllChecked
<1>6. call[k].local = rows[k].local /\ rows[k].local # NONE
  BY <1>5 DEF MonitorInv, CallsAreRows, DigestlessIsSilent
<1>7. rows[k].local \in heldDuring[ImageOf[k]]
  BY <1>6 DEF MonitorInv, DigestsWereHeld
<1>8. PICK d \in Digests :
        /\ lastNamed[ImageOf[k]][d] < TTL + RequestLimit + elapsed
        /\ call[k].verdict = Verdict(d, rows[k].local)
  BY <1>5 DEF MonitorInv, VerdictsAreRecent
<1>9. lastNamed[ImageOf[k]][d] \in Nat /\ elapsed \in Nat /\ elapsed <= Budget
  <2>1. Refreshing
    BY <1>1 DEF AllChecked, Refreshing
  <2> QED
    BY <2>1, HistoryTyped DEF MonitorInv, ContainersTypeOK
<1>10. lastNamed[ImageOf[k]][d] < TTL + RequestLimit + Budget
  BY <1>8, <1>9
<1> QED
  BY <1>4, <1>7, <1>8, <1>10

(* A published verdict compares a digest the local image had during that   *)
(* refresh with one its tag named not long before: for any number of       *)
(* containers, images, registries and pushes.                              *)
THEOREM VerdictsHold == ContainersSpec => VerdictHolds
<1>1. ASSUME MonitorInv, RegistryInv, DigestlessIsSilent, [ContainersNext]_vars
      PROVE  VerdictHoldsStep
  <2>1. CASE published' = published
    BY <2>1 DEF VerdictHoldsStep
  <2>2. CASE BothUnavailable
    <3>1. published' = Unavailable
      BY <2>2 DEF BothUnavailable, EndWith
    <3> QED
      BY <3>1 DEF VerdictHoldsStep, Unavailable, NoRows, Absent
  <2>3. CASE Publish
    BY <1>1, <2>3, PublishHoldsVerdicts DEF VerdictHoldsStep
  <2>4. published' = published \/ BothUnavailable \/ Publish
    BY <1>1, OnlyEndsPublish
  <2> QED
    BY <2>1, <2>2, <2>3, <2>4
<1>2. ContainersSpec => []DigestlessIsSilent
  BY MonitorImplementsRegistry, DigestlessAsksNobody DEF ImplementsRegistry
<1> QED
  BY <1>1, <1>2, MonitorInvariant, PTL DEF ContainersSpec, VerdictHolds

(* A refresh throughout which one backend worked never declares the list   *)
(* unavailable: had it been the CLI, it would have listed the containers;  *)
(* had it been the socket, it would have answered when the CLI failed.     *)
THEOREM UnavailableIsBoth == ContainersSpec => UnavailableMeansBoth
<1>1. ASSUME MonitorInv, [ContainersNext]_vars PROVE UnavailableMeansBothStep
  <2>1. CASE published' = published
    BY <2>1 DEF UnavailableMeansBothStep
  <2>2. CASE BothUnavailable
    <3>1. pc \in {"ping", "list"} /\ "socket" \notin Working
      BY <2>2 DEF BothUnavailable, SocketFails, Working
    <3>2. "cli" \notin worked /\ "socket" \notin worked /\ worked \subseteq Backends
      BY <1>1, <3>1 DEF MonitorInv, WorkIsNoted, ContainersTypeOK
    <3> QED
      BY <3>2 DEF Backends, UnavailableMeansBothStep
  <2>3. CASE Publish
    BY <2>3 DEF Publish, EndWith, CheckedView, UnavailableMeansBothStep
  <2> QED
    BY <1>1, <2>1, <2>2, <2>3, OnlyEndsPublish
<1> QED
  BY <1>1, MonitorInvariant, PTL DEF ContainersSpec, UnavailableMeansBoth

-----------------------------------------------------------------------------
(* The refinement of Snapshot: RefreshResult is what the refresh has found *)
(* and nothing before it is complete.                                      *)
Findable == [status : {"ok", "unavailable"}, rows : [Checkers -> Row]] \union {NotCollected}

LEMMA ResultTyped == MonitorTypes => RefreshResult \in Findable
BY ViewsTyped DEF RefreshResult, MonitorTypes, Findable

LEMMA NothingFoundAsleep == ~Refreshing => RefreshResult = NotCollected
BY DEF RefreshResult, SocketFails, Refreshing, AllChecked

LEMMA NextResult ==
  /\ (MonitorTypes => RefreshResult \in Findable)'
  /\ (~Refreshing => RefreshResult = NotCollected)'
BY ResultTyped, NothingFoundAsleep, PTL

(* Asleep, the monitor waits for its next refresh.                         *)
LEMMA AsleepImplements ==
  ASSUME MonitorInv, MonitorTypes', [ContainersNext]_vars, ~Refreshing
  PROVE  [Snap!Next]_(Snap!snapshotVars)
<1>1. CASE Wake
  <2>1. Refreshing' /\ published' = published
    BY <1>1 DEF Wake, Refreshing
  <2> QED
    BY <2>1, NextResult DEF Snap!Next, Snap!Begin, Findable
<1>2. CASE ~Wake
  <2>1. \A k \in Checkers : call[k].pc = "idle"
    BY DEF MonitorInv, CallsAreRows, Refreshing
  <2>2. ~Refreshing' /\ published' = published
    <3>1. CASE \E k \in Checkers : StartCheck(k) \/ CheckStep(k) \/ CheckTimesOut(k)
      BY <3>1 DEF StartCheck, CheckStep, CheckTimesOut, loopVars, Refreshing
    <3>2. ~Publish /\ ~Expire /\ ~Collect
      BY DEF Publish, AllChecked, Expire, Refreshing, Collect, PsLists, PsFails, Enrich, ReadImages,
             Ping, List, BothUnavailable, SocketFails, Detail
    <3>3. CASE TimePasses \/ External \/ UNCHANGED vars
      BY <3>3 DEF TimePasses, External, DockerBecomes, BreakOrMend, StartOrExit, ReplaceImage, PushManifest,
                  vars, loopVars, Refreshing
    <3> QED
      BY <1>2, <3>1, <3>2, <3>3 DEF ContainersNext, Refresh
  <2>3. Refreshing' = Refreshing
    BY <2>2 DEF Refreshing
  <2>4. RefreshResult = NotCollected
    BY NothingFoundAsleep
  <2>5. RefreshResult' = NotCollected
    BY <2>2, NextResult DEF NotCollected, NoRows, Absent
  <2> QED
    BY <2>2, <2>3, <2>4, <2>5 DEF Snap!snapshotVars
<1> QED
  BY <1>1, <1>2

(* Awake, it works, publishes what it has found, or gives up.              *)
LEMMA RefreshImplements ==
  ASSUME MonitorInv, MonitorTypes', [ContainersNext]_vars, Refreshing
  PROVE  [Snap!Next]_(Snap!snapshotVars)
<1>1. RefreshResult' \in [status : {"ok", "unavailable"}, rows : [Checkers -> Row]]
                           \union {NotCollected}
  BY NextResult DEF Findable
<1>2. CASE Publish
  <2>1. RefreshResult = CheckedView /\ published' = CheckedView /\ ~Refreshing'
    <3>1. AllChecked /\ pc \notin {"ping", "list"}
      BY <1>2 DEF Publish, AllChecked
    <3> QED
      BY <1>2, <3>1 DEF Publish, EndWith, RefreshResult, SocketFails, Refreshing
  <2>2. CheckedView # NotCollected
    BY DEF CheckedView, NotCollected
  <2> QED
    BY <1>1, <2>1, <2>2 DEF Snap!Next, Snap!Commit
<1>3. CASE BothUnavailable
  <2>1. RefreshResult = Unavailable /\ published' = Unavailable /\ ~Refreshing'
    BY <1>3 DEF BothUnavailable, EndWith, RefreshResult, Refreshing, AllChecked
  <2>2. Unavailable # NotCollected
    BY DEF Unavailable, NotCollected
  <2> QED
    BY <1>1, <2>1, <2>2 DEF Snap!Next, Snap!Commit
<1>4. CASE Expire
  <2>1. published' = published /\ ~Refreshing'
    BY <1>4 DEF Expire, Refreshing
  <2> QED
    BY <1>1, <2>1 DEF Snap!Next, Snap!Drop
<1>5. CASE ~Publish /\ ~BothUnavailable /\ ~Expire
  <2>1. Refreshing' /\ published' = published
    <3>1. CASE \E k \in Checkers : StartCheck(k) \/ CheckStep(k) \/ CheckTimesOut(k)
      BY <3>1 DEF StartCheck, CheckStep, CheckTimesOut, loopVars, Refreshing
    <3>2. CASE Collect
      BY <1>5, <3>2 DEF Collect, PsLists, PsFails, Enrich, ReadImages, Ping, List, Detail, Continue,
                  Refreshing
    <3>3. ~Wake
      BY DEF Wake, Refreshing
    <3>4. CASE TimePasses \/ External \/ UNCHANGED vars
      BY <3>4 DEF TimePasses, External, DockerBecomes, BreakOrMend, StartOrExit, ReplaceImage, PushManifest,
                  vars, loopVars, Refreshing
    <3> QED
      BY <1>5, <3>1, <3>2, <3>3, <3>4 DEF ContainersNext, Refresh
  <2> QED
    BY <1>1, <2>1 DEF Snap!Next, Snap!Work
<1> QED
  BY <1>2, <1>3, <1>4, <1>5

(* Readers of get_container_stats see the whole result of a refresh, or    *)
(* the first value, for any containers, backends and timings.  (That every *)
(* refresh ends, the other half of Snap!Spec, is checked by a run.)        *)
THEOREM MonitorImplementsSnapshot == ContainersSpec => Snap!Safety
<1>1. ContainersInit => Snap!Init
  <2> SUFFICES ASSUME ContainersInit PROVE Snap!Init
    OBVIOUS
  <2>1. RefreshResult = NotCollected
    BY DEF ContainersInit, RefreshResult, SocketFails, AllChecked
  <2> QED
    BY <2>1 DEF ContainersInit, Snap!Init, Refreshing
<1>2. ASSUME MonitorInv, MonitorTypes', [ContainersNext]_vars
      PROVE  [Snap!Next]_(Snap!snapshotVars)
  BY <1>2, AsleepImplements, RefreshImplements
<1>3. RegistryInv /\ MonitorInv => MonitorTypes
  BY DEF RegistryInv, MonitorInv, MonitorTypes
<1> QED
  BY <1>1, <1>2, <1>3, MonitorInvariant, PTL DEF ContainersSpec, Snap!Safety

=============================================================================
