------------------------------ MODULE Registry ------------------------------
(***************************************************************************)
(* Image-update detection: monitors/registry.rs.                           *)
(*                                                                         *)
(* check_update compares the digest of a local image with the digest the   *)
(* registry's tag names now.  The remote digest is cached per image for    *)
(* TTL, a failed fetch included, and the verdict is always recomputed      *)
(* against the caller's local digest.  Several calls run concurrently (one *)
(* per container): each is a future that may be suspended at a request,    *)
(* and dropped there by its caller.                                        *)
(*                                                                         *)
(* Time is counted in ticks.  A cached entry carries its age instead of an *)
(* instant; an age of TTL stands for "expired or never stored", which the  *)
(* lookup does not tell apart.                                             *)
(***************************************************************************)
EXTENDS Integers

CONSTANTS
  Checkers,      \* the concurrent calls of check_update
  Images,        \* image references
  Checkable,     \* the references parse_image_ref accepts
  Digests,       \* manifest digests
  NONE,          \* Option::None
  TTL,           \* lifetime of a cached entry (45 min), in ticks
  RequestLimit,  \* the client's timeout of one request (10 s), in ticks
  Horizon        \* bound of the history of tags: "longer ago, or never"

ASSUME CheckableAssumption == Checkable \subseteq Images
ASSUME NoneAssumption == NONE \notin Digests
ASSUME TimeAssumption ==
  /\ TTL \in Nat \ {0} /\ RequestLimit \in Nat
  /\ Horizon \in Nat /\ Horizon >= TTL + RequestLimit

VARIABLES
  cache,         \* CACHE: per image the age of its entry and the remote digest
  call,          \* the state of each check_update future
  tag,           \* external: the digest each image's tag names at its registry
  lastNamed,     \* history: ticks since the image's tag last named the digest
  lastFailed,    \* history: ticks since a fetch of the image last failed
  lastEnded      \* history: ticks since a fetch of the image last ended

registryVars == <<cache, call, tag, lastNamed, lastFailed, lastEnded>>

MaybeDigest == Digests \union {NONE}

Idle == [pc |-> "idle", image |-> NONE, local |-> NONE,
         digest |-> NONE, wait |-> 0, verdict |-> "unknown"]

(* The requests of a fetch, by the future's suspension point.              *)
Requests == {"head", "token", "retry"}
InFlight(k) == call[k].pc \in Requests

CallRecord == [pc : {"idle", "done"} \union Requests,
               image : Images \union {NONE}, local : MaybeDigest,
               digest : MaybeDigest, wait : 0..RequestLimit,
               verdict : {"unknown", "update", "current"}]

TypeOK ==
  /\ cache \in [Images -> [age : 0..TTL, remote : MaybeDigest]]
  /\ call \in [Checkers -> CallRecord]
  /\ \A k \in Checkers : InFlight(k) => call[k].image \in Images
  /\ tag \in [Images -> MaybeDigest]
  /\ lastNamed \in [Images -> [Digests -> 0..Horizon]]
  /\ lastFailed \in [Images -> 0..TTL]
  /\ lastEnded \in [Images -> 0..TTL]

Init ==
  /\ cache = [i \in Images |-> [age |-> TTL, remote |-> NONE]]
  /\ call = [k \in Checkers |-> Idle]
  /\ tag \in [Images -> MaybeDigest]
  /\ \A i \in Images \ Checkable : tag[i] = NONE
  /\ lastNamed = [i \in Images |->
                    [d \in Digests |-> IF d = tag[i] THEN 0 ELSE Horizon]]
  /\ lastFailed = [i \in Images |-> TTL]
  /\ lastEnded = [i \in Images |-> TTL]

-----------------------------------------------------------------------------
(* The answer of check_update: Some(true), Some(false) or None.            *)
Verdict(remote, local) ==
  IF remote = NONE THEN "unknown"
  ELSE IF remote # local THEN "update" ELSE "current"

Fresh(i) == cache[i].age < TTL

Return(k, i, l, verdict) ==
  call' = [call EXCEPT ![k] = [pc |-> "done", image |-> i, local |-> l,
                               digest |-> NONE, wait |-> 0, verdict |-> verdict]]

Send(k, request, i, l) ==
  call' = [call EXCEPT ![k] = [pc |-> request, image |-> i, local |-> l,
                               digest |-> NONE, wait |-> 0, verdict |-> "unknown"]]

(* Mutants of Store: a failure renews the last digest; a failure is not    *)
(* cached.                                                                 *)
StoreRenewingOnFailure(i, remote) ==
  /\ cache' = [cache EXCEPT ![i] =
                 [age |-> 0, remote |-> IF remote = NONE THEN @.remote ELSE remote]]
  /\ lastEnded' = [lastEnded EXCEPT ![i] = 0]
  /\ lastFailed' = IF remote = NONE THEN [lastFailed EXCEPT ![i] = 0]
                                    ELSE lastFailed

StoreOnlySuccess(i, remote) ==
  /\ cache' = IF remote = NONE THEN cache
              ELSE [cache EXCEPT ![i] = [age |-> 0, remote |-> remote]]
  /\ lastEnded' = [lastEnded EXCEPT ![i] = 0]
  /\ lastFailed' = IF remote = NONE THEN [lastFailed EXCEPT ![i] = 0]
                                    ELSE lastFailed

(* The end of a fetch: the result, None included, replaces the entry.      *)
Store(i, remote) ==
  /\ cache' = [cache EXCEPT ![i] = [age |-> 0, remote |-> remote]]
  /\ lastEnded' = [lastEnded EXCEPT ![i] = 0]
  /\ lastFailed' = IF remote = NONE THEN [lastFailed EXCEPT ![i] = 0]
                                    ELSE lastFailed

Finish(k, i, l, remote) ==
  /\ Store(i, remote)
  /\ Return(k, i, l, Verdict(remote, l))
  /\ UNCHANGED <<tag, lastNamed>>

(* check_update up to its first suspension.                                *)
CallWithoutDigest(k, i) ==
  /\ call[k].pc = "idle"
  /\ Return(k, i, NONE, "unknown")
  /\ UNCHANGED <<cache, tag, lastNamed, lastFailed, lastEnded>>

CallHit(k, i, l) ==
  /\ call[k].pc = "idle"
  /\ Fresh(i)
  /\ Return(k, i, l, Verdict(cache[i].remote, l))
  /\ UNCHANGED <<cache, tag, lastNamed, lastFailed, lastEnded>>

(* Mutant of CallMiss: a placeholder keeps other callers from fetching.    *)
CallMissWithPlaceholder(k, i, l) ==
  /\ call[k].pc = "idle"
  /\ ~Fresh(i)
  /\ i \in Checkable
  /\ Send(k, "head", i, l)
  /\ cache' = [cache EXCEPT ![i] = [age |-> 0, remote |-> NONE]]
  /\ UNCHANGED <<tag, lastNamed, lastFailed, lastEnded>>

CallMiss(k, i, l) ==
  /\ call[k].pc = "idle"
  /\ ~Fresh(i)
  /\ i \in Checkable
  /\ Send(k, "head", i, l)
  /\ UNCHANGED <<cache, tag, lastNamed, lastFailed, lastEnded>>

CallUncheckable(k, i, l) ==
  /\ call[k].pc = "idle"
  /\ ~Fresh(i)
  /\ i \notin Checkable
  /\ Finish(k, i, l, NONE)

Call(k, i, l) ==
  \/ l = NONE /\ CallWithoutDigest(k, i)
  \/ l # NONE /\ (CallHit(k, i, l) \/ CallMiss(k, i, l) \/ CallUncheckable(k, i, l))

-----------------------------------------------------------------------------
(* fetch_remote_digest: HEAD, and on a 401 the token request and HEAD      *)
(* again.  The registry reads the tag when it serves the manifest request, *)
(* some time before the answer reaches the caller.                         *)
ServeManifest(k) ==
  /\ call[k].pc \in {"head", "retry"}
  /\ call[k].digest = NONE
  /\ tag[call[k].image] # NONE
  /\ call' = [call EXCEPT ![k].digest = tag[call[k].image]]
  /\ UNCHANGED <<cache, tag, lastNamed, lastFailed, lastEnded>>

ReceiveDigest(k) ==
  /\ InFlight(k)
  /\ call[k].digest # NONE
  /\ Finish(k, call[k].image, call[k].local, call[k].digest)

NextRequest(k, request) ==
  /\ Send(k, request, call[k].image, call[k].local)
  /\ UNCHANGED <<cache, tag, lastNamed, lastFailed, lastEnded>>

ReceiveChallenge(k) ==
  /\ call[k].pc = "head"
  /\ call[k].digest = NONE
  /\ NextRequest(k, "token")

ReceiveToken(k) ==
  /\ call[k].pc = "token"
  /\ NextRequest(k, "retry")

(* A transport error, an error status, an answer without the digest        *)
(* header, a challenge or a token that cannot be read.                     *)
RequestFails(k) ==
  /\ InFlight(k)
  /\ Finish(k, call[k].image, call[k].local, NONE)

(* Mutant of RequestTimeout: only the first request is bounded.            *)
RequestTimeoutOnHeadOnly(k) ==
  /\ call[k].pc = "head"
  /\ call[k].wait = RequestLimit
  /\ RequestFails(k)

(* The client gives a request up after RequestLimit.                       *)
RequestTimeout(k) ==
  /\ call[k].wait = RequestLimit
  /\ RequestFails(k)

(* The caller takes the answers, or drops futures suspended at a request.  *)
Release(S) ==
  /\ call' = [k \in Checkers |-> IF k \in S THEN Idle ELSE call[k]]
  /\ UNCHANGED <<cache, tag, lastNamed, lastFailed, lastEnded>>

-----------------------------------------------------------------------------
(* External: somebody pushes a new manifest under the tag, or removes it.  *)
(* A reference that is not checkable names no tag.                         *)
Push(i, d) ==
  /\ tag' = [tag EXCEPT ![i] = d]
  /\ lastNamed' = [lastNamed EXCEPT ![i] =
                     [e \in Digests |-> IF e = d THEN 0 ELSE @[e]]]
  /\ UNCHANGED <<cache, call, lastFailed, lastEnded>>

Older(age, bound) == IF age < bound THEN age + 1 ELSE age

(* Time passes.  A request never outlives RequestLimit: the timer comes    *)
(* first.                                                                  *)
Tick ==
  /\ \A k \in Checkers : InFlight(k) => call[k].wait < RequestLimit
  /\ call' = [k \in Checkers |->
                IF InFlight(k) THEN [call[k] EXCEPT !.wait = call[k].wait + 1] ELSE call[k]]
  /\ cache' = [i \in Images |-> [cache[i] EXCEPT !.age = Older(cache[i].age, TTL)]]
  /\ lastNamed' = [i \in Images |-> [d \in Digests |->
                     IF d = tag[i] THEN 0 ELSE Older(lastNamed[i][d], Horizon)]]
  /\ lastFailed' = [i \in Images |-> Older(lastFailed[i], TTL)]
  /\ lastEnded' = [i \in Images |-> Older(lastEnded[i], TTL)]
  /\ UNCHANGED tag

Step(k) ==
  \/ \E i \in Images, l \in MaybeDigest : Call(k, i, l)
  \/ ServeManifest(k) \/ ReceiveDigest(k)
  \/ ReceiveChallenge(k) \/ ReceiveToken(k)
  \/ RequestFails(k) \/ RequestTimeout(k)

Next ==
  \/ \E k \in Checkers : Step(k)
  \/ \E S \in SUBSET Checkers : Release(S)
  \/ \E i \in Checkable, d \in MaybeDigest : Push(i, d)
  \/ Tick

(* The clock advances and the client's timer fires; nothing else is        *)
(* promised, a registry may never answer.                                  *)
Fairness == WF_registryVars(Tick) /\ \A k \in Checkers : WF_registryVars(RequestTimeout(k))

Spec == Init /\ [][Next]_registryVars
FairSpec == Spec /\ Fairness

-----------------------------------------------------------------------------
Returns(k) == call[k].pc # "done" /\ call'[k].pc = "done"
Starts(k) == call[k].pc = "idle" /\ call'[k].pc = "head"

FreshVerdictStep ==
  \A k \in Checkers : Returns(k) /\ call'[k].verdict # "unknown" =>
    \E d \in Digests :
      /\ lastNamed[call'[k].image][d] < TTL + RequestLimit
      /\ call'[k].verdict = Verdict(d, call'[k].local)

(* "true" or "false" is only answered from a comparison of the caller's    *)
(* local digest with a digest the tag really named less than TTL +         *)
(* RequestLimit ago, whichever of several concurrent fetches stored it and *)
(* however late its answer came (check_update, and the design's rule that  *)
(* every uncertain case is null).                                          *)
FreshVerdict == [][FreshVerdictStep]_registryVars

UnknownHasCauseStep ==
  \A k \in Checkers :
    Returns(k) /\ call'[k].verdict = "unknown" /\ call'[k].local # NONE =>
      lastFailed'[call'[k].image] < TTL

(* A caller with a local digest is told "unknown" only when a fetch of     *)
(* that image really failed less than TTL ago: neither a fetch still under *)
(* way nor a dropped one silences an image (check_update's cached None).   *)
UnknownHasCause == [][UnknownHasCauseStep]_registryVars

RetryRateLimitedStep ==
  \A k \in Checkers : Starts(k) => lastEnded[call'[k].image] = TTL

(* Once a fetch of an image has ended, well or badly, no other starts for  *)
(* TTL: failures are cached "to rate-limit retries against a               *)
(* down/unauthorized registry" (struct Cached).                            *)
RetryRateLimited == [][RetryRateLimitedStep]_registryVars

(* Every fetch ends, answered or not: each of its three requests is        *)
(* bounded by the client's timeout (fetch_remote_digest's awaits).         *)
EveryFetchEnds == \A k \in Checkers : InFlight(k) ~> ~InFlight(k)

-----------------------------------------------------------------------------
(* The inductive invariant behind the three safety properties.             *)
TagIsNamed ==
  \A i \in Images : tag[i] # NONE => lastNamed[i][tag[i]] = 0

AnswerIsRecent ==
  \A k \in Checkers : call[k].digest # NONE =>
    /\ call[k].pc \in {"head", "retry"}
    /\ lastNamed[call[k].image][call[k].digest] <= call[k].wait

EntryIsRecent ==
  \A i \in Images : Fresh(i) /\ cache[i].remote # NONE =>
    lastNamed[i][cache[i].remote] <= cache[i].age + RequestLimit

FailureIsRecent ==
  \A i \in Images : Fresh(i) /\ cache[i].remote = NONE =>
    lastFailed[i] <= cache[i].age

EntryAgeIsFetchAge == \A i \in Images : lastEnded[i] = cache[i].age

RegistryInv ==
  /\ TypeOK
  /\ TagIsNamed /\ AnswerIsRecent /\ EntryIsRecent
  /\ FailureIsRecent /\ EntryAgeIsFetchAge
=============================================================================
