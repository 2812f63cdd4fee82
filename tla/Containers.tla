----------------------------- MODULE Containers -----------------------------
(***************************************************************************)
(* The docker container monitor: monitors/containers.rs and the loop of    *)
(* main.rs that refreshes it.                                              *)
(*                                                                         *)
(* A refresh lists the containers through the docker CLI or, when that     *)
(* fails, through the engine socket, reads the digest of each image, runs  *)
(* one check_update per container concurrently (module Registry) and       *)
(* replaces the cache that get_container_stats reads.  The loop drops a    *)
(* refresh that outlives Budget, sleeps for Nap and starts over.           *)
(*                                                                         *)
(* One tick of Registry's clock is also one tick here.  A docker daemon    *)
(* that is up answers within the tick; one that hangs never answers.  A    *)
(* backend can also fail by itself: a missing binary, a socket the user    *)
(* may not open, an error the daemon answers a call with.                  *)
(***************************************************************************)
EXTENDS Registry

CONSTANTS
  ImageOf,       \* the image reference each container was started from
  Tagged,        \* the references `docker ps` prints as RepoTags spells them
  Budget,        \* timeout of a refresh (30 s), in ticks
  Nap,           \* pause between refreshes (20 s), in ticks
  Breakable,     \* the backends that may fail while the daemon is up
  MaxChanges     \* bound: how often the outside changes

ASSUME ImageAssumption == ImageOf \in [Checkers -> Images] /\ Tagged \subseteq Images
ASSUME BudgetAssumption == Budget \in Nat /\ Nap \in Nat /\ MaxChanges \in Nat
ASSUME BreakableAssumption == Breakable \subseteq {"cli", "socket"}

VARIABLES
  pc,            \* where the refresh is suspended, or "asleep"
  elapsed,       \* ticks since the refresh, or the pause, began
  rows,          \* the containers collected so far, by container
  todo,          \* socket backend: containers whose details are not read yet
  expired,       \* whether the last refresh ended in a timeout
  published,     \* CACHE: what get_container_stats answers
  failing,       \* external: the backends that fail now whatever the daemon does
  docker,        \* external: the daemon is up, down or hung
  running,       \* external: the containers that run; the others exited
  held,          \* external: per reference, the repo digest of the local image
  heldDuring,    \* history: what each reference held since the refresh began
  worked,        \* history: the backends that have worked since the refresh began
  changes        \* how often the outside has changed

loopVars == <<pc, elapsed, rows, todo, expired, published>>
dockerVars == <<failing, docker, running, held>>
historyVars == <<heldDuring, worked>>
vars == <<registryVars, loopVars, dockerVars, historyVars, changes>>

Row == [state : {"absent", "running", "exited"}, local : MaybeDigest,
        update : {"unknown", "update", "current"}]
Absent == [state |-> "absent", local |-> NONE, update |-> "unknown"]
NoRows == [k \in Checkers |-> Absent]
Listed == {k \in Checkers : rows[k].state # "absent"}

NotCollected == [status |-> "none", rows |-> NoRows]
Unavailable == [status |-> "unavailable", rows |-> NoRows]

DockerCalls == {"ps", "enrich", "images", "ping", "list", "detail"}
Refreshing == pc # "asleep"

(* The backends that would list the containers now.                        *)
Backends == {"cli", "socket"}
Working == {b \in Backends \ failing : docker = "up"}

ContainersTypeOK ==
  /\ pc \in {"asleep", "checks"} \union DockerCalls
  /\ elapsed \in Nat
  /\ elapsed <= IF Refreshing THEN Budget ELSE Nap
  /\ rows \in [Checkers -> Row]
  /\ todo \subseteq Checkers
  /\ expired \in BOOLEAN
  /\ published \in [status : {"none", "ok", "unavailable"}, rows : [Checkers -> Row]]
  /\ failing \subseteq Breakable
  /\ docker \in {"up", "down", "hung"}
  /\ running \subseteq Checkers
  /\ held \in [Images -> MaybeDigest]
  /\ heldDuring \in [Images -> SUBSET MaybeDigest]
  /\ worked \subseteq Backends
  /\ changes \in 0..MaxChanges

(* The loop's first refresh begins when the application starts.            *)
ContainersInit ==
  /\ Init
  /\ pc = "ps" /\ elapsed = 0 /\ rows = NoRows /\ todo = {}
  /\ expired = FALSE
  /\ published = NotCollected
  /\ failing \in SUBSET Breakable /\ docker \in {"up", "down", "hung"}
  /\ running \in SUBSET Checkers
  /\ held \in [Images -> MaybeDigest]
  /\ heldDuring = [i \in Images |-> {held[i]}]
  /\ worked = Working
  /\ changes = 0

-----------------------------------------------------------------------------
(* collect_via_cli: `docker ps`, then `docker stats` and `docker inspect`  *)
(* for the metrics, then one `docker image inspect` for the digests.  Only *)
(* a failing `docker ps` gives the backend up; the rest is best-effort.    *)
Continue(next) ==
  /\ pc' = next
  /\ UNCHANGED <<registryVars, elapsed, expired, published, dockerVars, historyVars>>

(* The whole cache is replaced and the loop's timeout has not expired.     *)
EndWith(view) ==
  /\ published' = view
  /\ expired' = FALSE
  /\ pc' = "asleep" /\ elapsed' = 0 /\ rows' = NoRows /\ todo' = {}
  /\ heldDuring' = [i \in Images |-> {}] /\ worked' = {}
  /\ UNCHANGED dockerVars

PsLists ==
  /\ pc = "ps" /\ "cli" \in Working
  /\ rows' = [k \in Checkers |->
                IF k \in running THEN [Absent EXCEPT !.state = "running"] ELSE Absent]
  /\ UNCHANGED todo
  /\ Continue("enrich")

(* Mutant of PsFails: the socket is not tried.                             *)
PsFailsForGood ==
  /\ pc = "ps" /\ (docker = "down" \/ "cli" \in failing)
  /\ EndWith(Unavailable)
  /\ UNCHANGED registryVars

PsFails ==
  /\ pc = "ps" /\ (docker = "down" \/ "cli" \in failing)
  /\ UNCHANGED <<rows, todo>>
  /\ Continue("ping")

Enrich ==
  /\ pc = "enrich" /\ docker # "hung"
  /\ UNCHANGED <<rows, todo>>
  /\ Continue(IF Listed = {} THEN "checks" ELSE "images")

(* The digests are keyed by RepoTag and looked up by the reference that    *)
(* `docker ps` printed.                                                    *)
DigestByRef(i) == IF i \in Tagged THEN held[i] ELSE NONE

(* Mutant of ReadImages: a digest once published is not read again.        *)
ReadImagesOnce ==
  /\ pc = "images" /\ docker # "hung"
  /\ rows' = [k \in Checkers |->
       IF k \notin Listed THEN Absent
       ELSE [rows[k] EXCEPT !.local =
               IF published.rows[k].local # NONE THEN published.rows[k].local
               ELSE DigestByRef(ImageOf[k])]]
  /\ UNCHANGED todo
  /\ Continue("checks")

ReadImages ==
  /\ pc = "images" /\ docker # "hung"
  /\ \/ /\ docker = "up"
        /\ rows' = [k \in Checkers |-> IF k \in Listed
                      THEN [rows[k] EXCEPT !.local = DigestByRef(ImageOf[k])] ELSE Absent]
     \/ UNCHANGED rows
  /\ UNCHANGED todo
  /\ Continue("checks")

(* collect_via_bollard: ping, list every container, exited ones included,  *)
(* then the details of one container after the other.  A socket that fails *)
(* may still answer the ping.                                              *)
SocketFails ==
  /\ pc \in {"ping", "list"}
  /\ docker = "down" \/ "socket" \in failing

Ping ==
  /\ pc = "ping" /\ docker = "up"
  /\ UNCHANGED <<rows, todo>>
  /\ Continue("list")

List ==
  /\ pc = "list" /\ "socket" \in Working
  /\ rows' = [k \in Checkers |-> [Absent EXCEPT !.state =
                IF k \in running THEN "running" ELSE "exited"]]
  /\ todo' = Checkers
  /\ Continue("detail")

(* Mutant of BothUnavailable: the last list is kept.                       *)
BothUnavailableIgnored ==
  /\ SocketFails
  /\ EndWith(published)
  /\ UNCHANGED registryVars

BothUnavailable ==
  /\ SocketFails
  /\ EndWith(Unavailable)
  /\ UNCHANGED registryVars

Detail(k) ==
  /\ pc = "detail" /\ k \in todo /\ docker # "hung"
  /\ \/ docker = "up" /\ rows' = [rows EXCEPT ![k].local = held[ImageOf[k]]]
     \/ UNCHANGED rows
  /\ todo' = todo \ {k}
  /\ Continue(IF todo = {k} THEN "checks" ELSE "detail")

-----------------------------------------------------------------------------
(* join_all over check_update, with the digests read above.                *)
StartCheck(k) ==
  /\ pc = "checks" /\ k \in Listed
  /\ Call(k, ImageOf[k], rows[k].local)
  /\ UNCHANGED <<loopVars, dockerVars, historyVars>>

CheckStep(k) ==
  /\ \/ ServeManifest(k) \/ ReceiveDigest(k)
     \/ ReceiveChallenge(k) \/ ReceiveToken(k) \/ RequestFails(k)
  /\ UNCHANGED <<loopVars, dockerVars, historyVars>>

CheckTimesOut(k) ==
  /\ RequestTimeout(k)
  /\ UNCHANGED <<loopVars, dockerVars, historyVars>>

(* Mutant of CheckedView: the answers are zipped with the wrong rows.      *)
CheckedViewShifted ==
  [status |-> "ok", rows |-> [k \in Checkers |->
     IF k \in Listed
       THEN [rows[k] EXCEPT !.update =
               call[CHOOSE j \in Listed : j # k \/ Listed = {k}].verdict]
       ELSE Absent]]

CheckedView ==
  [status |-> "ok", rows |-> [k \in Checkers |->
     IF k \in Listed THEN [rows[k] EXCEPT !.update = call[k].verdict] ELSE Absent]]

AllChecked == pc = "checks" /\ \A k \in Listed : call[k].pc = "done"

Publish ==
  /\ AllChecked
  /\ EndWith(CheckedView)
  /\ Release(Checkers)

(* Mutants of Expire: what was collected is published; the interrupted     *)
(* fetches are cached as failures; the loop ends.                          *)
ExpirePublishingPartly ==
  /\ Refreshing /\ elapsed = Budget
  /\ EndWith([status |-> "ok", rows |-> rows])
  /\ Release(Checkers)

ExpireCachingFailure ==
  /\ Refreshing /\ elapsed = Budget
  /\ pc' = "asleep" /\ elapsed' = 0 /\ rows' = NoRows /\ todo' = {}
  /\ expired' = TRUE
  /\ heldDuring' = [i \in Images |-> {}] /\ worked' = {}
  /\ call' = [k \in Checkers |-> Idle]
  /\ cache' = [i \in Images |-> IF \E k \in Checkers : InFlight(k) /\ call[k].image = i
                                  THEN [age |-> 0, remote |-> NONE] ELSE cache[i]]
  /\ UNCHANGED <<tag, lastNamed, lastFailed, lastEnded, published, dockerVars>>

ExpireEndingLoop ==
  /\ Refreshing /\ elapsed = Budget
  /\ pc' = "asleep" /\ elapsed' = Nap + 1 /\ rows' = NoRows /\ todo' = {}
  /\ expired' = TRUE
  /\ heldDuring' = [i \in Images |-> {}] /\ worked' = {}
  /\ Release(Checkers)
  /\ UNCHANGED <<published, dockerVars>>

(* The timeout around the refresh drops its future, wherever it stands.    *)
Expire ==
  /\ Refreshing /\ elapsed = Budget
  /\ pc' = "asleep" /\ elapsed' = 0 /\ rows' = NoRows /\ todo' = {}
  /\ expired' = TRUE
  /\ heldDuring' = [i \in Images |-> {}] /\ worked' = {}
  /\ Release(Checkers)
  /\ UNCHANGED <<published, dockerVars>>

Wake ==
  /\ pc = "asleep" /\ elapsed = Nap
  /\ pc' = "ps" /\ elapsed' = 0
  /\ heldDuring' = [i \in Images |-> {held[i]}]
  /\ worked' = Working
  /\ UNCHANGED <<registryVars, rows, todo, expired, published, dockerVars>>

-----------------------------------------------------------------------------
(* External: the daemon, the backends, the containers, the images and the  *)
(* registry.                                                               *)
DockerBecomes(state) ==
  /\ docker # state
  /\ docker' = state
  /\ UNCHANGED <<registryVars, loopVars, failing, running, held, heldDuring>>
  /\ worked' = worked \cap Working'

BreakOrMend(b) ==
  /\ failing' = IF b \in failing THEN failing \ {b} ELSE failing \union {b}
  /\ UNCHANGED <<registryVars, loopVars, docker, running, held, heldDuring>>
  /\ worked' = worked \cap Working'

StartOrExit(k) ==
  /\ docker = "up"
  /\ running' = IF k \in running THEN running \ {k} ELSE running \union {k}
  /\ UNCHANGED <<registryVars, loopVars, failing, docker, held, historyVars>>

(* A pull makes the image what its tag names; a local build has no digest. *)
ReplaceImage(i, d) ==
  /\ docker = "up"
  /\ d \in {tag[i], NONE}
  /\ held' = [held EXCEPT ![i] = d]
  /\ heldDuring' = IF Refreshing THEN [heldDuring EXCEPT ![i] = @ \union {d}] ELSE heldDuring
  /\ UNCHANGED <<registryVars, loopVars, failing, docker, running, worked>>

PushManifest(i, d) ==
  /\ Push(i, d)
  /\ UNCHANGED <<loopVars, dockerVars, historyVars>>

(* Mutant of MayWait: docker is waited for without limit.                  *)
MayWaitForDocker ==
  CASE pc = "asleep" -> elapsed < Nap
    [] pc = "checks" -> elapsed < Budget
    [] OTHER -> docker = "hung"

(* join_all polls every check before it waits; a daemon that is up answers *)
(* at once.                                                                *)
MayWait ==
  CASE pc = "asleep" -> elapsed < Nap
    [] pc = "checks" -> /\ elapsed < Budget
                        /\ \A k \in Listed : call[k].pc # "idle"
                        /\ \E k \in Listed : InFlight(k)
    [] OTHER -> elapsed < Budget /\ docker = "hung"

TimePasses ==
  /\ MayWait
  /\ Tick
  /\ elapsed' = elapsed + 1
  /\ UNCHANGED <<pc, rows, todo, expired, published, dockerVars, historyVars>>

-----------------------------------------------------------------------------
Collect ==
  \/ PsLists \/ PsFails \/ Enrich \/ ReadImages
  \/ Ping \/ List \/ BothUnavailable \/ \E k \in Checkers : Detail(k)

External ==
  \/ \E state \in {"up", "down", "hung"} : DockerBecomes(state)
  \/ \E b \in Breakable : BreakOrMend(b)
  \/ \E k \in Checkers : StartOrExit(k)
  \/ \E i \in Images, d \in MaybeDigest : ReplaceImage(i, d)
  \/ \E i \in Checkable, d \in Digests : PushManifest(i, d)

Refresh ==
  \/ Collect
  \/ \E k \in Checkers : StartCheck(k) \/ CheckStep(k) \/ CheckTimesOut(k)
  \/ Publish \/ Expire \/ Wake

ContainersNext ==
  \/ (Refresh \/ TimePasses) /\ UNCHANGED changes
  \/ External /\ changes < MaxChanges /\ changes' = changes + 1

(* The task is polled whenever it can go on, its timers fire and time      *)
(* passes; docker and the registries promise nothing.                      *)
ContainersFairness ==
  /\ WF_vars(TimePasses /\ UNCHANGED changes)
  /\ WF_vars(Collect /\ UNCHANGED changes)
  /\ WF_vars(Publish /\ UNCHANGED changes)
  /\ WF_vars(Expire /\ UNCHANGED changes)
  /\ WF_vars(Wake /\ UNCHANGED changes)
  /\ \A k \in Checkers : WF_vars((StartCheck(k) \/ CheckTimesOut(k)) /\ UNCHANGED changes)

ContainersSpec == ContainersInit /\ [][ContainersNext]_vars
FairContainersSpec == ContainersSpec /\ ContainersFairness

-----------------------------------------------------------------------------
(* What a completed refresh has found; nothing while it is not complete.   *)
RefreshResult ==
  CASE AllChecked -> CheckedView
    [] SocketFails -> Unavailable
    [] OTHER -> NotCollected

Snap == INSTANCE Snapshot WITH
  Initial <- NotCollected, NoResult <- NotCollected,
  Results <- [status : {"ok", "unavailable"}, rows : [Checkers -> Row]],
  shown <- published, busy <- Refreshing, result <- RefreshResult

(* Readers of get_container_stats see whole refreshes only, a dropped one  *)
(* leaves the cache alone, and "a hung docker daemon must never stall this *)
(* loop" (main.rs): every refresh ends and another follows.                *)
ReadersSeeWholeRefreshes == Snap!Spec

(* The monitor uses the update check as its interface allows: its steps    *)
(* are Registry's, or leave it alone.                                      *)
ImplementsRegistry == Spec

VerdictHoldsStep ==
  \A k \in Checkers :
    published' # published /\ published'.rows[k].update # "unknown" =>
      /\ published'.rows[k].local \in heldDuring[ImageOf[k]]
      /\ \E d \in Digests :
           /\ lastNamed[ImageOf[k]][d] < TTL + RequestLimit + Budget
           /\ published'.rows[k].update = Verdict(d, published'.rows[k].local)

(* A published "update available" or "up to date" compares a digest the    *)
(* local image had during that refresh (so a `docker pull` shows at the    *)
(* next refresh, however long the remote digest stays cached) with one its *)
(* tag named less than TTL + RequestLimit + Budget before.                 *)
VerdictHolds == [][VerdictHoldsStep]_vars

UnavailableMeansBothStep ==
  published' # published /\ published'.status = "unavailable" => worked = {}

(* "docker CLI and socket both unavailable" is never published by a        *)
(* refresh throughout which one of the two worked, whatever failed of the  *)
(* other.  (That the two failed at the same time is not said: the CLI may  *)
(* work again when the socket is tried.)                                   *)
UnavailableMeansBoth == [][UnavailableMeansBothStep]_vars

Published == pc = "asleep" /\ ~expired /\ published.status = "ok"

(* While one backend goes on working and registries answer at once, the    *)
(* cache is renewed again and again, whatever the other backend does.      *)
RenewedWhenPrompt ==
  \A b \in Backends :
    <>[](b \in Working /\ \A k \in Checkers : InFlight(k) => call[k].wait = 0)
      => []<>Published

(* A daemon that stays down is eventually shown as unavailable, for good.  *)
DownIsShown == <>[](docker = "down") => <>[](published.status = "unavailable")

(* Stated of the program and not true of it: "bound each registry request  *)
(* so one slow/hung registry can't consume the whole refresh budget"       *)
(* (refresh).  While both backends go on working the cache would be        *)
(* renewed again and again.                                                *)
RenewedDespiteSlowRegistry == <>[](Working = Backends) => []<>Published

(* Stated of the program and not true of it: "when Docker or a registry    *)
(* can't be reached, report an explicit empty/unknown state" (design).  A  *)
(* daemon that hangs for good would not be shown as "ok" for ever.         *)
HungIsShown == <>[](docker = "hung") => <>[](published.status # "ok")
=============================================================================
