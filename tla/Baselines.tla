------------------------------ MODULE Baselines ------------------------------
(***************************************************************************)
(* monitors/external_baselines.rs: the leaderboard, the DORA figures of    *)
(* git log and of the CI runs, and the task that renews all three.         *)
(*                                                                         *)
(* Times are whole numbers; a median is the element in the middle of the   *)
(* sorted values, the later of two.                                        *)
(***************************************************************************)
EXTENDS Integers, Sequences, FiniteSets, SequencesExt

CONSTANTS
  Models,         \* bound: leaderboards that may be served, NONE a nameless entry
  TopN,           \* entries taken from one (8)
  Logs,           \* bound: the commit times git log may give
  FrequentCommits,\* commits in 30 days of an elite team (30)
  Answers,        \* bound: the CI runs GitHub may answer
  NONE

ASSUME TopAssumption == TopN \in Nat /\ FrequentCommits \in Nat

VARIABLES
  cache,          \* CACHE
  work,           \* the renewing task: what it does and what it has so far
  outcome         \* history: how each section's last fetch went

baselines == <<cache, work, outcome>>

-----------------------------------------------------------------------------
(* The element in the middle of the values of S, sorted.                   *)
Rank(value, S, i) ==
  Cardinality({j \in S : value[j] < value[i] \/ (value[j] = value[i] /\ j < i)})
MedianOf(value, S) == value[CHOOSE i \in S : Rank(value, S, i) = Cardinality(S) \div 2]

(* parse_arena_leaderboard: the first entries, those without a name        *)
(* dropped; an empty table counts as a failure.                            *)
Ranks(models) ==
  SelectSeq(SubSeq(models, 1, IF TopN < Len(models) THEN TopN ELSE Len(models)),
            LAMBDA model : model # NONE)

(* dora_from_commit_epochs.                                                *)
Later(epochs, i) ==
  {j \in DOMAIN epochs : epochs[j] > epochs[i] \/ (epochs[j] = epochs[i] /\ j > i)}
NextCommit(epochs, i) ==
  LET later == Later(epochs, i)
  IN CHOOSE j \in later : \A k \in later : epochs[j] < epochs[k] \/ (epochs[j] = epochs[k] /\ j <= k)
NewestCommit(epochs) ==
  CHOOSE i \in DOMAIN epochs : Rank(epochs, DOMAIN epochs, i) = Len(epochs) - 1
\* Mutant of Gaps: the log is taken as it comes, newest first.
GapsInLogOrder(epochs) ==
  [i \in DOMAIN epochs \ {Len(epochs)} |-> epochs[i] - epochs[i + 1]]
Gaps(epochs) ==
  [i \in DOMAIN epochs \ {NewestCommit(epochs)} |-> epochs[NextCommit(epochs, i)] - epochs[i]]
GitFigures(epochs) ==
  [commits |-> Len(epochs),
   lead |-> IF Len(epochs) >= 2 THEN MedianOf(Gaps(epochs), DOMAIN Gaps(epochs)) ELSE NONE,
   elite |-> Len(epochs) >= FrequentCommits]

(* dora_from_runs: a failure is repaired by the next success of its        *)
(* workflow, in the order of creation.                                     *)
Completed(runs) == {i \in DOMAIN runs : runs[i].conclusion \in {"success", "failure"}}
Failures(runs) == {i \in DOMAIN runs : runs[i].conclusion = "failure"}
\* Mutant of Before: the runs are taken as they come, newest first.
BeforeInAnswer(runs, i, j) == i < j
Before(runs, i, j) ==
  runs[i].created < runs[j].created \/ (runs[i].created = runs[j].created /\ i < j)
Repairs(runs, i) ==
  {j \in DOMAIN runs : /\ runs[j].conclusion = "success"
                       /\ runs[j].workflow = runs[i].workflow /\ Before(runs, i, j)}
Repair(runs, i) ==
  CHOOSE j \in Repairs(runs, i) : \A k \in Repairs(runs, i) : k = j \/ Before(runs, j, k)
Repaired(runs) == {i \in Failures(runs) : Repairs(runs, i) # {}}
Mean(what, time) == [is |-> what, time |-> time]
Mttr(runs) ==
  LET times == [i \in Repaired(runs) |-> runs[Repair(runs, i)].created - runs[i].created] IN
  IF Completed(runs) = {} THEN Mean("n/a", 0)
  ELSE IF Failures(runs) = {} THEN Mean("no failures", 0)
  ELSE IF Repaired(runs) = {} THEN Mean("not yet recovered", 0)
  ELSE Mean("median", MedianOf(times, Repaired(runs)))
CiFigures(runs) ==
  [completed |-> Cardinality(Completed(runs)), failed |-> Cardinality(Failures(runs)),
   mttr |-> Mttr(runs)]

-----------------------------------------------------------------------------
AllGitFigures == {GitFigures(epochs) : epochs \in Logs}
AllCiFigures == {CiFigures(runs) : runs \in Answers \ {<<>>}}
NoCi == [completed |-> 0, failed |-> 0, mttr |-> NONE]
Unavailable == [arena |-> <<>>, git |-> NONE, ci |-> NoCi]
ExternalBaselines ==
  [arena : {<<>>} \union {Ranks(models) : models \in Models},
   git : {NONE} \union AllGitFigures, ci : {NoCi} \union AllCiFigures]
Idle == [pc |-> "asleep", shown |-> Unavailable]

(* An empty cache is told from a full one.                                 *)
ASSUME NoneAssumption == NONE \notin ExternalBaselines

(* get_external_baselines: what was cached, or that nothing is available;  *)
(* no ranks stand for a leaderboard declared unavailable.                  *)
Shown == IF cache = NONE THEN Unavailable ELSE cache

BaselinesInit ==
  /\ cache = NONE /\ work = Idle
  /\ outcome = [arena |-> "none", ci |-> "none"]

BeginBaselines ==
  /\ work.pc = "asleep"
  /\ work' = [pc |-> "arena", shown |-> Unavailable]
  /\ UNCHANGED <<cache, outcome>>

Hang(net) ==
  /\ work.pc \in {"arena", "ci"} /\ net = "stalled"
  /\ work' = [work EXCEPT !.pc = "stuck"]
  /\ UNCHANGED <<cache, outcome>>

\* Mutant of FetchArena: the last ranks are kept when none can be fetched.
FetchArenaOrKeep(net) ==
  /\ work.pc = "arena" /\ net # "stalled"
  /\ \E models \in Models :
       LET rows == IF net = "up" THEN Ranks(models) ELSE <<>> IN
       /\ outcome' = [outcome EXCEPT !.arena = IF rows = <<>> THEN "failed" ELSE "ok"]
       /\ work' = [pc |-> "git", shown |->
            [work.shown EXCEPT !.arena = IF rows = <<>> THEN Shown.arena ELSE rows]]
  /\ UNCHANGED cache

FetchArena(net) ==
  /\ work.pc = "arena" /\ net # "stalled"
  /\ \E models \in Models :
       LET rows == IF net = "up" THEN Ranks(models) ELSE <<>> IN
       /\ outcome' = [outcome EXCEPT !.arena = IF rows = <<>> THEN "failed" ELSE "ok"]
       /\ work' = [pc |-> "git", shown |-> [work.shown EXCEPT !.arena = rows]]
  /\ UNCHANGED cache

(* compute_git_dora: not a repository, or the figures of its log.          *)
RunGit ==
  /\ work.pc = "git"
  /\ \E git \in {NONE} \union {GitFigures(epochs) : epochs \in Logs} :
       work' = [pc |-> "ci", shown |-> [work.shown EXCEPT !.git = git]]
  /\ UNCHANGED <<cache, outcome>>

\* Mutant of FetchCi: without CI runs nothing is published.
FetchCiOrReturn(net) ==
  /\ work.pc = "ci" /\ net # "stalled"
  /\ \E ci \in {NoCi} \union (IF net = "up" THEN AllCiFigures ELSE {}) :
       /\ cache' = IF ci = NoCi THEN cache ELSE [work.shown EXCEPT !.ci = ci]
       /\ outcome' = [outcome EXCEPT !.ci = IF ci = NoCi THEN "failed" ELSE "ok"]
  /\ work' = Idle

(* fetch_ci_dora (no repository, token, network or runs: nothing), and     *)
(* without a pause the publication of the three sections together.         *)
FetchCi(net) ==
  /\ work.pc = "ci" /\ net # "stalled"
  /\ \E ci \in {NoCi} \union (IF net = "up" THEN AllCiFigures ELSE {}) :
       /\ cache' = [work.shown EXCEPT !.ci = ci]
       /\ outcome' = [outcome EXCEPT !.ci = IF ci = NoCi THEN "failed" ELSE "ok"]
  /\ work' = Idle

BaselinesStep(net) ==
  BeginBaselines \/ FetchArena(net) \/ RunGit \/ FetchCi(net) \/ Hang(net)

-----------------------------------------------------------------------------
(* Once a fetch has failed, no ranks and no CI figures of an earlier one   *)
(* are shown, except while the refresh that failed is still under way --   *)
(* for ever, if one of its requests hangs.                                 *)
NothingStaleIsShown ==
  work.pc \in {"asleep", "arena"} =>
    /\ (Shown.arena # <<>>) = (outcome.arena = "ok")
    /\ (Shown.ci # NoCi) = (outcome.ci = "ok")

(* The CI figures of one answer, whatever the order of its runs: the time  *)
(* to restore is that of a failure and of the first success after it in    *)
(* its workflow, at most half of the failures were followed by one sooner, *)
(* and more than half no later.                                            *)
CiFiguresRight(runs) ==
  /\ (\A i, j \in DOMAIN runs : i # j => runs[i].created # runs[j].created)
       => CiFigures(Reverse(runs)) = CiFigures(runs)
  /\ CiFigures(runs).failed <= CiFigures(runs).completed
  /\ Repaired(runs) # {} =>
       \E i, j \in DOMAIN runs :
         /\ runs[i].conclusion = "failure" /\ runs[j].conclusion = "success"
         /\ runs[i].workflow = runs[j].workflow
         /\ Mttr(runs).time = runs[j].created - runs[i].created
         /\ ~\E k \in DOMAIN runs :
              /\ runs[k].conclusion = "success" /\ runs[k].workflow = runs[i].workflow
              /\ runs[i].created < runs[k].created /\ runs[k].created < runs[j].created
  /\ Repaired(runs) # {} =>
       LET sooner == {i \in Repaired(runs) :
             \E j \in Repairs(runs, i) : runs[j].created - runs[i].created < Mttr(runs).time}
           inTime == {i \in Repaired(runs) :
             \E j \in Repairs(runs, i) : runs[j].created - runs[i].created <= Mttr(runs).time}
       IN /\ 2 * Cardinality(sooner) <= Cardinality(Repaired(runs))
          /\ Cardinality(Repaired(runs)) < 2 * Cardinality(inTime)

(* The lead time of one log, whatever its order: at most half of the       *)
(* commits but the newest were followed by another sooner, more than half  *)
(* no later, and so many gaps as long fit between the oldest and the       *)
(* newest; fewer than two commits have none.                               *)
LeadTimeTypical(epochs) ==
  /\ Len(epochs) < 2 => GitFigures(epochs).lead = NONE
  /\ Len(epochs) >= 2 =>
    LET lead == GitFigures(epochs).lead
        oldest == CHOOSE i \in DOMAIN epochs : Rank(epochs, DOMAIN epochs, i) = 0
    IN /\ GitFigures(Reverse(epochs)) = GitFigures(epochs)
       /\ 0 <= lead
       /\ lead * (Len(epochs) \div 2) <= epochs[NewestCommit(epochs)] - epochs[oldest]
       /\ 2 * Cardinality({i \in DOMAIN epochs :
                \E j \in Later(epochs, i) : epochs[j] - epochs[i] < lead}) <= Len(epochs) - 1
       /\ Len(epochs) - 1 < 2 * Cardinality({i \in DOMAIN epochs :
                \E j \in Later(epochs, i) : epochs[j] - epochs[i] <= lead})

=============================================================================
