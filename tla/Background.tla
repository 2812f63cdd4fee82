----------------------------- MODULE Background -----------------------------
(***************************************************************************)
(* The two tasks main.rs starts to fetch what others publish, the prefix   *)
(* lists (CloudRanges) and the external baselines (Baselines), over one    *)
(* network.  Neither client has a timeout.                                 *)
(***************************************************************************)
EXTENDS CloudRanges, Baselines

vars == <<cloud, baselines>>

Init == CloudInit /\ BaselinesInit

Next ==
  \/ CloudNext /\ UNCHANGED baselines
  \/ BaselinesStep(network) /\ UNCHANGED cloud

(* Both loops sleep and go on, a request that does not stall ends; the     *)
(* lists and the network owe nothing.                                      *)
Spec ==
  /\ Init /\ [][Next]_vars
  /\ WF_vars(RefreshStep /\ UNCHANGED baselines)
  /\ WF_vars(BaselinesStep(network) /\ UNCHANGED cloud)

(* Once requests are answered again and the lists stay as they are, the    *)
(* prefix table comes to be the hardcoded entries and both lists in full,  *)
(* unless a request of this loop had stalled before.                       *)
TableConverges ==
  \A lists \in [aws : AwsLists, gcp : GcpLists] :
    <>[](network = "up" /\ published = lists) =>
      <>[](\/ fetch.pc = "stuck"
           \/ table.entries = Fallback \o EntriesOf(lists.aws, "AWS") \o EntriesOf(lists.gcp, "GCP"))

(* Once requests are answered again and the leaderboard is served time and *)
(* again, ranks are shown time and again, CI runs or not, unless a request *)
(* of this loop had stalled before.                                        *)
BaselinesRecover ==
  <>[](network = "up") /\ []<>(outcome.arena = "ok") =>
    <>(work.pc = "stuck") \/ []<>(Shown.arena # <<>>)

=============================================================================
