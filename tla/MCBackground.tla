---------------------------- MODULE MCBackground ----------------------------
(* An instance of Background for TLC: addresses of three bits; AWS         *)
(* withdraws and adds a prefix, one narrower than a hardcoded one of       *)
(* Cloudflare; CI answers of up to three runs and logs of up to four       *)
(* commits, in any order.                                                  *)
EXTENDS Background

CONSTANT model

Net(bits, len) == [bits |-> bits, len |-> len]
Entry(net, provider) == [net |-> net, provider |-> provider, detail |-> "fallback"]
MCFallback == <<Entry(Net(1, 1), "AWS"), Entry(Net(1, 2), "Cloudflare")>>
MCAws == {<<Net(4, 3)>>, <<Net(3, 3), Net(4, 3)>>}
MCGcp == {<<Net(2, 2)>>}

MCModels == {<<>>, <<NONE>>, <<NONE, model, model>>}
MCLogs == {<<2, 0>>, <<1>>}
Run(conclusion, created, workflow) ==
  [conclusion |-> conclusion, created |-> created, workflow |-> workflow]
MCAnswers == {<<Run("success", 2, "build"), Run("failure", 0, "build")>>,
              <<Run("cancelled", 0, "build")>>}

AllLogs == BoundedSeq(0..3, 4)
AllRuns == [conclusion : {"success", "failure", "cancelled"}, created : 0..2, workflow : {"build", "test"}]
AllAnswers == BoundedSeq(AllRuns, 3)

(* The CI figures do not depend on the order GitHub answers the runs in    *)
(* (as long as none were created in the same second), and the time to      *)
(* restore is the median of the times from a failure to the first success  *)
(* after it in its workflow: for every answer of up to three runs the task *)
(* may be about to receive.                                                *)
CiFiguresCheck == \A runs \in AllAnswers : CiFiguresRight(runs)
CiFiguresAreRight == work.pc = "ci" => CiFiguresCheck

(* The lead time does not depend on the order of the log and is the median *)
(* of the gaps between a commit and the next, of which half are as long    *)
(* and so fit in the history; fewer than two commits have none: for every  *)
(* log of up to four commits the task may be about to read.                *)
LeadTimeCheck == \A epochs \in AllLogs : LeadTimeTypical(epochs)
LeadTimeIsTypical == work.pc = "git" => LeadTimeCheck
=============================================================================
