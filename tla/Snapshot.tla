------------------------------ MODULE Snapshot ------------------------------
(***************************************************************************)
(* What a background monitor promises the readers of its cache: they see   *)
(* the initial value or the whole result of one refresh, the last that     *)
(* completed.  A refresh that is given up leaves no trace, every refresh   *)
(* ends, and another always follows.                                       *)
(***************************************************************************)
CONSTANTS
  Initial,       \* what readers see before the first refresh completes
  Results,       \* the results a refresh can have
  NoResult       \* a refresh that is not complete

VARIABLES
  shown,         \* what readers see
  busy,          \* a refresh is under way
  result         \* the result of that refresh, once it is complete

snapshotVars == <<shown, busy, result>>

Init == shown = Initial /\ busy = TRUE /\ result \in Results \union {NoResult}

Begin == ~busy /\ busy' = TRUE /\ UNCHANGED shown
Work == busy /\ result' \in Results \union {NoResult} /\ UNCHANGED <<shown, busy>>
Commit == busy /\ result # NoResult /\ shown' = result /\ busy' = FALSE
Drop == busy /\ busy' = FALSE /\ UNCHANGED shown

Next == \/ Work
        \/ (Begin \/ Commit \/ Drop) /\ result' \in Results \union {NoResult}

(* Every refresh ends, and another follows.                                *)
Alternates == []<>busy /\ []<>~busy

Safety == Init /\ [][Next]_snapshotVars
Spec == Safety /\ Alternates
=============================================================================
