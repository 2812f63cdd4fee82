---------------------------- MODULE MCEgressProbe ----------------------------
(* Instances of EgressProbe for TLC.                                       *)
EXTENDS EgressProbe, TLC

(* Process ids, elements and sends are interchangeable.                    *)
Symmetry == Permutations(Pids) \union Permutations(Elements) \union Permutations(Sends)
=============================================================================
