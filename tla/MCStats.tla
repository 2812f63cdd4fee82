------------------------------ MODULE MCStats ------------------------------
(* An instance of Stats for TLC: three slow slots, with times to live       *)
(* short enough to expire together in every combination, and short enough   *)
(* for a spell of calls to outlast an entry of its own.                     *)
EXTENDS Stats

MCOrder == <<"inventory", "smartDisks", "egress">>
MCTTL == [s \in ToSet(MCOrder) |->
  CASE s = "inventory" -> 5 [] s = "smartDisks" -> 4 [] s = "egress" -> 3]
MCCost == [s \in ToSet(MCOrder) |->
  CASE s = "inventory" -> 1 [] s = "smartDisks" -> 2 [] s = "egress" -> 2]
=============================================================================
