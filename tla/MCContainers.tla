---------------------------- MODULE MCContainers ----------------------------
(* Instances of Containers for TLC: containers started from one image.     *)
EXTENDS Containers, TLC

CONSTANT app
MCImageOf == [k \in Checkers |-> app]

(* The containers and the digests are interchangeable.                     *)
Symmetry == Permutations(Checkers) \union Permutations(Digests)
=============================================================================
