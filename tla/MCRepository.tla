---------------------------- MODULE MCRepository ---------------------------
(* Instances of Repository for TLC.                                        *)
EXTENDS Repository, TLC

CONSTANTS root, leaf

(* A file of two blocks: root links to leaf.                               *)
Dag == [c \in {root, leaf} |-> IF c = root THEN {leaf} ELSE {}]

Symmetry == Permutations(Procs)
=============================================================================
