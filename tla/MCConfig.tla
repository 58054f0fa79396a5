------------------------------ MODULE MCConfig ------------------------------
(* Instances of Config for TLC.                                            *)
EXTENDS Config, TLC

CONSTANTS boot, filters, mars, venus

(* The default bootstrap peers; there is no default filter in the code.    *)
DefaultLists == [k \in {boot, filters} |-> IF k = boot THEN {mars, venus} ELSE {}]

Symmetry == Permutations(Procs) \cup Permutations(Addrs)
=============================================================================
