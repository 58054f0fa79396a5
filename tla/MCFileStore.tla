---------------------------- MODULE MCFileStore ----------------------------
(* Symmetry sets for the instances of FileStore that TLC checks.           *)
EXTENDS FileStore, TLC

Symmetry == Permutations(Keys) \cup Permutations(Values)
              \cup Permutations(Procs) \cup Permutations(Scanners)
=============================================================================
