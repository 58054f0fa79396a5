----------------------------- MODULE MCBitswap -----------------------------
(* Symmetry sets for the instances of Bitswap that TLC checks.             *)
EXTENDS Bitswap, TLC

Symmetry == Permutations(Tasks) \cup Permutations(Workers)
              \cup Permutations(Cids) \cup Permutations(Tokens)
=============================================================================
