----------------------------- MODULE MCKeyChain -----------------------------
(* Instances of KeyChain for TLC.                                          *)
EXTENDS KeyChain, TLC

CONSTANTS self, alice, bob, right, wrong

Key(i, n, f) == [id |-> i, name |-> n, phrase |-> f, sure |-> TRUE]

(* A new repository, and one with the node's key and a key of a user.      *)
Stored ==
  { [n \in Names |-> None] } \cup
  { [n \in Names |-> CASE n = self -> Key(1, self, f)
                       [] n = a -> Key(2, a, f)
                       [] OTHER -> None] : f \in Phrases, a \in {alice, bob} }

Symmetry == Permutations(Procs) \cup Permutations(Phrases) \cup Permutations({alice, bob})
=============================================================================
