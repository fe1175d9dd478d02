---------------------------- MODULE MCGraphStore ----------------------------
(* An instance of GraphStore: two clients, two users with three entities.  *)
EXTENDS GraphStore, TLC

Symmetry == Permutations(Clients) \cup Permutations(Users) \cup Permutations(Ids)
=============================================================================
