-------------------------- MODULE MCLongTermMemory --------------------------
(* An instance of LongTermMemory: batches that fail in the middle, items   *)
(* without a user and of another user.                                     *)
EXTENDS LongTermMemory, TLC

Item(t, u, m) == [type |-> t, user |-> u, content |-> m]

MCBatches ==
    {<<>>, <<Item("episodic", "me", "a")>>,
     <<Item("semantic", "me", "a"), Item("episodic", "me", "b")>>,
     <<Item("episodic", "other", "a"), Item("episodic", NoUser, "b")>>}

Symmetry == Permutations(Clients)
=============================================================================
