----------------------------- MODULE MCSession -----------------------------
(* An instance of Session: a budget of two tokens, messages of one token   *)
(* and messages that exceed the budget alone; sessions of two users.       *)
EXTENDS Session, TLC

MCTokens == [s |-> 1, l |-> 4]

(* The second process creates its session for a blank user. *)
MCUserID == <<"u", "blank">>

Symmetry == Permutations(Callers)
=============================================================================
