---------------------------- MODULE MCMessageBus ----------------------------
(* Instances of MessageBus.                                                *)
EXTENDS MessageBus, TLC

CONSTANTS s1, s2

TwoSubscribers == {s1, s2}
OneSubscriber  == {s1}
Symmetry       == Permutations(TwoSubscribers)
=============================================================================
