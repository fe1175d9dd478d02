------------------------- MODULE MCShortTermMemory -------------------------
(* An instance of ShortTermMemory with room for two of four ids.          *)
EXTENDS ShortTermMemory, TLC
CONSTANTS a, b, c, d
MCIds == {a, b, c, d}
MCExpiries == {1}
Symmetry == Permutations(MCIds)
=============================================================================
