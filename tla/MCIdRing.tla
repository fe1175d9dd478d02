------------------------------ MODULE MCIdRing ------------------------------
(* A ring of three slots, later six, for five ids: it wraps and it grows.  *)
EXTENDS IdRing
MCIds == {"a", "b", "c", "d", "e"}
=============================================================================
