------------------------ MODULE MC_PlayerRegistry ------------------------
(* Two slots, one address more than slots and clients need at once.        *)
EXTENDS PlayerRegistry, TLC

CONSTANTS p1, p2, p3, p4, c1, c2

Addresses == {p1, p2, p3, p4}
Threads == {c1, c2}
Symmetry == Permutations(Addresses) \cup Permutations(Threads)
==========================================================================
