---------------------------- MODULE MC_MemoryMaps ----------------------------
(* Two threads on an arena of one big slot.  A file of three pages can     *)
(* lose its head, its tail or its middle; an over-mapping client gets the  *)
(* shortened tail slot; a second file map goes to the heap.                *)
EXTENDS MemoryMaps, TLC

Interchangeable == Permutations(Threads)
==============================================================================
