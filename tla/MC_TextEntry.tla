---------------------------- MODULE MC_TextEntry ----------------------------
(* Small instances of TextEntry. *)
EXTENDS TextEntry
=============================================================================
