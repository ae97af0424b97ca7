---------------------------- MODULE MC_Startup ----------------------------
(* Startup on a small card. *)
EXTENDS Startup, SmallCard
=============================================================================
