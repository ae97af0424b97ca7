--------------------------- MODULE MC_Descriptors ---------------------------
(* Two threads and two numbers, every table so small that it fills up. *)
EXTENDS Descriptors, TLC

SomeSeeks == {<<0, "SET">>, <<-1, "CUR">>, <<0, "END">>}
Interchangeable == Permutations(Threads) \cup Permutations(BigFiles)
=============================================================================
