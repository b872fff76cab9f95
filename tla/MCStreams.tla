----------------------------- MODULE MCStreams -----------------------------
(* Streams over small files, memories and blocks. *)
EXTENDS Streams, TLC

FileBytes == {"x", "y", "z", "w", "m", "hole"}
Text == <<"x", "y", "z">>
SmallMemories == {<<"m", "m", "m">>, <<"m", "m", "m", "m", "m">>}
Symmetry == Permutations(Inodes) \cup Permutations(Streams)
=============================================================================
