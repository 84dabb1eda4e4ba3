--------------------------- MODULE MCLibraryIndex ---------------------------
(* Two paths, with every kind of file.                                     *)
EXTENDS LibraryIndex, TLC

CONSTANTS a, b
MCFiles == {a, b}
MCKinds == {"tagged", "plain", "mute"}
Symm == Permutations(MCFiles)
=============================================================================
