---------------------------- MODULE MCStemStore ----------------------------
(* The TUI and the server, three tracks, a recipe of two passes, room for two splits. *)
EXTENDS StemStore, TLC

CONSTANTS x, y, z, tui, serve, vocals, drums, instrumental

HqPasses == <<[input |-> Source, outputs |-> {vocals, instrumental}],
              [input |-> instrumental, outputs |-> {drums}]>>

Sym == Permutations(Proc) \cup Permutations(Key)

=============================================================================
