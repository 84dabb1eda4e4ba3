------------------------------ MODULE MCStemHub -----------------------------
(* Two phones, two tracks. *)
EXTENDS StemHub

CONSTANTS x, y, p, q

=============================================================================
