------------------------------ MODULE MCPlayer ------------------------------
(* An album of two tracks. *)
EXTENDS Player

CONSTANTS x, y

TwoLists == {<<x, y>>}

=============================================================================
