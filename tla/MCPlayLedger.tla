---------------------------- MODULE MCPlayLedger ----------------------------
(* Two tracks, two devices, a sidecar shared by the TUI and the server. *)
EXTENDS PlayLedger

CONSTANTS x, y, d, e

MCBudgets ==
    {[tui |-> 5, phone |-> 0, faults |-> 2], [tui |-> 1, phone |-> 2, faults |-> 1],
     [tui |-> 0, phone |-> 3, faults |-> 1], [tui |-> 0, phone |-> 2, faults |-> 2]}

=============================================================================
