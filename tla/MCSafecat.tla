----------------------------- MODULE MCSafecat -----------------------------
(***************************************************************************)
(* Small instances of Safecat: limits of which each one in turn is the     *)
(* first to be met, and one smaller than a block.                          *)
(***************************************************************************)
EXTENDS Safecat

MCLimits == {
    [diff |-> 3, unchanged |-> 9, total |-> 9],
    [diff |-> 9, unchanged |-> 3, total |-> 9],
    [diff |-> 4, unchanged |-> 9, total |-> 2],
    [diff |-> 1, unchanged |-> 1, total |-> 1] }

MCInputs == {3, Endless}

=============================================================================
