----------------------- MODULE MCRecurringCommands -----------------------
(* Instances of RecurringCommands for TLC. *)
EXTENDS RecurringCommands, TLC

CONSTANTS r1, r2, w1, w2, c1, a1, a2

Symmetric == Permutations(Requests)
=============================================================================
