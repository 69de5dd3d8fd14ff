------------------------- MODULE MCCheckoutRestarts -------------------------
(* Instances of CheckoutRestarts for TLC. *)
EXTENDS CheckoutRestarts, TLC

CONSTANTS a1, a2, a3, a4, p1, p2, w1, t1

Symmetric == Permutations(Attempts)
=============================================================================
