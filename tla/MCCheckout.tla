----------------------------- MODULE MCCheckout -----------------------------
(* Instances of Checkout for TLC. *)
EXTENDS Checkout, TLC

CONSTANTS a1, a2, a3, p1, p2, w1, w2, t1, t2

Symmetric == Permutations(Attempts) \cup Permutations(Workers) \cup Permutations(Terms)
             \cup Permutations(Apps) \cup Permutations(Requests \ Apps)
=============================================================================
