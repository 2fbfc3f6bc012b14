---------------------------- MODULE MCReceivables ----------------------------
(* Instances of Receivables for TLC. *)
EXTENDS Receivables, TLC

CONSTANTS p1, p2

\* By hand: a payment of 2 of which 1 is allocated, and one of 1.
MCReceipts == (p1 :> {<<2, 1>>}) @@ (p2 :> {<<1, 1>>})

\* No payment by hand.
MCNoReceipts == (p1 :> {}) @@ (p2 :> {})

MCSymmetry == Permutations(Handlers)
=============================================================================
