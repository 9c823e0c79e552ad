-------------------------- MODULE MCReceiptPayment --------------------------
(* Small instances of ReceiptPayment for TLC. *)
EXTENDS ReceiptPayment, TLC

MCSymmetry == Permutations(Submissions) \cup Permutations(Handlers) \cup Permutations(Operations)
=============================================================================
