---------------------------- MODULE MCPixPayments ----------------------------
(* PixPayments on a small instance for TLC. *)
EXTENDS PixPayments
==============================================================================
