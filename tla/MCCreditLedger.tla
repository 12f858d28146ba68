--------------------------- MODULE MCCreditLedger ---------------------------
(* CreditLedger for TLC: one account, so that its orders compete for one balance. *)
EXTENDS CreditLedger, TLC

CONSTANT u1

MCOneUser == [o \in OrderId |-> u1]

Symmetry == Permutations(Client)
=============================================================================
