---------------------------- MODULE MCHoldLedger ----------------------------
(* An instance of HoldLedger for TLC. *)
EXTENDS HoldLedger, TLC

Symmetry == Permutations(Decisions)

=============================================================================
