------------------------ MODULE MCOperationRegistry ------------------------
(* Instances of OperationRegistry for TLC. *)
EXTENDS OperationRegistry

=============================================================================
