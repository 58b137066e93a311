------------------------- MODULE MCGongbuExecution -------------------------
(* Instances of GongbuExecution for TLC.                                    *)
EXTENDS GongbuExecution
=============================================================================
