--------------------------- MODULE GongbuService ---------------------------
(***************************************************************************)
(* What Gongbu promises to a client that created an execution, and to Hubu, *)
(* whose authorization the execution uses: the public status of one        *)
(* execution and the authorization's token.  GongbuExecution implements    *)
(* this; OperationRegistry, the client, runs against it.                   *)
(*                                                                         *)
(* Status "pending" stands for the execution before its claim is stored,   *)
(* "executing" for everything between that and its end.  A "claimed" token *)
(* belongs to the execution from then on, whatever becomes of the claim.   *)
(***************************************************************************)

VARIABLES status, token

GongbuTokens   == {"none", "live", "claimed", "gone"}
FinalStatuses  == {"succeeded", "failed", "released"}
GongbuStatuses == {"none", "pending", "executing", "reconciliation_required"} \cup FinalStatuses

Init == status \in {"none", "pending"} /\ token \in {"none", "live"}

\* Hubu issues the token; it is voided or expires while nobody has claimed it.
Issue  == token = "none" /\ token' = "live" /\ UNCHANGED status
Retire == token = "live" /\ token' = "gone" /\ UNCHANGED status

\* A new execution needs an authorization that is still available.
Admit == status = "none" /\ token = "live" /\ status' = "pending" /\ UNCHANGED token

\* The claim is Hubu's commit, before the execution knows of it: at first, again
\* in reconciliation when the answer was lost, or by an activity that is
\* overtaken by the failure of the preflight.
Claim ==
  /\ token = "live"
  /\ status \in {"pending", "reconciliation_required", "failed"}
  /\ token' = "claimed"
  /\ UNCHANGED status

Begin  == status = "pending" /\ token = "claimed" /\ status' = "executing" /\ UNCHANGED token
Fail   == status = "pending" /\ status' = "failed" /\ UNCHANGED token
Hold   == /\ status \in {"pending", "executing"}
          /\ status' = "reconciliation_required"
          /\ UNCHANGED token
Reopen == /\ status = "reconciliation_required"
          /\ token = "claimed"
          /\ status' = "executing"
          /\ UNCHANGED token

\* Only an execution that claimed its authorization succeeds or gives it back.
End ==
  /\ status \in {"executing", "reconciliation_required"}
  /\ token = "claimed"
  /\ status' \in {"succeeded", "released"}
  /\ UNCHANGED token

Progress == Begin \/ Fail \/ Hold \/ Reopen \/ End

Next == Issue \/ Retire \/ Admit \/ Claim \/ Progress

Spec == Init /\ [][Next]_<<status, token>>

=============================================================================
