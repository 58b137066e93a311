---------------------- MODULE OperationRegistryProofs ----------------------
(***************************************************************************)
(* The router's safety properties, for any number of workers and any retry *)
(* limits.                                                                 *)
(*                                                                         *)
(* The inductive invariant has four parts.  Lifecycle(row) says what the   *)
(* row's columns mean together: it is a property of the row alone, which   *)
(* the registry's transactions keep.  Decided ties the row to what Hubu    *)
(* decided, and Delivered to what Gongbu's execution did.  Remembered says *)
(* what a call or a worker read is still true, however late it goes on.    *)
(***************************************************************************)
EXTENDS OperationRegistry, TLAPS

Rows ==
  [stored : BOOLEAN, dispatched : BOOLEAN, intent : BOOLEAN,
   decision : Decisions, approval : Approvals, token : BOOLEAN,
   request : BOOLEAN, exec : BOOLEAN, status : GongbuStatuses,
   state : States, code : Codes, void : BOOLEAN,
   dispatches : 0..(DispatchLimit - 1), misses : 0..(ObservationLimit - 1),
   reconciliations : 0..(ReconciliationLimit - 1),
   lease : Workers \cup {None}, lapsed : BOOLEAN,
   published : Reports \cup {NoReport}]

Busy == {"void", "voided", "late", "create", "observe"}

Steps == {Idle} \cup [pc : Busy] \cup [pc : {"answered"}, reply : Replies]

InHand == {"accepted"} \cup ActiveStates

\* A row that nobody accepted has no trace of an execution; an accepted one has
\* all its worker needs; an ended one nothing that could start it again.
Lifecycle(row) ==
  /\ row.state = "none" => /\ ~row.exec /\ ~row.void /\ ~row.request
                           /\ row.lease = None
                           /\ row.code = "none"
                           /\ row.status = "none"
  /\ row.state # "none" => row.decision = "allow"
  /\ row.token => row.decision = "allow"
  /\ row.state \in InHand => /\ row.token /\ ~row.intent /\ ~row.void
                             /\ row.exec \/ row.request
                             /\ row.code \in {"none", "in_progress"}
  /\ row.state \in TerminalStates => ~row.request /\ ~row.intent
  /\ row.state = "succeeded" => row.code = "execution_succeeded"
  /\ row.state = "failed" => row.code \in {"execution_failed", "authorization_released",
                                           "rejected", "gave_up", "not_started"}
  /\ row.void => row.code = "rejected" /\ ~row.exec /\ row.token
  /\ row.code = "not_started" => ~row.exec
  /\ row.decision = "none" => row.approval = "none"
  /\ row.decision = "needs_approval" => row.approval # "none"
  /\ row.dispatched => row.stored
  /\ row.stored /\ row.decision = "none" => row.intent
  /\ row.decision = "needs_approval" /\ row.approval # "denied" => row.intent

Allowed == {"allow", "approved"}

\* The row never says more than Hubu and the human decided.
Decided ==
  /\ verdict # "none" => op.dispatched
  /\ op.decision = "allow" => verdict \in Allowed
  /\ op.decision = "deny" => verdict \in {"deny", "denied"}
  /\ op.approval # "none" => verdict \in {"pending", "approved", "denied"}
  /\ op.approval = "approved" => verdict = "approved"
  /\ op.approval = "denied" => verdict = "denied"
  /\ token = "none" => verdict \notin Allowed
  /\ verdict \notin Allowed => token = "none"
  /\ planned => op.approval = "approved"

\* The row never says more than Gongbu's execution did, and nothing is under
\* way to Gongbu for a row that was not accepted.
Delivered ==
  /\ gongbu \in {"executing", "succeeded", "released"} => token = "claimed"
  /\ op.exec => gongbu # "none"
  /\ op.status \in FinalStatuses => op.status = gongbu
  /\ op.code = "execution_succeeded" => gongbu = "succeeded"
  /\ op.code = "execution_failed" => gongbu = "failed"
  /\ op.code = "authorization_released" => gongbu = "released"
  /\ op.published.outcome = "succeeded" => gongbu = "succeeded"
  /\ op.code = "rejected" /\ ~op.void => token # "live"
  /\ gongbu # "none" \/ stray => op.state # "none" /\ op.code # "not_started"

\* What worker w read or was told holds when it goes on, with its lease or
\* without.
StepInv(w) ==
  /\ worker[w].pc = "create" => op.state # "none" /\ op.code # "not_started"
  /\ worker[w].pc = "observe" => gongbu # "none"
  /\ worker[w].pc = "void" => op.decision = "allow"
  /\ worker[w].pc = "voided" => token \in {"claimed", "gone"}
  /\ worker[w].pc = "answered" /\ worker[w].reply \in GongbuStatuses =>
       /\ gongbu # "none"
       /\ worker[w].reply \in FinalStatuses => worker[w].reply = gongbu

Remembered ==
  /\ \A c \in calls : c.decision = "allow" => op.decision = "allow"
  /\ \A w \in Workers : StepInv(w)

RegistryInv == TypeOK /\ Lifecycle(op) /\ Decided /\ Delivered /\ Remembered

----------------------------------------------------------------------------
(* Types *)

\* The fields of a row and their sets.
LEMMA RowFields ==
  ASSUME NEW row \in Rows
  PROVE  /\ row.stored \in BOOLEAN /\ row.dispatched \in BOOLEAN
         /\ row.intent \in BOOLEAN /\ row.token \in BOOLEAN
         /\ row.request \in BOOLEAN /\ row.exec \in BOOLEAN
         /\ row.void \in BOOLEAN /\ row.lapsed \in BOOLEAN
         /\ row.decision \in Decisions /\ row.approval \in Approvals
         /\ row.status \in GongbuStatuses
         /\ row.state \in States /\ row.code \in Codes
         /\ row.dispatches \in 0..(DispatchLimit - 1)
         /\ row.misses \in 0..(ObservationLimit - 1)
         /\ row.reconciliations \in 0..(ReconciliationLimit - 1)
         /\ row.lease \in Workers \cup {None}
         /\ row.published \in Reports \cup {NoReport}
  BY DEF Rows

\* The states and codes that the updates write.
LEMMA Written ==
  /\ InHand \subseteq States /\ TerminalStates \subseteq States
  /\ {"accepted", "queued", "dispatching", "reconciling", "failed"} \subseteq States
  /\ {"in_progress", "rejected", "gave_up", "not_started"} \subseteq Codes
  BY DEF States, InHand, ActiveStates, TerminalStates, Codes

\* TypeOK in terms of rows and steps.
LEMMA Types ==
  TypeOK <=> /\ op \in Rows
             /\ worker \in [Workers -> Steps]
             /\ calls \subseteq Results
             /\ planned \in BOOLEAN
             /\ verdict \in {"none", "allow", "deny", "pending", "approved", "denied"}
             /\ token \in Service!GongbuTokens
             /\ gongbu \in GongbuStatuses
             /\ stray \in BOOLEAN
             /\ expired \in BOOLEAN
             /\ deadline \in BOOLEAN
  BY DEF TypeOK, Rows, Steps, Busy

\* Giving up the lease keeps the types.
LEMMA UnleasedType ==
  ASSUME NEW row \in Rows
  PROVE  Unleased(row) \in Rows
  BY Zenon DEF Rows, Unleased

\* A durable status that is terminal is a terminal state.
LEMMA ResultType ==
  ASSUME NEW row \in Rows, NEW outcome \in Outcomes
  PROVE  record_governed_result(row, outcome) \in Rows
<1>1. CASE durable_operation_status \in TerminalStates /\ row.published = NoReport
  <2>1. [outcome |-> outcome, state |-> durable_operation_status] \in Reports
    BY <1>1 DEF Reports
  <2> QED BY <1>1, <2>1, Zenon DEF record_governed_result, Rows
<1>2. CASE ~(durable_operation_status \in TerminalStates /\ row.published = NoReport)
  BY <1>2 DEF record_governed_result
<1> QED BY <1>1, <1>2

\* Ending a row before its execution keeps the types.
LEMMA NotStartedType ==
  ASSUME NEW row \in Rows
  PROVE  fail_pre_execution_operation(row) \in Rows
<1>1. [row EXCEPT !.state = "failed", !.code = "not_started", !.intent = FALSE,
                  !.request = FALSE] \in Rows
  BY Written, Zenon DEF Rows
<1> QED BY <1>1 DEF fail_pre_execution_operation

\* Acceptance keeps the types.
LEMMA AcceptedType ==
  ASSUME NEW row \in Rows
  PROVE  Accepted(row) \in Rows
<1> DEFINE q == IF row.exec \/ is_durable_terminal_state(row.state) THEN row.request ELSE TRUE
           s == IF row.state = "none" THEN "accepted" ELSE row.state
<1>1. q \in BOOLEAN /\ s \in States
  BY RowFields, Written
<1>2. Accepted(row) = [row EXCEPT !.request = q, !.state = s, !.intent = FALSE]
  BY DEF Accepted
<1> HIDE DEF q, s
<1>3. [row EXCEPT !.request = q, !.state = s, !.intent = FALSE] \in Rows
  BY <1>1, Zenon DEF Rows
<1> QED BY <1>2, <1>3

\* Giving a row up keeps the types.
LEMMA FailedType ==
  ASSUME NEW row \in Rows
  PROVE  fail_durable_operation(row) \in Rows
<1>1. [row EXCEPT !.state = "failed", !.code = "gave_up", !.request = FALSE] \in Rows
  BY Written, Zenon DEF Rows
<1> QED BY <1>1, UnleasedType DEF fail_durable_operation

\* Refusing a row keeps the types.
LEMMA RejectedType ==
  ASSUME NEW row \in Rows
  PROVE  reject_durable_admission(row) \in Rows
<1>1. [row EXCEPT !.state = "failed", !.code = "rejected", !.void = TRUE,
                  !.request = FALSE] \in Rows
  BY Written, Zenon DEF Rows
<1> QED BY <1>1, UnleasedType DEF reject_durable_admission

\* A retry counts one more attempt, below its limit.
LEMMA RetriedType ==
  ASSUME NEW row \in Rows,
         row.exec => row.misses + 1 < ObservationLimit,
         ~row.exec => row.dispatches + 1 < DispatchLimit
  PROVE  retry_durable_operation(row) \in Rows
<1> DEFINE s == IF row.exec THEN "reconciling" ELSE "queued"
           n == row.dispatches + (IF row.exec THEN 0 ELSE 1)
           m == row.misses + (IF row.exec THEN 1 ELSE 0)
<1>1. s \in States
  BY Written
<1>2. n \in 0..(DispatchLimit - 1) /\ m \in 0..(ObservationLimit - 1)
  BY RowFields, RegistryAssumption
<1>3. retry_durable_operation(row) =
        Unleased([row EXCEPT !.state = s, !.code = "in_progress", !.dispatches = n,
                             !.misses = m])
  BY DEF retry_durable_operation
<1> HIDE DEF s, n, m
<1>4. [row EXCEPT !.state = s, !.code = "in_progress", !.dispatches = n, !.misses = m] \in Rows
  BY <1>1, <1>2, Written, Zenon DEF Rows
<1> QED BY <1>3, <1>4, UnleasedType

\* Recording Gongbu's answer counts a request for reconciliation, below its
\* limit.
LEMMA RecordedType ==
  ASSUME NEW row \in Rows, NEW s \in GongbuStatuses
  PROVE  record_durable_lifecycle(row, s) \in Rows
<1> DEFINE seen == Unleased([row EXCEPT !.exec = TRUE, !.status = s, !.request = FALSE])
           ambiguous == s = "reconciliation_required"
           exhausted == ambiguous /\ row.reconciliations + 1 >= ReconciliationLimit
           p == public_terminal_projection(s)
           n == seen.reconciliations + (IF ambiguous THEN 1 ELSE 0)
<1>1. [row EXCEPT !.exec = TRUE, !.status = s, !.request = FALSE] \in Rows
  BY Zenon DEF Rows
<1>2. seen \in Rows
  BY <1>1, UnleasedType
<1>3. seen.reconciliations = row.reconciliations
  BY DEF Unleased, Rows
<1>4. p.state \in States /\ p.code \in Codes
  BY DEF public_terminal_projection, States, Codes, ActiveStates, TerminalStates
<1>5. ~exhausted => n \in 0..(ReconciliationLimit - 1)
  BY <1>3, RowFields, RegistryAssumption
<1>6. 0 \in 0..(ObservationLimit - 1)
  BY RegistryAssumption
<1>7. record_durable_lifecycle(row, s) =
        IF exhausted THEN [seen EXCEPT !.state = "failed", !.code = "gave_up"]
        ELSE [seen EXCEPT !.state = p.state, !.code = p.code, !.misses = 0,
                          !.reconciliations = n]
  BY DEF record_durable_lifecycle
<1> HIDE DEF seen, exhausted, p, n
<1>8. CASE exhausted
  <2>1. [seen EXCEPT !.state = "failed", !.code = "gave_up"] \in Rows
    BY <1>2, Written, Zenon DEF Rows
  <2> QED BY <1>7, <1>8, <2>1
<1>9. CASE ~exhausted
  <2>1. [seen EXCEPT !.state = p.state, !.code = p.code, !.misses = 0,
                     !.reconciliations = n] \in Rows
    BY <1>2, <1>4, <1>5, <1>6, <1>9, Zenon DEF Rows
  <2> QED BY <1>7, <1>9, <2>1
<1> QED BY <1>8, <1>9

\* A failed call is refused for good, retried or given up.
LEMMA FailureType ==
  ASSUME NEW row \in Rows, NEW r
  PROVE  record_call_failure(row, r) \in Rows
<1> DEFINE spent == IF row.exec THEN row.misses + 1 >= ObservationLimit
                    ELSE row.dispatches + 1 >= DispatchLimit
<1>1. \/ record_call_failure(row, r) = reject_durable_admission(row)
      \/ record_call_failure(row, r) = retry_durable_operation(row) /\ ~spent
      \/ record_call_failure(row, r) = fail_durable_operation(row)
  BY DEF record_call_failure
<1>2. ~spent => /\ row.exec => row.misses + 1 < ObservationLimit
                /\ ~row.exec => row.dispatches + 1 < DispatchLimit
  BY RowFields, RegistryAssumption
<1> QED BY <1>1, <1>2, RejectedType, RetriedType, FailedType

----------------------------------------------------------------------------
(* What the registry's transactions do to a row *)

USE DEF TerminalStates, ActiveStates, States, InHand, Decisions, Approvals, Allowed,
        FinalStatuses, GongbuStatuses, Service!FinalStatuses, Service!GongbuStatuses,
        Service!GongbuTokens, Codes, is_durable_terminal_state

\* The columns that say what was decided.
SameDecision(row, new) ==
  /\ new.stored = row.stored /\ new.dispatched = row.dispatched
  /\ new.decision = row.decision /\ new.approval = row.approval

\* The columns that say what became of the execution.
SameExecution(row, new) ==
  /\ new.exec = row.exec /\ new.status = row.status /\ new.void = row.void

\* Giving up the lease changes nothing else.
LEMMA UnleasedRow ==
  ASSUME NEW row \in Rows, Lifecycle(row)
  PROVE  /\ Lifecycle(Unleased(row))
         /\ SameDecision(row, Unleased(row)) /\ SameExecution(row, Unleased(row))
         /\ Unleased(row).state = row.state /\ Unleased(row).code = row.code
         /\ Unleased(row).published = row.published
  BY DEF Rows, Lifecycle, Unleased, SameDecision, SameExecution

\* Recording the composite call's result touches nothing else of the row, and
\* only the first result is recorded.
LEMMA ResultRow ==
  ASSUME NEW row \in Rows, Lifecycle(row), NEW outcome \in Outcomes
  PROVE  LET new == record_governed_result(row, outcome)
         IN  /\ Lifecycle(new)
             /\ SameDecision(row, new) /\ SameExecution(row, new)
             /\ new.state = row.state /\ new.code = row.code
             /\ new.published # row.published =>
                  /\ row.published = NoReport
                  /\ new.published.outcome = outcome
                  /\ durable_operation_status \in TerminalStates
  BY DEF Rows, Lifecycle, record_governed_result, SameDecision, SameExecution

\* A row that was allowed and not accepted can end without an execution; any
\* other stays as it is.
LEMMA NotStartedRow ==
  ASSUME NEW row \in Rows, Lifecycle(row), row.decision = "allow"
  PROVE  LET new == fail_pre_execution_operation(row)
         IN  /\ Lifecycle(new)
             /\ SameDecision(row, new) /\ SameExecution(row, new)
             /\ new.published = row.published
             /\ row.state # "none" => new = row
             /\ row.state = "none" => new.state = "failed" /\ new.code = "not_started"
  BY DEF Rows, Lifecycle, fail_pre_execution_operation, SameDecision, SameExecution

\* Accepting an allowed row with its continuation puts it in hand; accepting it
\* again changes nothing that matters.
LEMMA AcceptedRow ==
  ASSUME NEW row \in Rows, Lifecycle(row), row.decision = "allow", row.token
  PROVE  LET new == Accepted(row)
         IN  /\ Lifecycle(new)
             /\ SameDecision(row, new) /\ SameExecution(row, new)
             /\ new.published = row.published
             /\ new.code = row.code
             /\ new.state = IF row.state = "none" THEN "accepted" ELSE row.state
  BY DEF Rows, Lifecycle, Accepted, SameDecision, SameExecution

\* A row in hand that is given up has ended, and nothing can start it again.
LEMMA FailedRow ==
  ASSUME NEW row \in Rows, Lifecycle(row), row.state \in InHand
  PROVE  LET new == fail_durable_operation(row)
         IN  /\ Lifecycle(new)
             /\ SameDecision(row, new) /\ SameExecution(row, new)
             /\ new.published = row.published
             /\ new.state = "failed" /\ new.code = "gave_up"
  BY DEF Rows, Lifecycle, fail_durable_operation, Unleased, SameDecision, SameExecution

\* A refused admission ends the row and leaves the obligation to void it.
LEMMA RejectedRow ==
  ASSUME NEW row \in Rows, Lifecycle(row), row.state \in InHand, ~row.exec
  PROVE  LET new == reject_durable_admission(row)
         IN  /\ Lifecycle(new)
             /\ SameDecision(row, new)
             /\ new.exec = row.exec /\ new.status = row.status /\ new.void
             /\ new.published = row.published
             /\ new.state = "failed" /\ new.code = "rejected"
  BY DEF Rows, Lifecycle, reject_durable_admission, Unleased, SameDecision

\* A retried row stays in hand.
LEMMA RetriedRow ==
  ASSUME NEW row \in Rows, Lifecycle(row), row.state \in InHand
  PROVE  LET new == retry_durable_operation(row)
         IN  /\ Lifecycle(new)
             /\ SameDecision(row, new) /\ SameExecution(row, new)
             /\ new.published = row.published
             /\ new.state \in InHand /\ new.code = "in_progress"
  BY DEF Rows, Lifecycle, retry_durable_operation, Unleased, SameDecision, SameExecution

\* A failed call is refused for good, retried or given up: none of them claims
\* an end of the execution.
LEMMA FailureRow ==
  ASSUME NEW row \in Rows, Lifecycle(row), row.state \in InHand, NEW r
  PROVE  LET new == record_call_failure(row, r)
         IN  /\ Lifecycle(new)
             /\ SameDecision(row, new)
             /\ new.exec = row.exec /\ new.status = row.status
             /\ new.published = row.published
             /\ new.state # "none"
             /\ new.code \in {"in_progress", "rejected", "gave_up"}
             /\ new.code = "rejected" => new.void
<1>1. \/ record_call_failure(row, r) = reject_durable_admission(row) /\ ~row.exec
      \/ record_call_failure(row, r) = retry_durable_operation(row)
      \/ record_call_failure(row, r) = fail_durable_operation(row)
  BY DEF record_call_failure, definitive_unclaimed_rejection
<1> QED BY <1>1, RejectedRow, RetriedRow, FailedRow DEF SameExecution

\* What Gongbu answered becomes the row's state: final if the status is final,
\* given up if Gongbu asked for reconciliation too often.
LEMMA RecordedRow ==
  ASSUME NEW row \in Rows, Lifecycle(row), row.state \in InHand, NEW s \in GongbuStatuses
  PROVE  LET new == record_durable_lifecycle(row, s)
         IN  /\ Lifecycle(new)
             /\ SameDecision(row, new)
             /\ new.exec /\ new.status = s /\ ~new.void
             /\ new.published = row.published
             /\ new.state # "none"
             /\ new.code = "execution_succeeded" => s = "succeeded"
             /\ new.code = "execution_failed" => s = "failed"
             /\ new.code = "authorization_released" => s = "released"
             /\ new.code \notin {"rejected", "not_started"}
  BY DEF Rows, Lifecycle, record_durable_lifecycle, public_terminal_projection,
         Unleased, SameDecision

----------------------------------------------------------------------------
(* Steps *)

\* What no step takes back: a decision to allow, an accepted operation, an end
\* and a recorded result.
Continues(row, new) ==
  /\ row.decision = "allow" => new.decision = "allow"
  /\ row.state # "none" /\ row.code # "not_started" =>
       new.state # "none" /\ new.code # "not_started"
  /\ row.state \in TerminalStates => new.state = row.state /\ new.code = row.code
  /\ row.published # NoReport => new.published = row.published

\* What Hubu and Gongbu never take back.
BackendsContinue ==
  /\ gongbu # "none" => gongbu' # "none"
  /\ gongbu \in FinalStatuses => gongbu' = gongbu
  /\ token \in {"claimed", "gone"} => token' \in {"claimed", "gone"}

\* The steps of TerminalFinal and ReplayOnly.
TerminalStep ==
  /\ is_durable_terminal_state(op.state) =>
       /\ op'.state = op.state
       /\ op'.code = op.code
       /\ ~op'.request
       /\ ~op'.intent
  /\ op.published # NoReport => op'.published = op.published

ReplayStep ==
  op.decision = "needs_approval" /\ op'.decision # op.decision =>
    /\ op.approval = "approved"
    /\ planned
    /\ op'.state \in {"accepted", "failed"}

\* What a worker remembers stays true while the row and the backends go on.
LEMMA StepPersists ==
  ASSUME NEW w \in Workers, StepInv(w), worker'[w] = worker[w],
         Continues(op, op'), BackendsContinue
  PROVE  StepInv(w)'
  BY DEF StepInv, Continues, BackendsContinue

\* A transaction on the row, by a call or by the clock: it is enough that the
\* row stays well formed, goes on, and says no more than what is true.
LEMMA RowStep ==
  ASSUME RegistryInv, op' \in Rows, Lifecycle(op'), Continues(op, op'),
         Decided', Delivered',
         calls' \subseteq Results,
         \A c \in calls' : c \in calls \/ c.decision = op'.decision,
         planned' \in BOOLEAN,
         UNCHANGED <<worker, backends, time>>
  PROVE  RegistryInv' /\ TerminalStep
<1> USE DEF backends, time
<1>1. TypeOK'
  BY DEF RegistryInv, TypeOK, Rows, Steps, Busy
<1>2. BackendsContinue
  BY DEF BackendsContinue
<1>3. \A w \in Workers : StepInv(w)'
  BY <1>2, StepPersists DEF RegistryInv, Remembered
<1>4. \A c \in calls' : c.decision = "allow" => op'.decision = "allow"
  BY DEF RegistryInv, Remembered, Continues
<1>5. TerminalStep
  BY DEF TerminalStep, Continues, Lifecycle
<1> QED BY <1>1, <1>3, <1>4, <1>5 DEF RegistryInv, Remembered

\* A worker's transaction on the row; it forgets what it was doing.
LEMMA SettleStep ==
  ASSUME RegistryInv, NEW w \in Workers, op' \in Rows, Lifecycle(op'), Continues(op, op'),
         Decided', Delivered',
         worker' = [worker EXCEPT ![w] = Idle],
         UNCHANGED <<requests, backends, time>>
  PROVE  RegistryInv' /\ TerminalStep
<1> USE DEF requests, backends, time
<1>1. worker' \in [Workers -> Steps]
  BY Types DEF RegistryInv, Steps
<1>2. TypeOK'
  BY <1>1 DEF RegistryInv, TypeOK, Rows, Steps, Busy
<1>3. BackendsContinue
  BY DEF BackendsContinue
<1>4. ASSUME NEW v \in Workers PROVE StepInv(v)'
  <2>1. CASE v = w
    <3>1. worker'[v] = Idle
      BY <2>1, Types DEF RegistryInv
    <3> QED BY <3>1 DEF StepInv, Idle
  <2>2. CASE v # w
    <3>1. worker'[v] = worker[v]
      BY <2>2, Types DEF RegistryInv
    <3> QED BY <3>1, <1>3, StepPersists DEF RegistryInv, Remembered
  <2> QED BY <2>1, <2>2
<1>5. \A c \in calls' : c.decision = "allow" => op'.decision = "allow"
  BY DEF RegistryInv, Remembered, Continues
<1>6. TerminalStep
  BY DEF TerminalStep, Continues, Lifecycle
<1> QED BY <1>2, <1>4, <1>5, <1>6 DEF RegistryInv, Remembered

\* A worker's step that leaves the row alone.
LEMMA WorkerStep ==
  ASSUME RegistryInv, NEW w \in Workers, NEW st \in Steps,
         worker' = [worker EXCEPT ![w] = st],
         StepInv(w)', Decided', Delivered', BackendsContinue,
         token' \in Service!GongbuTokens, gongbu' \in GongbuStatuses, stray' \in BOOLEAN,
         UNCHANGED <<op, requests, verdict, time>>
  PROVE  RegistryInv' /\ TerminalStep
<1> USE DEF requests, backends, time
<1>1. worker' \in [Workers -> Steps]
  BY Types DEF RegistryInv
<1>2. TypeOK'
  BY <1>1 DEF RegistryInv, TypeOK, Rows, Steps, Busy
<1>3. Continues(op, op')
  BY DEF Continues
<1>4. ASSUME NEW v \in Workers PROVE StepInv(v)'
  <2>1. CASE v # w
    <3>1. worker'[v] = worker[v]
      BY <2>1, Types DEF RegistryInv
    <3> QED BY <3>1, <1>3, StepPersists DEF RegistryInv, Remembered
  <2> QED BY <2>1
<1>5. Lifecycle(op')
  BY DEF RegistryInv
<1>6. TerminalStep
  BY <1>3, <1>5 DEF TerminalStep, Continues, Lifecycle
<1> QED BY <1>2, <1>4, <1>5, <1>6 DEF RegistryInv, Remembered

\* A step of the environment.
LEMMA BackendStep ==
  ASSUME RegistryInv, Decided', Delivered', BackendsContinue, TypeOK',
         UNCHANGED <<op, worker, requests>>
  PROVE  RegistryInv' /\ TerminalStep
<1> USE DEF requests
<1>1. Continues(op, op')
  BY DEF Continues
<1>2. ASSUME NEW v \in Workers PROVE StepInv(v)'
  BY <1>1, StepPersists DEF RegistryInv, Remembered
<1>3. Lifecycle(op')
  BY DEF RegistryInv
<1>4. TerminalStep
  BY <1>1, <1>3 DEF TerminalStep, Continues, Lifecycle
<1> QED BY <1>2, <1>3, <1>4 DEF RegistryInv, Remembered

\* What was decided stays as it was.
LEMMA DecidedStep ==
  ASSUME Decided, SameDecision(op, op'), UNCHANGED <<verdict, token, planned>>
  PROVE  Decided'
  BY DEF Decided, SameDecision

\* What was delivered stays as it was, when the row's new code and result say
\* nothing about the execution.
LEMMA DeliveredStep ==
  ASSUME Delivered, SameExecution(op, op'), UNCHANGED backends,
         op'.code = op.code \/ op'.code \in {"none", "in_progress", "gave_up"},
         op'.published = op.published,
         op.state # "none" => op'.state # "none"
  PROVE  Delivered'
  BY DEF Delivered, SameExecution, backends

----------------------------------------------------------------------------
(* The original call and its redeliveries *)

\* A redelivered call gives a row its intent back only while it waits for a
\* decision.
LEMMA AllocateStep ==
  ASSUME RegistryInv, resolve_or_allocate
  PROVE  RegistryInv' /\ TerminalStep /\ ReplayStep
<1> DEFINE i == op.intent \/ /\ ~op.intent
                             /\ op.decision \notin {"allow", "deny"}
                             /\ ~is_durable_terminal_state(op.state)
<1>1. op \in Rows /\ Lifecycle(op)
  BY Types DEF RegistryInv
<1>2. op' = [op EXCEPT !.stored = TRUE, !.intent = i]
  BY DEF resolve_or_allocate
<1>3. op' \in Rows
  <2>1. i \in BOOLEAN
    OBVIOUS
  <2> HIDE DEF i
  <2> QED BY <1>1, <1>2, <2>1, Zenon DEF Rows
<1>4. Lifecycle(op')
  BY <1>1, <1>2 DEF Rows, Lifecycle
<1>5. /\ op'.dispatched = op.dispatched /\ op'.decision = op.decision
      /\ op'.approval = op.approval /\ op'.published = op.published
      /\ op'.state = op.state /\ op'.code = op.code
      /\ SameExecution(op, op')
  BY <1>1, <1>2 DEF Rows, SameExecution
<1>6. Continues(op, op') /\ ReplayStep
  BY <1>5 DEF Continues, ReplayStep
<1> USE DEF resolve_or_allocate, requests
<1>7. Decided'
  BY <1>5 DEF RegistryInv, Decided, backends
<1>8. Delivered'
  BY <1>5, DeliveredStep DEF RegistryInv
<1> QED BY <1>3, <1>4, <1>6, <1>7, <1>8, RowStep DEF RegistryInv, TypeOK

\* The dispatch to Hubu is marked before it is sent.
LEMMA DispatchStep ==
  ASSUME RegistryInv, mark_dispatch_started
  PROVE  RegistryInv' /\ TerminalStep /\ ReplayStep
<1>1. op \in Rows /\ Lifecycle(op)
  BY Types DEF RegistryInv
<1>2. op' = [op EXCEPT !.dispatched = TRUE] /\ op.stored
  BY DEF mark_dispatch_started
<1>3. op' \in Rows
  BY <1>1, <1>2, Zenon DEF Rows
<1>4. Lifecycle(op')
  BY <1>1, <1>2 DEF Rows, Lifecycle
<1>5. /\ op'.dispatched /\ op'.decision = op.decision
      /\ op'.approval = op.approval /\ op'.published = op.published
      /\ op'.state = op.state /\ op'.code = op.code
      /\ SameExecution(op, op')
  BY <1>1, <1>2 DEF Rows, SameExecution
<1>6. Continues(op, op') /\ ReplayStep
  BY <1>5 DEF Continues, ReplayStep
<1> USE DEF mark_dispatch_started, requests
<1>7. Decided'
  BY <1>5 DEF RegistryInv, Decided, backends
<1>8. Delivered'
  BY <1>5, DeliveredStep DEF RegistryInv
<1> QED BY <1>3, <1>4, <1>6, <1>7, <1>8, RowStep DEF RegistryInv, TypeOK

\* An answer of Hubu says what Hubu has decided so far.
LEMMA AnswerFacts ==
  ASSUME TypeOK, NEW a \in AnswersSoFar
  PROVE  /\ a \in Answers
         /\ verdict # "none"
         /\ a.decision = "allow" => verdict \in Allowed /\ (a.approval => verdict = "approved")
         /\ a.decision = "deny" => verdict \in {"deny", "denied"}
                                   /\ (a.approval => verdict = "denied")
         /\ a.decision = "needs_approval" =>
              a.approval /\ verdict \in {"pending", "approved", "denied"}
         /\ a.token => a.decision = "allow"
<1>1. PICK d \in DecisionsSoFar, t \in BOOLEAN : a = Answer(d, t)
  BY DEF AnswersSoFar
<1>2. /\ verdict \in {"allow", "deny", "pending", "approved", "denied"}
      /\ d \in {"pending", verdict}
      /\ d # verdict => verdict \in {"approved", "denied"}
  BY <1>1 DEF DecisionsSoFar, TypeOK
<1> QED BY <1>1, <1>2 DEF Answer, Answers

\* A row for which Hubu has decided and that has no decision yet still has its
\* intent.
LEMMA UndecidedRow ==
  ASSUME RegistryInv, verdict # "none", op.decision = "none"
  PROVE  /\ op.intent /\ op.approval = "none" /\ op.state = "none"
         /\ op.stored
  BY Types DEF RegistryInv, Lifecycle, Decided, Rows

\* The results that the row has had are results.
LEMMA RecordedCalls ==
  ASSUME RegistryInv, op' \in Rows, op'.decision # "none", Recorded
  PROVE  /\ calls' \subseteq Results
         /\ \A c \in calls' : c \in calls \/ c.decision = op'.decision
<1>1. op'.decision \in Decisions /\ op'.token \in BOOLEAN
  BY DEF Rows
<1> QED BY <1>1, Types DEF RegistryInv, Recorded, Results

\* The first decision is recorded with the approval it names.
LEMMA AuthorizationStep ==
  ASSUME RegistryInv, NEW a \in AnswersSoFar, record_authorization_result(a)
  PROVE  RegistryInv' /\ TerminalStep /\ ReplayStep
<1> DEFINE candidate == IF a.approval \/ op.approval # "none"
                        THEN approval_status_for_decision(a.decision) ELSE "none"
           p == monotonic_approval_status(op.approval, candidate)
           i == op.intent /\ a.decision # "deny"
<1>1. op \in Rows /\ Lifecycle(op)
  BY Types DEF RegistryInv
<1>2. /\ op.decision = "none"
      /\ op' = [op EXCEPT !.decision = a.decision, !.token = a.token, !.approval = p,
                          !.intent = i]
  BY DEF record_authorization_result
<1>3. /\ a \in Answers
      /\ verdict # "none"
      /\ a.decision = "allow" => verdict \in Allowed /\ (a.approval => verdict = "approved")
      /\ a.decision = "deny" => verdict \in {"deny", "denied"}
                                /\ (a.approval => verdict = "denied")
      /\ a.decision = "needs_approval" =>
           a.approval /\ verdict \in {"pending", "approved", "denied"}
      /\ a.token => a.decision = "allow"
  BY AnswerFacts DEF RegistryInv
<1>4. a.decision \in Decisions /\ a.decision # "none" /\ a.token \in BOOLEAN
  BY <1>3 DEF Answers
<1>5. op.intent /\ op.approval = "none" /\ op.state = "none" /\ op.stored
  BY <1>2, <1>3, UndecidedRow
<1>6. /\ p \in Approvals
      /\ p = "pending" => a.decision = "needs_approval"
      /\ p = "approved" => a.decision = "allow" /\ a.approval
      /\ p = "denied" => a.decision = "deny" /\ a.approval
      /\ a.decision = "needs_approval" => p = "pending"
  BY <1>3, <1>4, <1>5 DEF monotonic_approval_status, approval_status_for_decision
<1>7. i \in BOOLEAN /\ (i <=> a.decision # "deny")
  BY <1>1, <1>5 DEF Rows
<1> HIDE DEF p, i
<1>8. op' \in Rows
  <2> HIDE DEF Decisions, Approvals
  <2> QED BY <1>1, <1>2, <1>4, <1>6, <1>7, Zenon DEF Rows
<1>9. /\ op'.decision = a.decision /\ op'.approval = p
      /\ op'.intent = i /\ op'.token = a.token
      /\ op'.stored = op.stored /\ op'.dispatched = op.dispatched
      /\ op'.published = op.published /\ op'.request = op.request /\ op'.lease = op.lease
      /\ op'.state = op.state /\ op'.code = op.code
      /\ op'.exec = op.exec /\ op'.status = op.status /\ op'.void = op.void
  BY <1>1, <1>2 DEF Rows
<1>10. Lifecycle(op')
  BY <1>1, <1>3, <1>4, <1>5, <1>6, <1>7, <1>9 DEF Lifecycle
<1>11. Continues(op, op') /\ ReplayStep
  BY <1>2, <1>5, <1>9 DEF Continues, ReplayStep
<1> USE DEF record_authorization_result
<1>12. Decided'
  BY <1>3, <1>4, <1>5, <1>6, <1>9 DEF RegistryInv, Decided, backends
<1>13. Delivered'
  BY <1>9, DeliveredStep DEF RegistryInv, SameExecution
<1>14. /\ calls' \subseteq Results
       /\ \A c \in calls' : c \in calls \/ c.decision = op'.decision
  BY <1>4, <1>8, <1>9, RecordedCalls
<1> QED BY <1>8, <1>10, <1>11, <1>12, <1>13, <1>14, RowStep DEF RegistryInv, TypeOK

\* A call reports what its authorization and the operation's status say: never
\* a success.
LEMMA ReportStep ==
  ASSUME RegistryInv, NEW c \in Results, ReportAuthorization(c)
  PROVE  RegistryInv' /\ TerminalStep /\ ReplayStep
<1>1. op \in Rows /\ Lifecycle(op)
  BY Types DEF RegistryInv
<1>2. PICK o \in Outcomes \ {"succeeded"} : op' = record_governed_result(op, o)
  BY DEF ReportAuthorization, Results, Outcomes
<1>3. op' \in Rows
  BY <1>1, <1>2, ResultType
<1>4. /\ Lifecycle(op')
      /\ SameDecision(op, op') /\ SameExecution(op, op')
      /\ op'.state = op.state /\ op'.code = op.code
      /\ op'.published # op.published => /\ op.published = NoReport
                                         /\ op'.published.outcome = o
  BY <1>1, <1>2, ResultRow
<1>5. Continues(op, op') /\ ReplayStep
  BY <1>4 DEF Continues, ReplayStep, SameDecision
<1> USE DEF ReportAuthorization, requests
<1>6. Decided'
  BY <1>4, DecidedStep DEF RegistryInv, backends
<1>7. Delivered'
  BY <1>2, <1>4 DEF RegistryInv, Delivered, SameExecution, backends
<1> QED BY <1>3, <1>4, <1>5, <1>6, <1>7, RowStep DEF RegistryInv, TypeOK

\* A bound call reports the operation's end: a success is Gongbu's.
LEMMA WaitStep ==
  ASSUME RegistryInv, wait_for_terminal
  PROVE  RegistryInv' /\ TerminalStep /\ ReplayStep
<1>1. op \in Rows /\ Lifecycle(op)
  BY Types DEF RegistryInv
<1>2. op' = record_governed_result(op, op.state) /\ op.state \in Outcomes
  BY DEF wait_for_terminal, Outcomes
<1>3. op' \in Rows
  BY <1>1, <1>2, ResultType
<1>4. /\ Lifecycle(op')
      /\ SameDecision(op, op') /\ SameExecution(op, op')
      /\ op'.state = op.state /\ op'.code = op.code
      /\ op'.published # op.published => /\ op.published = NoReport
                                         /\ op'.published.outcome = op.state
  BY <1>1, <1>2, ResultRow
<1>5. op.state = "succeeded" => gongbu = "succeeded"
  BY <1>1 DEF RegistryInv, Lifecycle, Delivered
<1>6. Continues(op, op') /\ ReplayStep
  BY <1>4 DEF Continues, ReplayStep, SameDecision
<1> USE DEF wait_for_terminal, requests
<1>7. Decided'
  BY <1>4, DecidedStep DEF RegistryInv, backends
<1>8. Delivered'
  BY <1>4, <1>5 DEF RegistryInv, Delivered, SameExecution, backends
<1> QED BY <1>3, <1>4, <1>6, <1>7, <1>8, RowStep DEF RegistryInv, TypeOK

\* Only a continuation whose execution was not accepted is forgotten.
LEMMA RemoveStep ==
  ASSUME RegistryInv, remove_expired_authorization_identifiers
  PROVE  RegistryInv' /\ TerminalStep /\ ReplayStep
<1>1. op \in Rows /\ Lifecycle(op)
  BY Types DEF RegistryInv
<1>2. op' = [op EXCEPT !.token = FALSE] /\ op.token /\ op.state = "none"
  BY DEF remove_expired_authorization_identifiers
<1>3. op' \in Rows
  BY <1>1, <1>2, Zenon DEF Rows
<1>4. Lifecycle(op')
  BY <1>1, <1>2 DEF Rows, Lifecycle
<1>5. /\ SameDecision(op, op') /\ SameExecution(op, op')
      /\ op'.published = op.published
      /\ op'.state = op.state /\ op'.code = op.code
  BY <1>1, <1>2 DEF Rows, SameDecision, SameExecution
<1>6. Continues(op, op') /\ ReplayStep
  BY <1>5 DEF Continues, ReplayStep, SameDecision
<1> USE DEF remove_expired_authorization_identifiers
<1>7. Decided'
  BY <1>5, DecidedStep DEF RegistryInv, backends
<1>8. Delivered'
  BY <1>5, DeliveredStep DEF RegistryInv
<1>9. op'.decision # "none"
  BY <1>1, <1>2, <1>5 DEF Lifecycle, SameDecision
<1>10. /\ calls' \subseteq Results
       /\ \A c \in calls' : c \in calls \/ c.decision = op'.decision
  BY <1>3, <1>9, RecordedCalls
<1> QED BY <1>3, <1>4, <1>6, <1>7, <1>8, <1>10, RowStep DEF RegistryInv, TypeOK

\* A binding accepts the operation, reports its end, or ends it before it began.
LEMMA BindStep ==
  ASSUME RegistryInv, NEW c \in Results, resolve_gongbu_continuation(c)
  PROVE  RegistryInv' /\ TerminalStep /\ ReplayStep
<1>1. op \in Rows /\ Lifecycle(op)
  BY Types DEF RegistryInv
<1>2. op.decision = "allow"
  BY DEF RegistryInv, Remembered, resolve_gongbu_continuation
<1>3. \/ op' = Accepted(op) /\ op.token
      \/ op' = record_governed_result(op, "failed")
      \/ op' = fail_pre_execution_operation(op)
  BY <1>2 DEF resolve_gongbu_continuation
<1>4. "failed" \in Outcomes
  BY DEF Outcomes
<1>5. op' \in Rows
  BY <1>1, <1>3, <1>4, AcceptedType, ResultType, NotStartedType
<1> USE DEF resolve_gongbu_continuation, requests
<1>6. Decided' /\ Lifecycle(op') /\ ReplayStep
  <2>1. Lifecycle(op') /\ SameDecision(op, op')
    BY <1>1, <1>2, <1>3, <1>4, AcceptedRow, ResultRow, NotStartedRow
  <2> QED BY <2>1, DecidedStep DEF RegistryInv, backends, ReplayStep, SameDecision
<1>7. Continues(op, op') /\ Delivered'
  <2>1. CASE op' = Accepted(op) /\ op.token
    <3>1. /\ SameDecision(op, op') /\ SameExecution(op, op')
          /\ op'.published = op.published /\ op'.code = op.code
          /\ op'.state = IF op.state = "none" THEN "accepted" ELSE op.state
      BY <1>1, <1>2, <2>1, AcceptedRow
    <3>2. Delivered'
      BY <3>1, DeliveredStep DEF RegistryInv
    <3> QED BY <3>1, <3>2 DEF Continues, SameDecision
  <2>2. CASE op' = record_governed_result(op, "failed")
    <3>1. /\ SameDecision(op, op') /\ SameExecution(op, op')
          /\ op'.state = op.state /\ op'.code = op.code
          /\ op'.published # op.published => /\ op.published = NoReport
                                             /\ op'.published.outcome = "failed"
      BY <1>1, <1>4, <2>2, ResultRow
    <3>2. Delivered'
      BY <3>1 DEF RegistryInv, Delivered, SameExecution, backends
    <3> QED BY <3>1, <3>2 DEF Continues, SameDecision
  <2>3. CASE op' = fail_pre_execution_operation(op)
    <3>1. /\ SameDecision(op, op') /\ SameExecution(op, op')
          /\ op'.published = op.published
          /\ op.state # "none" => op' = op
          /\ op.state = "none" => op'.state = "failed" /\ op'.code = "not_started"
      BY <1>1, <1>2, <2>3, NotStartedRow
    <3>2. Delivered'
      BY <3>1 DEF RegistryInv, Delivered, SameExecution, backends
    <3> QED BY <3>1, <3>2 DEF Continues, SameDecision
  <2> QED BY <1>3, <2>1, <2>2, <2>3
<1> QED BY <1>5, <1>6, <1>7, RowStep DEF RegistryInv, TypeOK

----------------------------------------------------------------------------
(* Approval, resumption and observation by callers *)

\* An approval moves with what was decided about it, never against it.
LEMMA SynchronizeStep ==
  ASSUME RegistryInv, NEW s \in DecisionsSoFar, synchronize_approval_status(s)
  PROVE  RegistryInv' /\ TerminalStep /\ ReplayStep
<1> DEFINE e == monotonic_approval_status(op.approval,
                                          approval_status_for_decision(op.decision))
           p == monotonic_approval_status(e, s)
           i == op.intent /\ p # "denied"
<1>1. op \in Rows /\ Lifecycle(op)
  BY Types DEF RegistryInv
<1>2. op' = [op EXCEPT !.approval = p, !.intent = i] /\ op.approval # "none"
  BY DEF synchronize_approval_status
<1>3. /\ verdict \in {"pending", "approved", "denied"}
      /\ s \in {"pending", verdict}
      /\ op.approval \in {"pending", verdict}
      /\ op.decision = "allow" => verdict = "approved"
      /\ op.decision = "deny" => verdict = "denied"
      /\ op.decision \in {"allow", "deny", "needs_approval"}
  BY <1>1, <1>2 DEF RegistryInv, Decided, DecisionsSoFar, Rows, Lifecycle
<1>4. e \in {"pending", verdict} /\ (op.approval # "pending" => e = op.approval)
  BY <1>3 DEF monotonic_approval_status, approval_status_for_decision
<1> HIDE DEF e
<1>5. /\ p \in {"pending", verdict} /\ p \in Approvals
      /\ op.approval # "pending" => p = op.approval
  BY <1>3, <1>4 DEF monotonic_approval_status
<1> HIDE DEF p
<1>6. i \in BOOLEAN
  BY <1>1 DEF Rows
<1>7. op' \in Rows
  <2> HIDE DEF i, Approvals
  <2> QED BY <1>1, <1>2, <1>5, <1>6, Zenon DEF Rows
<1>8. /\ op'.approval = p /\ op'.intent = i
      /\ op'.decision = op.decision /\ op'.token = op.token
      /\ op'.stored = op.stored /\ op'.dispatched = op.dispatched
      /\ op'.published = op.published /\ op'.request = op.request /\ op'.lease = op.lease
      /\ op'.state = op.state /\ op'.code = op.code
      /\ op'.exec = op.exec /\ op'.status = op.status /\ op'.void = op.void
  <2> HIDE DEF i
  <2> QED BY <1>1, <1>2 DEF Rows
<1>9. Lifecycle(op')
  BY <1>1, <1>3, <1>5, <1>8 DEF Lifecycle
<1>10. Continues(op, op') /\ ReplayStep
  BY <1>8 DEF Continues, ReplayStep
<1> USE DEF synchronize_approval_status, requests
<1>11. Decided'
  BY <1>3, <1>5, <1>8 DEF RegistryInv, Decided, backends
<1>12. Delivered'
  BY <1>8, DeliveredStep DEF RegistryInv, SameExecution
<1> QED BY <1>7, <1>9, <1>10, <1>11, <1>12, RowStep DEF RegistryInv, TypeOK

\* An approved operation still has its intent, so the plan is dispatched.
LEMMA PrepareStep ==
  ASSUME RegistryInv, prepare_resume
  PROVE  RegistryInv' /\ TerminalStep /\ ReplayStep
<1> USE DEF prepare_resume
<1>1. op \in Rows /\ Lifecycle(op)
  BY Types DEF RegistryInv
<1>2. op.intent
  BY <1>1 DEF Lifecycle
<1>3. planned' = TRUE /\ UNCHANGED op
  BY <1>2
<1>4. Continues(op, op') /\ ReplayStep
  BY <1>3 DEF Continues, ReplayStep
<1>5. Decided'
  BY <1>3 DEF RegistryInv, Decided, backends
<1>6. Delivered'
  BY <1>3 DEF RegistryInv, Delivered, backends
<1> QED BY <1>1, <1>3, <1>4, <1>5, <1>6, RowStep DEF RegistryInv, TypeOK

\* The answer to a resumption is recorded while the operation was not accepted:
\* with a usable continuation it is accepted, else it ends before it began.
LEMMA ResumeStep ==
  ASSUME RegistryInv, NEW a \in Answers, complete_resume(a)
  PROVE  RegistryInv' /\ TerminalStep /\ ReplayStep
<1> DEFINE p == monotonic_approval_status(op.approval,
                                          approval_status_for_decision(a.decision))
           decided == [op EXCEPT !.decision = a.decision, !.approval = p]
           usable == a.token /\ ~expired
           ended == [decided EXCEPT !.token = FALSE, !.intent = FALSE,
                                    !.state = "failed", !.code = "not_started"]
           accepted == Accepted(decided)
<1>1. op \in Rows /\ Lifecycle(op)
  BY Types DEF RegistryInv
<1>2. /\ planned
      /\ op.decision \notin {"allow", "deny"} \/ op.state = "none"
      /\ a.decision = "allow"
      /\ usable => op.intent
      /\ op' = IF usable THEN [accepted EXCEPT !.token = TRUE] ELSE ended
  BY DEF complete_resume
<1>3. op.state = "none" /\ op.approval = "approved" /\ verdict = "approved"
  BY <1>1, <1>2 DEF Lifecycle, Rows, RegistryInv, Decided
<1>4. p = "approved"
  BY <1>2, <1>3 DEF monotonic_approval_status, approval_status_for_decision
<1> HIDE DEF p
<1>5. decided \in Rows
  <2>1. a.decision \in Decisions /\ p \in Approvals
    BY <1>2, <1>4
  <2> HIDE DEF Decisions, Approvals
  <2> QED BY <1>1, <2>1, Zenon DEF Rows
<1>6. /\ decided.decision = "allow" /\ decided.approval = "approved"
      /\ decided.token = op.token /\ decided.intent = op.intent
      /\ decided.stored = op.stored /\ decided.dispatched = op.dispatched
      /\ decided.published = op.published /\ decided.request = op.request
      /\ decided.lease = op.lease
      /\ decided.state = "none" /\ decided.code = op.code
      /\ decided.exec = op.exec /\ decided.status = op.status /\ decided.void = op.void
  BY <1>1, <1>2, <1>3, <1>4 DEF Rows
<1>7. ~op.exec /\ ~op.void /\ ~op.request /\ op.lease = None /\ op.code = "none"
      /\ op.status = "none"
  BY <1>1, <1>3 DEF Lifecycle
<1> HIDE DEF decided
<1>8. accepted \in Rows
  BY <1>5, AcceptedType
<1>9. /\ accepted.decision = "allow" /\ accepted.approval = "approved"
      /\ ~accepted.intent /\ accepted.request
      /\ accepted.stored = op.stored /\ accepted.dispatched = op.dispatched
      /\ accepted.published = op.published
      /\ accepted.lease = None
      /\ accepted.state = "accepted" /\ accepted.code = "none"
      /\ ~accepted.exec /\ accepted.status = "none" /\ ~accepted.void
  BY <1>5, <1>6, <1>7 DEF Accepted, Rows
<1> HIDE DEF accepted
<1>10. /\ op' \in Rows
       /\ op'.decision = "allow" /\ op'.approval = "approved"
       /\ ~op'.intent
       /\ op'.stored = op.stored /\ op'.dispatched = op.dispatched
       /\ op'.published = op.published
       /\ op'.lease = None
       /\ ~op'.exec /\ op'.status = "none" /\ ~op'.void
       /\ \/ op'.state = "accepted" /\ op'.code = "none" /\ op'.token /\ op'.request
          \/ op'.state = "failed" /\ op'.code = "not_started" /\ ~op'.request
  <2>1. CASE usable
    <3>1. op' = [accepted EXCEPT !.token = TRUE]
      BY <1>2, <2>1
    <3>2. op' \in Rows
      BY <1>8, <3>1, Zenon DEF Rows
    <3> QED BY <1>8, <1>9, <3>1, <3>2 DEF Rows
  <2>2. CASE ~usable
    <3>1. op' = ended
      BY <1>2, <2>2
    <3>2. op' \in Rows
      <4> HIDE DEF States, Codes
      <4> QED BY <1>5, <3>1, Written, Zenon DEF Rows
    <3> QED BY <1>5, <1>6, <1>7, <3>1, <3>2 DEF Rows
  <2> QED BY <2>1, <2>2
<1>11. Lifecycle(op')
  BY <1>1, <1>10 DEF Lifecycle
<1>12. Continues(op, op') /\ ReplayStep
  BY <1>2, <1>3, <1>10 DEF Continues, ReplayStep
<1> USE DEF complete_resume
<1>13. Decided'
  BY <1>3, <1>10 DEF RegistryInv, Decided, backends
<1>14. Delivered'
  BY <1>3, <1>10 DEF RegistryInv, Delivered, backends
<1>15. /\ calls' \subseteq Results
       /\ \A c \in calls' : c \in calls \/ c.decision = op'.decision
  BY <1>10, RecordedCalls
<1> QED BY <1>10, <1>11, <1>12, <1>13, <1>14, <1>15, RowStep DEF RegistryInv, TypeOK

\* A status that a caller may have read says nothing that is no longer true.
LEMMA SeenStatus ==
  ASSUME TypeOK, NEW s \in StatusesSoFar
  PROVE  /\ gongbu # "none" /\ s \in GongbuStatuses
         /\ s \in FinalStatuses => s = gongbu
  BY DEF TypeOK, StatusesSoFar

\* A caller's observation ends a row in hand the way Gongbu ended, and leaves
\* an ended one its end.
LEMMA ObservationStep ==
  ASSUME RegistryInv, NEW s \in GongbuStatuses, record_gongbu_lifecycle(s)
  PROVE  RegistryInv' /\ TerminalStep /\ ReplayStep
<1> DEFINE ended == is_durable_terminal_state(op.state)
           q == public_terminal_projection(s)
           st == IF ended /\ s \notin FinalStatuses THEN op.status ELSE s
           state == IF ended THEN op.state ELSE q.state
           code == IF ended THEN op.code ELSE q.code
           seen == [op EXCEPT !.exec = TRUE, !.request = FALSE, !.status = st,
                              !.state = state, !.code = code]
<1>1. op \in Rows /\ Lifecycle(op)
  BY Types DEF RegistryInv
<1>2. /\ op.exec /\ op.token /\ s \in StatusesSoFar
      /\ op' = seen \/ op' = Unleased(seen)
  BY DEF record_gongbu_lifecycle
<1>3. gongbu # "none" /\ (s \in FinalStatuses => s = gongbu)
  BY <1>2, SeenStatus DEF RegistryInv
<1>4. /\ q.state \in States /\ q.code \in Codes
      /\ q.state = "succeeded" => q.code = "execution_succeeded" /\ s = "succeeded"
      /\ q.state = "failed" => \/ q.code = "execution_failed" /\ s = "failed"
                               \/ q.code = "authorization_released" /\ s = "released"
      /\ q.state \notin TerminalStates => q.state = "reconciling" /\ q.code = "in_progress"
  BY DEF public_terminal_projection
<1> HIDE DEF q
<1>5. st \in GongbuStatuses /\ state \in States /\ code \in Codes
  BY <1>1, <1>4 DEF Rows
<1>6. seen \in Rows
  <2> HIDE DEF st, state, code, GongbuStatuses, States, Codes
  <2> QED BY <1>1, <1>5, Zenon DEF Rows
<1>7. /\ seen.exec /\ ~seen.request /\ seen.status = st /\ seen.state = state
      /\ seen.code = code
      /\ seen.decision = op.decision /\ seen.approval = op.approval
      /\ seen.stored = op.stored /\ seen.dispatched = op.dispatched
      /\ seen.published = op.published /\ seen.token = op.token
      /\ seen.intent = op.intent /\ seen.void = op.void /\ seen.lease = op.lease
  <2> HIDE DEF st, state, code
  <2> QED BY <1>1 DEF Rows
<1> HIDE DEF seen
<1>8. op.state # "none" /\ ~op.void /\ op.code # "not_started"
  BY <1>1, <1>2 DEF Lifecycle
<1>9. Lifecycle(seen)
  BY <1>1, <1>2, <1>4, <1>7, <1>8 DEF Lifecycle, Rows
<1>10. op' \in Rows /\ Lifecycle(op')
  BY <1>2, <1>6, <1>9, UnleasedType, UnleasedRow
<1>11. /\ op'.exec /\ op'.status = st /\ op'.state = state /\ op'.code = code
       /\ ~op'.void
       /\ SameDecision(op, op')
       /\ op'.published = op.published
  BY <1>2, <1>6, <1>7, <1>8, <1>9, UnleasedRow DEF SameDecision, SameExecution
<1>12. Continues(op, op') /\ ReplayStep
  BY <1>4, <1>8, <1>11 DEF Continues, ReplayStep, SameDecision
<1> USE DEF record_gongbu_lifecycle, requests
<1>13. Decided'
  BY <1>11, DecidedStep DEF RegistryInv, backends
<1>14. Delivered'
  BY <1>1, <1>3, <1>4, <1>8, <1>11 DEF RegistryInv, Delivered, backends, Rows
<1> QED BY <1>10, <1>12, <1>13, <1>14, RowStep DEF RegistryInv, TypeOK

----------------------------------------------------------------------------
(* The durable worker *)

\* An accepted row is queued.
LEMMA PromoteStep ==
  ASSUME RegistryInv, NEW w \in Workers, promote_accepted_operations(w)
  PROVE  RegistryInv' /\ TerminalStep /\ ReplayStep
<1>1. op \in Rows /\ Lifecycle(op)
  BY Types DEF RegistryInv
<1>2. op' = [op EXCEPT !.state = "queued"] /\ op.state = "accepted"
  BY DEF promote_accepted_operations
<1>3. op' \in Rows
  <2> HIDE DEF States
  <2> QED BY <1>1, <1>2, Written, Zenon DEF Rows
<1>4. Lifecycle(op')
  BY <1>1, <1>2 DEF Rows, Lifecycle
<1>5. /\ SameDecision(op, op') /\ SameExecution(op, op')
      /\ op'.published = op.published
      /\ op'.state = "queued" /\ op'.code = op.code
  BY <1>1, <1>2 DEF Rows, SameDecision, SameExecution
<1>6. Continues(op, op') /\ ReplayStep
  BY <1>2, <1>5 DEF Continues, ReplayStep, SameDecision
<1> USE DEF promote_accepted_operations, requests
<1>7. Decided'
  BY <1>5, DecidedStep DEF RegistryInv, backends
<1>8. Delivered'
  BY <1>5, DeliveredStep DEF RegistryInv
<1> QED BY <1>3, <1>4, <1>6, <1>7, <1>8, RowStep DEF RegistryInv, TypeOK

\* A worker that claims a row knows what it has to do; a row whose
\* authorization has to be voided stays ended.
LEMMA ClaimStep ==
  ASSUME RegistryInv, NEW w \in Workers, claim_due_operation(w)
  PROVE  RegistryInv' /\ TerminalStep /\ ReplayStep
<1> DEFINE s == CASE op.void -> "failed"
                  [] ~op.void /\ op.exec -> "reconciling"
                  [] OTHER -> "dispatching"
           pc == CASE op.void -> "void"
                   [] ~op.void /\ deadline -> "late"
                   [] ~op.void /\ ~deadline /\ op.exec -> "observe"
                   [] OTHER -> "create"
<1>1. op \in Rows /\ Lifecycle(op) /\ op.void \in BOOLEAN /\ op.exec \in BOOLEAN
      /\ deadline \in BOOLEAN
  BY Types, RowFields DEF RegistryInv
<1>2. /\ op' = [op EXCEPT !.state = s, !.lease = w, !.lapsed = FALSE]
      /\ worker' = [worker EXCEPT ![w] = [pc |-> pc]]
      /\ op.state \in ActiveStates \/ op.void
      /\ Claimable
      /\ UNCHANGED <<requests, backends, time>>
  BY DEF claim_due_operation, Due
<1>3. /\ op.void => s = "failed" /\ pc = "void"
      /\ ~op.void => s \in {"reconciling", "dispatching"}
      /\ ~op.void => pc \in {"late", "observe", "create"}
      /\ ~op.void /\ pc = "observe" => op.exec
  BY <1>1
<1>4. s \in States /\ [pc |-> pc] \in Steps
  <2>1. pc \in Busy
    BY <1>1, <1>3 DEF Busy
  <2> HIDE DEF pc
  <2> QED BY <1>1, <1>3, <2>1 DEF Steps
<1> HIDE DEF s, pc
<1>5. op' \in Rows
  <2> HIDE DEF States
  <2> QED BY <1>1, <1>2, <1>4, Zenon DEF Rows
<1>6. /\ SameDecision(op, op') /\ SameExecution(op, op')
      /\ op'.published = op.published
      /\ op'.state = s /\ op'.code = op.code /\ op'.request = op.request
      /\ op'.intent = op.intent /\ op'.token = op.token
  BY <1>1, <1>2 DEF Rows, SameDecision, SameExecution
<1>7. op.void => op.state = "failed"
  BY <1>1 DEF Lifecycle, Rows
<1>8. op.state # "none"
  BY <1>2, <1>7
<1>9. Lifecycle(op')
  BY <1>1, <1>2, <1>3, <1>6, <1>7 DEF Lifecycle, SameDecision, SameExecution
<1>10. Continues(op, op') /\ ReplayStep
  BY <1>1, <1>2, <1>3, <1>6, <1>7 DEF Continues, ReplayStep, SameDecision
<1>11. Decided'
  BY <1>2, <1>6, DecidedStep DEF RegistryInv, backends, requests
<1>12. Delivered'
  BY <1>2, <1>3, <1>6, DeliveredStep DEF RegistryInv
<1>13. op.decision = "allow" /\ (~op.void => op.code # "not_started")
  BY <1>1, <1>2, <1>8 DEF Lifecycle
<1>14. ASSUME NEW v \in Workers PROVE StepInv(v)'
  <2>1. CASE v = w
    <3>1. worker'[v] = [pc |-> pc]
      BY <1>2, <2>1, Types DEF RegistryInv
    <3>2. worker'[v].pc = pc
      BY <3>1
    <3>3. CASE op.void
      BY <1>3, <1>6, <1>13, <3>2, <3>3 DEF StepInv, SameDecision
    <3>4. CASE ~op.void
      BY <1>2, <1>3, <1>6, <1>13, <3>2, <3>4
      DEF StepInv, RegistryInv, Delivered, backends, SameDecision
    <3> QED BY <1>1, <3>3, <3>4
  <2>2. CASE v # w
    <3>1. worker'[v] = worker[v] /\ BackendsContinue
      BY <1>2, <2>2, Types DEF RegistryInv, BackendsContinue, backends
    <3> QED BY <1>10, <3>1, StepPersists DEF RegistryInv, Remembered
  <2> QED BY <2>1, <2>2
<1>15. worker' \in [Workers -> Steps]
  BY <1>2, <1>4, Types DEF RegistryInv
<1>16. TypeOK'
  BY <1>2, <1>5, <1>15 DEF RegistryInv, TypeOK, Rows, Steps, Busy, requests, backends, time
<1>17. Remembered'
  BY <1>2, <1>10, <1>14 DEF RegistryInv, Remembered, Continues, requests
<1>18. TerminalStep
  BY <1>9, <1>10 DEF TerminalStep, Continues, Lifecycle
<1> QED BY <1>9, <1>10, <1>11, <1>12, <1>16, <1>17, <1>18 DEF RegistryInv

\* A worker that still has its lease on a row that did not end has it in hand.
LEMMA HeldInHand ==
  ASSUME RegistryInv, NEW w \in Workers, Holds(w)
  PROVE  op \in Rows /\ Lifecycle(op) /\ op.state \in InHand
<1>1. op \in Rows /\ Lifecycle(op)
  BY Types DEF RegistryInv
<1> QED BY <1>1, RegistryAssumption DEF Holds, Lifecycle, Rows

\* A row in hand whose new code says nothing about the execution.
LEMMA InHandStep ==
  ASSUME RegistryInv, NEW w \in Workers, op.state \in InHand,
         op' \in Rows, Lifecycle(op'), SameDecision(op, op'),
         op'.published = op.published, op'.state # "none", op'.code # "not_started",
         Delivered',
         worker' = [worker EXCEPT ![w] = Idle],
         UNCHANGED <<requests, backends, time>>
  PROVE  RegistryInv' /\ TerminalStep /\ ReplayStep
<1>1. Continues(op, op') /\ ReplayStep
  BY DEF Continues, ReplayStep, SameDecision
<1>2. Decided'
  BY DecidedStep DEF RegistryInv, requests, backends
<1> QED BY <1>1, <1>2, SettleStep

\* A worker's step that finds the row out of its hands only forgets.
LEMMA ForgetStep ==
  ASSUME RegistryInv, NEW w \in Workers, op' = op,
         worker' = [worker EXCEPT ![w] = Idle],
         UNCHANGED <<requests, backends, time>>
  PROVE  RegistryInv' /\ TerminalStep /\ ReplayStep
<1>1. op \in Rows /\ Lifecycle(op)
  BY Types DEF RegistryInv
<1>2. Continues(op, op') /\ ReplayStep
  BY DEF Continues, ReplayStep
<1>3. Decided' /\ Delivered'
  BY DEF RegistryInv, Decided, Delivered, requests, backends
<1> QED BY <1>1, <1>2, <1>3, SettleStep

\* An operation past its deadline is given up.
LEMMA LateStep ==
  ASSUME RegistryInv, NEW w \in Workers, FailLate(w)
  PROVE  RegistryInv' /\ TerminalStep /\ ReplayStep
<1> USE DEF FailLate, Settle
<1>1. CASE ~Holds(w)
  BY <1>1, ForgetStep
<1>2. CASE Holds(w)
  <2>1. op' = fail_durable_operation(op) /\ op \in Rows /\ Lifecycle(op) /\ op.state \in InHand
    BY <1>2, HeldInHand
  <2>2. /\ op' \in Rows /\ Lifecycle(op')
        /\ SameDecision(op, op') /\ SameExecution(op, op')
        /\ op'.published = op.published
        /\ op'.state = "failed" /\ op'.code = "gave_up"
    BY <2>1, FailedType, FailedRow
  <2>3. Delivered'
    BY <2>2, DeliveredStep DEF RegistryInv
  <2> QED BY <2>1, <2>2, <2>3, InHandStep
<1> QED BY <1>1, <1>2

\* The answer to a worker is recorded only while it has its lease, and it is
\* Gongbu's if it is final.
LEMMA ReplyStep ==
  ASSUME RegistryInv, NEW w \in Workers, RecordReply(w)
  PROVE  RegistryInv' /\ TerminalStep /\ ReplayStep
<1> USE DEF RecordReply, Settle
<1> DEFINE r == worker[w].reply
<1>1. CASE ~Holds(w)
  BY <1>1, ForgetStep
<1>2. CASE Holds(w) /\ r \in GongbuStatuses
  <2>1. /\ op' = record_durable_lifecycle(op, r)
        /\ op \in Rows /\ Lifecycle(op) /\ op.state \in InHand
    BY <1>2, HeldInHand
  <2>2. gongbu # "none" /\ (r \in FinalStatuses => r = gongbu)
    BY <1>2 DEF RegistryInv, Remembered, StepInv
  <2>3. /\ op' \in Rows /\ Lifecycle(op')
        /\ SameDecision(op, op')
        /\ op'.exec /\ op'.status = r /\ ~op'.void
        /\ op'.published = op.published
        /\ op'.state # "none"
        /\ op'.code = "execution_succeeded" => r = "succeeded"
        /\ op'.code = "execution_failed" => r = "failed"
        /\ op'.code = "authorization_released" => r = "released"
        /\ op'.code \notin {"rejected", "not_started"}
    <3> HIDE DEF r
    <3> QED BY <1>2, <2>1, RecordedType, RecordedRow
  <2>4. Delivered'
    <3> HIDE DEF r
    <3> QED BY <2>2, <2>3 DEF RegistryInv, Delivered, backends
  <2> QED BY <2>1, <2>3, <2>4, InHandStep
<1>3. CASE Holds(w) /\ r \notin GongbuStatuses
  <2>1. /\ op' = record_call_failure(op, r)
        /\ op \in Rows /\ Lifecycle(op) /\ op.state \in InHand
    BY <1>3, HeldInHand
  <2>2. /\ op' \in Rows /\ Lifecycle(op')
        /\ SameDecision(op, op')
        /\ op'.exec = op.exec /\ op'.status = op.status
        /\ op'.published = op.published
        /\ op'.state # "none"
        /\ op'.code \in {"in_progress", "rejected", "gave_up"}
        /\ op'.code = "rejected" => op'.void
    BY <2>1, FailureType, FailureRow
  <2>3. Delivered'
    BY <2>2 DEF RegistryInv, Delivered, backends
  <2> QED BY <2>1, <2>2, <2>3, InHandStep
<1> QED BY <1>1, <1>2, <1>3

\* The obligation to void ends when Hubu no longer holds the authorization.
LEMMA FinishVoidStep ==
  ASSUME RegistryInv, NEW w \in Workers, finish_authorization_void(w)
  PROVE  RegistryInv' /\ TerminalStep /\ ReplayStep
<1> USE DEF finish_authorization_void, Settle
<1>1. CASE ~(op.lease = w /\ op.void)
  BY <1>1, ForgetStep
<1>2. CASE op.lease = w /\ op.void
  <2> DEFINE new == [op EXCEPT !.void = FALSE]
  <2>1. op \in Rows /\ Lifecycle(op) /\ op' = Unleased(new)
    BY <1>2, Types DEF RegistryInv
  <2>2. new \in Rows
    BY <2>1, Zenon DEF Rows
  <2>3. /\ SameDecision(op, new)
        /\ new.exec = op.exec /\ new.status = op.status /\ ~new.void
        /\ new.published = op.published
        /\ new.state = op.state /\ new.code = op.code
        /\ Lifecycle(new)
    BY <1>2, <2>1 DEF Rows, SameDecision, Lifecycle
  <2> HIDE DEF new
  <2>4. /\ op' \in Rows /\ Lifecycle(op')
        /\ SameDecision(op, op')
        /\ op'.exec = op.exec /\ op'.status = op.status /\ ~op'.void
        /\ op'.published = op.published
        /\ op'.state = op.state /\ op'.code = op.code
    BY <2>1, <2>2, <2>3, UnleasedType, UnleasedRow DEF SameDecision, SameExecution
  <2>5. token \in {"claimed", "gone"}
    BY DEF RegistryInv, Remembered, StepInv
  <2>6. Continues(op, op') /\ ReplayStep
    BY <2>4 DEF Continues, ReplayStep, SameDecision
  <2>7. Decided'
    BY <2>4, DecidedStep DEF RegistryInv, requests, backends
  <2>8. Delivered'
    BY <2>4, <2>5 DEF RegistryInv, Delivered, backends
  <2> QED BY <2>4, <2>6, <2>7, <2>8, SettleStep
<1> QED BY <1>1, <1>2

\* A create request returns the execution, admits a new one, or neither; it
\* never changes one.
LEMMA CreateFacts ==
  ASSUME RegistryInv, Create
  PROVE  /\ token' = token
         /\ gongbu' \in GongbuStatuses
         /\ gongbu' = gongbu \/ (gongbu = "none" /\ gongbu' = "pending")
  BY DEF Create, Service!Admit, RegistryInv, TypeOK

\* A create request for an accepted row keeps what was decided and delivered.
LEMMA CreateDelivers ==
  ASSUME RegistryInv, Create, op.state # "none", op.code # "not_started",
         stray' \in {stray, FALSE, TRUE},
         UNCHANGED <<op, requests, verdict>>
  PROVE  Decided' /\ Delivered' /\ BackendsContinue
<1>1. /\ token' = token
      /\ gongbu' = gongbu \/ (gongbu = "none" /\ gongbu' = "pending")
  BY CreateFacts
<1> QED BY <1>1 DEF RegistryInv, Decided, Delivered, BackendsContinue, requests

\* What a worker is told is an answer.
LEMMA AnsweredStep ==
  ASSUME NEW r \in Replies
  PROVE  [pc |-> "answered", reply |-> r] \in Steps
  BY DEF Steps

\* A worker's create request: an answer with a status is Gongbu's.
LEMMA CreateStep ==
  ASSUME RegistryInv, NEW w \in Workers, create_durable_execution(w)
  PROVE  RegistryInv' /\ TerminalStep /\ ReplayStep
<1> USE DEF create_durable_execution
<1>1. PICK r \in {gongbu', "invalid", "permanent", "transient"} :
        Ask(w, r) /\ (r \in GongbuStatuses => r = gongbu' /\ gongbu' # "none")
  OBVIOUS
<1>2. op.state # "none" /\ op.code # "not_started"
  BY DEF RegistryInv, Remembered, StepInv
<1>3. Decided' /\ Delivered' /\ BackendsContinue
  BY <1>2, CreateDelivers
<1>4. token' = token /\ gongbu' \in GongbuStatuses
  BY CreateFacts
<1>5. r \in Replies
  BY <1>1, <1>4 DEF Replies
<1> DEFINE st == [pc |-> "answered", reply |-> r]
<1>6. st \in Steps
  BY <1>5, AnsweredStep
<1>7. worker' = [worker EXCEPT ![w] = st]
  BY <1>1 DEF Ask
<1>8. worker'[w] = st
  BY <1>7, Types DEF RegistryInv
<1>9. StepInv(w)'
  BY <1>1, <1>8 DEF StepInv
<1>10. ReplayStep
  BY DEF ReplayStep
<1>11. token' \in Service!GongbuTokens /\ stray' \in BOOLEAN
  BY <1>4 DEF RegistryInv, TypeOK
<1> HIDE DEF st
<1> QED BY <1>3, <1>4, <1>6, <1>7, <1>9, <1>10, <1>11, WorkerStep

\* A worker that gives up waiting leaves its request under way.
LEMMA TimeoutStep ==
  ASSUME RegistryInv, NEW w \in Workers, CreateTimesOut(w)
  PROVE  RegistryInv' /\ TerminalStep /\ ReplayStep
<1> USE DEF CreateTimesOut
<1> DEFINE st == [pc |-> "answered", reply |-> "transient"]
<1>1. st \in Steps
  BY AnsweredStep DEF Replies
<1>2. worker' = [worker EXCEPT ![w] = st]
  BY DEF Ask
<1>3. worker'[w] = st
  BY <1>2, Types DEF RegistryInv
<1>4. StepInv(w)'
  BY <1>3 DEF StepInv
<1>5. op.state # "none" /\ op.code # "not_started"
  BY DEF RegistryInv, Remembered, StepInv
<1>6. Decided' /\ Delivered' /\ BackendsContinue
  BY <1>5 DEF RegistryInv, Decided, Delivered, BackendsContinue, requests
<1>7. token' \in Service!GongbuTokens /\ gongbu' \in GongbuStatuses /\ stray' \in BOOLEAN
  BY DEF RegistryInv, TypeOK
<1>8. ReplayStep
  BY DEF ReplayStep
<1> HIDE DEF st
<1> QED BY <1>1, <1>2, <1>4, <1>6, <1>7, <1>8, WorkerStep

\* A worker's observation tells Gongbu's status.
LEMMA ObserveStep ==
  ASSUME RegistryInv, NEW w \in Workers, observe_durable_execution(w)
  PROVE  RegistryInv' /\ TerminalStep /\ ReplayStep
<1> USE DEF observe_durable_execution, backends
<1>1. PICK r \in {gongbu, "transient", "permanent"} : Ask(w, r)
  OBVIOUS
<1>2. gongbu # "none"
  BY DEF RegistryInv, Remembered, StepInv
<1>3. r \in Replies
  BY <1>1, <1>2 DEF Replies, RegistryInv, TypeOK
<1> DEFINE st == [pc |-> "answered", reply |-> r]
<1>4. st \in Steps
  BY <1>3, AnsweredStep
<1>5. worker' = [worker EXCEPT ![w] = st]
  BY <1>1 DEF Ask
<1>6. worker'[w] = st
  BY <1>5, Types DEF RegistryInv
<1>7. StepInv(w)'
  BY <1>1, <1>2, <1>6 DEF StepInv
<1>8. Decided' /\ Delivered' /\ BackendsContinue
  BY DEF RegistryInv, Decided, Delivered, BackendsContinue, requests
<1>9. token' \in Service!GongbuTokens /\ gongbu' \in GongbuStatuses /\ stray' \in BOOLEAN
  BY DEF RegistryInv, TypeOK
<1>10. ReplayStep
  BY DEF ReplayStep
<1> HIDE DEF st
<1> QED BY <1>4, <1>5, <1>7, <1>8, <1>9, <1>10, WorkerStep

\* Voiding leaves no live authorization behind; a lost call may have voided it
\* or not.
LEMMA VoidStep ==
  ASSUME RegistryInv, NEW w \in Workers, void_rejected_authorization(w) \/ VoidLost(w)
  PROVE  RegistryInv' /\ TerminalStep /\ ReplayStep
<1> USE DEF void_rejected_authorization, VoidLost
<1> DEFINE voided == IF token = "live" THEN "gone" ELSE token
<1>1. op.decision = "allow"
  BY DEF RegistryInv, Remembered, StepInv
<1>2. token \in {"live", "claimed", "gone"} /\ voided \in {"claimed", "gone"}
  BY <1>1 DEF RegistryInv, Decided, TypeOK
<1>3. token' \in {token, voided}
  OBVIOUS
<1>4. /\ token' \in {"live", "claimed", "gone"}
      /\ token' = "live" => token = "live"
      /\ token = "claimed" => token' = "claimed"
      /\ token = "gone" => token' = "gone"
  BY <1>2, <1>3
<1>5. Decided' /\ Delivered' /\ BackendsContinue
  BY <1>1, <1>2, <1>4 DEF RegistryInv, Decided, Delivered, BackendsContinue, requests
<1>6. PICK st \in {Idle, [pc |-> "voided"]} :
        /\ worker' = [worker EXCEPT ![w] = st]
        /\ st # Idle => token' = voided
  BY DEF Idle
<1>7. st \in Steps
  BY DEF Steps, Busy
<1>8. worker'[w] = st
  BY <1>6, Types DEF RegistryInv
<1>9. StepInv(w)'
  BY <1>2, <1>6, <1>8 DEF StepInv, Idle
<1>10. token' \in Service!GongbuTokens /\ gongbu' \in GongbuStatuses /\ stray' \in BOOLEAN
  BY <1>4 DEF RegistryInv, TypeOK
<1>11. ReplayStep
  BY DEF ReplayStep
<1> QED BY <1>5, <1>6, <1>7, <1>9, <1>10, <1>11, WorkerStep

\* A router process stops; a create request it sent may still arrive.
LEMMA CrashStep ==
  ASSUME RegistryInv, NEW w \in Workers, Crash(w)
  PROVE  RegistryInv' /\ TerminalStep /\ ReplayStep
<1> USE DEF Crash
<1>1. Idle \in Steps
  BY DEF Steps
<1>2. worker'[w] = Idle
  BY Types DEF RegistryInv
<1>3. StepInv(w)'
  BY <1>2 DEF StepInv, Idle
<1>4. worker[w].pc = "create" => op.state # "none" /\ op.code # "not_started"
  BY DEF RegistryInv, Remembered, StepInv
<1>5. Decided' /\ Delivered' /\ BackendsContinue
  BY <1>4 DEF RegistryInv, Decided, Delivered, BackendsContinue, requests
<1>6. token' \in Service!GongbuTokens /\ gongbu' \in GongbuStatuses /\ stray' \in BOOLEAN
  BY DEF RegistryInv, TypeOK
<1>7. ReplayStep
  BY DEF ReplayStep
<1> QED BY <1>1, <1>3, <1>5, <1>6, <1>7, WorkerStep

----------------------------------------------------------------------------
(* Hubu, the human, Gongbu and the clock *)

\* Hubu and a human decide once, and a token is issued only for what they allow.
LEMMA DecisionStep ==
  ASSUME RegistryInv, Authorize \/ HumanResolves
  PROVE  RegistryInv' /\ TerminalStep /\ ReplayStep
<1> USE DEF Authorize, HumanResolves, Service!Issue, requests
<1>1. verdict \in {"none", "pending"} /\ token = "none"
  BY DEF RegistryInv, Decided
<1>2. /\ verdict' \in {"allow", "deny", "pending", "approved", "denied"}
      /\ verdict' \in Allowed => token' = "live"
      /\ verdict' \notin Allowed => token' = "none"
      /\ verdict = "pending" => verdict' \in {"approved", "denied"}
      /\ gongbu' = gongbu
  BY <1>1
<1>3. op.decision # "allow" /\ op.state = "none"
  BY <1>1 DEF RegistryInv, Decided, Lifecycle
<1>4. /\ op.decision # "deny"
      /\ op.approval \notin {"approved", "denied"}
      /\ verdict = "none" => op.approval = "none"
      /\ op.dispatched
  BY <1>1 DEF RegistryInv, Decided
<1>5. op.code = "none"
  BY <1>3 DEF RegistryInv, Lifecycle
<1>6. Decided'
  BY <1>1, <1>2, <1>3, <1>4 DEF RegistryInv, Decided
<1>7. Delivered'
  BY <1>1, <1>2, <1>3, <1>5 DEF RegistryInv, Delivered
<1>8. BackendsContinue
  BY <1>1, <1>2 DEF BackendsContinue
<1>9. TypeOK'
  BY <1>2 DEF RegistryInv, TypeOK, time
<1>10. ReplayStep
  BY DEF ReplayStep
<1> QED BY <1>6, <1>7, <1>8, <1>9, <1>10, BackendStep

\* An authorization that nobody claimed is swept, or claimed by the execution.
LEMMA TokenStep ==
  ASSUME RegistryInv, HubuSweeps \/ GongbuClaims
  PROVE  RegistryInv' /\ TerminalStep /\ ReplayStep
<1> USE DEF HubuSweeps, GongbuClaims, Service!Retire, Service!Claim, requests
<1>1. token = "live" /\ token' \in {"claimed", "gone"} /\ gongbu' = gongbu
  OBVIOUS
<1>2. Decided'
  BY <1>1 DEF RegistryInv, Decided
<1>3. Delivered'
  BY <1>1 DEF RegistryInv, Delivered
<1>4. BackendsContinue
  BY <1>1 DEF BackendsContinue
<1>5. TypeOK'
  BY <1>1 DEF RegistryInv, TypeOK, time
<1>6. ReplayStep
  BY DEF ReplayStep
<1> QED BY <1>2, <1>3, <1>4, <1>5, <1>6, BackendStep

\* Gongbu's execution goes on; it never leaves a final status.
LEMMA ProgressStep ==
  ASSUME RegistryInv, GongbuWorks
  PROVE  RegistryInv' /\ TerminalStep /\ ReplayStep
<1> USE DEF GongbuWorks, requests
<1>1. /\ gongbu \in {"pending", "executing", "reconciliation_required"}
      /\ gongbu' \in {"executing", "failed", "reconciliation_required", "succeeded",
                      "released"}
      /\ gongbu' \in {"executing", "succeeded", "released"} => token = "claimed"
      /\ token' = token
  BY DEF Service!Progress, Service!Begin, Service!Fail, Service!Hold, Service!Reopen,
         Service!End
<1>2. Decided'
  BY <1>1 DEF RegistryInv, Decided
<1>3. Delivered'
  BY <1>1 DEF RegistryInv, Delivered
<1>4. BackendsContinue
  BY <1>1 DEF BackendsContinue
<1>5. TypeOK'
  BY <1>1 DEF RegistryInv, TypeOK, time
<1>6. ReplayStep
  BY DEF ReplayStep
<1> QED BY <1>2, <1>3, <1>4, <1>5, <1>6, BackendStep

\* A create request nobody waits for arrives: its operation was accepted.
LEMMA StrayStep ==
  ASSUME RegistryInv, StrayCreateArrives
  PROVE  RegistryInv' /\ TerminalStep /\ ReplayStep
<1> USE DEF StrayCreateArrives
<1>1. op.state # "none" /\ op.code # "not_started"
  BY DEF RegistryInv, Delivered
<1>2. Decided' /\ Delivered' /\ BackendsContinue
  BY <1>1, CreateDelivers
<1>3. token' = token /\ gongbu' \in GongbuStatuses
  BY CreateFacts
<1>4. TypeOK'
  <2>1. token' \in Service!GongbuTokens /\ stray' \in BOOLEAN
    BY <1>3 DEF RegistryInv, TypeOK
  <2>2. UNCHANGED <<op, worker, calls, planned, verdict, expired, deadline>>
    BY DEF requests, time
  <2> HIDE DEF GongbuStatuses, Service!GongbuTokens, StrayCreateArrives
  <2> QED BY <1>3, <2>1, <2>2 DEF RegistryInv, TypeOK
<1>5. ReplayStep
  BY DEF ReplayStep
<1> QED BY <1>2, <1>4, <1>5, BackendStep

\* The clock: an authorization's window or the operation's deadline passes.
LEMMA ClockStep ==
  ASSUME RegistryInv, AuthorizationExpires \/ DeadlinePasses
  PROVE  RegistryInv' /\ TerminalStep /\ ReplayStep
<1> USE DEF AuthorizationExpires, DeadlinePasses, requests, backends
<1>1. Decided' /\ Delivered' /\ BackendsContinue
  BY DEF RegistryInv, Decided, Delivered, BackendsContinue
<1>2. TypeOK'
  BY DEF RegistryInv, TypeOK
<1>3. ReplayStep
  BY DEF ReplayStep
<1> QED BY <1>1, <1>2, <1>3, BackendStep

\* A lease runs out; the row keeps it until another worker claims.
LEMMA LeaseStep ==
  ASSUME RegistryInv, LeaseExpires
  PROVE  RegistryInv' /\ TerminalStep /\ ReplayStep
<1>1. op \in Rows /\ Lifecycle(op)
  BY Types DEF RegistryInv
<1>2. op' = [op EXCEPT !.lapsed = TRUE]
  BY DEF LeaseExpires
<1>3. op' \in Rows
  BY <1>1, <1>2, Zenon DEF Rows
<1>4. Lifecycle(op')
  BY <1>1, <1>2 DEF Rows, Lifecycle
<1>5. /\ SameDecision(op, op') /\ SameExecution(op, op')
      /\ op'.published = op.published
      /\ op'.state = op.state /\ op'.code = op.code
  BY <1>1, <1>2 DEF Rows, SameDecision, SameExecution
<1>6. Continues(op, op') /\ ReplayStep
  BY <1>5 DEF Continues, ReplayStep, SameDecision
<1> USE DEF LeaseExpires, requests
<1>7. Decided'
  BY <1>5, DecidedStep DEF RegistryInv, backends
<1>8. Delivered'
  BY <1>5, DeliveredStep DEF RegistryInv
<1> QED BY <1>3, <1>4, <1>6, <1>7, <1>8, RowStep DEF RegistryInv, TypeOK

----------------------------------------------------------------------------
(* The theorems *)

\* Initially nothing is stored and nobody has asked.
LEMMA InitiallyInv == Init => RegistryInv
<1> SUFFICES ASSUME Init PROVE RegistryInv
  OBVIOUS
<1>1. op \in Rows
  BY RegistryAssumption DEF Init, NoRow, Rows, NoReport
<1>2. TypeOK
  BY <1>1, Types DEF Init, Steps
<1>3. Lifecycle(op)
  BY DEF Init, NoRow, Lifecycle
<1>4. Decided
  BY DEF Init, NoRow, Decided
<1>5. Delivered
  BY DEF Init, NoRow, NoReport, Delivered
<1>6. Remembered
  BY DEF Init, Idle, Remembered, StepInv
<1> QED BY <1>2, <1>3, <1>4, <1>5, <1>6 DEF RegistryInv

\* Every step keeps the invariant, ends nothing twice and changes a recorded
\* needs_approval only by a resumption.
LEMMA NextStep ==
  ASSUME RegistryInv, [Next]_vars
  PROVE  RegistryInv' /\ [TerminalStep /\ ReplayStep]_vars
<1>1. CASE OriginalCall
  BY <1>1, AllocateStep, DispatchStep, AuthorizationStep, ReportStep, RemoveStep, BindStep,
     WaitStep DEF OriginalCall
<1>2. CASE Approval
  BY <1>2, SynchronizeStep, PrepareStep, ResumeStep DEF Approval
<1>3. CASE Observation
  BY <1>3, ObservationStep DEF Observation
<1>4. CASE \E w \in Workers : Work(w) \/ Crash(w)
  BY <1>4, PromoteStep, ClaimStep, LateStep, CreateStep, TimeoutStep, ObserveStep,
     ReplyStep, VoidStep, FinishVoidStep, CrashStep DEF Work
<1>5. CASE Environment
  BY <1>5, StrayStep, DecisionStep, ClockStep, TokenStep, ProgressStep, LeaseStep
  DEF Environment
<1>6. CASE UNCHANGED vars
  <2>1. TypeOK'
    BY <1>6 DEF RegistryInv, TypeOK, vars
  <2>2. Lifecycle(op') /\ Decided' /\ Delivered'
    BY <1>6 DEF RegistryInv, Decided, Delivered, vars
  <2>3. Remembered'
    BY <1>6 DEF RegistryInv, Remembered, StepInv, vars
  <2> QED BY <1>6, <2>1, <2>2, <2>3 DEF RegistryInv
<1> QED BY <1>1, <1>2, <1>3, <1>4, <1>5, <1>6 DEF Next

\* The router's invariant holds in every reachable state, for any number of
\* worker processes on the registry file and any retry limits.
THEOREM RegistryInvariance == Spec => []RegistryInv
<1>1. Init => RegistryInv
  BY InitiallyInv
<1>2. RegistryInv /\ [Next]_vars => RegistryInv'
  BY NextStep
<1> QED BY <1>1, <1>2, PTL DEF Spec

\* The row, the workers, the calls and the backends are well typed; in
\* particular no retry counter passes its limit.
THEOREM TypeCorrect == Spec => []TypeOK
<1>1. RegistryInv => TypeOK
  BY DEF RegistryInv
<1> QED BY <1>1, RegistryInvariance, PTL

\* What the registry and the composite call say about an execution is what
\* Gongbu's execution did, in every order of the answers to workers and callers.
THEOREM RegistryTellsTheTruth == Spec => []OutcomeIsGongbus
<1>1. RegistryInv => OutcomeIsGongbus
  BY DEF RegistryInv, Lifecycle, Delivered, OutcomeIsGongbus
<1> QED BY <1>1, RegistryInvariance, PTL

\* An operation that was not allowed, was denied, or failed before it was
\* accepted never reaches Gongbu.
THEOREM NothingUnapprovedStarts == Spec => []NeverStarted
<1>1. RegistryInv => NeverStarted
  BY DEF RegistryInv, Lifecycle, Decided, Delivered, Remembered, StepInv, NeverStarted, Posted
<1> QED BY <1>1, RegistryInvariance, PTL

\* Every row the worker finds due can be claimed, and an approved operation
\* still has the intent to resume.
THEOREM NoRowIsStuck == Spec => []NoPoisonRow
<1>1. ASSUME RegistryInv PROVE NoPoisonRow
  <2>1. op \in Rows /\ Lifecycle(op)
    BY <1>1, Types DEF RegistryInv
  <2>2. op.state \in {"accepted"} \cup ActiveStates \/ op.void => Claimable
    BY <2>1 DEF Lifecycle, Claimable
  <2>3. ASSUME durable_operation_status = "resume_required" PROVE op.intent
    <3>1. op.state = "none"
      BY <2>1, <2>3 DEF durable_operation_status, Rows
    <3>2. op.decision = "needs_approval" /\ op.approval = "approved"
      BY <2>1, <2>3, <3>1 DEF durable_operation_status, pre_execution_projection, Rows
    <3> QED BY <2>1, <3>2 DEF Lifecycle
  <2> QED BY <2>2, <2>3 DEF NoPoisonRow
<1> QED BY <1>1, RegistryInvariance, PTL

\* When the obligation to void a refused operation's authorization has ended,
\* Hubu no longer holds its budget.
THEOREM RefusedBudgetReturns == Spec => []RefusedIsVoided
<1>1. RegistryInv => RefusedIsVoided
  BY DEF RegistryInv, Delivered, RefusedIsVoided
<1> QED BY <1>1, RegistryInvariance, PTL

\* An operation's end and the first recorded result are final, whatever workers
\* without their lease, late observations and redelivered calls still write.
THEOREM EndsAreFinal == Spec => TerminalFinal
<1>1. RegistryInv /\ [Next]_vars => [TerminalStep]_vars
  BY NextStep
<1> QED BY <1>1, RegistryInvariance, PTL DEF Spec, TerminalFinal, TerminalStep

\* A recorded needs_approval changes only by the answer to a resumption of an
\* approved request, which accepts or ends the operation in the same step.
THEOREM ApprovalIsReplayOnly == Spec => ReplayOnly
<1>1. RegistryInv /\ [Next]_vars => [ReplayStep]_vars
  BY NextStep
<1> QED BY <1>1, RegistryInvariance, PTL DEF Spec, ReplayOnly, ReplayStep


=============================================================================
