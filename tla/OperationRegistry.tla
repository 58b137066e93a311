------------------------- MODULE OperationRegistry -------------------------
(***************************************************************************)
(* The unified MCP router: one governed operation, from the harness call   *)
(* through Hubu's decision, a human approval and its resumption, to the    *)
(* durable worker that creates and observes the Gongbu execution.  Several *)
(* router processes share the registry file; each has a worker.            *)
(*                                                                         *)
(* A tool call is anonymous here: there is any number of concurrent,       *)
(* redelivered and arbitrarily slow calls.  A result that the row has had  *)
(* may have been read by a call that goes on at any later time; an answer  *)
(* of Hubu is any answer it could have given so far.                       *)
(* Workers have identities because leases do.                              *)
(*                                                                         *)
(* Hubu is an environment (SpendGovernance has its details); Gongbu does   *)
(* what GongbuService promises and GongbuExecution implements.             *)
(***************************************************************************)
EXTENDS Naturals

CONSTANTS
  Workers,              \* the router processes' workers
  None,                 \* no lease
  DispatchLimit,        \* DISPATCH_RETRY_LIMIT
  ObservationLimit,     \* OBSERVATION_RETRY_LIMIT
  ReconciliationLimit   \* RECONCILIATION_RETRY_LIMIT

ASSUME RegistryAssumption ==
  /\ None \notin Workers
  /\ DispatchLimit \in Nat \ {0}
  /\ ObservationLimit \in Nat \ {0}
  /\ ReconciliationLimit \in Nat \ {0}

VARIABLES
  op,        \* the operation's row of harness_operations
  worker,    \* what each worker is doing
  calls,     \* results the row has had, with which original calls go on
  planned,   \* has a resumption been dispatched to Hubu?
  verdict,   \* Hubu's decision
  token,     \* Hubu's authorization token
  gongbu,    \* status of Gongbu's execution
  stray,     \* is a create request under way that nobody waits for?
  expired,   \* has the authorization's window passed?
  deadline   \* has the operation's deadline passed?

vars == <<op, worker, calls, planned, verdict, token, gongbu, stray, expired, deadline>>

requests == <<calls, planned>>
backends == <<verdict, token, gongbu, stray>>
time     == <<expired, deadline>>

----------------------------------------------------------------------------

TerminalStates == {"succeeded", "failed"}
ActiveStates   == {"queued", "dispatching", "reconciling"}
States         == {"none", "accepted"} \cup ActiveStates \cup TerminalStates

Decisions == {"none", "allow", "deny", "needs_approval"}
Approvals == {"none", "pending", "approved", "denied"}

Service == INSTANCE GongbuService WITH status <- gongbu, token <- token

FinalStatuses  == Service!FinalStatuses
GongbuStatuses == Service!GongbuStatuses

\* Result codes, as far as properties tell them apart.
Codes == {"none", "in_progress", "execution_succeeded", "execution_failed",
          "authorization_released", "rejected", "gave_up", "not_started"}

\* A result of hubu_authorize_spend: `approval' says whether it names an
\* approval request, `token' whether it has a usable continuation.
Answers == [decision : Decisions \ {"none"}, approval : BOOLEAN, token : BOOLEAN]

\* The recorded result a call goes on with.
Results == [decision : Decisions \ {"none"}, token : BOOLEAN]

Outcomes == {"succeeded", "failed", "denied", "approval_required", "resume_required"}
NoReport == [outcome |-> "none", state |-> "none"]
Reports  == [outcome : Outcomes, state : TerminalStates]

\* What a worker's request came back with.
Replies == {"transient", "permanent", "invalid"} \cup (GongbuStatuses \ {"none"})

Idle == [pc |-> "idle"]

TypeOK ==
  /\ op \in [stored : BOOLEAN, dispatched : BOOLEAN, intent : BOOLEAN,
             decision : Decisions, approval : Approvals, token : BOOLEAN,
             request : BOOLEAN, exec : BOOLEAN, status : GongbuStatuses,
             state : States, code : Codes, void : BOOLEAN,
             dispatches : 0..(DispatchLimit - 1), misses : 0..(ObservationLimit - 1),
             reconciliations : 0..(ReconciliationLimit - 1),
             lease : Workers \cup {None}, lapsed : BOOLEAN,
             published : Reports \cup {NoReport}]
  /\ worker \in [Workers -> {Idle}
                   \cup [pc : {"void", "voided", "late", "create", "observe"}]
                   \cup [pc : {"answered"}, reply : Replies]]
  /\ calls \subseteq Results
  /\ planned \in BOOLEAN
  /\ verdict \in {"none", "allow", "deny", "pending", "approved", "denied"}
  /\ token \in Service!GongbuTokens
  /\ gongbu \in GongbuStatuses
  /\ stray \in BOOLEAN
  /\ expired \in BOOLEAN
  /\ deadline \in BOOLEAN

NoRow ==
  [stored |-> FALSE, dispatched |-> FALSE, intent |-> FALSE, decision |-> "none",
   approval |-> "none", token |-> FALSE, request |-> FALSE, exec |-> FALSE,
   status |-> "none", state |-> "none", code |-> "none", void |-> FALSE,
   dispatches |-> 0, misses |-> 0, reconciliations |-> 0, lease |-> None,
   lapsed |-> FALSE, published |-> NoReport]

Init ==
  /\ op = NoRow
  /\ worker = [w \in Workers |-> Idle]
  /\ calls = {}
  /\ planned = FALSE
  /\ verdict = "none"
  /\ token = "none"
  /\ gongbu = "none"
  /\ stray = FALSE
  /\ expired = FALSE
  /\ deadline = FALSE

----------------------------------------------------------------------------
(* The row *)

is_durable_terminal_state(s) == s \in TerminalStates

\* An approval that was resolved one way is never resolved the other way: the
\* code refuses the update, and every caller here has that guard.
Conflict(existing, incoming) == {existing, incoming} = {"approved", "denied"}

\* Variant: the last word counts.
LatestApproval(existing, incoming) == IF incoming = "none" THEN existing ELSE incoming

monotonic_approval_status(existing, incoming) ==
  IF incoming = "none" \/ (incoming = "pending" /\ existing # "none")
  THEN existing ELSE incoming

approval_status_for_decision(d) ==
  CASE d = "needs_approval" -> "pending"
    [] d = "allow" -> "approved"
    [] d = "deny" -> "denied"
    [] OTHER -> "none"

authorization_is_live == op.token /\ ~expired

pre_execution_projection ==
  CASE op.decision = "allow" -> IF authorization_is_live THEN "authorized" ELSE "failed"
    [] op.decision = "deny" -> "failed"
    [] op.decision = "needs_approval" ->
         (CASE op.approval = "approved" -> "resume_required"
            [] op.approval = "denied" -> "failed"
            [] OTHER -> "approval_required")
    [] OTHER -> "awaiting_hubu_result"

durable_operation_status == IF op.state # "none" THEN op.state ELSE pre_execution_projection

\* result_json changes; calls replay it from now on.
Recorded == calls' = calls \cup {[decision |-> op'.decision, token |-> op'.token]}

fail_pre_execution_operation(row) ==
  IF row.exec \/ row.state # "none" THEN row
  ELSE [row EXCEPT !.state = "failed", !.code = "not_started", !.intent = FALSE,
                   !.request = FALSE]

\* The execution request is stored and the worker becomes responsible.
Accepted(row) ==
  [row EXCEPT
    !.request = IF row.exec \/ is_durable_terminal_state(row.state) THEN @ ELSE TRUE,
    !.state = IF @ = "none" THEN "accepted" ELSE @,
    !.intent = FALSE]

----------------------------------------------------------------------------
(* The original call of hubu_submit_governed_execution, and redeliveries *)

\* A row that still waits for Hubu or a human gets its intent back.
resolve_or_allocate ==
  /\ LET recovers == /\ ~op.intent
                     /\ op.decision \notin {"allow", "deny"}
                     /\ ~is_durable_terminal_state(op.state)
     IN  op' = [op EXCEPT !.stored = TRUE, !.intent = @ \/ recovers]
  /\ UNCHANGED <<worker, requests, backends, time>>

mark_dispatch_started ==
  /\ op.stored
  /\ op.decision = "none"
  /\ ~is_durable_terminal_state(op.state)
  /\ op' = [op EXCEPT !.dispatched = TRUE]
  /\ UNCHANGED <<worker, requests, backends, time>>

\* An answer of Hubu to the operation's private key after decision d; t says
\* whether an allowed one has a usable continuation.
Answer(d, t) ==
  CASE d \in {"allow", "approved"} ->
         [decision |-> "allow", approval |-> d = "approved", token |-> t]
    [] d \in {"deny", "denied"} ->
         [decision |-> "deny", approval |-> d = "denied", token |-> FALSE]
    [] OTHER -> [decision |-> "needs_approval", approval |-> TRUE, token |-> FALSE]

\* Hubu's decisions so far: one answer may be older than another.
DecisionsSoFar ==
  CASE verdict = "none" -> {}
    [] verdict \in {"approved", "denied"} -> {"pending", verdict}
    [] OTHER -> {verdict}

AnswersSoFar == {Answer(d, t) : d \in DecisionsSoFar, t \in BOOLEAN}

\* The first decision wins; a later answer returns the stored one.
record_authorization_result(a) ==
  /\ a \in AnswersSoFar
  /\ LET candidate == IF a.approval \/ op.approval # "none"
                      THEN approval_status_for_decision(a.decision) ELSE "none"
     IN  /\ op.decision = "none"
         /\ ~Conflict(op.approval, candidate)
         /\ op' = [op EXCEPT
                    !.decision = a.decision,
                    !.token = a.token,
                    !.approval = monotonic_approval_status(@, candidate),
                    !.intent = @ /\ a.decision # "deny"]
  /\ Recorded
  /\ UNCHANGED <<worker, planned, backends, time>>

\* Variant: the last result replaces the one recorded.
record_latest_result(row, outcome) ==
  IF durable_operation_status \in TerminalStates
  THEN [row EXCEPT !.published = [outcome |-> outcome, state |-> durable_operation_status]]
  ELSE row

\* A call reports what its authorization and the operation's status say.  Only
\* a terminal result is recorded, and only the first.  (Bound: the status is
\* read in the step that records it.)
record_governed_result(row, outcome) ==
  IF durable_operation_status \in TerminalStates /\ row.published = NoReport
  THEN [row EXCEPT !.published = [outcome |-> outcome, state |-> durable_operation_status]]
  ELSE row

\* A denied or pending authorization, or one without its continuation.
ReportAuthorization(c) ==
  /\ c \in calls
  /\ c.decision # "allow" \/ ~c.token
  /\ op' = record_governed_result(op,
              CASE c.decision = "allow" -> "failed"
                [] c.decision = "deny" -> "denied"
                [] OTHER ->
                     IF durable_operation_status = "resume_required" THEN "resume_required"
                     ELSE IF op.state = "none" /\ op.approval = "denied" THEN "denied"
                     ELSE IF durable_operation_status = "failed" THEN "failed"
                     ELSE "approval_required")
  /\ UNCHANGED <<worker, requests, backends, time>>

\* Variant: a continuation whose execution was accepted is forgotten too.
RemoveEveryExpired ==
  /\ op.token
  /\ expired
  /\ op' = [op EXCEPT !.token = FALSE]
  /\ Recorded
  /\ UNCHANGED <<worker, planned, backends, time>>

\* Run at the beginning of every original call and every binding, of this and
\* of every other operation.  (A create that has started has a state.)
remove_expired_authorization_identifiers ==
  /\ op.token
  /\ expired
  /\ op.state = "none"
  /\ op' = [op EXCEPT !.token = FALSE]
  /\ Recorded
  /\ UNCHANGED <<worker, planned, backends, time>>

\* A binding that finds no continuation fails the operation, unless its status
\* is terminal already.
resolve_gongbu_continuation(c) ==
  /\ c \in calls
  /\ op.published = NoReport
  /\ c.decision = "allow" /\ c.token
  /\ op' = IF op.token /\ op.decision = "allow" THEN Accepted(op)
           ELSE IF durable_operation_status \in TerminalStates
                THEN record_governed_result(op, "failed")
                ELSE fail_pre_execution_operation(op)
  /\ UNCHANGED <<worker, requests, backends, time>>

\* A bound call sees the operation end before it gives up waiting.
wait_for_terminal ==
  /\ [decision |-> "allow", token |-> TRUE] \in calls
  /\ is_durable_terminal_state(op.state)
  /\ op.token
  /\ op' = record_governed_result(op, op.state)
  /\ UNCHANGED <<worker, requests, backends, time>>

----------------------------------------------------------------------------
(* Approval and resumption *)

\* Status, resume and approval calls pass on what they read from Hubu, which
\* may be older than what the row says.
synchronize_approval_status(s) ==
  /\ op.approval # "none"
  /\ s \in DecisionsSoFar
  /\ LET established == monotonic_approval_status(op.approval,
                                                  approval_status_for_decision(op.decision))
     IN  /\ ~Conflict(op.approval, approval_status_for_decision(op.decision))
         /\ ~Conflict(established, s)
         /\ op' = [op EXCEPT !.approval = monotonic_approval_status(established, s),
                             !.intent = @ /\ monotonic_approval_status(established, s) # "denied"]
  /\ UNCHANGED <<worker, requests, backends, time>>

\* The plan of an approved operation, dispatched to Hubu.
prepare_resume ==
  /\ op.approval = "approved"
  /\ op.decision = "needs_approval"
  /\ durable_operation_status \notin TerminalStates
  /\ IF op.intent
     THEN planned' = TRUE /\ UNCHANGED op
     ELSE op' = fail_pre_execution_operation(op) /\ UNCHANGED planned
  /\ UNCHANGED <<worker, calls, backends, time>>

\* Variant: the new decision is not recorded.
CompleteUndecided(a) ==
  /\ planned
  /\ a = Answer(verdict, a.token)
  /\ op.decision = "needs_approval"
  /\ ~is_durable_terminal_state(op.state)
  /\ a.decision = "allow"
  /\ a.token /\ ~expired
  /\ op.intent
  /\ op' = [Accepted(op) EXCEPT !.token = TRUE]
  /\ Recorded
  /\ UNCHANGED <<worker, planned, backends, time>>

\* An operation that is already complete is replayed.
complete_resume(a) ==
  /\ planned
  /\ a = Answer(verdict, a.token)
  /\ ~(op.decision \in {"allow", "deny"} /\ ~(op.decision = "allow" /\ op.state = "none"))
  /\ ~is_durable_terminal_state(op.state)
  /\ LET decided == [op EXCEPT !.decision = a.decision,
                               !.approval = monotonic_approval_status(
                                              @, approval_status_for_decision(a.decision))]
         usable == a.token /\ ~expired
     IN  /\ a.decision = "allow"
         /\ usable => op.intent
         /\ op' = IF usable THEN [Accepted(decided) EXCEPT !.token = TRUE]
                  ELSE [decided EXCEPT !.token = FALSE, !.intent = FALSE,
                                       !.state = "failed", !.code = "not_started"]
  /\ Recorded
  /\ UNCHANGED <<worker, planned, backends, time>>

----------------------------------------------------------------------------
(* The durable worker *)

Settle(w, row) == op' = row /\ worker' = [worker EXCEPT ![w] = Idle]

Unleased(row) == [row EXCEPT !.lease = None, !.lapsed = FALSE]

promote_accepted_operations(w) ==
  /\ worker[w] = Idle
  /\ op.state = "accepted"
  /\ op' = [op EXCEPT !.state = "queued"]
  /\ UNCHANGED <<worker, requests, backends, time>>

\* Rows without their continuation or their request cannot be claimed: the
\* worker's error, at every tick, and for every operation behind them.
Claimable == op.token /\ (op.void \/ op.exec \/ op.request)

\* Variant: a lease outlives the worker that took it.
DueUnleased ==
  /\ op.state \in ActiveStates \/ op.void
  /\ op.lease = None

\* The SELECT's condition.  Delays between attempts are left to the scheduler.
Due ==
  /\ op.state \in ActiveStates \/ op.void
  /\ op.lease = None \/ op.lapsed

claim_due_operation(w) ==
  /\ worker[w] = Idle
  /\ Due
  /\ Claimable
  /\ op' = [op EXCEPT !.state = CASE op.void -> "failed"
                                  [] ~op.void /\ op.exec -> "reconciling"
                                  [] OTHER -> "dispatching",
                      !.lease = w, !.lapsed = FALSE]
  /\ worker' = [worker EXCEPT ![w] = [pc |-> CASE op.void -> "void"
                                               [] ~op.void /\ deadline -> "late"
                                               [] ~op.void /\ ~deadline /\ op.exec -> "observe"
                                               [] OTHER -> "create"]]
  /\ UNCHANGED <<requests, backends, time>>

\* What the worker's updates of the row require.  The counters of the claim
\* are still the row's as long as this holds.
Holds(w) == op.lease = w /\ ~is_durable_terminal_state(op.state)

fail_durable_operation(row) ==
  Unleased([row EXCEPT !.state = "failed", !.code = "gave_up", !.request = FALSE])

FailLate(w) ==
  /\ worker[w].pc = "late"
  /\ Settle(w, IF Holds(w) THEN fail_durable_operation(op) ELSE op)
  /\ UNCHANGED <<requests, backends, time>>

Ask(w, r) == worker' = [worker EXCEPT ![w] = [pc |-> "answered", reply |-> r]]

\* POST /v1/executions at Gongbu (external): an execution of this token is
\* returned; a new one is admitted while the authorization is available, or
\* the request is refused.
Create ==
  \/ gongbu # "none" /\ UNCHANGED <<gongbu, token>>
  \/ ~expired /\ Service!Admit
  \/ gongbu = "none" /\ UNCHANGED <<gongbu, token>>

create_durable_execution(w) ==
  /\ worker[w].pc = "create"
  /\ Create
  /\ \/ gongbu' # "none" /\ Ask(w, gongbu')
     \/ gongbu' = "none" /\ \E r \in {"invalid", "permanent"} : Ask(w, r)
     \/ Ask(w, "transient")
  /\ UNCHANGED <<op, requests, verdict, stray, time>>

\* The worker gives up waiting; the request may still arrive.
CreateTimesOut(w) ==
  /\ worker[w].pc = "create"
  /\ Ask(w, "transient")
  /\ stray' = TRUE
  /\ UNCHANGED <<op, requests, verdict, token, gongbu, time>>

StrayCreateArrives ==
  /\ stray
  /\ stray' = FALSE
  /\ Create
  /\ UNCHANGED <<op, worker, requests, verdict, time>>

observe_durable_execution(w) ==
  /\ worker[w].pc = "observe"
  /\ \E r \in {gongbu, "transient", "permanent"} : Ask(w, r)
  /\ UNCHANGED <<op, requests, backends, time>>

\* Variant: whatever ended and did not fail has succeeded.
ProjectUnfailed(s) ==
  CASE s = "failed" -> [state |-> "failed", code |-> "execution_failed"]
    [] s \in FinalStatuses -> [state |-> "succeeded", code |-> "execution_succeeded"]
    [] OTHER -> [state |-> "reconciling", code |-> "in_progress"]

public_terminal_projection(s) ==
  CASE s = "succeeded" -> [state |-> "succeeded", code |-> "execution_succeeded"]
    [] s = "failed" -> [state |-> "failed", code |-> "execution_failed"]
    [] s = "released" -> [state |-> "failed", code |-> "authorization_released"]
    [] OTHER -> [state |-> "reconciling", code |-> "in_progress"]

\* record_durable_lifecycle, or fail_durable_lifecycle when Gongbu has asked
\* for reconciliation too often.
record_durable_lifecycle(row, s) ==
  LET ambiguous == s = "reconciliation_required"
      exhausted == ambiguous /\ row.reconciliations + 1 >= ReconciliationLimit
      seen == Unleased([row EXCEPT !.exec = TRUE, !.status = s, !.request = FALSE])
  IN  IF exhausted THEN [seen EXCEPT !.state = "failed", !.code = "gave_up"]
      ELSE [seen EXCEPT !.state = public_terminal_projection(s).state,
                        !.code = public_terminal_projection(s).code,
                        !.misses = 0,
                        !.reconciliations = @ + (IF ambiguous THEN 1 ELSE 0)]

retry_durable_operation(row) ==
  Unleased([row EXCEPT !.state = IF row.exec THEN "reconciling" ELSE "queued",
                       !.code = "in_progress",
                       !.dispatches = @ + (IF row.exec THEN 0 ELSE 1),
                       !.misses = @ + (IF row.exec THEN 1 ELSE 0)])

reject_durable_admission(row) ==
  Unleased([row EXCEPT !.state = "failed", !.code = "rejected", !.void = TRUE,
                       !.request = FALSE])

\* A refusal is definitive only if no earlier request may have been admitted.
definitive_unclaimed_rejection(row, r) == r = "invalid" /\ ~row.exec /\ row.dispatches = 0

\* Variant: the attempt that failed now is not counted.
RetryOnceMore(row, r) ==
  LET spent == IF row.exec THEN row.misses >= ObservationLimit
               ELSE row.dispatches >= DispatchLimit
  IN  CASE definitive_unclaimed_rejection(row, r) -> reject_durable_admission(row)
        [] r = "transient" /\ ~spent -> retry_durable_operation(row)
        [] OTHER -> fail_durable_operation(row)

record_call_failure(row, r) ==
  LET spent == IF row.exec THEN row.misses + 1 >= ObservationLimit
               ELSE row.dispatches + 1 >= DispatchLimit
  IN  CASE definitive_unclaimed_rejection(row, r) -> reject_durable_admission(row)
        [] r = "transient" /\ ~spent -> retry_durable_operation(row)
        [] OTHER -> fail_durable_operation(row)

RecordReply(w) ==
  /\ worker[w].pc = "answered"
  /\ LET r == worker[w].reply
     IN  Settle(w, IF ~Holds(w) THEN op
                   ELSE IF r \in GongbuStatuses THEN record_durable_lifecycle(op, r)
                   ELSE record_call_failure(op, r))
  /\ UNCHANGED <<requests, backends, time>>

\* POST /spend/void at Hubu: it cancels an authorization nobody claimed, and
\* answers the same when asked again; anything else is a 409, which is final.
void_rejected_authorization(w) ==
  /\ worker[w].pc = "void"
  /\ token' = IF token = "live" THEN "gone" ELSE token
  /\ worker' = [worker EXCEPT ![w] = [pc |-> "voided"]]
  /\ UNCHANGED <<op, requests, verdict, gongbu, stray, time>>

\* Variant: any answer ends the obligation.
VoidLostButDone(w) ==
  /\ worker[w].pc = "void"
  /\ worker' = [worker EXCEPT ![w] = [pc |-> "voided"]]
  /\ UNCHANGED <<op, requests, backends, time>>

\* The call or its answer is lost; the lease runs out.
VoidLost(w) ==
  /\ worker[w].pc = "void"
  /\ token' \in {token, IF token = "live" THEN "gone" ELSE token}
  /\ worker' = [worker EXCEPT ![w] = Idle]
  /\ UNCHANGED <<op, requests, verdict, gongbu, stray, time>>

finish_authorization_void(w) ==
  /\ worker[w].pc = "voided"
  /\ Settle(w, IF op.lease = w /\ op.void THEN Unleased([op EXCEPT !.void = FALSE]) ELSE op)
  /\ UNCHANGED <<requests, backends, time>>

----------------------------------------------------------------------------
(* gongbu_get_execution: callers observe beside the worker *)

\* What an execution's status may have been up to now: a call may have read
\* any of these and record it late.
StatusesSoFar ==
  CASE gongbu = "none" -> {}
    [] gongbu \in {"pending", "failed"} -> {"pending", gongbu}
    [] OTHER -> {"pending", "executing", "reconciliation_required", gongbu}

\* Needs no lease; a terminal one takes the lease away.
record_gongbu_lifecycle(s) ==
  /\ op.exec
  /\ s \in StatusesSoFar
  /\ op.token
  /\ LET ended == is_durable_terminal_state(op.state)
         final == s \in FinalStatuses
         p == public_terminal_projection(s)
         seen == [op EXCEPT !.exec = TRUE,
                            !.request = FALSE,
                            !.status = IF ended /\ ~final THEN @ ELSE s,
                            !.state = IF ended THEN @ ELSE p.state,
                            !.code = IF ended THEN @ ELSE p.code]
     IN  op' = IF final THEN Unleased(seen) ELSE seen
  /\ UNCHANGED <<worker, requests, backends, time>>

----------------------------------------------------------------------------
(* Hubu and a human (external), and Gongbu's service *)

\* Hubu decides once; its answer may be lost.
Authorize ==
  /\ op.dispatched
  /\ verdict = "none"
  /\ \/ verdict' = "allow" /\ Service!Issue
     \/ verdict' \in {"pending", "deny"} /\ UNCHANGED <<token, gongbu>>
  /\ UNCHANGED <<op, worker, requests, stray, time>>

HumanResolves ==
  /\ verdict = "pending"
  /\ \/ verdict' = "approved" /\ Service!Issue
     \/ verdict' = "denied" /\ UNCHANGED <<token, gongbu>>
  /\ UNCHANGED <<op, worker, requests, stray, time>>

\* The end of a claimed authorization's window concerns nobody here.
AuthorizationExpires ==
  /\ token = "live"
  /\ ~expired
  /\ expired' = TRUE
  /\ UNCHANGED <<op, worker, requests, backends, deadline>>

HubuSweeps ==
  /\ expired
  /\ Service!Retire
  /\ UNCHANGED <<op, worker, requests, verdict, stray, time>>

GongbuClaims ==
  /\ ~expired
  /\ Service!Claim
  /\ UNCHANGED <<op, worker, requests, verdict, stray, time>>

GongbuWorks ==
  /\ Service!Progress
  /\ UNCHANGED <<op, worker, requests, verdict, stray, time>>

----------------------------------------------------------------------------
(* Time and failure *)

LeaseExpires ==
  /\ op.lease # None
  /\ ~op.lapsed
  /\ op' = [op EXCEPT !.lapsed = TRUE]
  /\ UNCHANGED <<worker, requests, backends, time>>

DeadlinePasses ==
  /\ op.state \notin {"none"} \cup TerminalStates
  /\ ~deadline
  /\ deadline' = TRUE
  /\ UNCHANGED <<op, worker, requests, backends, expired>>

\* A router process stops; its calls are gone, as if never used.
Crash(w) ==
  /\ worker[w] # Idle
  /\ worker' = [worker EXCEPT ![w] = Idle]
  /\ stray' = (stray \/ worker[w].pc = "create")
  /\ UNCHANGED <<op, requests, verdict, token, gongbu, time>>

----------------------------------------------------------------------------

OriginalCall ==
  \/ resolve_or_allocate
  \/ mark_dispatch_started
  \/ \E a \in AnswersSoFar : record_authorization_result(a)
  \/ \E c \in Results : ReportAuthorization(c)
  \/ remove_expired_authorization_identifiers
  \/ \E c \in Results : resolve_gongbu_continuation(c)
  \/ wait_for_terminal

Approval ==
  \/ \E s \in DecisionsSoFar : synchronize_approval_status(s)
  \/ prepare_resume
  \/ \E a \in Answers : complete_resume(a)

Observation == \E s \in GongbuStatuses : record_gongbu_lifecycle(s)

Work(w) ==
  \/ promote_accepted_operations(w)
  \/ claim_due_operation(w)
  \/ FailLate(w)
  \/ create_durable_execution(w)
  \/ CreateTimesOut(w)
  \/ observe_durable_execution(w)
  \/ RecordReply(w)
  \/ void_rejected_authorization(w)
  \/ VoidLost(w)
  \/ finish_authorization_void(w)

Environment ==
  \/ StrayCreateArrives
  \/ Authorize
  \/ HumanResolves
  \/ AuthorizationExpires
  \/ HubuSweeps
  \/ GongbuClaims
  \/ GongbuWorks
  \/ LeaseExpires
  \/ DeadlinePasses

Next ==
  \/ OriginalCall
  \/ Approval
  \/ Observation
  \/ \E w \in Workers : Work(w) \/ Crash(w)
  \/ Environment

Spec == Init /\ [][Next]_vars

\* A worker that runs finishes what it does; leases end and the deadline comes.
\* A lease lasts ten seconds and the updates are local transactions, so not
\* every lease is lost before them; Hubu answers a void request sometimes.
Fairness ==
  /\ WF_vars(LeaseExpires)
  /\ WF_vars(DeadlinePasses)
  /\ \A w \in Workers :
       /\ WF_vars(promote_accepted_operations(w))
       /\ WF_vars(claim_due_operation(w))
       /\ WF_vars(\/ FailLate(w) \/ create_durable_execution(w)
                  \/ CreateTimesOut(w) \/ observe_durable_execution(w) \/ RecordReply(w)
                  \/ finish_authorization_void(w))
  /\ SF_vars(\E w \in Workers :
               op.lease = w /\ (FailLate(w) \/ void_rejected_authorization(w)))
  /\ SF_vars(\E w \in Workers : op.lease = w /\ finish_authorization_void(w))

FairSpec == Spec /\ Fairness

----------------------------------------------------------------------------

\* An operation's end is final: whatever a worker without its lease, a late
\* observation, a second resumption or a redelivered call still writes, state
\* and result code stay, nothing can be dispatched again, and the first
\* recorded result of the composite call is the one replayed.
TerminalFinal ==
  [][/\ is_durable_terminal_state(op.state) =>
          /\ op'.state = op.state
          /\ op'.code = op.code
          /\ ~op'.request
          /\ ~op'.intent
     /\ op.published # NoReport => op'.published = op.published]_vars

\* What the registry says about the execution is what happened: it calls an
\* operation succeeded, failed by Gongbu or released only if Gongbu's execution
\* ended that way, and a final status it recorded is Gongbu's, in every order
\* of the answers to the worker and to callers.
OutcomeIsGongbus ==
  /\ op.state = "succeeded" => gongbu = "succeeded" /\ token = "claimed"
  /\ op.code = "execution_failed" => gongbu = "failed"
  /\ op.code = "authorization_released" => gongbu = "released"
  /\ op.status \in FinalStatuses => op.status = gongbu
  /\ op.published.outcome = "succeeded" => gongbu = "succeeded"

Posted == stray \/ \E w \in Workers : worker[w].pc = "create"

\* An operation that Hubu has not allowed, that a human denied, or that failed
\* before it was accepted never reaches Gongbu: not then and not later, through
\* another call, a slow answer or a second resumption.
NeverStarted ==
  op.state = "none" \/ op.code = "not_started"
    \/ op.decision # "allow" \/ verdict \notin {"allow", "approved"}
       => gongbu = "none" /\ ~Posted

\* No operation is stuck in the registry: the worker can claim every row it
\* finds due, and an approved operation still has the intent to resume.
NoPoisonRow ==
  /\ op.state \in {"accepted"} \cup ActiveStates \/ op.void => Claimable
  /\ durable_operation_status = "resume_required" => op.intent

\* Once needs_approval is recorded, the original call is replay-only: the
\* decision changes only by the answer to a resumption of an approved request.
ReplayOnly ==
  [][op.decision = "needs_approval" /\ op'.decision # op.decision =>
       /\ op.approval = "approved"
       /\ planned
       /\ op'.state \in {"accepted", "failed"}]_vars

\* The budget of a refused operation is given back: when the obligation to void
\* its authorization ends, Hubu no longer holds it for nobody.
RefusedIsVoided ==
  op.code = "rejected" /\ ~op.void => token # "live"

\* Every accepted operation ends, and with it the obligation to void a refused
\* authorization, as long as the workers run, however often requests fail and
\* leases are lost.
AcceptedEnds ==
  op.state = "accepted" ~> is_durable_terminal_state(op.state) /\ ~op.void

=============================================================================
