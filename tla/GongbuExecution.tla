--------------------------- MODULE GongbuExecution ---------------------------
(* One Gongbu execution from its admission to its end: the granular Temporal  *)
(* workflow, the activities it runs, the records they commit to Gongbu's      *)
(* SQLite file, and the two services they call, Hubu and the paid provider.   *)
(*                                                                            *)
(* Every commit and every outgoing call is a step of its own, so a crash may  *)
(* come between any two of them.  Temporal runs an activity again when it     *)
(* fails, when the process is lost and when its start-to-close timeout        *)
(* passes; in the last case the overrun activity goes on in its blocking      *)
(* thread beside the new one.  The slot "live" holds the activity Temporal    *)
(* waits for, "overrun" one it has given up.                                  *)
EXTENDS Naturals

CONSTANTS
  Slots,         \* {"live"}, or {"live", "overrun"} when activities may overrun
  Artifacts,     \* how many artifacts a successful provider call returns
  MaxArtifacts,  \* the artifact service's limit per execution
  MaxAutomatic,  \* how many recovery timers the workflow sets
  MaxPending     \* bound on operator signals that wait in the workflow

ASSUME GongbuAssumption ==
  /\ Slots \in SUBSET {"live", "overrun"} /\ "live" \in Slots
  /\ Artifacts \in Nat \ {0}
  /\ MaxArtifacts \in Nat /\ MaxArtifacts >= Artifacts
  /\ MaxAutomatic \in Nat
  /\ MaxPending \in Nat

VARIABLES
  exec,     \* the executions row: status, claim known, release marked, outcome
  attempt,  \* the provider_attempts row; outcome "none" while there is no row
  staged,   \* the provider's artifacts are staged in the file
  durable,  \* how many artifacts are durable
  receipt,  \* the receipts row: "none", "created", "sent" or "settled"
  record,   \* the execution has a reconciliation record
  wf,       \* the Temporal workflow: activity due, its input, timers, signals
  act,      \* the activities that run
  hubu,     \* the authorization at Hubu
  work,     \* what the provider really did
  posts,    \* how many generation requests reached the provider
  up,       \* the Gongbu process runs
  overran   \* some activity has overrun its timeout

store == <<exec, attempt, staged, durable, receipt, record>>
proc == <<up, overran>>
vars == <<store, wf, act, hubu, work, posts, proc>>

Statuses == {"pending", "preflighting", "claimed", "executing", "settling",
             "reconciliation_required", "succeeded", "failed", "released"}
Final == {"succeeded", "failed", "released"}
Phases == {"preflight", "claim", "validate", "submit", "poll", "persist",
           "release", "settle", "recover"}
OperatorActions == {"reinspect", "settle", "release"}
Outcomes == {"none", "ambiguous", "succeeded", "failed"}

\* Steps whose commit checks the version of the execution that was read.
Versioned == {"transition", "save_claim", "start_attempt", "deliver",
              "mark_release", "save_recovered"}
Steps == Phases \cup Versioned \cup
         {"check", "claim_call", "inspect", "begin_transmission", "post",
          "checkpoint", "poll_call", "finish", "store", "count", "release_call",
          "create_receipt", "begin_settlement", "settle_call",
          "complete_receipt", "record", "mark", "reclaim", "reopen", "resettle",
          "rerelease"}

NoActivity == [name |-> "none", pc |-> "none", input |-> "none",
               fresh |-> FALSE, arg |-> "none", outcome |-> "none", n |-> 0]

Init ==
  /\ exec = [status |-> "pending", claim |-> FALSE, relSent |-> FALSE,
             provider |-> "none"]
  /\ attempt = [outcome |-> "none", sent |-> FALSE, checkpoint |-> "none",
                billable |-> FALSE]
  /\ staged = FALSE
  /\ durable = 0
  /\ receipt = "none"
  /\ record = FALSE
  /\ wf = [due |-> "preflight", input |-> "none", timers |-> 0, pending |-> 0]
  /\ act = [s \in Slots |-> NoActivity]
  /\ hubu = "available"
  /\ work = "none"
  /\ posts = 0
  /\ up = TRUE
  /\ overran = FALSE

-----------------------------------------------------------------------------
(* Activities: how a step moves on, ends or fails.                           *)

At(s, pc) == act[s].pc = pc

Completed == attempt.outcome \in {"succeeded", "failed", "ambiguous"}

Goto(s, pc) == act' = [act EXCEPT ![s].pc = pc]

\* The execution was read: the step that follows knows its current version.
Read(s, pc) == act' = [act EXCEPT ![s].pc = pc, ![s].fresh = TRUE]

\* The step that follows commits status st and provider outcome o.
Commit(s, st, o) ==
  act' = [act EXCEPT ![s].pc = "transition", ![s].arg = st, ![s].outcome = o]

\* The same, right after the execution was read.
ReadAndCommit(s, st, o) ==
  act' = [act EXCEPT ![s].pc = "transition", ![s].arg = st, ![s].outcome = o,
                     ![s].fresh = TRUE]

\* Activities in other slots hold an older version from now on.
Outdated(s) == [t \in Slots |-> IF t = s THEN act[s]
                                ELSE [act[t] EXCEPT !.fresh = FALSE]]

\* Variant: a proven provider failure is not followed by the release.
NextDueNoRelease(a, r) ==
  CASE r = "preflighting" /\ a = "preflight" -> "claim"
    [] r = "claimed" /\ a \in {"preflight", "claim"} -> "validate"
    [] r = "executing" /\ a \in {"preflight", "claim", "validate"} -> "submit"
    [] r \in {"poll", "persist"} -> r
    [] r = "settling" /\ a \notin {"settle", "recover"} -> "settle"
    [] r = "reconciliation_required" -> "wait"
    [] OTHER -> "closed"

\* GranularExecutionWorkflow::run: what the workflow does after activity a
\* returned r.
NextDue(a, r) ==
  CASE r = "preflighting" /\ a = "preflight" -> "claim"
    [] r = "claimed" /\ a \in {"preflight", "claim"} -> "validate"
    [] r = "executing" /\ a \in {"preflight", "claim", "validate"} -> "submit"
    [] r \in {"poll", "persist", "release"} -> r
    [] r = "settling" /\ a \notin {"settle", "recover"} -> "settle"
    [] r = "reconciliation_required" -> "wait"
    [] OTHER -> "closed"

\* The activity in slot s ends with result r, every slot b being as given.
\* The workflow only hears from the live one.  A workflow that closes drops
\* the signals it has not taken.
ReturnFrom(s, r, b) ==
  /\ act' = [b EXCEPT ![s] = NoActivity]
  /\ wf' = IF s # "live" THEN wf
           ELSE LET due == NextDue(act[s].name, r)
                IN  [wf EXCEPT !.due = due,
                               !.pending = IF due = "closed" THEN 0 ELSE @]

Return(s, r) == ReturnFrom(s, r, act)

\* A polling or artifact phase ends with r.  Inside the recovery activity
\* resume_reopened_provider_poll enters the phase that follows.
ChainFrom(s, r, b) ==
  IF act[s].name = "recover" /\ r \in {"persist", "release", "settling"}
  THEN /\ act' = [b EXCEPT ![s].pc = IF r = "settling" THEN "settle" ELSE r]
       /\ UNCHANGED wf
  ELSE ReturnFrom(s, r, b)

Chain(s, r) == ChainFrom(s, r, act)

\* The activity ends with an error; Temporal will run it again.
Fail(s) == act' = [act EXCEPT ![s] = NoActivity]

\* A commit that checks the version fails on an execution read too long ago.
Stale(s) ==
  /\ act[s].pc \in Versioned
  /\ ~act[s].fresh
  /\ Fail(s)
  /\ UNCHANGED <<store, wf, hubu, work, posts, proc>>

allowed_transition ==
  {<<"pending", "preflighting">>, <<"pending", "failed">>,
   <<"preflighting", "claimed">>, <<"preflighting", "failed">>,
   <<"preflighting", "reconciliation_required">>,
   <<"claimed", "executing">>, <<"claimed", "released">>,
   <<"claimed", "reconciliation_required">>,
   <<"executing", "settling">>, <<"executing", "released">>,
   <<"executing", "reconciliation_required">>,
   <<"settling", "succeeded">>, <<"settling", "reconciliation_required">>,
   <<"reconciliation_required", "succeeded">>,
   <<"reconciliation_required", "released">>,
   <<"reconciliation_required", "settling">>}

\* transition: update_execution commits; the reconciliation record is a
\* second commit.
Transition(s) ==
  /\ At(s, "transition")
  /\ act[s].fresh
  /\ <<exec.status, act[s].arg>> \in allowed_transition
  /\ exec' = [exec EXCEPT !.status = act[s].arg,
                          !.provider = IF act[s].outcome = "none" THEN @
                                       ELSE act[s].outcome]
  /\ IF act[s].arg = "reconciliation_required"
     THEN /\ act' = [Outdated(s) EXCEPT ![s].pc = "record"]
          /\ UNCHANGED wf
     ELSE ReturnFrom(s, act[s].arg, Outdated(s))
  /\ UNCHANGED <<attempt, staged, durable, receipt, record, hubu, work, posts, proc>>

RecordReconciliation(s) ==
  /\ At(s, "record")
  /\ record' = TRUE
  /\ Return(s, "reconciliation_required")
  /\ UNCHANGED <<exec, attempt, staged, durable, receipt, hubu, work, posts, proc>>

-----------------------------------------------------------------------------
(* Calls to Hubu (hubu/mod.rs).  Hubu accepts a call in the states given and  *)
(* replays an identical one; it refuses in the others (4xx, Proven).  The     *)
(* call or its answer may be lost, which Gongbu cannot tell apart             *)
(* (Ambiguous).                                                               *)

HubuCall(accepts, after, answer) ==
  \/ answer = "ok" /\ hubu \in accepts /\ hubu' = after
  \/ answer = "rejected" /\ hubu \notin accepts /\ UNCHANGED hubu
  \/ answer = "lost" /\ UNCHANGED hubu
  \/ answer = "lost" /\ hubu \in accepts /\ hubu' = after

Answers == {"ok", "rejected", "lost"}

\* A claim replay returns the existing claim, whatever became of it.
HubuClaim(answer) ==
  HubuCall({"available", "claimed", "lapsed", "settled", "released"},
           IF hubu = "available" THEN "claimed" ELSE hubu, answer)
HubuSettle(answer) == HubuCall({"claimed", "settled"}, "settled", answer)
HubuRelease(answer) == HubuCall({"claimed", "released"}, "released", answer)

\* Time at Hubu: an unclaimed authorization expires or is voided, the lease
\* of a claim lapses and only a human may close it.
Lapse ==
  /\ hubu' = CASE hubu = "available" -> "void" [] hubu = "claimed" -> "lapsed"
               [] OTHER -> hubu
  /\ hubu' # hubu
  /\ UNCHANGED <<store, wf, act, work, posts, proc>>

-----------------------------------------------------------------------------
(* preflight_phase, claim_phase, validate_claim_phase                        *)

Preflight(s) ==
  /\ At(s, "preflight")
  /\ \/ /\ exec.status = "pending"
        /\ exec' = [exec EXCEPT !.status = "preflighting"]
        /\ act' = [Outdated(s) EXCEPT ![s].pc = "check", ![s].fresh = TRUE]
        /\ UNCHANGED wf
     \/ /\ exec.status = "preflighting"
        /\ Read(s, "check")
        /\ UNCHANGED <<exec, wf>>
     \/ /\ exec.status \notin {"pending", "preflighting"}
        /\ Return(s, exec.status)
        /\ UNCHANGED exec
  /\ UNCHANGED <<attempt, staged, durable, receipt, record, hubu, work, posts, proc>>

\* Hubu, the provider configuration and the artifact store are asked; any
\* error fails the execution.
CheckPreflight(s) ==
  /\ At(s, "check")
  /\ \/ hubu = "available" /\ Return(s, exec.status)
     \/ Commit(s, "failed", "none") /\ UNCHANGED wf
  /\ UNCHANGED <<store, hubu, work, posts, proc>>

Claim(s) ==
  /\ At(s, "claim")
  /\ \/ exec.status # "preflighting" /\ Return(s, exec.status)
     \/ exec.status = "preflighting" /\ Read(s, "claim_call") /\ UNCHANGED wf
  /\ UNCHANGED <<store, hubu, work, posts, proc>>

\* Variant: a claim whose answer was lost is taken as granted.
CallClaimLoosely(s) ==
  /\ At(s, "claim_call")
  /\ \E answer \in Answers :
       /\ HubuClaim(answer)
       /\ IF answer = "rejected" THEN Commit(s, "failed", "none")
          ELSE Goto(s, "save_claim")
  /\ UNCHANGED <<store, wf, work, posts, proc>>

CallClaim(s) ==
  /\ At(s, "claim_call")
  /\ \E answer \in Answers :
       /\ HubuClaim(answer)
       /\ CASE answer = "ok" -> Goto(s, "save_claim")
            [] answer = "rejected" -> Commit(s, "failed", "none")
            [] answer = "lost" -> Commit(s, "reconciliation_required", "none")
  /\ UNCHANGED <<store, wf, work, posts, proc>>

\* set_claim
SaveClaim(s) ==
  /\ At(s, "save_claim")
  /\ act[s].fresh
  /\ exec' = [exec EXCEPT !.status = "claimed", !.claim = TRUE]
  /\ ReturnFrom(s, "claimed", Outdated(s))
  /\ UNCHANGED <<attempt, staged, durable, receipt, record, hubu, work, posts, proc>>

Validate(s) ==
  /\ At(s, "validate")
  /\ \/ exec.status # "claimed" /\ Return(s, exec.status)
     \/ exec.status = "claimed" /\ Read(s, "inspect") /\ UNCHANGED wf
  /\ UNCHANGED <<store, hubu, work, posts, proc>>

InspectClaim(s) ==
  /\ At(s, "inspect")
  /\ \/ hubu = "claimed" /\ Goto(s, "start_attempt")
     \/ Commit(s, "reconciliation_required", "none")
  /\ UNCHANGED <<store, wf, hubu, work, posts, proc>>

\* start_provider_attempt
StartAttempt(s) ==
  /\ At(s, "start_attempt")
  /\ act[s].fresh
  /\ attempt.outcome = "none"
  /\ attempt' = [attempt EXCEPT !.outcome = "started"]
  /\ exec' = [exec EXCEPT !.status = "executing"]
  /\ ReturnFrom(s, "executing", Outdated(s))
  /\ UNCHANGED <<staged, durable, receipt, record, hubu, work, posts, proc>>

-----------------------------------------------------------------------------
(* provider_submit_phase, provider_poll_phase, finish_provider_result        *)

\* completed_provider_phase, for an attempt that has a result already.
CompletedAttempt(s) ==
  CASE attempt.outcome = "succeeded" /\ staged -> Chain(s, "persist")
    [] attempt.outcome = "failed" -> Chain(s, "release")
    [] OTHER -> /\ ReadAndCommit(s, "reconciliation_required", attempt.outcome)
                /\ UNCHANGED wf

Submit(s) ==
  /\ At(s, "submit")
  /\ \/ exec.status # "executing" /\ Return(s, exec.status)
     \/ exec.status = "executing" /\ Completed /\ CompletedAttempt(s)
     \/ /\ exec.status = "executing"
        /\ ~Completed
        /\ attempt.checkpoint # "none"
        /\ Return(s, "poll")
     \/ /\ exec.status = "executing"
        /\ ~Completed
        /\ attempt.checkpoint = "none"
        /\ IF attempt.sent
           THEN ReadAndCommit(s, "reconciliation_required", "ambiguous")
           ELSE Read(s, "begin_transmission")
        /\ UNCHANGED wf
  /\ UNCHANGED <<store, hubu, work, posts, proc>>

\* Variant: the marker does not stop a second transmission.
BeginAgain == ~Completed

\* The marker is committed once; the version of the execution is not checked.
begin_provider_transmission == ~attempt.sent /\ ~Completed

BeginTransmission(s) ==
  /\ At(s, "begin_transmission")
  /\ IF begin_provider_transmission
     THEN attempt' = [attempt EXCEPT !.sent = TRUE] /\ Goto(s, "post")
     ELSE Fail(s) /\ UNCHANGED attempt
  /\ UNCHANGED <<exec, staged, durable, receipt, record, wf, hubu, work, posts, proc>>

\* The attempt's result r is stored next.
Result(s, r) == act' = [act EXCEPT ![s].pc = "finish", ![s].arg = r]

\* provider.submit: a local error before anything is sent or a request that
\* is lost on its way; or the request arrives, and is refused, answered at
\* once, answered by something lost or unreadable, or accepted as an
\* operation that is to be polled, at an allowed origin or a rejected one.
Post(s) ==
  /\ At(s, "post")
  /\ \/ /\ \E r \in {"failed", "ambiguous"} : Result(s, r)
        /\ UNCHANGED <<work, posts>>
     \/ /\ posts' = posts + 1
        /\ \/ work' = "refused" /\ Result(s, "failed")
           \/ work' = "done" /\ \E r \in {"success", "empty"} : Result(s, r)
           \/ work' \in {"refused", "done", "running"} /\ Result(s, "ambiguous")
           \/ /\ work' = "running"
              /\ \E c \in {"valid", "rejected"} :
                   act' = [act EXCEPT ![s].pc = "checkpoint", ![s].arg = c]
  /\ UNCHANGED <<store, wf, hubu, proc>>

\* record_provider_operation, which a storage error may defeat.
Checkpoint(s) ==
  /\ At(s, "checkpoint")
  /\ \/ /\ attempt.outcome = "started"
        /\ attempt.checkpoint = "none"
        /\ attempt' = [attempt EXCEPT !.checkpoint = act[s].arg]
        /\ Return(s, "poll")
     \/ /\ Commit(s, "reconciliation_required", "ambiguous")
        /\ UNCHANGED <<attempt, wf>>
  /\ UNCHANGED <<exec, staged, durable, receipt, record, hubu, work, posts, proc>>

Poll(s) ==
  /\ At(s, "poll")
  /\ \/ exec.status # "executing" /\ Return(s, exec.status)
     \/ exec.status = "executing" /\ Completed /\ CompletedAttempt(s)
     \/ /\ exec.status = "executing"
        /\ ~Completed
        /\ Read(s, "poll_call")
        /\ UNCHANGED wf
  /\ UNCHANGED <<store, hubu, work, posts, proc>>

\* poll_existing: the operation has ended or goes on; the outcome is
\* ambiguous when no answer comes, the origin is rejected, the deadline
\* passes or the answer names another operation.
CallPoll(s) ==
  /\ At(s, "poll_call")
  /\ work' \in IF work = "running" THEN {"running", "done", "refused"} ELSE {work}
  /\ \/ work' = "done" /\ \E r \in {"success", "empty"} : Result(s, r)
     \/ work' = "refused" /\ Result(s, "failed")
     \/ Result(s, "ambiguous")
  /\ UNCHANGED <<store, wf, hubu, posts, proc>>

\* Variant: a second result replaces the first.
OverwriteAttempt == attempt.sent

\* complete_provider_attempt takes one result, in one transaction with the
\* staged artifacts.
complete_provider_attempt == attempt.outcome = "started" /\ attempt.sent

Complete(outcome) ==
  /\ attempt' = [attempt EXCEPT !.outcome = outcome]
  /\ UNCHANGED staged

FinishProviderResult(s) ==
  /\ At(s, "finish")
  /\ IF ~complete_provider_attempt
     THEN Fail(s) /\ UNCHANGED <<attempt, staged, wf>>
     ELSE CASE act[s].arg = "success" ->
                 /\ \E b \in BOOLEAN :
                      attempt' = [attempt EXCEPT !.outcome = "succeeded",
                                                 !.billable = b]
                 /\ staged' = TRUE
                 /\ Chain(s, "persist")
            [] act[s].arg = "empty" ->
                 /\ Complete("succeeded")
                 /\ Commit(s, "reconciliation_required", "succeeded")
                 /\ UNCHANGED wf
            [] act[s].arg = "failed" -> Complete("failed") /\ Chain(s, "release")
            [] act[s].arg = "ambiguous" ->
                 /\ Complete("ambiguous")
                 /\ Commit(s, "reconciliation_required", "ambiguous")
                 /\ UNCHANGED wf
  /\ UNCHANGED <<exec, durable, receipt, record, hubu, work, posts, proc>>

-----------------------------------------------------------------------------
(* artifact_phase, release_phase, settlement_phase                           *)

Persist(s) ==
  /\ At(s, "persist")
  /\ IF exec.status = "executing" /\ attempt.outcome = "succeeded"
     THEN /\ act' = [act EXCEPT ![s].pc = IF durable = 0 THEN "store" ELSE "count",
                                ![s].fresh = TRUE, ![s].n = 0]
          /\ UNCHANGED wf
     ELSE Chain(s, exec.status)
  /\ UNCHANGED <<store, hubu, work, posts, proc>>

\* Variant: the limit is not checked again when the artifact is inserted.
StoreUnlimited(s) ==
  /\ At(s, "store")
  /\ durable' = durable + 1
  /\ act' = [act EXCEPT ![s].n = @ + 1,
                        ![s].pc = IF act[s].n + 1 = Artifacts THEN "count" ELSE @]
  /\ UNCHANGED <<exec, attempt, staged, receipt, record, wf, hubu, work, posts, proc>>

\* One store_image; each artifact is a commit of its own and may fail.
StoreArtifact(s) ==
  /\ At(s, "store")
  /\ \/ /\ durable < MaxArtifacts
        /\ durable' = durable + 1
        /\ act' = [act EXCEPT ![s].n = @ + 1,
                              ![s].pc = IF act[s].n + 1 = Artifacts THEN "count" ELSE @]
     \/ /\ Commit(s, "reconciliation_required", "succeeded")
        /\ UNCHANGED durable
  /\ UNCHANGED <<exec, attempt, staged, receipt, record, wf, hubu, work, posts, proc>>

\* Variant: any durable artifact will do.
CountAny(s) ==
  /\ At(s, "count")
  /\ IF durable > 0 THEN Goto(s, "deliver")
     ELSE Commit(s, "reconciliation_required", "succeeded")
  /\ UNCHANGED <<store, wf, hubu, work, posts, proc>>

CountArtifacts(s) ==
  /\ At(s, "count")
  /\ IF durable = Artifacts THEN Goto(s, "deliver")
     ELSE Commit(s, "reconciliation_required", "succeeded")
  /\ UNCHANGED <<store, wf, hubu, work, posts, proc>>

\* complete_artifact_persistence
Deliver(s) ==
  /\ At(s, "deliver")
  /\ act[s].fresh
  /\ exec' = [exec EXCEPT !.status = "settling", !.provider = "succeeded"]
  /\ staged' = FALSE
  /\ ChainFrom(s, "settling", Outdated(s))
  /\ UNCHANGED <<attempt, durable, receipt, record, hubu, work, posts, proc>>

\* release_or_reconcile
Release(s) ==
  /\ At(s, "release")
  /\ IF exec.status = "executing" /\ attempt.outcome = "failed"
     THEN /\ IF exec.relSent
             THEN ReadAndCommit(s, "reconciliation_required", "failed")
             ELSE Read(s, "mark_release")
          /\ UNCHANGED wf
     ELSE Return(s, exec.status)
  /\ UNCHANGED <<store, hubu, work, posts, proc>>

\* begin_release_transmission
MarkRelease(s) ==
  /\ At(s, "mark_release")
  /\ act[s].fresh
  /\ exec' = [exec EXCEPT !.relSent = TRUE]
  /\ act' = [Outdated(s) EXCEPT ![s].pc = "release_call"]
  /\ UNCHANGED <<attempt, staged, durable, receipt, record, wf, hubu, work, posts, proc>>

CallRelease(s) ==
  /\ At(s, "release_call")
  /\ \E answer \in Answers :
       /\ HubuRelease(answer)
       /\ Commit(s, IF answer = "ok" THEN "released" ELSE "reconciliation_required",
                 "failed")
  /\ UNCHANGED <<store, wf, work, posts, proc>>

\* Variant: a settlement that was sent is taken for settled.
SettleTrustingSent(s) ==
  /\ At(s, "settle")
  /\ IF exec.status # "settling" THEN Return(s, exec.status)
     ELSE /\ CASE ~attempt.billable ->
                   ReadAndCommit(s, "reconciliation_required", "none")
              [] attempt.billable /\ receipt = "none" -> Read(s, "create_receipt")
              [] attempt.billable /\ receipt = "created" ->
                   Read(s, "begin_settlement")
              [] attempt.billable /\ receipt \in {"sent", "settled"} ->
                   ReadAndCommit(s, "succeeded", "none")
          /\ UNCHANGED wf
  /\ UNCHANGED <<store, hubu, work, posts, proc>>

\* Malformed billing evidence or a charge above the authorization is not
\* billable; an interrupted settlement is not repeated.
Settle(s) ==
  /\ At(s, "settle")
  /\ IF exec.status # "settling" THEN Return(s, exec.status)
     ELSE /\ CASE ~attempt.billable \/ receipt = "sent" ->
                   ReadAndCommit(s, "reconciliation_required", "none")
              [] attempt.billable /\ receipt = "none" -> Read(s, "create_receipt")
              [] attempt.billable /\ receipt = "created" ->
                   Read(s, "begin_settlement")
              [] attempt.billable /\ receipt = "settled" ->
                   ReadAndCommit(s, "succeeded", "none")
          /\ UNCHANGED wf
  /\ UNCHANGED <<store, hubu, work, posts, proc>>

\* create_receipt and begin_settlement_transmission succeed once.
CreateReceipt(s) ==
  /\ At(s, "create_receipt")
  /\ IF receipt = "none" THEN receipt' = "created" /\ Goto(s, "begin_settlement")
     ELSE Fail(s) /\ UNCHANGED receipt
  /\ UNCHANGED <<exec, attempt, staged, durable, record, wf, hubu, work, posts, proc>>

BeginSettlement(s) ==
  /\ At(s, "begin_settlement")
  /\ IF receipt = "created" THEN receipt' = "sent" /\ Goto(s, "settle_call")
     ELSE Fail(s) /\ UNCHANGED receipt
  /\ UNCHANGED <<exec, attempt, staged, durable, record, wf, hubu, work, posts, proc>>

CallSettle(s) ==
  /\ At(s, "settle_call")
  /\ \E answer \in Answers :
       /\ HubuSettle(answer)
       /\ IF answer = "ok" THEN Goto(s, "complete_receipt")
          ELSE Commit(s, "reconciliation_required", "none")
  /\ UNCHANGED <<store, wf, work, posts, proc>>

CompleteReceipt(s) ==
  /\ At(s, "complete_receipt")
  /\ IF receipt # "settled"
     THEN receipt' = "settled" /\ Commit(s, "succeeded", "succeeded")
     ELSE Fail(s) /\ UNCHANGED receipt
  /\ UNCHANGED <<exec, attempt, staged, durable, record, wf, hubu, work, posts, proc>>

-----------------------------------------------------------------------------
(* recover                                                                   *)

\* mark_recovery_attempt comes first in an automatic recovery and needs the
\* reconciliation record.
MarkRecovery(s) ==
  /\ At(s, "mark")
  /\ IF record THEN Goto(s, "recover") ELSE Fail(s)
  /\ UNCHANGED <<store, wf, hubu, work, posts, proc>>

\* A reopened origin rejection, whose polling this activity goes on with.
Reopened == /\ exec.status = "executing"
            /\ exec.provider = "ambiguous"
            /\ attempt.checkpoint = "rejected"

SettleProven == attempt.outcome = "succeeded" /\ receipt # "none" /\ durable > 0

\* Variant: a completed attempt is released, an ambiguous one too.
ReleaseCompleted == IF attempt.outcome = "none" THEN exec.claim
                    ELSE ~attempt.sent \/ attempt.outcome \in {"failed", "ambiguous"}

\* Release is proven safe only before provider transmission, or after a
\* completed proven provider failure.
SafeRelease == IF attempt.outcome = "none" THEN exec.claim
               ELSE ~attempt.sent \/ attempt.outcome = "failed"

\* What recovery does with an execution in reconciliation.
RecoveryStep(input) ==
  IF attempt.outcome = "none" /\ ~exec.claim THEN "reclaim"
  ELSE IF /\ input = "reinspect"
          /\ attempt.outcome = "ambiguous"
          /\ attempt.checkpoint = "rejected" THEN "reopen"
  ELSE IF input # "release" /\ SettleProven THEN "resettle"
  ELSE IF input # "settle" /\ SafeRelease THEN "rerelease"
  ELSE "none"

Recover(s) ==
  /\ At(s, "recover")
  /\ \/ Reopened /\ Goto(s, "poll") /\ UNCHANGED wf
     \/ exec.status = "settling" /\ Goto(s, "settle") /\ UNCHANGED wf
     \/ /\ exec.status \notin {"settling", "reconciliation_required"}
        /\ ~Reopened
        /\ Return(s, exec.status)
     \/ /\ exec.status = "reconciliation_required"
        /\ act[s].input \in OperatorActions /\ ~record  \* record_operator_action
        /\ Fail(s) /\ UNCHANGED wf
     \/ /\ exec.status = "reconciliation_required"
        /\ act[s].input = "none" \/ record
        /\ LET step == RecoveryStep(act[s].input)
           IN  IF step = "none" THEN Return(s, exec.status)
               ELSE /\ act' = [act EXCEPT ![s].pc = step, ![s].fresh = TRUE,
                                          ![s].arg = receipt]
                    /\ UNCHANGED wf
  /\ UNCHANGED <<store, hubu, work, posts, proc>>

Reclaim(s) ==
  /\ At(s, "reclaim")
  /\ \E answer \in Answers :
       /\ HubuClaim(answer)
       /\ IF answer = "ok" THEN Goto(s, "save_recovered") /\ UNCHANGED wf
          ELSE Return(s, "reconciliation_required")
  /\ UNCHANGED <<store, work, posts, proc>>

\* set_reconciliation_claim; the record exists and is only rewritten.
SaveRecovered(s) ==
  /\ At(s, "save_recovered")
  /\ act[s].fresh
  /\ exec' = [exec EXCEPT !.claim = TRUE]
  /\ IF act[s].input = "settle"
     THEN ReturnFrom(s, "reconciliation_required", Outdated(s))
     ELSE /\ act' = [Outdated(s) EXCEPT ![s].pc = "rerelease"]
          /\ UNCHANGED wf
  /\ UNCHANGED <<attempt, staged, durable, receipt, record, hubu, work, posts, proc>>

\* begin_provider_reconciliation_poll, refused when too little is left of the
\* operation's deadline.
Reopen(s) ==
  /\ At(s, "reopen")
  /\ \/ /\ act[s].fresh
        /\ attempt.outcome = "ambiguous"
        /\ attempt' = [attempt EXCEPT !.outcome = "started"]
        /\ exec' = [exec EXCEPT !.status = "executing"]
        /\ act' = [Outdated(s) EXCEPT ![s].pc = "poll"]
        /\ UNCHANGED wf
     \/ Return(s, "reconciliation_required") /\ UNCHANGED <<exec, attempt>>
  /\ UNCHANGED <<staged, durable, receipt, record, hubu, work, posts, proc>>

\* The receipt as it was read decides whether it is completed.
Resettle(s) ==
  /\ At(s, "resettle")
  /\ \E answer \in Answers :
       /\ HubuSettle(answer)
       /\ CASE answer = "ok" /\ act[s].arg # "settled" ->
                 Goto(s, "complete_receipt") /\ UNCHANGED wf
            [] answer = "ok" /\ act[s].arg = "settled" ->
                 Commit(s, "succeeded", "succeeded") /\ UNCHANGED wf
            [] OTHER -> Return(s, "reconciliation_required")
  /\ UNCHANGED <<store, work, posts, proc>>

Rerelease(s) ==
  /\ At(s, "rerelease")
  /\ \E answer \in Answers :
       /\ HubuRelease(answer)
       /\ IF answer = "ok"
          THEN /\ Commit(s, "released",
                         IF attempt.outcome = "none" THEN "none" ELSE "failed")
               /\ UNCHANGED wf
          ELSE Return(s, "reconciliation_required")
  /\ UNCHANGED <<store, work, posts, proc>>

-----------------------------------------------------------------------------
(* Temporal and the API                                                      *)

\* Temporal starts the activity the workflow waits for, again and again
\* until one returns.
StartActivity ==
  /\ up
  /\ wf.due \in Phases
  /\ act["live"] = NoActivity
  /\ act' = [act EXCEPT !["live"] =
        [NoActivity EXCEPT !.name = wf.due, !.input = wf.input,
           !.pc = IF wf.due = "recover" /\ wf.input = "none" THEN "mark" ELSE wf.due]]
  /\ UNCHANGED <<store, wf, hubu, work, posts, proc>>

\* The start-to-close timeout passes; the blocking thread goes on.
Overrun ==
  /\ "overrun" \in Slots
  /\ act["live"] # NoActivity
  /\ act["overrun"] = NoActivity
  /\ act' = [act EXCEPT !["overrun"] = act["live"], !["live"] = NoActivity]
  /\ overran' = TRUE
  /\ UNCHANGED <<store, wf, hubu, work, posts, up>>

\* A recovery timer fires while the workflow waits.
Timer ==
  /\ up
  /\ wf.due = "wait"
  /\ wf.timers < MaxAutomatic
  /\ wf' = [wf EXCEPT !.due = "recover", !.input = "none", !.timers = @ + 1]
  /\ UNCHANGED <<store, act, hubu, work, posts, proc>>

\* The waiting workflow takes an operator's signal.
TakeSignal ==
  /\ up
  /\ wf.due = "wait"
  /\ wf.pending > 0
  /\ \E a \in OperatorActions :
       wf' = [wf EXCEPT !.due = "recover", !.input = a, !.pending = @ - 1]
  /\ UNCHANGED <<store, act, hubu, work, posts, proc>>

NewRun(pending) == [due |-> "preflight", input |-> "none", timers |-> 0,
                    pending |-> pending]

\* POST reconcile, which starts a new run when the workflow has closed.
OperatorReconciles ==
  /\ up
  /\ exec.status = "reconciliation_required"
  /\ wf.pending < MaxPending
  /\ wf' = IF wf.due = "closed" THEN NewRun(1) ELSE [wf EXCEPT !.pending = @ + 1]
  /\ UNCHANGED <<store, act, hubu, work, posts, proc>>

\* The process stops: the activities that ran are lost.
Crash ==
  /\ up
  /\ up' = FALSE
  /\ act' = [s \in Slots |-> NoActivity]
  /\ UNCHANGED <<store, wf, hubu, work, posts, overran>>

\* It starts again and schedules the executions that have not ended, which
\* leaves a live workflow as it is.
Restart ==
  /\ ~up
  /\ up' = TRUE
  /\ wf' = IF wf.due = "closed" /\ exec.status \notin Final THEN NewRun(0) ELSE wf
  /\ UNCHANGED <<store, act, hubu, work, posts, overran>>

Step(s) ==
  \/ Stale(s) \/ Transition(s) \/ RecordReconciliation(s)
  \/ Preflight(s) \/ CheckPreflight(s) \/ Claim(s) \/ CallClaim(s) \/ SaveClaim(s)
  \/ Validate(s) \/ InspectClaim(s) \/ StartAttempt(s)
  \/ Submit(s) \/ BeginTransmission(s) \/ Post(s) \/ Checkpoint(s)
  \/ Poll(s) \/ CallPoll(s) \/ FinishProviderResult(s)
  \/ Persist(s) \/ StoreArtifact(s) \/ CountArtifacts(s) \/ Deliver(s)
  \/ Release(s) \/ MarkRelease(s) \/ CallRelease(s)
  \/ Settle(s) \/ CreateReceipt(s) \/ BeginSettlement(s) \/ CallSettle(s)
  \/ CompleteReceipt(s)
  \/ MarkRecovery(s) \/ Recover(s) \/ Reclaim(s) \/ SaveRecovered(s) \/ Reopen(s)
  \/ Resettle(s) \/ Rerelease(s)

Next ==
  \/ \E s \in Slots : Step(s)
  \/ StartActivity \/ Overrun \/ Timer \/ TakeSignal \/ OperatorReconciles
  \/ Crash \/ Restart \/ Lapse

Spec == Init /\ [][Next]_vars

\* Temporal keeps starting the activity it waits for, timers fire, an activity
\* that runs takes its next step, and from some point on the process stays up
\* and no activity overruns.
FairSpec ==
  /\ Spec
  /\ WF_vars(StartActivity)
  /\ \A s \in Slots : WF_vars(Step(s))
  /\ WF_vars(Timer)
  /\ WF_vars(Restart)
  /\ <>[]up
  /\ <>[][~Overrun]_vars

-----------------------------------------------------------------------------
(* Properties                                                                *)

ActivityType ==
  [name : Phases \cup {"none"}, pc : Steps \cup {"none"},
   input : OperatorActions \cup {"none"}, fresh : BOOLEAN,
   arg : Statuses \cup {"none", "success", "empty", "ambiguous", "valid",
                        "rejected", "created", "sent", "settled"},
   outcome : Outcomes, n : Nat]

\* The rows hold values of their types.
TypeOK ==
  /\ exec \in [status : Statuses, claim : BOOLEAN, relSent : BOOLEAN,
               provider : Outcomes]
  /\ attempt \in [outcome : Outcomes \cup {"started"}, sent : BOOLEAN,
                  checkpoint : {"none", "valid", "rejected"}, billable : BOOLEAN]
  /\ staged \in BOOLEAN
  /\ durable \in 0..MaxArtifacts
  /\ receipt \in {"none", "created", "sent", "settled"}
  /\ record \in BOOLEAN
  /\ wf \in [due : Phases \cup {"wait", "closed"},
             input : OperatorActions \cup {"none"},
             timers : 0..MaxAutomatic, pending : Nat]
  /\ act \in [Slots -> ActivityType]
  /\ hubu \in {"available", "void", "claimed", "lapsed", "settled", "released"}
  /\ work \in {"none", "running", "done", "refused"}
  /\ posts \in Nat
  /\ up \in BOOLEAN
  /\ overran \in BOOLEAN

\* However often activities are retried, overrun and recovered, the paid
\* generation request reaches the provider at most once, and only under a
\* claim that Hubu granted.
SubmittedOnce ==
  /\ posts <= 1
  /\ posts = 1 => hubu \notin {"available", "void"}

\* Hubu never gives the money back for work the provider did or may still be
\* doing: "Never release a hold merely because a timeout made billing
\* ambiguous."
ReleasedIsUnbilled == hubu = "released" => work \notin {"running", "done"}

\* Hubu settles only for work that was done and whose artifacts are all
\* durable, with a receipt that stays.
SettledIsDelivered ==
  hubu = "settled" => /\ work = "done"
                      /\ durable >= Artifacts
                      /\ receipt \in {"sent", "settled"}

\* The end Gongbu reports is the end of the hold at Hubu.  A failed execution
\* never reached the provider, and it leaves no claim behind unless a
\* preflight overran its timeout and failed the execution during its claim.
EndsAgree ==
  /\ exec.status = "succeeded" => hubu = "settled" /\ receipt = "settled"
  /\ exec.status = "released" => hubu = "released"
  /\ exec.status = "failed" => /\ posts = 0
                               /\ overran \/ hubu \in {"available", "void"}

\* An ended execution stays as it is, and a result of the provider is never
\* replaced, except that an ambiguous one may be polled again.
EvidenceFinal ==
  [][ /\ exec.status \in Final => exec' = exec
      /\ attempt.outcome \in {"succeeded", "failed"} => attempt' = attempt
      /\ attempt.sent => attempt'.sent
      /\ receipt # "none" => receipt' # "none" ]_vars

\* Under the fairness above every execution ends or comes to wait for an
\* operator, also after an operator had it polled again, as long as no
\* activity overruns its timeout.
EndsOrWaits ==
  []<>(exec.status \in Final \cup {"reconciliation_required"} \/ overran)

Service == INSTANCE GongbuService WITH
  status <- CASE exec.status \in {"pending", "preflighting"} -> "pending"
              [] exec.status \in {"claimed", "executing", "settling"} -> "executing"
              [] OTHER -> exec.status,
  token <- CASE hubu = "available" -> "live"
             [] hubu = "void" -> "gone"
             [] OTHER -> "claimed"

\* Gongbu keeps what it promises its clients, also when its activities overrun,
\* are lost and are recovered: every step is a step of the service they see.
ImplementsService == Service!Spec

\* The evidence of an interrupted step is recorded: an execution that requires
\* reconciliation has its record, or leaves that state.
EvidenceRecorded ==
  (exec.status = "reconciliation_required")
    ~> (record \/ exec.status # "reconciliation_required")
=============================================================================
