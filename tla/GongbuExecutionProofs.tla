----------------------- MODULE GongbuExecutionProofs -----------------------
(* Proofs about GongbuExecution, for any number of artifacts, recovery timers *)
(* and operator signals, with and without activities that overrun.            *)
EXTENDS GongbuExecution, TLAPS

-----------------------------------------------------------------------------
(* The inductive invariant: what the committed rows say of each other, what   *)
(* an activity that has come to a step may rely on although other activities  *)
(* ran since it read the rows, and what holds while nothing has overrun.      *)

\* Hubu has granted the claim, whatever became of it.
Claimed == hubu \notin {"available", "void"}

\* The execution is past its claim and has no attempt: it will never have one.
Dead == /\ attempt.outcome = "none"
        /\ exec.status \notin {"pending", "preflighting", "claimed"}

AllDurable == attempt.outcome = "succeeded" /\ durable >= Artifacts

SettlementSent == receipt \in {"sent", "settled"}

\* The attempts row against the status of the execution.
AttemptFollowsStatus ==
  /\ exec.status \in {"pending", "preflighting", "claimed", "failed"}
       => attempt.outcome = "none"
  /\ exec.status = "executing" => attempt.outcome # "none"
  /\ exec.status = "settling" => AllDurable
  /\ exec.status \in {"reconciliation_required", "released"}
       /\ attempt.outcome = "started" => attempt.sent
  /\ exec.status \in {"claimed", "executing", "settling"} => Claimed

\* The transmission marker comes before the request, the request before its
\* evidence, and a result says what the provider did.
EvidenceIsTrue ==
  /\ posts \in {0, 1}
  /\ posts = 0 <=> work = "none"
  /\ posts = 1 => attempt.sent
  /\ attempt.sent => attempt.outcome # "none"
  /\ Completed => attempt.sent
  /\ attempt.checkpoint # "none" => posts = 1
  /\ attempt.outcome # "none" => Claimed
  /\ attempt.outcome = "succeeded" => work = "done"
  /\ attempt.outcome = "failed" => work \in {"none", "refused"}

\* The end of the claim at Hubu against Gongbu's rows.
MoneyFollowsEvidence ==
  /\ hubu = "released" => attempt.outcome = "failed" \/ Dead
  /\ hubu = "settled" => SettlementSent
  /\ receipt = "settled" => hubu = "settled"
  /\ receipt # "none" => AllDurable /\ attempt.billable
  /\ receipt = "created" => exec.status = "settling"
  /\ exec.status = "succeeded" => receipt = "settled"
  /\ exec.status = "released" => hubu = "released"

\* The execution is as the activity read it: no other activity committed.
Current(s) == act[s].fresh \/ ~overran

\* The status an activity with a current version relies on.
ReadStatus(s) ==
  Current(s) =>
    /\ act[s].pc \in {"check", "claim_call", "save_claim"}
         => exec.status = "preflighting"
    /\ act[s].pc \in {"inspect", "start_attempt"} => exec.status = "claimed"
    /\ act[s].pc \in {"store", "count", "deliver", "mark_release"}
         => exec.status = "executing"
    /\ act[s].pc \in {"record", "reclaim", "save_recovered", "reopen"}
         => exec.status = "reconciliation_required"

\* What a step before or at the provider relies on, stale or not.
AtProvider(s) ==
  /\ act[s].pc = "save_claim" => Claimed
  /\ act[s].pc = "begin_transmission" => attempt.outcome # "none"
  /\ act[s].pc \in {"post", "checkpoint"}
       => attempt.sent /\ attempt.outcome = "started" /\ attempt.checkpoint = "none"
  /\ act[s].pc = "post" => posts = 0
  /\ act[s].pc = "checkpoint" => posts = 1 /\ act[s].arg \in {"valid", "rejected"}
  /\ act[s].pc \in {"poll", "poll_call", "reopen"} => attempt.checkpoint # "none"
  /\ act[s].pc = "finish"
       => /\ attempt.sent
          /\ act[s].arg \in {"success", "empty", "failed", "ambiguous"}
          /\ act[s].arg \in {"success", "empty"} => work = "done"
          /\ act[s].arg = "failed" => work \in {"none", "refused"}
  /\ act[s].pc \in {"store", "count", "deliver"} => attempt.outcome = "succeeded"
  /\ act[s].pc = "deliver" => AllDurable

\* What a step that moves money or ends the execution relies on.
AtEnd(s) ==
  /\ act[s].pc \in {"mark_release", "release_call"} => attempt.outcome = "failed"
  /\ act[s].pc \in {"reclaim", "save_recovered"} => Dead
  /\ act[s].pc = "rerelease" => attempt.outcome = "failed" \/ Dead
  /\ act[s].pc = "create_receipt"
       => AllDurable /\ attempt.billable
          /\ (SettlementSent \/ exec.status = "settling")
  /\ act[s].pc = "begin_settlement" => receipt # "none"
  /\ act[s].pc \in {"settle_call", "complete_receipt", "resettle"} => SettlementSent
  /\ act[s].pc = "complete_receipt" => hubu = "settled"
  /\ act[s].pc = "resettle" /\ act[s].arg = "settled" => receipt = "settled"

\* What a transition commits is proven by the rows it leaves alone.
AtTransition(s) ==
  act[s].pc = "transition" =>
    /\ act[s].arg \in {"failed", "reconciliation_required", "succeeded", "released"}
    /\ act[s].arg = "succeeded" => receipt = "settled"
    /\ act[s].arg = "released" => hubu = "released"
    /\ act[s].arg = "reconciliation_required" /\ act[s].fresh
         => /\ attempt.outcome = "started" => attempt.sent
            /\ exec.status = "settling" => ~attempt.billable \/ SettlementSent
    /\ act[s].arg = "failed" => overran \/ ~Claimed

\* The activity holds the provider's answer and nothing is recorded of it.
Submitting(s) ==
  \/ act[s].pc \in {"post", "checkpoint"}
  \/ act[s].pc = "finish" /\ attempt.checkpoint = "none"

\* Only one activity passes the transmission marker.
OneSubmits ==
  \A s, t \in Slots : Submitting(s) /\ Submitting(t) => s = t

\* Which steps the two activities before the attempt take.
Named(s) ==
  /\ act[s].pc # "none" => act[s].name \in Phases
  /\ act[s].name = "preflight"
       => act[s].pc \in {"preflight", "check", "transition", "record"}
  /\ act[s].name = "claim"
       => act[s].pc \in {"claim", "claim_call", "save_claim", "transition", "record"}
  /\ act[s].pc \in {"preflight", "check"} => act[s].name = "preflight"
  /\ act[s].pc \in {"claim", "claim_call", "save_claim"} => act[s].name = "claim"

\* Until an activity overruns there is one, the one the workflow waits for, and
\* a claim that may exist is followed by the claim activity, never by another
\* preflight.
NothingOverran ==
  ~overran =>
    /\ \A s \in Slots : s # "live" => act[s].pc = "none"
    /\ act["live"].pc # "none" => act["live"].name = wf.due
    /\ exec.status = "pending" => wf.due = "preflight" /\ ~Claimed
    /\ exec.status = "preflighting"
         => wf.due = "claim" \/ (wf.due = "preflight" /\ ~Claimed)
    /\ exec.status = "failed" => wf.due = "closed" /\ ~Claimed

PollIsDue == wf.due = "poll" => attempt.checkpoint # "none"

\* The committed rows and the calls that were made.
RowsInv == AttemptFollowsStatus /\ EvidenceIsTrue /\ MoneyFollowsEvidence

\* The activity in slot s.
SlotInv(s) ==
  ReadStatus(s) /\ AtProvider(s) /\ AtEnd(s) /\ AtTransition(s) /\ Named(s)

\* The workflow.
WorkflowInv == NothingOverran /\ PollIsDue

ExecutionInv ==
  /\ TypeOK
  /\ RowsInv
  /\ \A s \in Slots : SlotInv(s)
  /\ OneSubmits
  /\ WorkflowInv

-----------------------------------------------------------------------------
(* How the helpers move the activities, field by field.                       *)

ActType == act \in [Slots -> ActivityType]

\* Another activity t goes on as it is; its version may get old.
Keeps(t) ==
  /\ act'[t].pc = act[t].pc
  /\ act'[t].name = act[t].name
  /\ act'[t].arg = act[t].arg
  /\ act'[t].fresh => act[t].fresh

OthersKeep(s) == \A t \in Slots : t # s => Keeps(t)

OthersOutdated(s) == \A t \in Slots : t # s => ~act'[t].fresh

\* The activity in slot s comes to step pc.
Moves(s, pc, fresh, arg) ==
  /\ ActType'
  /\ OthersKeep(s)
  /\ act'[s].pc = pc
  /\ act'[s].name = act[s].name
  /\ act'[s].fresh = fresh
  /\ act'[s].arg = arg

\* The activity in slot s ends.
Ends(s) ==
  /\ ActType'
  /\ OthersKeep(s)
  /\ act'[s] = NoActivity

ArgType == Statuses \cup {"none", "success", "empty", "ambiguous", "valid",
                         "rejected", "created", "sent", "settled"}

WfType == wf \in [due : Phases \cup {"wait", "closed"},
                 input : OperatorActions \cup {"none"},
                 timers : 0..MaxAutomatic, pending : Nat]

\* Goto changes the step only.
LEMMA GotoMoves ==
  ASSUME ActType, NEW s \in Slots, NEW pc \in Steps, Goto(s, pc)
  PROVE  Moves(s, pc, act[s].fresh, act[s].arg)
BY DEF ActType, ActivityType, Goto, Moves, OthersKeep, Keeps

\* Read changes the step and renews the version.
LEMMA ReadMoves ==
  ASSUME ActType, NEW s \in Slots, NEW pc \in Steps, Read(s, pc)
  PROVE  Moves(s, pc, TRUE, act[s].arg)
BY DEF ActType, ActivityType, Read, Moves, OthersKeep, Keeps

\* Commit goes to the transition with what it will commit.
LEMMA CommitMoves ==
  ASSUME ActType, NEW s \in Slots, NEW st \in Statuses, NEW o \in Outcomes,
         Commit(s, st, o)
  PROVE  Moves(s, "transition", act[s].fresh, st)
<1>1. DOMAIN act' = Slots /\ act' = [t \in Slots |-> act'[t]]
  BY DEF ActType, Commit
<1>2. \A t \in Slots : t # s => act'[t] = act[t]
  BY DEF ActType, Commit
<1>3. act[s] \in ActivityType
  BY DEF ActType
<1>4. act'[s] = [name |-> act[s].name, pc |-> "transition", input |-> act[s].input,
               fresh |-> act[s].fresh, arg |-> st, outcome |-> o, n |-> act[s].n]
  BY <1>3 DEF ActType, ActivityType, Commit
<1>5. act'[s] \in ActivityType
  BY <1>3, <1>4 DEF ActivityType, Steps, Versioned
<1>6. act' \in [Slots -> ActivityType]
  BY <1>1, <1>2, <1>5 DEF ActType
<1> QED
  BY <1>2, <1>3, <1>4, <1>6 DEF ActType, ActivityType, Moves, OthersKeep, Keeps

\* ReadAndCommit goes there with a version just read.
LEMMA ReadAndCommitMoves ==
  ASSUME ActType, NEW s \in Slots, NEW st \in Statuses, NEW o \in Outcomes,
         ReadAndCommit(s, st, o)
  PROVE  Moves(s, "transition", TRUE, st)
<1>1. DOMAIN act' = Slots /\ act' = [t \in Slots |-> act'[t]]
  BY DEF ActType, ReadAndCommit
<1>2. \A t \in Slots : t # s => act'[t] = act[t]
  BY DEF ActType, ReadAndCommit
<1>3. act[s] \in ActivityType
  BY DEF ActType
<1>4. act'[s] = [name |-> act[s].name, pc |-> "transition", input |-> act[s].input,
               fresh |-> TRUE, arg |-> st, outcome |-> o, n |-> act[s].n]
  BY <1>3 DEF ActType, ActivityType, ReadAndCommit
<1>5. act'[s] \in ActivityType
  BY <1>3, <1>4 DEF ActivityType, Steps, Versioned
<1>6. act' \in [Slots -> ActivityType]
  BY <1>1, <1>2, <1>5 DEF ActType
<1> QED
  BY <1>2, <1>3, <1>4, <1>6 DEF ActType, ActivityType, Moves, OthersKeep, Keeps

\* A step with its argument.
Note(s, pc, a) == act' = [act EXCEPT ![s].pc = pc, ![s].arg = a]

\* Such a step changes nothing else.
LEMMA NoteMoves ==
  ASSUME ActType, NEW s \in Slots, NEW pc \in Steps, NEW r \in ArgType,
         Note(s, pc, r)
  PROVE  Moves(s, pc, act[s].fresh, r)
<1>1. DOMAIN act' = Slots /\ act' = [t \in Slots |-> act'[t]]
  BY DEF ActType, Note
<1>2. \A t \in Slots : t # s => act'[t] = act[t]
  BY DEF ActType, Note
<1>3. act[s] \in ActivityType
  BY DEF ActType
<1>4. act'[s] = [name |-> act[s].name, pc |-> pc, input |-> act[s].input,
               fresh |-> act[s].fresh, arg |-> r, outcome |-> act[s].outcome, n |-> act[s].n]
  BY <1>3 DEF ActType, ActivityType, Note
<1>5. act'[s] \in ActivityType
  BY <1>3, <1>4 DEF ActivityType, ArgType
<1>6. act' \in [Slots -> ActivityType]
  BY <1>1, <1>2, <1>5 DEF ActType
<1> QED
  BY <1>2, <1>3, <1>4, <1>6 DEF ActType, ActivityType, Moves, OthersKeep, Keeps

\* Result goes to the commit of the provider's result.
LEMMA ResultMoves ==
  ASSUME ActType, NEW s \in Slots, NEW r \in ArgType, Result(s, r)
  PROVE  Moves(s, "finish", act[s].fresh, r)
<1>1. Note(s, "finish", r) /\ "finish" \in Steps
  BY DEF Result, Note, Steps
<1> QED
  BY <1>1, NoteMoves

\* A commit of the execution makes the version in every other slot old.
LEMMA OutdatedType ==
  ASSUME ActType, NEW s \in Slots
  PROVE  /\ Outdated(s) \in [Slots -> ActivityType]
         /\ Outdated(s)[s] = act[s]
         /\ \A t \in Slots : t # s => /\ Outdated(s)[t].pc = act[t].pc
                                      /\ Outdated(s)[t].name = act[t].name
                                      /\ Outdated(s)[t].arg = act[t].arg
                                      /\ ~Outdated(s)[t].fresh
BY DEF ActType, ActivityType, Outdated

\* A step taken after such a commit.
LEMMA OutdatedMoves ==
  ASSUME ActType, NEW s \in Slots, NEW pc \in Steps,
         act' = [Outdated(s) EXCEPT ![s].pc = pc]
  PROVE  Moves(s, pc, act[s].fresh, act[s].arg) /\ OthersOutdated(s)
<1> DEFINE O == Outdated(s)
<1>1. /\ O \in [Slots -> ActivityType]
      /\ O[s] = act[s]
      /\ \A t \in Slots : t # s => /\ O[t].pc = act[t].pc
                                   /\ O[t].name = act[t].name
                                   /\ O[t].arg = act[t].arg
                                   /\ ~O[t].fresh
  BY OutdatedType
<1>2. act' = [O EXCEPT ![s].pc = pc]
  OBVIOUS
<1> HIDE DEF O
<1>3. \A t \in Slots : t # s => act'[t] = O[t]
  BY <1>1, <1>2
<1>4. act'[s] = [act[s] EXCEPT !.pc = pc]
  BY <1>1, <1>2
<1>5. act[s] \in ActivityType
  BY DEF ActType
<1>6. act' \in [Slots -> ActivityType]
  <2>1. act'[s] \in ActivityType
    BY <1>4, <1>5 DEF ActivityType
  <2>2. act' = [t \in Slots |-> act'[t]]
    BY <1>1, <1>2
  <2> QED
    BY <1>1, <1>3, <2>1, <2>2
<1>7. OthersKeep(s) /\ OthersOutdated(s)
  BY <1>1, <1>3 DEF OthersKeep, Keeps, OthersOutdated
<1>8. /\ act'[s].pc = pc
      /\ act'[s].name = act[s].name
      /\ act'[s].fresh = act[s].fresh
      /\ act'[s].arg = act[s].arg
  BY <1>4, <1>5 DEF ActivityType
<1> QED
  BY <1>6, <1>7, <1>8 DEF ActType, Moves

\* An activity that fails ends.
LEMMA FailEnds ==
  ASSUME ActType, NEW s \in Slots, Fail(s)
  PROVE  Ends(s)
BY DEF ActType, ActivityType, Fail, Ends, OthersKeep, Keeps, NoActivity, Outcomes

\* What the workflow does next is a phase, to wait or to close; it polls only
\* when it was told to.
LEMMA NextDueType ==
  ASSUME NEW a, NEW r
  PROVE  /\ NextDue(a, r) \in Phases \cup {"wait", "closed"}
         /\ NextDue(a, r) = "poll" => r = "poll"
BY DEF NextDue, Phases

\* An activity that returns ends, and the workflow moves on if it waited for it.
Returns(s, r) ==
  /\ Ends(s)
  /\ WfType'
  /\ wf'.due = IF s = "live" THEN NextDue(act[s].name, r) ELSE wf.due

\* ReturnFrom without and with a commit.
LEMMA ReturnReturns ==
  ASSUME ActType, WfType, NEW s \in Slots, NEW r, Return(s, r)
  PROVE  Returns(s, r)
<1>1. Ends(s)
  BY DEF ActType, ActivityType, Return, ReturnFrom, Ends, OthersKeep, Keeps,
         NoActivity, Outcomes
<1>2. wf' = IF s # "live" THEN wf
            ELSE [wf EXCEPT !.due = NextDue(act[s].name, r),
                            !.pending = IF NextDue(act[s].name, r) = "closed"
                                        THEN 0 ELSE @]
  BY DEF Return, ReturnFrom
<1>3. NextDue(act[s].name, r) \in Phases \cup {"wait", "closed"}
  BY NextDueType
<1> QED
  BY <1>1, <1>2, <1>3 DEF WfType, Returns

\* So does a return after a commit of the execution.
LEMMA OutdatedReturns ==
  ASSUME ActType, WfType, NEW s \in Slots, NEW r, ReturnFrom(s, r, Outdated(s))
  PROVE  Returns(s, r) /\ OthersOutdated(s)
<1> DEFINE O == Outdated(s)
<1>1. /\ O \in [Slots -> ActivityType]
      /\ O[s] = act[s]
      /\ \A t \in Slots : t # s => /\ O[t].pc = act[t].pc
                                   /\ O[t].name = act[t].name
                                   /\ O[t].arg = act[t].arg
                                   /\ ~O[t].fresh
  BY OutdatedType
<1>2. act' = [O EXCEPT ![s] = NoActivity]
  BY DEF ReturnFrom
<1> HIDE DEF O
<1>3. Ends(s) /\ OthersOutdated(s)
  BY <1>1, <1>2 DEF ActType, ActivityType, Ends, OthersKeep, Keeps, NoActivity,
         Outcomes, OthersOutdated
<1>4. wf' = IF s # "live" THEN wf
            ELSE [wf EXCEPT !.due = NextDue(act[s].name, r),
                            !.pending = IF NextDue(act[s].name, r) = "closed"
                                        THEN 0 ELSE @]
  BY DEF ReturnFrom
<1>5. NextDue(act[s].name, r) \in Phases \cup {"wait", "closed"}
  BY NextDueType
<1> QED
  BY <1>3, <1>4, <1>5 DEF WfType, Returns

\* A phase that chains goes on inside the recovery activity or returns.
LEMMA ChainMoves ==
  ASSUME ActType, WfType, NEW s \in Slots, NEW r, Chain(s, r)
  PROVE  \/ /\ act[s].name = "recover"
            /\ r \in {"persist", "release", "settling"}
            /\ Moves(s, IF r = "settling" THEN "settle" ELSE r,
                     act[s].fresh, act[s].arg)
            /\ wf' = wf
         \/ Returns(s, r)
<1>1. CASE act[s].name = "recover" /\ r \in {"persist", "release", "settling"}
  BY <1>1 DEF ActType, ActivityType, Chain, ChainFrom, Moves, OthersKeep, Keeps,
              Steps, Phases
<1>2. CASE ~(act[s].name = "recover" /\ r \in {"persist", "release", "settling"})
  <2>1. Return(s, r)
    BY <1>2 DEF Chain, ChainFrom, Return
  <2> QED
    BY <2>1, ReturnReturns
<1> QED
  BY <1>1, <1>2

-----------------------------------------------------------------------------
(* What a step of one activity guarantees to the other.                       *)

\* Evidence is only added to.
RowsGrow ==
  /\ Claimed => Claimed'
  /\ hubu \in {"settled", "released"} => hubu' = hubu
  /\ attempt.outcome \in {"succeeded", "failed"} => attempt' = attempt
  /\ attempt.outcome # "none" => attempt'.outcome # "none"
  /\ attempt.sent => attempt'.sent
  /\ attempt.checkpoint # "none" => attempt'.checkpoint = attempt.checkpoint
  /\ work \in {"done", "refused"} => work' = work
  /\ AllDurable => AllDurable'
  /\ receipt # "none" => receipt' # "none"
  /\ SettlementSent => SettlementSent'
  /\ receipt = "settled" => receipt' = "settled"
  /\ Dead => Dead'
  /\ exec.status = "settling"
       => exec'.status = "settling" \/ ~attempt.billable \/ SettlementSent'
  /\ exec.status \in Final => exec' = exec

\* Between the marker and the first record of the answer, only the activity
\* that set the marker touches the attempt.
LeavesSubmission(s) ==
  \/ Submitting(s)
  \/ ~attempt.sent
  \/ attempt.checkpoint # "none"
  \/ /\ attempt'.outcome = attempt.outcome
     /\ attempt'.checkpoint = attempt.checkpoint
     /\ posts' = posts
     /\ work' = work \/ work = "running"

Guarantee(s) ==
  /\ overran' = overran
  /\ RowsGrow
  /\ LeavesSubmission(s)
  /\ attempt.checkpoint # "none" => posts' = posts
  /\ \/ OthersOutdated(s)
     \/ exec' = exec /\ (attempt.outcome = "none" => attempt'.outcome = "none")
  /\ Submitting(s)' => Submitting(s) \/ ~attempt.sent

\* A step of one activity leaves what the other relies on.
LEMMA OthersStable ==
  ASSUME ExecutionInv, NEW s \in Slots, act[s].pc # "none",
         OthersKeep(s), Guarantee(s), NEW t \in Slots, t # s
  PROVE  SlotInv(t)'
<1> USE DEF ExecutionInv, SlotInv
<1>1. Keeps(t) /\ (overran \/ act[t].pc = "none")
  <2>1. Keeps(t)
    BY DEF OthersKeep
  <2>2. ~overran => act[t].pc = "none"
    BY DEF WorkflowInv, NothingOverran
  <2> QED
    BY <2>1, <2>2
<1>2. ReadStatus(t)'
  BY <1>1 DEF Guarantee, ReadStatus, Current, Keeps, OthersOutdated
<1>3. AtProvider(t)'
  <2>1. /\ AtProvider(t)
        /\ RowsGrow
        /\ attempt.checkpoint # "none" => posts' = posts /\ posts = 1
    BY DEF Guarantee, RowsInv, EvidenceIsTrue
  <2>2. /\ act'[t].pc = "save_claim" => Claimed'
        /\ act'[t].pc = "begin_transmission" => attempt'.outcome # "none"
        /\ act'[t].pc \in {"poll", "poll_call", "reopen"}
             => attempt'.checkpoint # "none"
        /\ act'[t].pc \in {"store", "count", "deliver"}
             => attempt'.outcome = "succeeded"
        /\ act'[t].pc = "deliver" => AllDurable'
    BY <1>1, <2>1 DEF AtProvider, Keeps, RowsGrow
  <2>3. CASE Submitting(t)
    <3>1. ~Submitting(s) /\ attempt.sent
      BY <2>1, <2>3 DEF OneSubmits, AtProvider, Submitting
    <3>2. \/ attempt.checkpoint # "none"
          \/ /\ attempt'.outcome = attempt.outcome
             /\ attempt'.checkpoint = attempt.checkpoint
             /\ posts' = posts
             /\ work' = work \/ work = "running"
      BY <3>1 DEF Guarantee, LeavesSubmission
    <3> QED
      BY <1>1, <2>1, <2>2, <2>3, <3>2 DEF AtProvider, Keeps, RowsGrow, Submitting
  <2>4. CASE ~Submitting(t)
    <3>1. act[t].pc \notin {"post", "checkpoint"}
      BY <2>4 DEF Submitting
    <3>2. act[t].pc = "finish" => attempt.checkpoint # "none" /\ work # "none"
      BY <2>1, <2>4 DEF Submitting, RowsInv, EvidenceIsTrue
    <3> QED
      BY <1>1, <2>1, <2>2, <3>1, <3>2 DEF AtProvider, Keeps, RowsGrow
  <2> QED
    BY <2>3, <2>4
<1>4. AtEnd(t)'
  <2>1. AtEnd(t) /\ RowsGrow
    BY DEF Guarantee
  <2> QED
    BY <1>1, <2>1 DEF AtEnd, Keeps, RowsGrow, AllDurable
<1>5. AtTransition(t)'
  <2>1. AtTransition(t) /\ RowsGrow /\ overran' = overran
    BY DEF Guarantee
  <2>2. act'[t].fresh
          => exec' = exec /\ (attempt.outcome = "none" => attempt'.outcome = "none")
    BY DEF Guarantee, OthersOutdated
  <2>3. /\ exec.status = "settling" => attempt.outcome = "succeeded"
        /\ attempt.outcome \in {"ambiguous"} => attempt.sent
    BY DEF RowsInv, AttemptFollowsStatus, AllDurable, EvidenceIsTrue, Completed
  <2> QED
    BY <1>1, <2>1, <2>2, <2>3 DEF AtTransition, Keeps, RowsGrow, TypeOK, Outcomes
<1>6. Named(t)'
  BY <1>1 DEF Named, Keeps
<1> QED
  BY <1>2, <1>3, <1>4, <1>5, <1>6

\* Nor does it let a second activity pass the marker.
LEMMA OneStillSubmits ==
  ASSUME ExecutionInv, NEW s \in Slots, OthersKeep(s), Guarantee(s)
  PROVE  OneSubmits'
<1>1. \A t \in Slots : t # s /\ Submitting(t)' => Submitting(t)
  BY DEF OthersKeep, Keeps, Submitting, Guarantee, RowsGrow
<1>2. \A t \in Slots : Submitting(t) => attempt.sent
  BY DEF ExecutionInv, SlotInv, AtProvider, Submitting
<1> QED
  BY <1>1, <1>2 DEF OneSubmits, ExecutionInv, Guarantee

\* So a step of slot s is accounted for by the rows, by s and by the workflow.
LEMMA StepInv ==
  ASSUME ExecutionInv, NEW s \in Slots, act[s].pc # "none",
         OthersKeep(s), Guarantee(s),
         TypeOK', RowsInv', SlotInv(s)', WorkflowInv'
  PROVE  ExecutionInv'
<1>1. \A t \in Slots : SlotInv(t)'
  BY OthersStable
<1>2. OneSubmits'
  BY OneStillSubmits
<1> QED
  BY <1>1, <1>2 DEF ExecutionInv

\* An ended activity relies on nothing.
LEMMA IdleSlot ==
  ASSUME NEW s \in Slots, act'[s] = NoActivity
  PROVE  SlotInv(s)' /\ ~Submitting(s)'
BY DEF NoActivity, SlotInv, ReadStatus, AtProvider, AtEnd, AtTransition, Named,
       Submitting, Phases

\* A step that commits nothing.
SameRows == UNCHANGED <<exec, attempt, durable, receipt, hubu, work, posts, overran>>

\* It leaves the rows in agreement,
LEMMA SameRowsInv ==
  ASSUME ExecutionInv, SameRows
  PROVE  RowsInv'
BY DEF SameRows, ExecutionInv, RowsInv, AttemptFollowsStatus, EvidenceIsTrue,
       MoneyFollowsEvidence, AllDurable, Claimed, Dead, SettlementSent, Completed

\* and the other activity what it relies on.
LEMMA SameRowsGuarantee ==
  ASSUME ExecutionInv, SameRows, NEW s \in Slots,
         Submitting(s)' => Submitting(s) \/ ~attempt.sent
  PROVE  Guarantee(s)
BY DEF SameRows, ExecutionInv, TypeOK, Guarantee, RowsGrow, LeavesSubmission,
       Claimed, Dead, SettlementSent, AllDurable

\* Until something overruns, the activity that steps is the one the workflow
\* waits for, and early statuses belong to the first two activities.
LEMMA EarlySteps ==
  ASSUME ExecutionInv, NEW s \in Slots, act[s].pc # "none", ~overran
  PROVE  /\ s = "live"
         /\ act[s].name = wf.due
         /\ exec.status # "failed"
         /\ exec.status = "pending"
              => act[s].name = "preflight" /\ act[s].pc \in {"preflight", "transition"}
         /\ exec.status = "preflighting"
              => \/ act[s].name = "preflight"
                    /\ act[s].pc \in {"preflight", "check", "transition"}
                 \/ act[s].name = "claim"
                    /\ act[s].pc \in {"claim", "claim_call", "save_claim", "transition"}
<1>1. s = "live" /\ act[s].name = wf.due
  BY DEF ExecutionInv, WorkflowInv, NothingOverran
<1>2. Named(s) /\ ReadStatus(s) /\ Current(s)
  BY DEF ExecutionInv, SlotInv, Current
<1>3. exec.status # "failed"
  BY <1>1, <1>2 DEF ExecutionInv, WorkflowInv, NothingOverran, Named, Phases
<1> QED
  BY <1>1, <1>2, <1>3 DEF ExecutionInv, WorkflowInv, NothingOverran, Named, ReadStatus

Quiet ==
  SameRows /\ up' = up /\ staged' \in BOOLEAN /\ record' \in BOOLEAN

\* A step that commits nothing and goes on.
LEMMA QuietMove ==
  ASSUME ExecutionInv, NEW s \in Slots, act[s].pc # "none", Quiet, wf' = wf,
         NEW pc, NEW f, NEW a, Moves(s, pc, f, a), SlotInv(s)',
         Submitting(s)' => Submitting(s) \/ ~attempt.sent
  PROVE  ExecutionInv'
<1>1. SameRows
  BY DEF Quiet
<1>2. RowsInv' /\ Guarantee(s)
  BY <1>1, SameRowsInv, SameRowsGuarantee
<1>3. TypeOK'
  BY DEF ExecutionInv, TypeOK, Quiet, SameRows, Moves, ActType
<1>4. WorkflowInv'
  <2>1. PollIsDue'
    BY <1>1 DEF ExecutionInv, WorkflowInv, PollIsDue, SameRows
  <2>2. NothingOverran'
    BY <1>1 DEF ExecutionInv, WorkflowInv, NothingOverran, SameRows, Moves,
                OthersKeep, Keeps, Claimed
  <2> QED
    BY <2>1, <2>2 DEF WorkflowInv
<1> QED
  BY <1>2, <1>3, <1>4, StepInv DEF Moves

\* A step that commits nothing and fails.
LEMMA QuietFail ==
  ASSUME ExecutionInv, NEW s \in Slots, act[s].pc # "none", Quiet, wf' = wf, Fail(s)
  PROVE  ExecutionInv'
<1>0. Ends(s)
  BY FailEnds DEF ExecutionInv, TypeOK, ActType
<1>1. SameRows /\ SlotInv(s)' /\ ~Submitting(s)'
  BY <1>0, IdleSlot DEF Quiet, Ends
<1>2. RowsInv' /\ Guarantee(s)
  BY <1>1, SameRowsInv, SameRowsGuarantee
<1>3. TypeOK'
  BY <1>0 DEF ExecutionInv, TypeOK, Quiet, SameRows, Ends, ActType
<1>4. WorkflowInv'
  <2>1. PollIsDue'
    BY <1>1 DEF ExecutionInv, WorkflowInv, PollIsDue, SameRows
  <2>2. NothingOverran'
    BY <1>0, <1>1 DEF ExecutionInv, WorkflowInv, NothingOverran, SameRows, Ends,
                OthersKeep, Keeps, Claimed, NoActivity
  <2> QED
    BY <2>1, <2>2 DEF WorkflowInv
<1> QED
  BY <1>0, <1>1, <1>2, <1>3, <1>4, StepInv DEF Ends

\* The workflow after a return, from the rows as the step leaves them.
LEMMA ReturnWorkflow ==
  ASSUME ExecutionInv, NEW s \in Slots, act[s].pc # "none", NEW r, Returns(s, r),
         overran' = overran,
         attempt.checkpoint # "none" => attempt'.checkpoint # "none",
         r = "poll" => attempt'.checkpoint # "none",
         ~overran =>
           /\ exec'.status # "pending"
           /\ exec'.status = "preflighting"
                => NextDue(act[s].name, r) = "claim"
           /\ exec'.status = "failed"
                => NextDue(act[s].name, r) = "closed" /\ ~Claimed'
  PROVE  WorkflowInv'
<1>1. wf'.due = IF s = "live" THEN NextDue(act[s].name, r) ELSE wf.due
  BY DEF Returns
<1>2. PollIsDue'
  BY <1>1, NextDueType DEF ExecutionInv, WorkflowInv, PollIsDue
<1>3. NothingOverran'
  <2>1. SUFFICES ASSUME ~overran
                 PROVE  NothingOverran'
    BY DEF NothingOverran
  <2>2. s = "live"
    BY <2>1, EarlySteps
  <2>3. \A t \in Slots : act'[t].pc = "none"
    BY <2>1, <2>2 DEF ExecutionInv, WorkflowInv, NothingOverran, Returns, Ends,
                      OthersKeep, Keeps, NoActivity
  <2>4. "live" \in Slots
    BY GongbuAssumption
  <2> QED
    BY <1>1, <2>1, <2>2, <2>3, <2>4 DEF NothingOverran
<1> QED
  BY <1>2, <1>3 DEF WorkflowInv

\* A step that commits nothing and returns.
LEMMA QuietReturn ==
  ASSUME ExecutionInv, NEW s \in Slots, act[s].pc # "none", Quiet,
         NEW r, Return(s, r),
         r = "poll" => attempt.checkpoint # "none",
         act[s].pc \in {"preflight", "claim", "claim_call", "save_claim", "transition",
                       "check"} /\ ~overran
           => \/ exec.status \notin {"pending", "preflighting"}
              \/ /\ exec.status = "preflighting"
                 /\ NextDue(act[s].name, r) = "claim"
  PROVE  ExecutionInv'
<1>0. Returns(s, r)
  BY ReturnReturns DEF ExecutionInv, TypeOK, ActType, WfType
<1>1. SameRows /\ SlotInv(s)' /\ ~Submitting(s)'
  BY <1>0, IdleSlot DEF Quiet, Returns, Ends
<1>2. RowsInv' /\ Guarantee(s)
  BY <1>1, SameRowsInv, SameRowsGuarantee
<1>3. TypeOK'
  BY <1>0 DEF ExecutionInv, TypeOK, Quiet, SameRows, Returns, Ends, ActType, WfType
<1>4. WorkflowInv'
  BY <1>0, <1>1, ReturnWorkflow, EarlySteps DEF SameRows
<1> QED
  BY <1>0, <1>1, <1>2, <1>3, <1>4, StepInv DEF Returns, Ends

\* A step that leaves the file and the services alone.
LEMMA QuietStep ==
  ASSUME ExecutionInv, UNCHANGED <<store, hubu, work, posts, proc>>
  PROVE  Quiet
BY DEF ExecutionInv, TypeOK, Quiet, SameRows, store, proc

\* A step that commits nothing and is to require reconciliation.
LEMMA QuietReconcile ==
  ASSUME ExecutionInv, NEW s \in Slots, act[s].pc # "none", Quiet, wf' = wf,
         NEW f, Moves(s, "transition", f, "reconciliation_required"),
         f => /\ attempt.outcome = "started" => attempt.sent
              /\ exec.status = "settling" => ~attempt.billable \/ SettlementSent
  PROVE  ExecutionInv'
<1>1. SlotInv(s) /\ SettlementSent' = SettlementSent
  BY DEF ExecutionInv, Quiet, SameRows, SettlementSent
<1>2. SlotInv(s)' /\ ~Submitting(s)'
  BY <1>1 DEF Moves, SlotInv, ReadStatus, AtProvider, AtEnd,
       AtTransition, Named, Submitting, Quiet, SameRows
<1> QED
  BY <1>2, QuietMove

\* A step that commits nothing and chains.
LEMMA QuietChain ==
  ASSUME ExecutionInv, NEW s \in Slots, Quiet, NEW r, Chain(s, r), r # "poll",
         act[s].pc \notin {"none", "preflight", "claim", "claim_call", "save_claim",
                          "transition", "check"}
  PROVE  ExecutionInv'
<1>1. ActType /\ WfType /\ SlotInv(s)
  BY DEF ExecutionInv, TypeOK, ActType, WfType
<1>2. CASE act[s].name = "recover" /\ r \in {"persist", "release", "settling"}
  <2>1. PICK pc \in {"persist", "release", "settle"} :
          Moves(s, pc, act[s].fresh, act[s].arg) /\ wf' = wf
    BY <1>1, <1>2 DEF Chain, ChainFrom, ActType, ActivityType, Moves, OthersKeep,
       Keeps, Steps, Phases
  <2>2. SlotInv(s)' /\ ~Submitting(s)'
    BY <1>1, <1>2, <2>1 DEF Moves, SlotInv, ReadStatus, AtProvider, AtEnd,
       AtTransition, Named, Submitting, Phases
  <2> QED
    BY <2>1, <2>2, QuietMove
<1>3. CASE ~(act[s].name = "recover" /\ r \in {"persist", "release", "settling"})
  <2>1. Return(s, r)
    BY <1>3 DEF Chain, ChainFrom, Return
  <2> QED
    BY <2>1, QuietReturn
<1> QED
  BY <1>2, <1>3

-----------------------------------------------------------------------------
(* Steps that commit nothing                                                  *)

\* A version that got old ends the activity.
LEMMA StaleInv ==
  ASSUME ExecutionInv, NEW s \in Slots, Stale(s)
  PROVE  ExecutionInv'
<1>1. act[s].pc # "none" /\ Quiet /\ wf' = wf /\ Fail(s)
  BY QuietStep DEF Stale, Versioned
<1> QED
  BY <1>1, QuietFail

\* The reconciliation record is written.
LEMMA RecordReconciliationInv ==
  ASSUME ExecutionInv, NEW s \in Slots, RecordReconciliation(s)
  PROVE  ExecutionInv'
<1>1. act[s].pc = "record" /\ Quiet
  BY DEF ExecutionInv, TypeOK, RecordReconciliation, At, Quiet, SameRows, proc
<1>2. Return(s, "reconciliation_required")
  BY DEF RecordReconciliation
<1> QED
  BY <1>1, <1>2, QuietReturn

\* The preflight's checks.
LEMMA CheckPreflightInv ==
  ASSUME ExecutionInv, NEW s \in Slots, CheckPreflight(s)
  PROVE  ExecutionInv'
<1>1. act[s].pc = "check" /\ Quiet /\ SlotInv(s) /\ ActType
  BY QuietStep DEF CheckPreflight, At, ExecutionInv, TypeOK, ActType
<1>2. /\ act[s].name = "preflight"
      /\ ~overran => exec.status = "preflighting" /\ ~Claimed
  BY <1>1, EarlySteps
     DEF SlotInv, ReadStatus, Named, Current, ExecutionInv, WorkflowInv, NothingOverran
<1>3. CASE Return(s, exec.status)
  <2>1. exec.status # "poll"
    BY DEF ExecutionInv, TypeOK, Statuses
  <2>2. exec.status = "preflighting" => NextDue("preflight", exec.status) = "claim"
    BY DEF NextDue
  <2> QED
    BY <1>1, <1>2, <1>3, <2>1, <2>2, QuietReturn
<1>4. CASE Commit(s, "failed", "none") /\ wf' = wf
  <2>1. Moves(s, "transition", act[s].fresh, "failed")
    BY <1>1, <1>4, CommitMoves DEF Statuses, Outcomes
  <2>2. SlotInv(s)' /\ ~Submitting(s)'
    BY <1>1, <1>2, <2>1 DEF Moves, SlotInv, ReadStatus, AtProvider, AtEnd,
       AtTransition, Named, Submitting, Quiet, SameRows, Claimed
  <2> QED
    BY <1>1, <1>4, <2>1, <2>2, QuietMove
<1> QED
  BY <1>3, <1>4 DEF CheckPreflight

\* The claim phase reads the execution.
LEMMA ClaimPhaseInv ==
  ASSUME ExecutionInv, NEW s \in Slots, Claim(s)
  PROVE  ExecutionInv'
<1>1. act[s].pc = "claim" /\ Quiet /\ SlotInv(s) /\ ActType
  BY QuietStep DEF Claim, At, ExecutionInv, TypeOK, ActType
<1>2. CASE exec.status # "preflighting" /\ Return(s, exec.status)
  <2>1. exec.status # "poll"
    BY DEF ExecutionInv, TypeOK, Statuses
  <2> QED
    BY <1>1, <1>2, <2>1, QuietReturn, EarlySteps
<1>3. CASE exec.status = "preflighting" /\ Read(s, "claim_call") /\ wf' = wf
  <2>1. Moves(s, "claim_call", TRUE, act[s].arg)
    BY <1>1, <1>3, ReadMoves DEF Steps
  <2>2. SlotInv(s)' /\ ~Submitting(s)'
    BY <1>1, <1>3, <2>1 DEF Moves, SlotInv, ReadStatus, AtProvider, AtEnd,
       AtTransition, Named, Submitting, Quiet, SameRows
  <2> QED
    BY <1>1, <1>3, <2>1, <2>2, QuietMove
<1> QED
  BY <1>2, <1>3 DEF Claim

\* The validation phase reads the execution.
LEMMA ValidateInv ==
  ASSUME ExecutionInv, NEW s \in Slots, Validate(s)
  PROVE  ExecutionInv'
<1>1. act[s].pc = "validate" /\ Quiet /\ SlotInv(s) /\ ActType
  BY QuietStep DEF Validate, At, ExecutionInv, TypeOK, ActType
<1>2. CASE exec.status # "claimed" /\ Return(s, exec.status)
  <2>1. exec.status # "poll"
    BY DEF ExecutionInv, TypeOK, Statuses
  <2> QED
    BY <1>1, <1>2, <2>1, QuietReturn
<1>3. CASE exec.status = "claimed" /\ Read(s, "inspect") /\ wf' = wf
  <2>1. Moves(s, "inspect", TRUE, act[s].arg)
    BY <1>1, <1>3, ReadMoves DEF Steps
  <2>2. SlotInv(s)' /\ ~Submitting(s)'
    BY <1>1, <1>3, <2>1 DEF Moves, SlotInv, ReadStatus, AtProvider, AtEnd,
       AtTransition, Named, Submitting, Quiet, SameRows
  <2> QED
    BY <1>1, <1>3, <2>1, <2>2, QuietMove
<1> QED
  BY <1>2, <1>3 DEF Validate

\* The claim is inspected at Hubu.
LEMMA InspectClaimInv ==
  ASSUME ExecutionInv, NEW s \in Slots, InspectClaim(s)
  PROVE  ExecutionInv'
<1>1. act[s].pc = "inspect" /\ Quiet /\ SlotInv(s) /\ ActType /\ wf' = wf
  BY QuietStep DEF InspectClaim, At, ExecutionInv, TypeOK, ActType
<1>2. CASE Goto(s, "start_attempt")
  <2>1. Moves(s, "start_attempt", act[s].fresh, act[s].arg)
    BY <1>1, <1>2, GotoMoves DEF Steps, Versioned
  <2>2. SlotInv(s)' /\ ~Submitting(s)'
    BY <1>1, <2>1 DEF Moves, SlotInv, ReadStatus, AtProvider, AtEnd, Current,
       AtTransition, Named, Submitting, Quiet, SameRows
  <2> QED
    BY <1>1, <2>1, <2>2, QuietMove
<1>3. CASE Commit(s, "reconciliation_required", "none")
  <2>1. Moves(s, "transition", act[s].fresh, "reconciliation_required")
    BY <1>1, <1>3, CommitMoves DEF Statuses, Outcomes
  <2>2. act[s].fresh => attempt.outcome = "none" /\ exec.status = "claimed"
    BY <1>1 DEF SlotInv, ReadStatus, Current, ExecutionInv, RowsInv,
                AttemptFollowsStatus
  <2> QED
    BY <1>1, <2>1, <2>2, QuietReconcile
<1> QED
  BY <1>2, <1>3 DEF InspectClaim

\* A phase that finds the attempt completed.
LEMMA CompletedAttemptInv ==
  ASSUME ExecutionInv, NEW s \in Slots, act[s].pc \in {"submit", "poll"}, Quiet,
         exec.status = "executing", Completed, CompletedAttempt(s)
  PROVE  ExecutionInv'
<1>1. ActType /\ attempt.sent /\ attempt.outcome \in Outcomes
  BY DEF ExecutionInv, TypeOK, ActType, RowsInv, EvidenceIsTrue, Completed, Outcomes
<1>2. CASE Chain(s, "persist")
  BY <1>2, QuietChain
<1>3. CASE Chain(s, "release")
  BY <1>3, QuietChain
<1>4. CASE ReadAndCommit(s, "reconciliation_required", attempt.outcome) /\ wf' = wf
  <2>1. Moves(s, "transition", TRUE, "reconciliation_required")
    BY <1>1, <1>4, ReadAndCommitMoves DEF Statuses
  <2> QED
    BY <1>1, <1>4, <2>1, QuietReconcile
<1> QED
  BY <1>2, <1>3, <1>4 DEF CompletedAttempt

\* The submit phase reads the execution and its attempt.
LEMMA SubmitInv ==
  ASSUME ExecutionInv, NEW s \in Slots, Submit(s)
  PROVE  ExecutionInv'
<1>1. act[s].pc = "submit" /\ Quiet /\ SlotInv(s) /\ ActType
  BY QuietStep DEF Submit, At, ExecutionInv, TypeOK, ActType
<1>2. CASE exec.status # "executing" /\ Return(s, exec.status)
  <2>1. exec.status # "poll"
    BY DEF ExecutionInv, TypeOK, Statuses
  <2> QED
    BY <1>1, <1>2, <2>1, QuietReturn
<1>3. CASE exec.status = "executing" /\ Completed /\ CompletedAttempt(s)
  BY <1>1, <1>3, CompletedAttemptInv
<1>4. CASE attempt.checkpoint # "none" /\ Return(s, "poll")
  BY <1>1, <1>4, QuietReturn
<1>5. CASE /\ exec.status = "executing"
           /\ attempt.sent
           /\ ReadAndCommit(s, "reconciliation_required", "ambiguous")
           /\ wf' = wf
  <2>1. Moves(s, "transition", TRUE, "reconciliation_required")
    BY <1>1, <1>5, ReadAndCommitMoves DEF Statuses, Outcomes
  <2> QED
    BY <1>1, <1>5, <2>1, QuietReconcile
<1>6. CASE exec.status = "executing" /\ Read(s, "begin_transmission") /\ wf' = wf
  <2>1. Moves(s, "begin_transmission", TRUE, act[s].arg)
    BY <1>1, <1>6, ReadMoves DEF Steps
  <2>2. attempt'.outcome # "none"
    BY <1>1, <1>6 DEF ExecutionInv, RowsInv, AttemptFollowsStatus, Quiet, SameRows
  <2>3. SlotInv(s)' /\ ~Submitting(s)'
    BY <1>1, <2>1, <2>2 DEF Moves, SlotInv, ReadStatus, AtProvider, AtEnd,
       AtTransition, Named, Submitting
  <2> QED
    BY <1>1, <1>6, <2>1, <2>3, QuietMove
<1> QED
  BY <1>2, <1>3, <1>4, <1>5, <1>6 DEF Submit

\* The poll phase reads the execution and its attempt.
LEMMA PollInv ==
  ASSUME ExecutionInv, NEW s \in Slots, Poll(s)
  PROVE  ExecutionInv'
<1>1. act[s].pc = "poll" /\ Quiet /\ SlotInv(s) /\ ActType
  BY QuietStep DEF Poll, At, ExecutionInv, TypeOK, ActType
<1>2. CASE exec.status # "executing" /\ Return(s, exec.status)
  <2>1. exec.status # "poll"
    BY DEF ExecutionInv, TypeOK, Statuses
  <2> QED
    BY <1>1, <1>2, <2>1, QuietReturn
<1>3. CASE exec.status = "executing" /\ Completed /\ CompletedAttempt(s)
  BY <1>1, <1>3, CompletedAttemptInv
<1>4. CASE Read(s, "poll_call") /\ wf' = wf
  <2>1. Moves(s, "poll_call", TRUE, act[s].arg)
    BY <1>1, <1>4, ReadMoves DEF Steps
  <2>2. SlotInv(s)' /\ ~Submitting(s)'
    BY <1>1, <2>1 DEF Moves, SlotInv, ReadStatus, AtProvider, AtEnd,
       AtTransition, Named, Submitting, Quiet, SameRows
  <2> QED
    BY <1>1, <1>4, <2>1, <2>2, QuietMove
<1> QED
  BY <1>2, <1>3, <1>4 DEF Poll

\* The artifact phase reads the execution and its attempt.
LEMMA PersistInv ==
  ASSUME ExecutionInv, NEW s \in Slots, Persist(s)
  PROVE  ExecutionInv'
<1>1. act[s].pc = "persist" /\ Quiet /\ SlotInv(s) /\ ActType
  BY QuietStep DEF Persist, At, ExecutionInv, TypeOK, ActType
<1>2. CASE exec.status = "executing" /\ attempt.outcome = "succeeded"
  <2>1. PICK pc \in {"store", "count"} :
          act' = [act EXCEPT ![s].pc = pc, ![s].fresh = TRUE, ![s].n = 0]
    BY <1>2 DEF Persist
  <2>2. Moves(s, pc, TRUE, act[s].arg) /\ wf' = wf
    BY <1>1, <1>2, <2>1 DEF Persist, ActType, ActivityType, Moves, OthersKeep, Keeps,
       Steps
  <2>3. SlotInv(s)' /\ ~Submitting(s)'
    BY <1>1, <1>2, <2>2 DEF Moves, SlotInv, ReadStatus, AtProvider, AtEnd,
       AtTransition, Named, Submitting, Quiet, SameRows
  <2> QED
    BY <1>1, <2>2, <2>3, QuietMove
<1>3. CASE Chain(s, exec.status)
  <2>1. exec.status # "poll"
    BY DEF ExecutionInv, TypeOK, Statuses
  <2> QED
    BY <1>1, <1>3, <2>1, QuietChain
<1> QED
  BY <1>2, <1>3 DEF Persist

\* The durable artifacts are counted.
LEMMA CountArtifactsInv ==
  ASSUME ExecutionInv, NEW s \in Slots, CountArtifacts(s)
  PROVE  ExecutionInv'
<1>1. act[s].pc = "count" /\ Quiet /\ SlotInv(s) /\ ActType /\ wf' = wf
  BY QuietStep DEF CountArtifacts, At, ExecutionInv, TypeOK, ActType
<1>2. attempt.outcome = "succeeded" /\ (act[s].fresh => exec.status = "executing")
  BY <1>1 DEF SlotInv, AtProvider, ReadStatus, Current
<1>3. CASE durable = Artifacts /\ Goto(s, "deliver")
  <2>1. Moves(s, "deliver", act[s].fresh, act[s].arg)
    BY <1>1, <1>3, GotoMoves DEF Steps, Versioned
  <2>2. AllDurable'
    BY <1>1, <1>2, <1>3, GongbuAssumption DEF AllDurable, Quiet, SameRows
  <2>3. SlotInv(s)' /\ ~Submitting(s)'
    BY <1>1, <2>1, <2>2 DEF Moves, SlotInv, ReadStatus, AtProvider, AtEnd, Current,
       AtTransition, Named, Submitting, Quiet, SameRows
  <2> QED
    BY <1>1, <2>1, <2>3, QuietMove
<1>4. CASE Commit(s, "reconciliation_required", "succeeded")
  <2>1. Moves(s, "transition", act[s].fresh, "reconciliation_required")
    BY <1>1, <1>4, CommitMoves DEF Statuses, Outcomes
  <2> QED
    BY <1>1, <1>2, <2>1, QuietReconcile
<1> QED
  BY <1>3, <1>4 DEF CountArtifacts

\* The release phase reads the execution and its attempt.
LEMMA ReleaseInv ==
  ASSUME ExecutionInv, NEW s \in Slots, Release(s)
  PROVE  ExecutionInv'
<1>1. act[s].pc = "release" /\ Quiet /\ SlotInv(s) /\ ActType
  BY QuietStep DEF Release, At, ExecutionInv, TypeOK, ActType
<1>2. CASE /\ exec.status = "executing" /\ attempt.outcome = "failed"
           /\ ReadAndCommit(s, "reconciliation_required", "failed") /\ wf' = wf
  <2>1. Moves(s, "transition", TRUE, "reconciliation_required")
    BY <1>1, <1>2, ReadAndCommitMoves DEF Statuses, Outcomes
  <2> QED
    BY <1>1, <1>2, <2>1, QuietReconcile
<1>3. CASE /\ exec.status = "executing" /\ attempt.outcome = "failed"
           /\ Read(s, "mark_release") /\ wf' = wf
  <2>1. Moves(s, "mark_release", TRUE, act[s].arg)
    BY <1>1, <1>3, ReadMoves DEF Steps, Versioned
  <2>2. SlotInv(s)' /\ ~Submitting(s)'
    BY <1>1, <1>3, <2>1 DEF Moves, SlotInv, ReadStatus, AtProvider, AtEnd,
       AtTransition, Named, Submitting, Quiet, SameRows
  <2> QED
    BY <1>1, <1>3, <2>1, <2>2, QuietMove
<1>4. CASE Return(s, exec.status)
  <2>1. exec.status # "poll"
    BY DEF ExecutionInv, TypeOK, Statuses
  <2> QED
    BY <1>1, <1>4, <2>1, QuietReturn
<1> QED
  BY <1>2, <1>3, <1>4 DEF Release

\* The settlement phase reads the execution, its attempt and its receipt.
LEMMA SettleInv ==
  ASSUME ExecutionInv, NEW s \in Slots, Settle(s)
  PROVE  ExecutionInv'
<1>1. act[s].pc = "settle" /\ Quiet /\ SlotInv(s) /\ ActType
  BY QuietStep DEF Settle, At, ExecutionInv, TypeOK, ActType
<1>2. CASE exec.status # "settling"
  <2>1. Return(s, exec.status) /\ exec.status # "poll"
    BY <1>2 DEF Settle, ExecutionInv, TypeOK, Statuses
  <2> QED
    BY <1>1, <2>1, QuietReturn
<1>3. CASE exec.status = "settling"
  <2>1. AllDurable /\ attempt.outcome = "succeeded" /\ wf' = wf
    BY <1>3 DEF ExecutionInv, RowsInv, AttemptFollowsStatus, AllDurable, Settle
  <2>2. CASE /\ ~attempt.billable \/ receipt = "sent"
             /\ ReadAndCommit(s, "reconciliation_required", "none")
    <3>1. Moves(s, "transition", TRUE, "reconciliation_required")
      BY <1>1, <2>2, ReadAndCommitMoves DEF Statuses, Outcomes
    <3> QED
      BY <1>1, <2>1, <2>2, <3>1, QuietReconcile DEF SettlementSent
  <2>3. CASE attempt.billable /\ Read(s, "create_receipt")
    <3>1. Moves(s, "create_receipt", TRUE, act[s].arg)
      BY <1>1, <2>3, ReadMoves DEF Steps
    <3>2. AllDurable' /\ attempt'.billable /\ exec'.status = "settling"
      BY <1>1, <1>3, <2>1, <2>3 DEF Quiet, SameRows, AllDurable
    <3>3. SlotInv(s)' /\ ~Submitting(s)'
      BY <1>1, <3>1, <3>2 DEF Moves, SlotInv, ReadStatus, AtProvider, AtEnd,
         AtTransition, Named, Submitting
    <3> QED
      BY <1>1, <2>1, <3>1, <3>3, QuietMove
  <2>4. CASE receipt = "created" /\ Read(s, "begin_settlement")
    <3>1. Moves(s, "begin_settlement", TRUE, act[s].arg)
      BY <1>1, <2>4, ReadMoves DEF Steps
    <3>2. SlotInv(s)' /\ ~Submitting(s)'
      BY <1>1, <2>4, <3>1 DEF Moves, SlotInv, ReadStatus, AtProvider, AtEnd,
         AtTransition, Named, Submitting, Quiet, SameRows
    <3> QED
      BY <1>1, <2>1, <3>1, <3>2, QuietMove
  <2>5. CASE receipt = "settled" /\ ReadAndCommit(s, "succeeded", "none")
    <3>1. Moves(s, "transition", TRUE, "succeeded")
      BY <1>1, <2>5, ReadAndCommitMoves DEF Statuses, Outcomes
    <3>2. SlotInv(s)' /\ ~Submitting(s)'
      BY <1>1, <2>5, <3>1 DEF Moves, SlotInv, ReadStatus, AtProvider, AtEnd,
         AtTransition, Named, Submitting, Quiet, SameRows
    <3> QED
      BY <1>1, <2>1, <3>1, <3>2, QuietMove
  <2>6. attempt.billable \in BOOLEAN /\ receipt \in {"none", "created", "sent", "settled"}
    BY DEF ExecutionInv, TypeOK
  <2> QED
    BY <1>3, <2>2, <2>3, <2>4, <2>5, <2>6 DEF Settle
<1> QED
  BY <1>2, <1>3

\* An automatic recovery is marked on the record.
LEMMA MarkRecoveryInv ==
  ASSUME ExecutionInv, NEW s \in Slots, MarkRecovery(s)
  PROVE  ExecutionInv'
<1>1. act[s].pc = "mark" /\ Quiet /\ SlotInv(s) /\ ActType /\ wf' = wf
  BY QuietStep DEF MarkRecovery, At, ExecutionInv, TypeOK, ActType
<1>2. CASE Goto(s, "recover")
  <2>1. Moves(s, "recover", act[s].fresh, act[s].arg)
    BY <1>1, <1>2, GotoMoves DEF Steps, Phases
  <2>2. SlotInv(s)' /\ ~Submitting(s)'
    BY <1>1, <2>1 DEF Moves, SlotInv, ReadStatus, AtProvider, AtEnd,
       AtTransition, Named, Submitting
  <2> QED
    BY <1>1, <2>1, <2>2, QuietMove
<1>3. CASE Fail(s)
  BY <1>1, <1>3, QuietFail
<1> QED
  BY <1>2, <1>3 DEF MarkRecovery

\* The recovery activity reads everything and decides; a release is safe only
\* without an attempt or after a proven failure, for an attempt in
\* reconciliation has been transmitted.
LEMMA RecoverInv ==
  ASSUME ExecutionInv, NEW s \in Slots, Recover(s)
  PROVE  ExecutionInv'
<1>1. act[s].pc = "recover" /\ Quiet /\ SlotInv(s) /\ ActType
  BY QuietStep DEF Recover, At, ExecutionInv, TypeOK, ActType
<1>2. exec.status # "poll"
  BY DEF ExecutionInv, TypeOK, Statuses
<1>3. CASE Reopened /\ Goto(s, "poll") /\ wf' = wf
  <2>1. Moves(s, "poll", act[s].fresh, act[s].arg)
    BY <1>1, <1>3, GotoMoves DEF Steps, Phases
  <2>2. SlotInv(s)' /\ ~Submitting(s)'
    BY <1>1, <1>3, <2>1 DEF Moves, SlotInv, ReadStatus, AtProvider, AtEnd,
       AtTransition, Named, Submitting, Reopened, Quiet, SameRows
  <2> QED
    BY <1>1, <1>3, <2>1, <2>2, QuietMove
<1>4. CASE Goto(s, "settle") /\ wf' = wf
  <2>1. Moves(s, "settle", act[s].fresh, act[s].arg)
    BY <1>1, <1>4, GotoMoves DEF Steps, Phases
  <2>2. SlotInv(s)' /\ ~Submitting(s)'
    BY <1>1, <2>1 DEF Moves, SlotInv, ReadStatus, AtProvider, AtEnd,
       AtTransition, Named, Submitting
  <2> QED
    BY <1>1, <1>4, <2>1, <2>2, QuietMove
<1>5. CASE Return(s, exec.status)
  BY <1>1, <1>2, <1>5, QuietReturn
<1>6. CASE Fail(s) /\ wf' = wf
  BY <1>1, <1>6, QuietFail
<1>7. ASSUME NEW step, step = RecoveryStep(act[s].input), step # "none",
             exec.status = "reconciliation_required",
             act' = [act EXCEPT ![s].pc = step, ![s].fresh = TRUE, ![s].arg = receipt],
             wf' = wf
      PROVE  ExecutionInv'
  <2>1. step \in {"reclaim", "reopen", "resettle", "rerelease"}
    BY <1>7 DEF RecoveryStep
  <2>2. Moves(s, step, TRUE, receipt)
    <3>1. receipt \in ArgType
      BY DEF ExecutionInv, TypeOK, ArgType
    <3>2. act[s] \in ActivityType
      BY <1>1 DEF ActType
    <3>3. act'[s] = [name |-> act[s].name, pc |-> step, input |-> act[s].input,
                     fresh |-> TRUE, arg |-> receipt, outcome |-> act[s].outcome,
                     n |-> act[s].n]
      BY <1>1, <1>7, <3>2 DEF ActType, ActivityType
    <3>4. act'[s] \in ActivityType
      BY <2>1, <3>1, <3>2, <3>3 DEF ActivityType, Steps, Versioned, ArgType
    <3>5. \A t \in Slots : t # s => act'[t] = act[t]
      BY <1>1, <1>7 DEF ActType
    <3>6. act' = [t \in Slots |-> act'[t]]
      BY <1>1, <1>7 DEF ActType
    <3>7. act' \in [Slots -> ActivityType]
      BY <1>1, <3>4, <3>5, <3>6 DEF ActType
    <3> QED
      BY <3>3, <3>5, <3>7 DEF Moves, OthersKeep, Keeps, ActType
  <2>3. /\ step = "reclaim" => Dead'
        /\ step = "reopen" => attempt'.checkpoint # "none"
        /\ step = "resettle" => SettlementSent'
        /\ step = "rerelease" => attempt'.outcome = "failed" \/ Dead'
    <3>1. step = "reclaim" => attempt.outcome = "none"
      BY <1>7 DEF RecoveryStep
    <3>2. step = "reopen" => attempt.checkpoint = "rejected"
      BY <1>7 DEF RecoveryStep
    <3>3. step = "resettle" => receipt # "none"
      BY <1>7 DEF RecoveryStep, SettleProven
    <3>4. step = "rerelease" => attempt.outcome \in {"none", "failed"} \/ ~attempt.sent
      BY <1>7 DEF RecoveryStep, SafeRelease
    <3>5. /\ receipt # "created"
          /\ ~attempt.sent => attempt.outcome = "none"
          /\ receipt \in {"none", "created", "sent", "settled"}
      BY <1>7 DEF ExecutionInv, TypeOK, RowsInv, MoneyFollowsEvidence, EvidenceIsTrue,
         AttemptFollowsStatus, Completed, Outcomes
    <3> QED
      BY <1>1, <1>7, <3>1, <3>2, <3>3, <3>4, <3>5
         DEF Dead, SettlementSent, Quiet, SameRows
  <2>4. SlotInv(s)' /\ ~Submitting(s)'
    BY <1>1, <1>7, <2>1, <2>2, <2>3 DEF Moves, SlotInv, ReadStatus, AtProvider, AtEnd,
       AtTransition, Named, Submitting, Quiet, SameRows
  <2> QED
    BY <1>1, <1>7, <2>2, <2>4, QuietMove
<1> QED
  BY <1>3, <1>4, <1>5, <1>6, <1>7 DEF Recover

-----------------------------------------------------------------------------
(* Calls to Hubu                                                              *)

\* Hubu grants a claim, settles what was sent for settlement and releases what
\* was not billed.
HubuMoves ==
  \/ hubu' = hubu
  \/ hubu = "available" /\ hubu' = "claimed"
  \/ hubu = "claimed" /\ hubu' = "settled" /\ SettlementSent
  \/ hubu = "claimed" /\ hubu' = "released" /\ (attempt.outcome = "failed" \/ Dead)

\* What a claim call does to the authorization, and what its answer proves.
LEMMA ClaimAnswer ==
  ASSUME TypeOK, NEW answer, HubuClaim(answer)
  PROVE  /\ hubu' = hubu \/ (hubu = "available" /\ hubu' = "claimed")
         /\ answer = "ok" => Claimed'
         /\ answer = "rejected" => ~Claimed'
BY DEF TypeOK, HubuClaim, HubuCall, Claimed

\* What a settlement call does, and what its answer proves.
LEMMA SettleAnswer ==
  ASSUME TypeOK, NEW answer, HubuSettle(answer)
  PROVE  /\ hubu' = hubu \/ (hubu = "claimed" /\ hubu' = "settled")
         /\ answer = "ok" => hubu' = "settled"
BY DEF TypeOK, HubuSettle, HubuCall

\* What a release call does, and what its answer proves.
LEMMA ReleaseAnswer ==
  ASSUME TypeOK, NEW answer, HubuRelease(answer)
  PROVE  /\ hubu' = hubu \/ (hubu = "claimed" /\ hubu' = "released")
         /\ answer = "ok" => hubu' = "released"
BY DEF TypeOK, HubuRelease, HubuCall

\* The rows agree with what Hubu did.
LEMMA HubuRows ==
  ASSUME ExecutionInv, HubuMoves, UNCHANGED <<store, work, posts, proc>>,
         NEW s \in Slots, Submitting(s)' => Submitting(s) \/ ~attempt.sent
  PROVE  RowsInv' /\ Guarantee(s)
<1>1. /\ UNCHANGED <<exec, attempt, durable, receipt, work, posts, overran>>
      /\ AllDurable' = AllDurable
      /\ SettlementSent' = SettlementSent
      /\ Dead' = Dead
      /\ Completed' = Completed
  BY DEF store, proc, AllDurable, SettlementSent, Dead, Completed
<1>2. /\ Claimed => Claimed'
      /\ hubu \in {"settled", "released"} => hubu' = hubu
      /\ hubu' = "released" => hubu = "released" \/ attempt.outcome = "failed" \/ Dead
      /\ hubu' = "settled" => hubu = "settled" \/ SettlementSent
  BY DEF HubuMoves, Claimed
<1>3. RowsInv'
  BY <1>1, <1>2 DEF ExecutionInv, RowsInv, AttemptFollowsStatus, EvidenceIsTrue,
                    MoneyFollowsEvidence
<1>4. Guarantee(s)
  BY <1>1, <1>2 DEF Guarantee, RowsGrow, LeavesSubmission, Submitting
<1> QED
  BY <1>3, <1>4

\* A call to Hubu after which the activity goes on.
LEMMA HubuMove ==
  ASSUME ExecutionInv, NEW s \in Slots, act[s].pc # "none", wf' = wf,
         UNCHANGED <<store, work, posts, proc>>, HubuMoves,
         hubu' # hubu /\ hubu = "available" => act[s].pc \in {"claim_call", "reclaim"},
         NEW pc, NEW f, NEW a, Moves(s, pc, f, a), SlotInv(s)', ~Submitting(s)'
  PROVE  ExecutionInv'
<1>1. RowsInv' /\ Guarantee(s)
  BY HubuRows
<1>2. TypeOK'
  BY DEF ExecutionInv, TypeOK, HubuMoves, store, proc, Moves, ActType
<1>3. PollIsDue'
  BY DEF ExecutionInv, WorkflowInv, PollIsDue, store
<1>4. NothingOverran'
  <2>1. SUFFICES ASSUME ~overran
                 PROVE  NothingOverran'
    BY DEF NothingOverran, proc
  <2>2. act[s].pc \in {"claim_call", "reclaim"}
          => exec.status # "pending" /\ (exec.status = "preflighting" => wf.due = "claim")
    BY <2>1, EarlySteps
  <2>3. exec.status # "failed"
    BY <2>1, EarlySteps
  <2>4. Claimed' => Claimed \/ act[s].pc \in {"claim_call", "reclaim"}
    BY DEF HubuMoves, Claimed
  <2> QED
    BY <2>1, <2>2, <2>3, <2>4 DEF ExecutionInv, WorkflowInv, NothingOverran, store,
       Moves, OthersKeep, Keeps
<1> QED
  BY <1>1, <1>2, <1>3, <1>4, StepInv DEF Moves, WorkflowInv

\* A call to Hubu after which the recovery activity returns.
LEMMA HubuReturn ==
  ASSUME ExecutionInv, NEW s \in Slots,
         act[s].pc \in {"reclaim", "resettle", "rerelease"},
         UNCHANGED <<store, work, posts, proc>>, HubuMoves,
         Return(s, "reconciliation_required")
  PROVE  ExecutionInv'
<1>0. Returns(s, "reconciliation_required")
  BY ReturnReturns DEF ExecutionInv, TypeOK, ActType, WfType
<1>1. SlotInv(s)' /\ ~Submitting(s)'
  BY <1>0, IdleSlot DEF Returns, Ends
<1>2. RowsInv' /\ Guarantee(s)
  BY <1>1, HubuRows
<1>3. TypeOK'
  BY <1>0 DEF ExecutionInv, TypeOK, HubuMoves, store, proc, Returns, Ends, ActType, WfType
<1>4. WorkflowInv'
  BY <1>0, ReturnWorkflow, EarlySteps DEF store, proc
<1> QED
  BY <1>0, <1>1, <1>2, <1>3, <1>4, StepInv DEF Returns, Ends

\* The claim call: the claim is known, refused or lost.
LEMMA CallClaimInv ==
  ASSUME ExecutionInv, NEW s \in Slots, CallClaim(s)
  PROVE  ExecutionInv'
<1>1. /\ act[s].pc = "claim_call" /\ SlotInv(s) /\ ActType /\ TypeOK /\ wf' = wf
      /\ UNCHANGED <<store, work, posts, proc>>
  BY DEF CallClaim, At, ExecutionInv, TypeOK, ActType
<1>2. PICK answer \in Answers :
        /\ HubuClaim(answer)
        /\ CASE answer = "ok" -> Goto(s, "save_claim")
             [] answer = "rejected" -> Commit(s, "failed", "none")
             [] answer = "lost" -> Commit(s, "reconciliation_required", "none")
  BY DEF CallClaim
<1>3. /\ HubuMoves
      /\ answer = "ok" => Claimed'
      /\ answer = "rejected" => ~Claimed'
  BY <1>1, <1>2, ClaimAnswer DEF HubuMoves
<1>4. UNCHANGED <<exec, attempt, overran>>
  BY <1>1 DEF store, proc
<1>5. act[s].fresh => exec.status = "preflighting" /\ attempt.outcome = "none"
  BY <1>1 DEF SlotInv, ReadStatus, Current, ExecutionInv, RowsInv, AttemptFollowsStatus
<1>6. CASE answer = "ok"
  <2>1. Moves(s, "save_claim", act[s].fresh, act[s].arg)
    BY <1>1, <1>2, <1>6, GotoMoves DEF Steps, Versioned
  <2>2. SlotInv(s)' /\ ~Submitting(s)'
    BY <1>1, <1>3, <1>4, <1>6, <2>1 DEF Moves, SlotInv, ReadStatus, AtProvider, AtEnd,
       AtTransition, Named, Submitting, Current
  <2> QED
    BY <1>1, <1>3, <2>1, <2>2, HubuMove
<1>7. CASE answer = "rejected"
  <2>1. Moves(s, "transition", act[s].fresh, "failed")
    BY <1>1, <1>2, <1>7, CommitMoves DEF Statuses, Outcomes
  <2>2. SlotInv(s)' /\ ~Submitting(s)'
    BY <1>1, <1>3, <1>4, <1>7, <2>1 DEF Moves, SlotInv, ReadStatus, AtProvider, AtEnd,
       AtTransition, Named, Submitting
  <2> QED
    BY <1>1, <1>3, <2>1, <2>2, HubuMove
<1>8. CASE answer = "lost"
  <2>1. Moves(s, "transition", act[s].fresh, "reconciliation_required")
    BY <1>1, <1>2, <1>8, CommitMoves DEF Statuses, Outcomes
  <2>2. SlotInv(s)' /\ ~Submitting(s)'
    BY <1>1, <1>4, <1>5, <2>1 DEF Moves, SlotInv, ReadStatus, AtProvider, AtEnd,
       AtTransition, Named, Submitting
  <2> QED
    BY <1>1, <1>3, <2>1, <2>2, HubuMove
<1> QED
  BY <1>6, <1>7, <1>8 DEF Answers

\* The claim is asked for again in recovery.
LEMMA ReclaimInv ==
  ASSUME ExecutionInv, NEW s \in Slots, Reclaim(s)
  PROVE  ExecutionInv'
<1>1. /\ act[s].pc = "reclaim" /\ SlotInv(s) /\ ActType /\ TypeOK
      /\ UNCHANGED <<store, work, posts, proc>>
  BY DEF Reclaim, At, ExecutionInv, TypeOK, ActType
<1>2. PICK answer \in Answers :
        /\ HubuClaim(answer)
        /\ IF answer = "ok" THEN Goto(s, "save_recovered") /\ UNCHANGED wf
           ELSE Return(s, "reconciliation_required")
  BY DEF Reclaim
<1>3. HubuMoves
  BY <1>1, <1>2, ClaimAnswer DEF HubuMoves
<1>4. UNCHANGED <<exec, attempt, overran>>
  BY <1>1 DEF store, proc
<1>5. CASE Goto(s, "save_recovered") /\ wf' = wf
  <2>1. Moves(s, "save_recovered", act[s].fresh, act[s].arg)
    BY <1>1, <1>5, GotoMoves DEF Steps, Versioned
  <2>2. SlotInv(s)' /\ ~Submitting(s)'
    BY <1>1, <1>4, <2>1 DEF Moves, SlotInv, ReadStatus, AtProvider, AtEnd,
       AtTransition, Named, Submitting, Current, Dead
  <2> QED
    BY <1>1, <1>3, <1>5, <2>1, <2>2, HubuMove
<1>6. CASE Return(s, "reconciliation_required")
  BY <1>1, <1>3, <1>6, HubuReturn
<1> QED
  BY <1>2, <1>5, <1>6

\* The release of a proven provider failure.
LEMMA CallReleaseInv ==
  ASSUME ExecutionInv, NEW s \in Slots, CallRelease(s)
  PROVE  ExecutionInv'
<1>1. /\ act[s].pc = "release_call" /\ SlotInv(s) /\ ActType /\ TypeOK /\ wf' = wf
      /\ UNCHANGED <<store, work, posts, proc>>
  BY DEF CallRelease, At, ExecutionInv, TypeOK, ActType
<1>2. attempt.outcome = "failed" /\ exec.status # "settling"
  BY <1>1 DEF SlotInv, AtEnd, ExecutionInv, RowsInv, AttemptFollowsStatus, AllDurable
<1>3. PICK answer \in Answers :
        /\ HubuRelease(answer)
        /\ Commit(s, IF answer = "ok" THEN "released" ELSE "reconciliation_required",
                  "failed")
  BY DEF CallRelease
<1>4. HubuMoves /\ (answer = "ok" => hubu' = "released")
  BY <1>1, <1>2, <1>3, ReleaseAnswer DEF HubuMoves
<1>5. hubu' # hubu => hubu # "available"
  BY <1>1, <1>3, ReleaseAnswer
<1>6. PICK st \in {"released", "reconciliation_required"} :
        Commit(s, st, "failed") /\ (st = "released" => hubu' = "released")
  BY <1>3, <1>4
<1>7. Moves(s, "transition", act[s].fresh, st)
  BY <1>1, <1>6, CommitMoves DEF Statuses, Outcomes
<1>8. SlotInv(s)' /\ ~Submitting(s)'
  BY <1>1, <1>2, <1>6, <1>7 DEF Moves, SlotInv, ReadStatus, AtProvider, AtEnd,
     AtTransition, Named, Submitting, store
<1> QED
  BY <1>1, <1>4, <1>5, <1>7, <1>8, HubuMove

\* The settlement call, after its transmission was recorded.
LEMMA CallSettleInv ==
  ASSUME ExecutionInv, NEW s \in Slots, CallSettle(s)
  PROVE  ExecutionInv'
<1>1. /\ act[s].pc = "settle_call" /\ SlotInv(s) /\ ActType /\ TypeOK /\ wf' = wf
      /\ UNCHANGED <<store, work, posts, proc>>
  BY DEF CallSettle, At, ExecutionInv, TypeOK, ActType
<1>2. SettlementSent /\ SettlementSent' /\ attempt.outcome = "succeeded"
  BY <1>1 DEF SlotInv, AtEnd, ExecutionInv, RowsInv, MoneyFollowsEvidence, AllDurable,
              SettlementSent, store
<1>3. PICK answer \in Answers :
        /\ HubuSettle(answer)
        /\ IF answer = "ok" THEN Goto(s, "complete_receipt")
           ELSE Commit(s, "reconciliation_required", "none")
  BY DEF CallSettle
<1>4. HubuMoves /\ (answer = "ok" => hubu' = "settled") /\ (hubu' # hubu => hubu # "available")
  BY <1>1, <1>2, <1>3, SettleAnswer DEF HubuMoves
<1>5. CASE answer = "ok"
  <2>1. Moves(s, "complete_receipt", act[s].fresh, act[s].arg)
    BY <1>1, <1>3, <1>5, GotoMoves DEF Steps
  <2>2. SlotInv(s)' /\ ~Submitting(s)'
    BY <1>1, <1>2, <1>4, <1>5, <2>1 DEF Moves, SlotInv, ReadStatus, AtProvider, AtEnd,
       AtTransition, Named, Submitting
  <2> QED
    BY <1>1, <1>4, <2>1, <2>2, HubuMove
<1>6. CASE answer # "ok"
  <2>1. Moves(s, "transition", act[s].fresh, "reconciliation_required")
    BY <1>1, <1>3, <1>6, CommitMoves DEF Statuses, Outcomes
  <2>2. SlotInv(s)' /\ ~Submitting(s)'
    BY <1>1, <1>2, <2>1 DEF Moves, SlotInv, ReadStatus, AtProvider, AtEnd,
       AtTransition, Named, Submitting, store
  <2> QED
    BY <1>1, <1>4, <2>1, <2>2, HubuMove
<1> QED
  BY <1>5, <1>6

\* The settlement call of a recovery.
LEMMA ResettleInv ==
  ASSUME ExecutionInv, NEW s \in Slots, Resettle(s)
  PROVE  ExecutionInv'
<1>1. /\ act[s].pc = "resettle" /\ SlotInv(s) /\ ActType /\ TypeOK
      /\ UNCHANGED <<store, work, posts, proc>>
  BY DEF Resettle, At, ExecutionInv, TypeOK, ActType
<1>2. /\ SettlementSent /\ SettlementSent'
      /\ act[s].arg = "settled" => receipt' = "settled"
  BY <1>1 DEF SlotInv, AtEnd, SettlementSent, store
<1>3. PICK answer \in Answers :
       /\ HubuSettle(answer)
       /\ CASE answer = "ok" /\ act[s].arg # "settled" ->
                 Goto(s, "complete_receipt") /\ UNCHANGED wf
            [] answer = "ok" /\ act[s].arg = "settled" ->
                 Commit(s, "succeeded", "succeeded") /\ UNCHANGED wf
            [] OTHER -> Return(s, "reconciliation_required")
  BY DEF Resettle
<1>4. HubuMoves /\ (answer = "ok" => hubu' = "settled") /\ (hubu' # hubu => hubu # "available")
  BY <1>1, <1>2, <1>3, SettleAnswer DEF HubuMoves
<1>5. CASE answer = "ok" /\ Goto(s, "complete_receipt") /\ wf' = wf
  <2>1. Moves(s, "complete_receipt", act[s].fresh, act[s].arg)
    BY <1>1, <1>5, GotoMoves DEF Steps
  <2>2. SlotInv(s)' /\ ~Submitting(s)'
    BY <1>1, <1>2, <1>4, <1>5, <2>1 DEF Moves, SlotInv, ReadStatus, AtProvider, AtEnd,
       AtTransition, Named, Submitting
  <2> QED
    BY <1>1, <1>4, <1>5, <2>1, <2>2, HubuMove
<1>6. CASE act[s].arg = "settled" /\ Commit(s, "succeeded", "succeeded") /\ wf' = wf
  <2>1. Moves(s, "transition", act[s].fresh, "succeeded")
    BY <1>1, <1>6, CommitMoves DEF Statuses, Outcomes
  <2>2. SlotInv(s)' /\ ~Submitting(s)'
    BY <1>1, <1>2, <1>6, <2>1 DEF Moves, SlotInv, ReadStatus, AtProvider, AtEnd,
       AtTransition, Named, Submitting
  <2> QED
    BY <1>1, <1>4, <1>6, <2>1, <2>2, HubuMove
<1>7. CASE Return(s, "reconciliation_required")
  BY <1>1, <1>4, <1>7, HubuReturn
<1> QED
  BY <1>3, <1>5, <1>6, <1>7

\* The release call of a recovery.
LEMMA RereleaseInv ==
  ASSUME ExecutionInv, NEW s \in Slots, Rerelease(s)
  PROVE  ExecutionInv'
<1>1. /\ act[s].pc = "rerelease" /\ SlotInv(s) /\ ActType /\ TypeOK
      /\ UNCHANGED <<store, work, posts, proc>>
  BY DEF Rerelease, At, ExecutionInv, TypeOK, ActType
<1>2. attempt.outcome = "failed" \/ Dead
  BY <1>1 DEF SlotInv, AtEnd
<1>3. PICK answer \in Answers :
       /\ HubuRelease(answer)
       /\ IF answer = "ok"
          THEN /\ Commit(s, "released",
                         IF attempt.outcome = "none" THEN "none" ELSE "failed")
               /\ UNCHANGED wf
          ELSE Return(s, "reconciliation_required")
  BY DEF Rerelease
<1>4. HubuMoves /\ (answer = "ok" => hubu' = "released") /\ (hubu' # hubu => hubu # "available")
  BY <1>1, <1>2, <1>3, ReleaseAnswer DEF HubuMoves
<1>5. CASE answer = "ok"
  <2>1. Moves(s, "transition", act[s].fresh, "released")
    <3>1. PICK o \in Outcomes : Commit(s, "released", o)
      BY <1>3, <1>5 DEF Outcomes
    <3> QED
      BY <1>1, <3>1, CommitMoves DEF Statuses
  <2>2. SlotInv(s)' /\ ~Submitting(s)'
    BY <1>1, <1>4, <1>5, <2>1 DEF Moves, SlotInv, ReadStatus, AtProvider, AtEnd,
       AtTransition, Named, Submitting
  <2> QED
    BY <1>1, <1>3, <1>4, <1>5, <2>1, <2>2, HubuMove
<1>6. CASE answer # "ok"
  BY <1>1, <1>3, <1>4, <1>6, HubuReturn
<1> QED
  BY <1>5, <1>6

-----------------------------------------------------------------------------
(* Commits                                                                    *)

\* The workflow while an activity goes on.
LEMMA SameWorkflow ==
  ASSUME ExecutionInv, NEW s \in Slots, act[s].pc # "none", wf' = wf,
         overran' = overran, OthersKeep(s),
         act'[s].pc # "none" => act'[s].name = act[s].name,
         hubu' = hubu,
         attempt.checkpoint # "none" => attempt'.checkpoint # "none",
         \/ exec'.status = exec.status
         \/ exec'.status \notin {"pending", "preflighting", "failed"}
         \/ exec.status = "pending" /\ exec'.status = "preflighting"
  PROVE  WorkflowInv'
<1>1. PollIsDue'
  BY DEF ExecutionInv, WorkflowInv, PollIsDue
<1>2. NothingOverran'
  BY EarlySteps DEF ExecutionInv, WorkflowInv, NothingOverran, OthersKeep, Keeps, Claimed
<1> QED
  BY <1>1, <1>2 DEF WorkflowInv

\* A row of the executions table.
ExecType == exec \in [status : Statuses, claim : BOOLEAN, relSent : BOOLEAN,
                     provider : Outcomes]

\* A row of the provider_attempts table.
AttemptType ==
  attempt \in [outcome : Outcomes \cup {"started"}, sent : BOOLEAN,
              checkpoint : {"none", "valid", "rejected"}, billable : BOOLEAN]

\* The preflight phase reads the execution, or commits that it is in preflight.
LEMMA PreflightInv ==
  ASSUME ExecutionInv, NEW s \in Slots, Preflight(s)
  PROVE  ExecutionInv'
<1>1. act[s].pc = "preflight" /\ SlotInv(s) /\ ActType /\ TypeOK
  BY DEF Preflight, At, ExecutionInv, TypeOK, ActType
<1>2. CASE /\ exec.status = "pending"
           /\ exec' = [exec EXCEPT !.status = "preflighting"]
           /\ act' = [Outdated(s) EXCEPT ![s].pc = "check", ![s].fresh = TRUE]
           /\ wf' = wf
  <2>3. Moves(s, "check", TRUE, act[s].arg) /\ OthersOutdated(s)
    <3> DEFINE O == Outdated(s)
    <3>1. /\ O \in [Slots -> ActivityType]
          /\ O[s] = act[s]
          /\ \A t \in Slots : t # s => /\ O[t].pc = act[t].pc
                                       /\ O[t].name = act[t].name
                                       /\ O[t].arg = act[t].arg
                                       /\ ~O[t].fresh
      BY <1>1, OutdatedType
    <3>2. act' = [O EXCEPT ![s].pc = "check", ![s].fresh = TRUE]
      BY <1>2
    <3>3. "check" \in Steps
      BY DEF Steps
    <3> HIDE DEF O
    <3>4. /\ act' \in [Slots -> ActivityType]
          /\ \A t \in Slots : t # s => act'[t] = O[t]
          /\ act'[s].pc = "check"
          /\ act'[s].name = O[s].name
          /\ act'[s].fresh = TRUE
          /\ act'[s].arg = O[s].arg
      <4>1. O \in [Slots -> ActivityType]
        BY <3>1
      <4> QED
        BY <3>2, <3>3, <4>1 DEF ActivityType
    <3> QED
      BY <3>1, <3>4 DEF ActType, Moves, OthersKeep, Keeps, OthersOutdated
  <2>4. UNCHANGED <<attempt, staged, durable, receipt, record, hubu, work, posts, proc>>
    BY DEF Preflight
  <2>5. exec'.status = "preflighting" /\ exec' \in [status : Statuses, claim : BOOLEAN,
               relSent : BOOLEAN, provider : Outcomes]
    BY <1>1, <1>2 DEF TypeOK, Statuses
  <2>6. TypeOK'
    BY <1>1, <1>2, <2>3, <2>4, <2>5 DEF TypeOK, Moves, ActType, proc
  <2>7. RowsInv'
    BY <1>2, <2>4, <2>5 DEF ExecutionInv, RowsInv, AttemptFollowsStatus, EvidenceIsTrue,
       MoneyFollowsEvidence, AllDurable, Claimed, Dead, SettlementSent, Completed
  <2>8. SlotInv(s)' /\ ~Submitting(s)'
    BY <1>1, <2>3, <2>5 DEF Moves, SlotInv, ReadStatus, AtProvider, AtEnd,
       AtTransition, Named, Submitting
  <2>9. Guarantee(s)
    BY <1>2, <2>3, <2>4, <2>5, <2>8 DEF Guarantee, RowsGrow, LeavesSubmission, Claimed,
       Dead, AllDurable, SettlementSent, Final, proc, Submitting
  <2>10. WorkflowInv'
    BY <1>1, <1>2, <2>3, <2>4, <2>5, SameWorkflow DEF Moves, proc
  <2> QED
    BY <1>1, <2>3, <2>6, <2>7, <2>8, <2>9, <2>10, StepInv DEF Moves
<1>3. CASE exec.status = "preflighting" /\ Read(s, "check") /\ UNCHANGED <<exec, wf>>
  <2>1. Quiet /\ wf' = wf
    BY <1>3 DEF Preflight, ExecutionInv, TypeOK, Quiet, SameRows, proc
  <2>2. Moves(s, "check", TRUE, act[s].arg)
    BY <1>1, <1>3, ReadMoves DEF Steps
  <2>3. SlotInv(s)' /\ ~Submitting(s)'
    BY <1>1, <1>3, <2>2 DEF Moves, SlotInv, ReadStatus, AtProvider, AtEnd,
       AtTransition, Named, Submitting
  <2> QED
    BY <1>1, <2>1, <2>2, <2>3, QuietMove
<1>4. CASE /\ exec.status \notin {"pending", "preflighting"}
           /\ Return(s, exec.status)
           /\ UNCHANGED exec
  <2>1. Quiet /\ exec.status # "poll"
    BY <1>4 DEF Preflight, ExecutionInv, TypeOK, Quiet, SameRows, proc, Statuses
  <2> QED
    BY <1>1, <1>4, <2>1, QuietReturn
<1> QED
  BY <1>2, <1>3, <1>4 DEF Preflight

\* The claim is stored.
LEMMA SaveClaimInv ==
  ASSUME ExecutionInv, NEW s \in Slots, SaveClaim(s)
  PROVE  ExecutionInv'
<1>1. /\ act[s].pc = "save_claim" /\ act[s].fresh /\ SlotInv(s)
      /\ ActType /\ TypeOK /\ WfType
  BY DEF SaveClaim, At, ExecutionInv, TypeOK, ActType, WfType
<1>2. exec.status = "preflighting" /\ attempt.outcome = "none" /\ Claimed
  BY <1>1 DEF SlotInv, ReadStatus, AtProvider, Current, ExecutionInv, RowsInv,
              AttemptFollowsStatus
<1>3. Returns(s, "claimed") /\ OthersOutdated(s)
  BY <1>1, OutdatedReturns DEF SaveClaim
<1>4. UNCHANGED <<attempt, staged, durable, receipt, record, hubu, work, posts, proc>>
  BY DEF SaveClaim
<1>5. exec'.status = "claimed" /\ ExecType'
  BY <1>1 DEF SaveClaim, TypeOK, ExecType, Statuses
<1>6. TypeOK'
  BY <1>1, <1>3, <1>4, <1>5 DEF TypeOK, ExecType, Returns, Ends, ActType, WfType, proc
<1>7. RowsInv'
  BY <1>2, <1>4, <1>5 DEF ExecutionInv, RowsInv, AttemptFollowsStatus, EvidenceIsTrue,
       MoneyFollowsEvidence, AllDurable, Claimed, Dead, SettlementSent, Completed
<1>8. SlotInv(s)' /\ ~Submitting(s)'
  BY <1>3, IdleSlot DEF Returns, Ends
<1>9. Guarantee(s)
  BY <1>2, <1>3, <1>4, <1>5, <1>8 DEF Guarantee, RowsGrow, LeavesSubmission, Claimed,
       Dead, AllDurable, SettlementSent, Final, proc, Submitting
<1>10. WorkflowInv'
  BY <1>1, <1>3, <1>4, <1>5, ReturnWorkflow DEF proc
<1> QED
  BY <1>1, <1>3, <1>6, <1>7, <1>8, <1>9, <1>10, StepInv DEF Returns, Ends

\* The attempt is recorded, under a claim just validated.
LEMMA StartAttemptInv ==
  ASSUME ExecutionInv, NEW s \in Slots, StartAttempt(s)
  PROVE  ExecutionInv'
<1>1. /\ act[s].pc = "start_attempt" /\ act[s].fresh /\ SlotInv(s)
      /\ ActType /\ TypeOK /\ WfType
  BY DEF StartAttempt, At, ExecutionInv, TypeOK, ActType, WfType
<1>2. exec.status = "claimed" /\ attempt.outcome = "none" /\ Claimed /\ ~attempt.sent
  BY <1>1 DEF SlotInv, ReadStatus, Current, ExecutionInv, RowsInv,
              AttemptFollowsStatus, EvidenceIsTrue
<1>3. Returns(s, "executing") /\ OthersOutdated(s)
  BY <1>1, OutdatedReturns DEF StartAttempt
<1>4. UNCHANGED <<staged, durable, receipt, record, hubu, work, posts, proc>>
  BY DEF StartAttempt
<1>5. exec'.status = "executing" /\ ExecType'
  BY <1>1 DEF StartAttempt, TypeOK, ExecType, Statuses
<1>6. /\ attempt' = [attempt EXCEPT !.outcome = "started"]
      /\ attempt'.outcome = "started" /\ attempt'.sent = attempt.sent
      /\ attempt'.checkpoint = attempt.checkpoint
  BY <1>1 DEF StartAttempt, TypeOK
<1>7. TypeOK'
  BY <1>1, <1>3, <1>4, <1>5, <1>6
     DEF TypeOK, ExecType, Returns, Ends, ActType, WfType, proc
<1>8. RowsInv'
  BY <1>2, <1>4, <1>5, <1>6 DEF ExecutionInv, RowsInv, AttemptFollowsStatus, EvidenceIsTrue,
       MoneyFollowsEvidence, AllDurable, Claimed, Dead, SettlementSent, Completed
<1>9. SlotInv(s)' /\ ~Submitting(s)'
  BY <1>3, IdleSlot DEF Returns, Ends
<1>10. Guarantee(s)
  BY <1>2, <1>3, <1>4, <1>5, <1>6, <1>9 DEF Guarantee, RowsGrow, LeavesSubmission, Claimed,
       Dead, AllDurable, SettlementSent, Final, proc, Submitting, ExecutionInv, RowsInv,
       MoneyFollowsEvidence, EvidenceIsTrue
<1>11. WorkflowInv'
  BY <1>1, <1>3, <1>4, <1>5, <1>6, ReturnWorkflow DEF proc
<1> QED
  BY <1>1, <1>3, <1>7, <1>8, <1>9, <1>10, <1>11, StepInv DEF Returns, Ends

\* The transmission marker is set once.
LEMMA BeginTransmissionInv ==
  ASSUME ExecutionInv, NEW s \in Slots, BeginTransmission(s)
  PROVE  ExecutionInv'
<1>1. /\ act[s].pc = "begin_transmission" /\ SlotInv(s) /\ wf' = wf
      /\ ActType /\ TypeOK
  BY DEF BeginTransmission, At, ExecutionInv, TypeOK, ActType
<1>2. CASE ~begin_provider_transmission
  <2>1. Fail(s) /\ Quiet
    BY <1>1, <1>2 DEF BeginTransmission, TypeOK, Quiet, SameRows, proc
  <2> QED
    BY <1>1, <2>1, QuietFail
<1>3. CASE begin_provider_transmission
  <2>1. ~attempt.sent /\ attempt.outcome = "started" /\ attempt.checkpoint = "none"
        /\ posts = 0
    BY <1>1, <1>3 DEF begin_provider_transmission, Completed, SlotInv, AtProvider,
       ExecutionInv, RowsInv, EvidenceIsTrue, TypeOK, Outcomes
  <2>2. UNCHANGED <<exec, staged, durable, receipt, record, hubu, work, posts, proc>>
    BY DEF BeginTransmission
  <2>3. /\ attempt' = [attempt EXCEPT !.sent = TRUE]
        /\ attempt'.outcome = attempt.outcome /\ attempt'.sent
        /\ attempt'.checkpoint = attempt.checkpoint
    BY <1>1, <1>3 DEF BeginTransmission, TypeOK
  <2>4. Moves(s, "post", act[s].fresh, act[s].arg)
    BY <1>1, <1>3, GotoMoves DEF BeginTransmission, Steps
  <2>5. TypeOK'
    <3>1. AttemptType
      BY <1>1 DEF TypeOK, AttemptType
    <3>2. AttemptType'
      BY <3>1, <2>3 DEF AttemptType
    <3> QED
      BY <1>1, <2>2, <2>4, <3>2 DEF TypeOK, AttemptType, Moves, ActType, proc
  <2>6. RowsInv'
    BY <2>1, <2>2, <2>3 DEF ExecutionInv, RowsInv, AttemptFollowsStatus, EvidenceIsTrue,
       MoneyFollowsEvidence, AllDurable, Claimed, Dead, SettlementSent, Completed
  <2>7. SlotInv(s)'
    BY <1>1, <2>1, <2>2, <2>3, <2>4 DEF Moves, SlotInv, ReadStatus, AtProvider, AtEnd,
       AtTransition, Named, Submitting
  <2>8. Guarantee(s)
    BY <2>1, <2>2, <2>3 DEF Guarantee, RowsGrow, LeavesSubmission, Claimed,
       Dead, AllDurable, SettlementSent, Final, proc, Submitting, ExecutionInv, RowsInv,
       MoneyFollowsEvidence
  <2>9. WorkflowInv'
    BY <1>1, <2>2, <2>3, <2>4, SameWorkflow DEF Moves, proc
  <2> QED
    BY <1>1, <2>4, <2>5, <2>6, <2>7, <2>8, <2>9, StepInv DEF Moves
<1> QED
  BY <1>2, <1>3

\* The request is sent: one arrives at the provider at most.
LEMMA PostInv ==
  ASSUME ExecutionInv, NEW s \in Slots, Post(s)
  PROVE  ExecutionInv'
<1>1. /\ act[s].pc = "post" /\ SlotInv(s) /\ wf' = wf
      /\ ActType /\ TypeOK
      /\ UNCHANGED <<store, hubu, proc>>
  BY DEF Post, At, ExecutionInv, TypeOK, ActType
<1>2. /\ attempt.sent /\ attempt.outcome = "started" /\ attempt.checkpoint = "none"
      /\ posts = 0 /\ work = "none"
  BY <1>1 DEF SlotInv, AtProvider, ExecutionInv, RowsInv, EvidenceIsTrue
<1>3. PICK pc \in {"finish", "checkpoint"}, a \in ArgType :
        /\ Moves(s, pc, act[s].fresh, a)
        /\ \/ UNCHANGED <<work, posts>> /\ pc = "finish" /\ a \in {"failed", "ambiguous"}
           \/ /\ posts' = 1
              /\ \/ work' = "refused" /\ pc = "finish" /\ a = "failed"
                 \/ work' = "done" /\ pc = "finish" /\ a \in {"success", "empty"}
                 \/ /\ work' \in {"refused", "done", "running"}
                    /\ pc = "finish" /\ a = "ambiguous"
                 \/ work' = "running" /\ pc = "checkpoint" /\ a \in {"valid", "rejected"}
  <2>1. {"failed", "ambiguous", "success", "empty", "valid", "rejected"} \subseteq ArgType
    BY DEF ArgType, Statuses
  <2>2. \A r \in ArgType : Result(s, r) => Moves(s, "finish", act[s].fresh, r)
    BY <1>1, ResultMoves
  <2>3. \A c \in ArgType : Note(s, "checkpoint", c)
          => Moves(s, "checkpoint", act[s].fresh, c)
    BY <1>1, NoteMoves DEF Steps
  <2>4. CASE /\ \E r \in {"failed", "ambiguous"} : Result(s, r)
             /\ UNCHANGED <<work, posts>>
    BY <2>1, <2>2, <2>4
  <2>5. CASE posts' = posts + 1 /\ work' = "refused" /\ Result(s, "failed")
    BY <1>2, <2>1, <2>2, <2>5
  <2>6. CASE /\ posts' = posts + 1 /\ work' = "done"
             /\ \E r \in {"success", "empty"} : Result(s, r)
    BY <1>2, <2>1, <2>2, <2>6
  <2>7. CASE /\ posts' = posts + 1 /\ work' \in {"refused", "done", "running"}
             /\ Result(s, "ambiguous")
    BY <1>2, <2>1, <2>2, <2>7
  <2>8. CASE /\ posts' = posts + 1 /\ work' = "running"
             /\ \E c \in {"valid", "rejected"} :
                  act' = [act EXCEPT ![s].pc = "checkpoint", ![s].arg = c]
    <3>1. PICK c \in {"valid", "rejected"} : Note(s, "checkpoint", c)
      BY <2>8 DEF Note
    <3> QED
      BY <1>2, <2>1, <2>3, <2>8, <3>1
  <2> QED
    BY <2>4, <2>5, <2>6, <2>7, <2>8 DEF Post
<1>4. UNCHANGED <<exec, attempt, staged, durable, receipt, record, hubu, up, overran>>
  BY <1>1 DEF store, proc
<1>5. TypeOK'
  BY <1>1, <1>2, <1>3, <1>4 DEF TypeOK, Moves, ActType
<1>6. RowsInv'
  BY <1>2, <1>3, <1>4 DEF ExecutionInv, RowsInv, AttemptFollowsStatus, EvidenceIsTrue,
       MoneyFollowsEvidence, AllDurable, Claimed, Dead, SettlementSent, Completed
<1>7. SlotInv(s)'
  BY <1>1, <1>2, <1>3, <1>4 DEF Moves, SlotInv, ReadStatus, AtProvider, AtEnd,
       AtTransition, Named, Submitting
<1>8. Guarantee(s)
  BY <1>1, <1>2, <1>3, <1>4 DEF Guarantee, RowsGrow, LeavesSubmission, Claimed,
       Dead, AllDurable, SettlementSent, Final, proc, Submitting
<1>9. WorkflowInv'
  BY <1>1, <1>3, <1>4, SameWorkflow DEF Moves
<1> QED
  BY <1>1, <1>3, <1>5, <1>6, <1>7, <1>8, <1>9, StepInv DEF Moves

\* The accepted operation is recorded, or that fails.
LEMMA CheckpointInv ==
  ASSUME ExecutionInv, NEW s \in Slots, Checkpoint(s)
  PROVE  ExecutionInv'
<1>1. /\ act[s].pc = "checkpoint" /\ SlotInv(s)
      /\ ActType /\ TypeOK /\ WfType
  BY DEF Checkpoint, At, ExecutionInv, TypeOK, ActType, WfType
<1>2. /\ attempt.sent /\ attempt.outcome = "started" /\ attempt.checkpoint = "none"
      /\ posts = 1 /\ act[s].arg \in {"valid", "rejected"}
      /\ exec.status # "settling"
  BY <1>1 DEF SlotInv, AtProvider, ExecutionInv, RowsInv, AttemptFollowsStatus, AllDurable
<1>3. CASE /\ attempt' = [attempt EXCEPT !.checkpoint = act[s].arg]
           /\ Return(s, "poll")
  <2>1. UNCHANGED <<exec, staged, durable, receipt, record, hubu, work, posts, proc>>
    BY DEF Checkpoint
  <2>2. /\ attempt'.outcome = attempt.outcome /\ attempt'.sent = attempt.sent
        /\ attempt'.checkpoint = act[s].arg
        /\ attempt'.billable = attempt.billable
    BY <1>1, <1>3 DEF TypeOK
  <2>3. Returns(s, "poll")
    BY <1>1, <1>3, ReturnReturns
  <2>4. TypeOK'
    <3>1. AttemptType
      BY <1>1 DEF TypeOK, AttemptType
    <3>2. AttemptType'
      BY <1>2, <1>3, <3>1 DEF AttemptType
    <3> QED
      BY <1>1, <2>1, <2>3, <3>2
         DEF TypeOK, AttemptType, Returns, Ends, ActType, WfType, proc
  <2>5. RowsInv'
    BY <1>2, <2>1, <2>2 DEF ExecutionInv, RowsInv, AttemptFollowsStatus, EvidenceIsTrue,
       MoneyFollowsEvidence, AllDurable, Claimed, Dead, SettlementSent, Completed
  <2>6. SlotInv(s)' /\ ~Submitting(s)'
    BY <2>3, IdleSlot DEF Returns, Ends
  <2>7. Guarantee(s)
    BY <1>1, <1>2, <2>1, <2>2, <2>6 DEF Guarantee, RowsGrow, LeavesSubmission, Claimed,
       Dead, AllDurable, SettlementSent, Final, proc, Submitting
  <2>8. WorkflowInv'
    BY <1>1, <1>2, <2>1, <2>2, <2>3, ReturnWorkflow, EarlySteps DEF proc
  <2> QED
    BY <1>1, <2>3, <2>4, <2>5, <2>6, <2>7, <2>8, StepInv DEF Returns, Ends
<1>4. CASE Commit(s, "reconciliation_required", "ambiguous") /\ UNCHANGED <<attempt, wf>>
  <2>1. Quiet
    BY <1>1, <1>4 DEF Checkpoint, TypeOK, Quiet, SameRows, proc
  <2>2. Moves(s, "transition", act[s].fresh, "reconciliation_required")
    BY <1>1, <1>4, CommitMoves DEF Statuses, Outcomes
  <2> QED
    BY <1>1, <1>2, <1>4, <2>1, <2>2, QuietReconcile
<1> QED
  BY <1>3, <1>4 DEF Checkpoint

\* The operation is polled, whatever the provider did in the meantime.
LEMMA CallPollInv ==
  ASSUME ExecutionInv, NEW s \in Slots, CallPoll(s)
  PROVE  ExecutionInv'
<1>1. /\ act[s].pc = "poll_call" /\ SlotInv(s) /\ wf' = wf
      /\ ActType /\ TypeOK
      /\ UNCHANGED <<store, hubu, posts, proc>>
  BY DEF CallPoll, At, ExecutionInv, TypeOK, ActType
<1>2. attempt.checkpoint # "none" /\ posts = 1 /\ attempt.sent /\ work # "none"
  BY <1>1 DEF SlotInv, AtProvider, ExecutionInv, RowsInv, EvidenceIsTrue
<1>3. /\ work' = work \/ work = "running"
      /\ work' \in {"running", "done", "refused"}
  BY <1>1, <1>2 DEF CallPoll, TypeOK
<1>4. PICK a \in {"success", "empty", "failed", "ambiguous"} :
        /\ Moves(s, "finish", act[s].fresh, a)
        /\ a \in {"success", "empty"} => work' = "done"
        /\ a = "failed" => work' = "refused"
  <2>1. PICK a \in {"success", "empty", "failed", "ambiguous"} :
          /\ Result(s, a)
          /\ a \in {"success", "empty"} => work' = "done"
          /\ a = "failed" => work' = "refused"
    BY DEF CallPoll
  <2>2. a \in ArgType
    BY DEF ArgType, Statuses
  <2> QED
    BY <1>1, <2>1, <2>2, ResultMoves
<1>5. UNCHANGED <<exec, attempt, staged, durable, receipt, record, hubu, posts, up, overran>>
  BY <1>1 DEF store, proc
<1>6. TypeOK'
  BY <1>1, <1>3, <1>4, <1>5 DEF TypeOK, Moves, ActType
<1>7. RowsInv'
  BY <1>2, <1>3, <1>5 DEF ExecutionInv, RowsInv, AttemptFollowsStatus, EvidenceIsTrue,
       MoneyFollowsEvidence, AllDurable, Claimed, Dead, SettlementSent, Completed
<1>8. SlotInv(s)' /\ ~Submitting(s)'
  BY <1>1, <1>2, <1>4, <1>5 DEF Moves, SlotInv, ReadStatus, AtProvider, AtEnd,
       AtTransition, Named, Submitting
<1>9. Guarantee(s)
  BY <1>2, <1>3, <1>5, <1>8 DEF Guarantee, RowsGrow, LeavesSubmission, Claimed,
       Dead, AllDurable, SettlementSent, Final, proc, Submitting
<1>10. WorkflowInv'
  BY <1>1, <1>4, <1>5, SameWorkflow DEF Moves
<1> QED
  BY <1>1, <1>4, <1>6, <1>7, <1>8, <1>9, <1>10, StepInv DEF Moves

\* The provider's result is committed, with its artifacts.
LEMMA FinishProviderResultInv ==
  ASSUME ExecutionInv, NEW s \in Slots, FinishProviderResult(s)
  PROVE  ExecutionInv'
<1>1. /\ act[s].pc = "finish" /\ SlotInv(s)
      /\ ActType /\ TypeOK /\ WfType /\ AttemptType
  BY DEF FinishProviderResult, At, ExecutionInv, TypeOK, ActType, WfType, AttemptType
<1>2. UNCHANGED <<exec, durable, receipt, record, hubu, work, posts, proc>>
  BY DEF FinishProviderResult
<1>3. CASE ~complete_provider_attempt
  <2>1. Fail(s) /\ wf' = wf /\ Quiet
    BY <1>1, <1>2, <1>3 DEF FinishProviderResult, TypeOK, Quiet, SameRows, proc
  <2> QED
    BY <1>1, <2>1, QuietFail
<1>4. CASE complete_provider_attempt
  <2>1. /\ attempt.outcome = "started" /\ attempt.sent
        /\ act[s].arg \in {"success", "empty", "failed", "ambiguous"}
        /\ act[s].arg \in {"success", "empty"} => work = "done"
        /\ act[s].arg = "failed" => work \in {"none", "refused"}
    BY <1>1, <1>4 DEF complete_provider_attempt, SlotInv, AtProvider
  <2>2. /\ exec.status \notin {"pending", "preflighting", "claimed", "failed", "settling",
                                "succeeded"}
        /\ receipt = "none" /\ hubu \notin {"released", "settled"}
        /\ Claimed
    BY <2>1 DEF ExecutionInv, RowsInv, AttemptFollowsStatus, EvidenceIsTrue,
       MoneyFollowsEvidence, AllDurable, Claimed, Dead, SettlementSent, Completed
  <2>3. PICK o \in {"succeeded", "failed", "ambiguous"}, b \in BOOLEAN :
          /\ attempt' = [attempt EXCEPT !.outcome = o, !.billable = b]
          /\ staged' \in BOOLEAN
          /\ o = "succeeded" => work = "done"
          /\ o = "failed" => work \in {"none", "refused"}
    <3>1. \A o : Complete(o) => /\ attempt' = [attempt EXCEPT !.outcome = o,
                                                            !.billable = attempt.billable]
                                /\ staged' \in BOOLEAN
      BY <1>1 DEF Complete, AttemptType, TypeOK
    <3>2. attempt.billable \in BOOLEAN
      BY <1>1 DEF AttemptType
    <3>3. CASE act[s].arg = "success"
      BY <1>4, <2>1, <3>3 DEF FinishProviderResult
    <3>4. CASE act[s].arg = "empty"
      BY <1>4, <2>1, <3>1, <3>2, <3>4 DEF FinishProviderResult
    <3>5. CASE act[s].arg = "failed"
      BY <1>4, <2>1, <3>1, <3>2, <3>5 DEF FinishProviderResult
    <3>6. CASE act[s].arg = "ambiguous"
      BY <1>4, <2>1, <3>1, <3>2, <3>6 DEF FinishProviderResult
    <3> QED
      BY <2>1, <3>3, <3>4, <3>5, <3>6
  <2>4. /\ AttemptType'
        /\ attempt'.outcome = o /\ attempt'.sent = attempt.sent
        /\ attempt'.checkpoint = attempt.checkpoint
    BY <1>1, <2>3 DEF AttemptType, Outcomes
  <2>5. RowsInv'
    BY <1>2, <2>1, <2>2, <2>3, <2>4 DEF ExecutionInv, RowsInv, AttemptFollowsStatus, EvidenceIsTrue,
       MoneyFollowsEvidence, AllDurable, Claimed, Dead, SettlementSent, Completed
  <2>6. ASSUME Submitting(s)' => Submitting(s)
        PROVE  Guarantee(s)
    BY <1>1, <1>2, <2>1, <2>2, <2>4, <2>6 DEF Guarantee, RowsGrow, LeavesSubmission, Claimed,
       Dead, AllDurable, SettlementSent, Final, proc, Submitting
  <2>7. \/ \E r \in {"persist", "release"} : Chain(s, r)
        \/ \E oo \in Outcomes : Commit(s, "reconciliation_required", oo) /\ wf' = wf
    BY <1>4, <2>1 DEF FinishProviderResult, Outcomes
  <2>8. CASE \E r \in {"persist", "release"} : Returns(s, r)
    <3>1. PICK r \in {"persist", "release"} : Returns(s, r)
      BY <2>8
    <3>2. SlotInv(s)' /\ ~Submitting(s)'
      BY <3>1, IdleSlot DEF Returns, Ends
    <3>3. TypeOK'
      BY <1>1, <1>2, <2>3, <2>4, <3>1
         DEF TypeOK, AttemptType, Returns, Ends, ActType, WfType, proc
    <3>4. WorkflowInv'
      BY <1>1, <1>2, <2>2, <2>4, <3>1, ReturnWorkflow DEF proc
    <3> QED
      BY <1>1, <2>5, <2>6, <3>1, <3>2, <3>3, <3>4, StepInv DEF Returns, Ends
  <2>9. ASSUME NEW pc \in {"persist", "release", "transition"}, NEW a,
               Moves(s, pc, act[s].fresh, a), wf' = wf,
               pc = "transition" => a = "reconciliation_required",
               pc # "transition" => act[s].name = "recover"
        PROVE  ExecutionInv'
    <3>1. SlotInv(s)' /\ ~Submitting(s)'
      BY <1>1, <1>2, <2>1, <2>2, <2>4, <2>9 DEF Moves, SlotInv, ReadStatus, AtProvider, AtEnd,
       AtTransition, Named, Submitting
    <3>2. TypeOK'
      BY <1>1, <1>2, <2>3, <2>4, <2>9 DEF TypeOK, AttemptType, Moves, ActType, proc
    <3>3. WorkflowInv'
      BY <1>1, <1>2, <2>4, <2>9, SameWorkflow DEF Moves, proc
    <3> QED
      BY <1>1, <2>5, <2>6, <2>9, <3>1, <3>2, <3>3, StepInv DEF Moves
  <2>10. CASE \E r \in {"persist", "release"} : Chain(s, r)
    <3>1. PICK r \in {"persist", "release"} : Chain(s, r)
      BY <2>10
    <3> QED
      BY <1>1, <2>8, <2>9, <3>1, ChainMoves
  <2>11. CASE \E oo \in Outcomes : Commit(s, "reconciliation_required", oo) /\ wf' = wf
    <3>1. Moves(s, "transition", act[s].fresh, "reconciliation_required")
      BY <1>1, <2>11, CommitMoves DEF Statuses
    <3> QED
      BY <2>9, <2>11, <3>1
  <2> QED
    BY <2>7, <2>10, <2>11
<1> QED
  BY <1>3, <1>4

\* One artifact becomes durable, or its storage fails.
LEMMA StoreArtifactInv ==
  ASSUME ExecutionInv, NEW s \in Slots, StoreArtifact(s)
  PROVE  ExecutionInv'
<1>1. /\ act[s].pc = "store" /\ SlotInv(s) /\ wf' = wf
      /\ ActType /\ TypeOK
  BY DEF StoreArtifact, At, ExecutionInv, TypeOK, ActType
<1>2. /\ attempt.outcome = "succeeded"
      /\ Current(s) => exec.status = "executing"
  BY <1>1 DEF SlotInv, AtProvider, ReadStatus
<1>3. UNCHANGED <<exec, attempt, staged, receipt, record, hubu, work, posts, proc>>
  BY DEF StoreArtifact
<1>4. CASE /\ durable < MaxArtifacts
           /\ durable' = durable + 1
           /\ act' = [act EXCEPT ![s].n = @ + 1,
                  ![s].pc = IF act[s].n + 1 = Artifacts THEN "count" ELSE @]
  <2>1. PICK pc \in {"store", "count"} :
          act' = [act EXCEPT ![s].n = act[s].n + 1, ![s].pc = pc]
    BY <1>1, <1>4 DEF ActType, ActivityType
  <2>2. Moves(s, pc, act[s].fresh, act[s].arg)
    <3>1. act \in [Slots -> ActivityType] /\ act[s] \in ActivityType
      BY <1>1 DEF ActType
    <3>2. \A t \in Slots : t # s => act'[t] = act[t]
      BY <2>1, <3>1
    <3>3. act'[s] = [name |-> act[s].name, pc |-> pc, input |-> act[s].input,
                     fresh |-> act[s].fresh, arg |-> act[s].arg,
                     outcome |-> act[s].outcome, n |-> act[s].n + 1]
      BY <2>1, <3>1 DEF ActivityType
    <3>4. act'[s] \in ActivityType
      BY <3>1, <3>3 DEF ActivityType, Steps
    <3>5. act' = [t \in Slots |-> act'[t]]
      BY <2>1, <3>1
    <3> QED
      BY <3>1, <3>2, <3>3, <3>4, <3>5 DEF ActType, Moves, OthersKeep, Keeps
  <2>3. TypeOK'
    BY <1>1, <1>3, <1>4, <2>2, GongbuAssumption DEF TypeOK, Moves, ActType, proc
  <2>4. AllDurable => AllDurable'
    BY <1>1, <1>3, <1>4, GongbuAssumption DEF AllDurable, TypeOK
  <2>5. RowsInv'
    BY <1>3, <2>4 DEF ExecutionInv, RowsInv, AttemptFollowsStatus, EvidenceIsTrue,
       MoneyFollowsEvidence, Claimed, Dead, SettlementSent, Completed
  <2>6. SlotInv(s)' /\ ~Submitting(s)'
    BY <1>1, <1>2, <1>3, <2>2 DEF Moves, SlotInv, ReadStatus, AtProvider, AtEnd,
       AtTransition, Named, Submitting, Current, proc
  <2>7. Guarantee(s)
    BY <1>3, <2>4, <2>6 DEF Guarantee, RowsGrow, LeavesSubmission, Claimed,
       Dead, SettlementSent, proc
  <2>8. WorkflowInv'
    BY <1>1, <1>3, <2>2, SameWorkflow DEF Moves, proc
  <2> QED
    BY <1>1, <2>2, <2>3, <2>5, <2>6, <2>7, <2>8, StepInv DEF Moves
<1>5. CASE Commit(s, "reconciliation_required", "succeeded") /\ durable' = durable
  <2>1. Quiet
    BY <1>1, <1>3, <1>5 DEF TypeOK, Quiet, SameRows, proc
  <2>2. Moves(s, "transition", act[s].fresh, "reconciliation_required")
    BY <1>1, <1>5, CommitMoves DEF Statuses, Outcomes
  <2> QED
    BY <1>1, <1>2, <2>1, <2>2, QuietReconcile DEF Current
<1> QED
  BY <1>4, <1>5 DEF StoreArtifact

\* The artifacts are delivered and the execution goes on to its settlement.
LEMMA DeliverInv ==
  ASSUME ExecutionInv, NEW s \in Slots, Deliver(s)
  PROVE  ExecutionInv'
<1>1. /\ act[s].pc = "deliver" /\ act[s].fresh /\ SlotInv(s)
      /\ ActType /\ TypeOK /\ WfType
  BY DEF Deliver, At, ExecutionInv, TypeOK, ActType, WfType
<1>2. /\ exec.status = "executing" /\ AllDurable
      /\ attempt.outcome = "succeeded" /\ Claimed
  BY <1>1 DEF SlotInv, ReadStatus, AtProvider, AllDurable, Current, ExecutionInv, RowsInv,
              AttemptFollowsStatus
<1>3. UNCHANGED <<attempt, durable, receipt, record, hubu, work, posts, proc>>
      /\ staged' \in BOOLEAN
  BY DEF Deliver
<1>4. exec'.status = "settling" /\ ExecType'
  BY <1>1 DEF Deliver, TypeOK, ExecType, Statuses, Outcomes
<1>5. RowsInv'
  BY <1>2, <1>3, <1>4 DEF ExecutionInv, RowsInv, AttemptFollowsStatus, EvidenceIsTrue,
       MoneyFollowsEvidence, AllDurable, Claimed, Dead, SettlementSent, Completed
<1>6. ASSUME ~Submitting(s)', OthersOutdated(s)
      PROVE  Guarantee(s)
  BY <1>2, <1>3, <1>4, <1>6 DEF Guarantee, RowsGrow, LeavesSubmission, Claimed,
       Dead, AllDurable, SettlementSent, Final, proc, Submitting
<1>7. CASE act[s].name = "recover"
  <2>1. act' = [Outdated(s) EXCEPT ![s].pc = "settle"] /\ wf' = wf
    BY <1>7 DEF Deliver, ChainFrom
  <2>2. Moves(s, "settle", act[s].fresh, act[s].arg) /\ OthersOutdated(s)
    BY <1>1, <2>1, OutdatedMoves DEF Steps, Phases
  <2>3. SlotInv(s)' /\ ~Submitting(s)'
    BY <1>1, <1>7, <2>2 DEF Moves, SlotInv, ReadStatus, AtProvider, AtEnd,
       AtTransition, Named, Submitting
  <2>4. TypeOK'
    BY <1>1, <1>3, <1>4, <2>1, <2>2 DEF TypeOK, ExecType, Moves, ActType, proc
  <2>5. WorkflowInv'
    BY <1>1, <1>3, <1>4, <2>1, <2>2, SameWorkflow DEF Moves, proc
  <2> QED
    BY <1>1, <1>5, <1>6, <2>2, <2>3, <2>4, <2>5, StepInv DEF Moves
<1>8. CASE act[s].name # "recover"
  <2>1. Returns(s, "settling") /\ OthersOutdated(s)
    BY <1>1, <1>8, OutdatedReturns DEF Deliver, ChainFrom
  <2>2. SlotInv(s)' /\ ~Submitting(s)'
    BY <2>1, IdleSlot DEF Returns, Ends
  <2>3. TypeOK'
    BY <1>1, <1>3, <1>4, <2>1 DEF TypeOK, ExecType, Returns, Ends, ActType, WfType, proc
  <2>4. WorkflowInv'
    BY <1>1, <1>3, <1>4, <2>1, ReturnWorkflow DEF proc
  <2> QED
    BY <1>1, <1>5, <1>6, <2>1, <2>2, <2>3, <2>4, StepInv DEF Returns, Ends
<1> QED
  BY <1>7, <1>8

\* The release is marked before it is sent.
LEMMA MarkReleaseInv ==
  ASSUME ExecutionInv, NEW s \in Slots, MarkRelease(s)
  PROVE  ExecutionInv'
<1>1. /\ act[s].pc = "mark_release" /\ act[s].fresh /\ SlotInv(s)
      /\ ActType /\ TypeOK /\ wf' = wf
  BY DEF MarkRelease, At, ExecutionInv, TypeOK, ActType
<1>2. exec.status = "executing" /\ attempt.outcome = "failed"
  BY <1>1 DEF SlotInv, ReadStatus, AtEnd, Current
<1>3. UNCHANGED <<attempt, staged, durable, receipt, record, hubu, work, posts, proc>>
  BY DEF MarkRelease
<1>4. exec'.status = "executing" /\ ExecType'
  BY <1>1, <1>2 DEF MarkRelease, TypeOK, ExecType
<1>5. Moves(s, "release_call", act[s].fresh, act[s].arg) /\ OthersOutdated(s)
  BY <1>1, OutdatedMoves DEF MarkRelease, Steps
<1>6. TypeOK'
  BY <1>1, <1>3, <1>4, <1>5 DEF TypeOK, ExecType, Moves, ActType, proc
<1>7. RowsInv'
  BY <1>2, <1>3, <1>4 DEF ExecutionInv, RowsInv, AttemptFollowsStatus, EvidenceIsTrue,
       MoneyFollowsEvidence, AllDurable, Claimed, Dead, SettlementSent, Completed
<1>8. SlotInv(s)' /\ ~Submitting(s)'
  BY <1>1, <1>2, <1>3, <1>5 DEF Moves, SlotInv, ReadStatus, AtProvider, AtEnd,
       AtTransition, Named, Submitting
<1>9. Guarantee(s)
  BY <1>2, <1>3, <1>4, <1>5, <1>8 DEF Guarantee, RowsGrow, LeavesSubmission, Claimed,
       Dead, AllDurable, SettlementSent, Final, proc, Submitting
<1>10. WorkflowInv'
  BY <1>1, <1>2, <1>3, <1>4, <1>5, SameWorkflow DEF Moves, proc
<1> QED
  BY <1>1, <1>5, <1>6, <1>7, <1>8, <1>9, <1>10, StepInv DEF Moves

\* A change of the receipt alone.
LEMMA ReceiptStep ==
  ASSUME ExecutionInv, NEW s \in Slots, act[s].pc # "none", wf' = wf,
         UNCHANGED <<exec, attempt, staged, durable, record, hubu, work, posts, proc>>,
         receipt' \in {"created", "sent", "settled"},
         RowsInv', NEW pc, NEW f, NEW a, Moves(s, pc, f, a), SlotInv(s)', ~Submitting(s)',
         receipt # "settled",
         receipt = "sent" => receipt' = "settled"
  PROVE  ExecutionInv'
<1>1. TypeOK'
  BY DEF ExecutionInv, TypeOK, Moves, ActType, proc
<1>2. Guarantee(s)
  BY DEF Guarantee, RowsGrow, LeavesSubmission, Claimed,
       Dead, AllDurable, SettlementSent, Final, proc, Submitting, ExecutionInv, TypeOK
<1>3. WorkflowInv'
  BY SameWorkflow DEF Moves, proc
<1> QED
  BY <1>1, <1>2, <1>3, StepInv DEF Moves

\* The receipt is created once.
LEMMA CreateReceiptInv ==
  ASSUME ExecutionInv, NEW s \in Slots, CreateReceipt(s)
  PROVE  ExecutionInv'
<1>1. /\ act[s].pc = "create_receipt" /\ SlotInv(s) /\ ActType /\ TypeOK /\ wf' = wf
      /\ UNCHANGED <<exec, attempt, staged, durable, record, hubu, work, posts, proc>>
  BY DEF CreateReceipt, At, ExecutionInv, TypeOK, ActType
<1>2. CASE receipt = "none"
  <2>1. receipt' = "created" /\ Goto(s, "begin_settlement")
    BY <1>2 DEF CreateReceipt
  <2>2. Moves(s, "begin_settlement", act[s].fresh, act[s].arg)
    BY <1>1, <2>1, GotoMoves DEF Steps
  <2>3. AllDurable /\ attempt.billable /\ exec.status = "settling"
    BY <1>1, <1>2 DEF SlotInv, AtEnd, SettlementSent
  <2>4. RowsInv'
    BY <1>1, <1>2, <2>1, <2>3 DEF ExecutionInv, RowsInv, AttemptFollowsStatus, EvidenceIsTrue,
       MoneyFollowsEvidence, AllDurable, Claimed, Dead, SettlementSent, Completed
  <2>5. SlotInv(s)' /\ ~Submitting(s)'
    BY <1>1, <2>1, <2>2 DEF Moves, SlotInv, ReadStatus, AtProvider, AtEnd,
       AtTransition, Named, Submitting
  <2> QED
    BY <1>1, <1>2, <2>1, <2>2, <2>4, <2>5, ReceiptStep
<1>3. CASE receipt # "none"
  <2>1. Fail(s) /\ Quiet
    BY <1>1, <1>3 DEF CreateReceipt, TypeOK, Quiet, SameRows, proc
  <2> QED
    BY <1>1, <2>1, QuietFail
<1> QED
  BY <1>2, <1>3

\* The transmission of the settlement is recorded once.
LEMMA BeginSettlementInv ==
  ASSUME ExecutionInv, NEW s \in Slots, BeginSettlement(s)
  PROVE  ExecutionInv'
<1>1. /\ act[s].pc = "begin_settlement" /\ SlotInv(s) /\ ActType /\ TypeOK /\ wf' = wf
      /\ UNCHANGED <<exec, attempt, staged, durable, record, hubu, work, posts, proc>>
  BY DEF BeginSettlement, At, ExecutionInv, TypeOK, ActType
<1>2. CASE receipt = "created"
  <2>1. receipt' = "sent" /\ Goto(s, "settle_call")
    BY <1>2 DEF BeginSettlement
  <2>2. Moves(s, "settle_call", act[s].fresh, act[s].arg)
    BY <1>1, <2>1, GotoMoves DEF Steps
  <2>3. RowsInv'
    BY <1>1, <1>2, <2>1 DEF ExecutionInv, RowsInv, AttemptFollowsStatus, EvidenceIsTrue,
       MoneyFollowsEvidence, AllDurable, Claimed, Dead, SettlementSent, Completed
  <2>4. SlotInv(s)' /\ ~Submitting(s)'
    BY <1>1, <2>1, <2>2 DEF Moves, SlotInv, ReadStatus, AtProvider, AtEnd,
       AtTransition, Named, Submitting, SettlementSent
  <2> QED
    BY <1>1, <1>2, <2>1, <2>2, <2>3, <2>4, ReceiptStep
<1>3. CASE receipt # "created"
  <2>1. Fail(s) /\ Quiet
    BY <1>1, <1>3 DEF BeginSettlement, TypeOK, Quiet, SameRows, proc
  <2> QED
    BY <1>1, <2>1, QuietFail
<1> QED
  BY <1>2, <1>3

\* The settlement Hubu confirmed is recorded.
LEMMA CompleteReceiptInv ==
  ASSUME ExecutionInv, NEW s \in Slots, CompleteReceipt(s)
  PROVE  ExecutionInv'
<1>1. /\ act[s].pc = "complete_receipt" /\ SlotInv(s) /\ ActType /\ TypeOK /\ wf' = wf
      /\ UNCHANGED <<exec, attempt, staged, durable, record, hubu, work, posts, proc>>
  BY DEF CompleteReceipt, At, ExecutionInv, TypeOK, ActType
<1>2. CASE receipt # "settled"
  <2>1. receipt' = "settled" /\ Commit(s, "succeeded", "succeeded")
    BY <1>2 DEF CompleteReceipt
  <2>2. Moves(s, "transition", act[s].fresh, "succeeded")
    BY <1>1, <2>1, CommitMoves DEF Statuses, Outcomes
  <2>3. hubu = "settled" /\ receipt = "sent"
    BY <1>1, <1>2 DEF SlotInv, AtEnd, SettlementSent
  <2>4. RowsInv'
    BY <1>1, <2>1, <2>3 DEF ExecutionInv, RowsInv, AttemptFollowsStatus, EvidenceIsTrue,
       MoneyFollowsEvidence, AllDurable, Claimed, Dead, SettlementSent, Completed
  <2>5. SlotInv(s)' /\ ~Submitting(s)'
    BY <1>1, <2>1, <2>2 DEF Moves, SlotInv, ReadStatus, AtProvider, AtEnd,
       AtTransition, Named, Submitting
  <2> QED
    BY <1>1, <1>2, <2>1, <2>2, <2>4, <2>5, ReceiptStep
<1>3. CASE receipt = "settled"
  <2>1. Fail(s) /\ Quiet
    BY <1>1, <1>3 DEF CompleteReceipt, TypeOK, Quiet, SameRows, proc
  <2> QED
    BY <1>1, <2>1, QuietFail
<1> QED
  BY <1>2, <1>3

\* A claim found again in recovery is stored.
LEMMA SaveRecoveredInv ==
  ASSUME ExecutionInv, NEW s \in Slots, SaveRecovered(s)
  PROVE  ExecutionInv'
<1>1. /\ act[s].pc = "save_recovered" /\ act[s].fresh /\ SlotInv(s)
      /\ ActType /\ TypeOK /\ WfType
  BY DEF SaveRecovered, At, ExecutionInv, TypeOK, ActType, WfType
<1>2. exec.status = "reconciliation_required" /\ Dead
  BY <1>1 DEF SlotInv, ReadStatus, AtEnd, Current
<1>3. UNCHANGED <<attempt, staged, durable, receipt, record, hubu, work, posts, proc>>
  BY DEF SaveRecovered
<1>4. exec'.status = "reconciliation_required" /\ ExecType' /\ Dead'
  BY <1>1, <1>2, <1>3 DEF SaveRecovered, TypeOK, ExecType, Dead
<1>5. RowsInv'
  BY <1>2, <1>3, <1>4 DEF ExecutionInv, RowsInv, AttemptFollowsStatus, EvidenceIsTrue,
       MoneyFollowsEvidence, AllDurable, Claimed, Dead, SettlementSent, Completed
<1>6. ASSUME ~Submitting(s)', OthersOutdated(s)
      PROVE  Guarantee(s)
  BY <1>2, <1>3, <1>4, <1>6 DEF Guarantee, RowsGrow, LeavesSubmission, Claimed,
     AllDurable, SettlementSent, Final, proc, Submitting
<1>7. CASE act[s].input # "settle"
  <2>1. act' = [Outdated(s) EXCEPT ![s].pc = "rerelease"] /\ wf' = wf
    BY <1>7 DEF SaveRecovered
  <2>2. Moves(s, "rerelease", act[s].fresh, act[s].arg) /\ OthersOutdated(s)
    BY <1>1, <2>1, OutdatedMoves DEF Steps
  <2>3. SlotInv(s)' /\ ~Submitting(s)'
    BY <1>1, <1>4, <2>2 DEF Moves, SlotInv, ReadStatus, AtProvider, AtEnd,
       AtTransition, Named, Submitting
  <2>4. TypeOK'
    BY <1>1, <1>3, <1>4, <2>1, <2>2 DEF TypeOK, ExecType, Moves, ActType, proc
  <2>5. WorkflowInv'
    BY <1>1, <1>3, <1>4, <2>1, <2>2, SameWorkflow DEF Moves, proc
  <2> QED
    BY <1>1, <1>5, <1>6, <2>2, <2>3, <2>4, <2>5, StepInv DEF Moves
<1>8. CASE act[s].input = "settle"
  <2>1. Returns(s, "reconciliation_required") /\ OthersOutdated(s)
    BY <1>1, <1>8, OutdatedReturns DEF SaveRecovered
  <2>2. SlotInv(s)' /\ ~Submitting(s)'
    BY <2>1, IdleSlot DEF Returns, Ends
  <2>3. TypeOK'
    BY <1>1, <1>3, <1>4, <2>1 DEF TypeOK, ExecType, Returns, Ends, ActType, WfType, proc
  <2>4. WorkflowInv'
    BY <1>1, <1>3, <1>4, <2>1, ReturnWorkflow DEF proc
  <2> QED
    BY <1>1, <1>5, <1>6, <2>1, <2>2, <2>3, <2>4, StepInv DEF Returns, Ends
<1> QED
  BY <1>7, <1>8

\* An ambiguous attempt at a rejected origin is polled again.
LEMMA ReopenInv ==
  ASSUME ExecutionInv, NEW s \in Slots, Reopen(s)
  PROVE  ExecutionInv'
<1>1. /\ act[s].pc = "reopen" /\ SlotInv(s) /\ ActType /\ TypeOK /\ AttemptType
      /\ UNCHANGED <<staged, durable, receipt, record, hubu, work, posts, proc>>
  BY DEF Reopen, At, ExecutionInv, TypeOK, ActType, AttemptType
<1>2. CASE /\ act[s].fresh
           /\ attempt.outcome = "ambiguous"
           /\ attempt' = [attempt EXCEPT !.outcome = "started"]
           /\ exec' = [exec EXCEPT !.status = "executing"]
           /\ act' = [Outdated(s) EXCEPT ![s].pc = "poll"]
           /\ UNCHANGED wf
  <2>1. /\ exec.status = "reconciliation_required" /\ attempt.checkpoint # "none"
        /\ attempt.sent /\ Claimed
    BY <1>1, <1>2 DEF SlotInv, ReadStatus, AtProvider, Current, ExecutionInv, RowsInv,
       EvidenceIsTrue, Completed
  <2>2. exec'.status = "executing" /\ ExecType'
    BY <1>1, <1>2 DEF TypeOK, ExecType, Statuses
  <2>3. /\ AttemptType' /\ attempt'.outcome = "started" /\ attempt'.sent
        /\ attempt'.checkpoint = attempt.checkpoint
    BY <1>1, <1>2, <2>1 DEF AttemptType
  <2>4. Moves(s, "poll", act[s].fresh, act[s].arg) /\ OthersOutdated(s)
    BY <1>1, <1>2, OutdatedMoves DEF Steps, Phases
  <2>5. TypeOK'
    BY <1>1, <1>2, <2>2, <2>3, <2>4
       DEF TypeOK, ExecType, AttemptType, Moves, ActType, proc
  <2>6. RowsInv'
    BY <1>1, <1>2, <2>1, <2>2, <2>3 DEF ExecutionInv, RowsInv, AttemptFollowsStatus, EvidenceIsTrue,
       MoneyFollowsEvidence, AllDurable, Claimed, Dead, SettlementSent, Completed
  <2>7. SlotInv(s)' /\ ~Submitting(s)'
    BY <1>1, <2>1, <2>3, <2>4 DEF Moves, SlotInv, ReadStatus, AtProvider, AtEnd,
       AtTransition, Named, Submitting
  <2>8. Guarantee(s)
    BY <1>1, <1>2, <2>1, <2>2, <2>3, <2>4, <2>7 DEF Guarantee, RowsGrow, LeavesSubmission, Claimed,
       Dead, AllDurable, SettlementSent, Final, proc, Submitting
  <2>9. WorkflowInv'
    BY <1>1, <1>2, <2>1, <2>2, <2>3, <2>4, SameWorkflow DEF Moves, proc
  <2> QED
    BY <1>1, <2>4, <2>5, <2>6, <2>7, <2>8, <2>9, StepInv DEF Moves
<1>3. CASE Return(s, "reconciliation_required") /\ UNCHANGED <<exec, attempt>>
  <2>1. Quiet
    BY <1>1, <1>3 DEF TypeOK, Quiet, SameRows, proc
  <2> QED
    BY <1>1, <1>3, <2>1, QuietReturn
<1> QED
  BY <1>2, <1>3 DEF Reopen

\* The status moves along allowed_transition.
LEMMA TransitionInv ==
  ASSUME ExecutionInv, NEW s \in Slots, Transition(s)
  PROVE  ExecutionInv'
<1>1. /\ act[s].pc = "transition" /\ act[s].fresh /\ SlotInv(s)
      /\ ActType /\ TypeOK /\ WfType
      /\ UNCHANGED <<attempt, staged, durable, receipt, record, hubu, work, posts, proc>>
      /\ <<exec.status, act[s].arg>> \in allowed_transition
  BY DEF Transition, At, ExecutionInv, TypeOK, ActType, WfType
<1>2. exec'.status = act[s].arg /\ ExecType'
  <2>1. act[s] \in ActivityType
    BY <1>1 DEF ActType
  <2>2. act[s].outcome \in Outcomes /\ act[s].arg \in Statuses
    BY <1>1, <2>1 DEF ActivityType, SlotInv, AtTransition, Statuses
  <2> QED
    BY <1>1, <2>2 DEF Transition, TypeOK, ExecType
<1>3. /\ act[s].arg = "failed" => exec.status \in {"pending", "preflighting"}
      /\ act[s].arg = "succeeded" => exec.status \in {"settling", "reconciliation_required"}
      /\ act[s].arg = "released"
           => exec.status \in {"claimed", "executing", "reconciliation_required"}
      /\ act[s].arg = "reconciliation_required"
           => exec.status \in {"preflighting", "claimed", "executing", "settling"}
  BY <1>1 DEF allowed_transition
<1>4. /\ act[s].arg \in {"failed", "reconciliation_required", "succeeded", "released"}
      /\ act[s].arg = "succeeded" => receipt = "settled"
      /\ act[s].arg = "released" => hubu = "released"
      /\ act[s].arg = "reconciliation_required"
           => /\ attempt.outcome = "started" => attempt.sent
              /\ exec.status = "settling" => ~attempt.billable \/ SettlementSent
      /\ act[s].arg = "failed" => overran \/ ~Claimed
  BY <1>1 DEF SlotInv, AtTransition
<1>5. RowsInv'
  BY <1>1, <1>2, <1>3, <1>4 DEF ExecutionInv, RowsInv, AttemptFollowsStatus, EvidenceIsTrue,
       MoneyFollowsEvidence, AllDurable, Claimed, Dead, SettlementSent, Completed
<1>6. ASSUME ~Submitting(s)', OthersOutdated(s)
      PROVE  Guarantee(s)
  BY <1>1, <1>2, <1>3, <1>4, <1>6 DEF Guarantee, RowsGrow, LeavesSubmission, Claimed,
       Dead, AllDurable, SettlementSent, Final, proc, Submitting
<1>7. CASE act[s].arg = "reconciliation_required"
  <2>1. act' = [Outdated(s) EXCEPT ![s].pc = "record"] /\ wf' = wf
    BY <1>7 DEF Transition
  <2>2. Moves(s, "record", act[s].fresh, act[s].arg) /\ OthersOutdated(s)
    BY <1>1, <2>1, OutdatedMoves DEF Steps
  <2>3. SlotInv(s)' /\ ~Submitting(s)'
    BY <1>1, <1>2, <1>7, <2>2 DEF Moves, SlotInv, ReadStatus, AtProvider, AtEnd,
       AtTransition, Named, Submitting
  <2>4. TypeOK'
    BY <1>1, <1>2, <2>1, <2>2 DEF TypeOK, ExecType, Moves, ActType, proc
  <2>5. WorkflowInv'
    BY <1>1, <1>2, <1>7, <2>1, <2>2, SameWorkflow DEF Moves, proc
  <2> QED
    BY <1>1, <1>5, <1>6, <2>2, <2>3, <2>4, <2>5, StepInv DEF Moves
<1>8. CASE act[s].arg # "reconciliation_required"
  <2>1. Returns(s, act[s].arg) /\ OthersOutdated(s)
    BY <1>1, <1>8, OutdatedReturns DEF Transition
  <2>2. SlotInv(s)' /\ ~Submitting(s)'
    BY <2>1, IdleSlot DEF Returns, Ends
  <2>3. TypeOK'
    BY <1>1, <1>2, <2>1 DEF TypeOK, ExecType, Returns, Ends, ActType, WfType, proc
  <2>4. WorkflowInv'
    <3>1. NextDue(act[s].name, "failed") = "closed"
      BY DEF NextDue
    <3>2. Claimed' = Claimed
      BY <1>1 DEF Claimed
    <3> QED
      BY <1>1, <1>2, <1>4, <2>1, <3>1, <3>2, ReturnWorkflow DEF proc
  <2> QED
    BY <1>1, <1>5, <1>6, <2>1, <2>2, <2>3, <2>4, StepInv DEF Returns, Ends
<1> QED
  BY <1>7, <1>8

-----------------------------------------------------------------------------
(* Temporal, the API and time                                                 *)

\* A step that leaves the rows and the activities alone.
LEMMA WorkflowStep ==
  ASSUME ExecutionInv, SameRows, UNCHANGED <<act, staged, record>>, up' \in BOOLEAN,
         WfType', WorkflowInv'
  PROVE  ExecutionInv'
<1>1. TypeOK'
  BY DEF ExecutionInv, TypeOK, SameRows, WfType
<1>2. RowsInv'
  BY SameRowsInv
<1>3. ASSUME NEW t \in Slots
      PROVE  SlotInv(t)' /\ (Submitting(t)' => Submitting(t))
  BY DEF ExecutionInv, SlotInv, ReadStatus, AtProvider, AtEnd, AtTransition, Named,
     Submitting, SameRows, Current, Dead, AllDurable, SettlementSent, Claimed
<1>4. OneSubmits'
  BY <1>3 DEF ExecutionInv, OneSubmits
<1> QED
  BY <1>1, <1>2, <1>3, <1>4 DEF ExecutionInv

\* Temporal starts the activity that is due.
LEMMA StartActivityInv ==
  ASSUME ExecutionInv, StartActivity
  PROVE  ExecutionInv'
<1>1. "live" \in Slots /\ ActType /\ TypeOK /\ WfType
  BY GongbuAssumption DEF ExecutionInv, TypeOK, ActType, WfType
<1>2. PICK pc \in Phases \cup {"mark"} :
        /\ act' = [act EXCEPT !["live"] =
             [NoActivity EXCEPT !.name = wf.due, !.input = wf.input, !.pc = pc]]
        /\ pc = wf.due \/ (pc = "mark" /\ wf.due = "recover")
  BY DEF StartActivity
<1>3. /\ wf.due \in Phases /\ wf' = wf /\ SameRows /\ UNCHANGED <<staged, record, up>>
      /\ act["live"] = NoActivity
  BY DEF StartActivity, SameRows, store, proc
<1>4. act'["live"] = [name |-> wf.due, pc |-> pc, input |-> wf.input, fresh |-> FALSE,
                      arg |-> "none", outcome |-> "none", n |-> 0]
  BY <1>1, <1>2 DEF NoActivity, ActType
<1>5. act'["live"] \in ActivityType
  BY <1>1, <1>3, <1>4 DEF ActivityType, WfType, Outcomes, Steps
<1>6. \A t \in Slots : t # "live" => act'[t] = act[t]
  BY <1>1, <1>2 DEF ActType
<1>7. ActType'
  BY <1>1, <1>2, <1>5, <1>6 DEF ActType
<1>8. TypeOK'
  BY <1>1, <1>3, <1>7 DEF TypeOK, SameRows, ActType
<1>9. RowsInv'
  BY <1>3, SameRowsInv
<1>10. SlotInv("live")' /\ ~Submitting("live")'
  BY <1>1, <1>2, <1>3, <1>4 DEF SlotInv, ReadStatus, AtProvider, AtEnd, AtTransition,
     Named, Submitting, Phases, ExecutionInv, WorkflowInv, PollIsDue, SameRows
<1>11. ASSUME NEW t \in Slots, t # "live"
       PROVE  SlotInv(t)' /\ (Submitting(t)' => Submitting(t))
  BY <1>3, <1>6, <1>11 DEF ExecutionInv, SlotInv, ReadStatus, AtProvider, AtEnd,
     AtTransition, Named, Submitting, SameRows, Current, Dead, AllDurable,
     SettlementSent, Claimed
<1>12. OneSubmits'
  BY <1>10, <1>11 DEF ExecutionInv, OneSubmits
<1>13. WorkflowInv'
  BY <1>3, <1>4, <1>6 DEF ExecutionInv, WorkflowInv, PollIsDue, NothingOverran, SameRows,
     Claimed
<1> QED
  BY <1>8, <1>9, <1>10, <1>11, <1>12, <1>13 DEF ExecutionInv

\* The activity goes on beside the one Temporal will start.
LEMMA OverrunInv ==
  ASSUME ExecutionInv, Overrun
  PROVE  ExecutionInv'
<1>1. /\ Slots = {"live", "overrun"} /\ ActType /\ TypeOK /\ wf' = wf
      /\ UNCHANGED <<store, hubu, work, posts, up>> /\ overran' = TRUE
      /\ act' = [act EXCEPT !["overrun"] = act["live"], !["live"] = NoActivity]
  <2>1. "overrun" \in Slots /\ "live" \in Slots /\ Slots \subseteq {"live", "overrun"}
    BY GongbuAssumption DEF Overrun
  <2>2. Slots = {"live", "overrun"}
    BY <2>1
  <2> QED
    BY <2>2 DEF Overrun, ExecutionInv, TypeOK, ActType
<1>2. NoActivity \in ActivityType
  BY DEF NoActivity, ActivityType, Outcomes
<1>3. ActType' /\ act'["overrun"] = act["live"] /\ act'["live"] = NoActivity
  BY <1>1, <1>2 DEF ActType
<1>4. TypeOK'
  BY <1>1, <1>3 DEF TypeOK, ActType, store
<1>5. UNCHANGED <<exec, attempt, durable, receipt, hubu, work, posts>>
  BY <1>1 DEF store
<1>6. RowsInv'
  BY <1>5 DEF ExecutionInv, RowsInv, AttemptFollowsStatus, EvidenceIsTrue,
       MoneyFollowsEvidence, AllDurable, Claimed, Dead, SettlementSent, Completed
<1>7. SlotInv("live")' /\ ~Submitting("live")'
  BY <1>1, <1>3, IdleSlot
<1>8. SlotInv("overrun")'
  BY <1>1, <1>3, <1>5 DEF ExecutionInv, SlotInv, ReadStatus, AtProvider, AtEnd,
     AtTransition, Named, Current, Dead, AllDurable, SettlementSent, Claimed
<1>9. OneSubmits'
  BY <1>1, <1>7 DEF OneSubmits
<1>10. WorkflowInv'
  BY <1>1, <1>5 DEF ExecutionInv, WorkflowInv, NothingOverran, PollIsDue
<1> QED
  BY <1>1, <1>4, <1>6, <1>7, <1>8, <1>9, <1>10 DEF ExecutionInv

\* The waiting workflow is woken by a timer or takes a signal.
LEMMA WakeInv ==
  ASSUME ExecutionInv, Timer \/ TakeSignal
  PROVE  ExecutionInv'
<1>1. SameRows /\ UNCHANGED <<act, staged, record, up>> /\ WfType /\ TypeOK
      /\ wf.due = "wait" /\ wf'.due = "recover"
  BY DEF Timer, TakeSignal, SameRows, store, proc, ExecutionInv, TypeOK, WfType
<1>2. WfType'
  <2>1. "recover" \in Phases
    BY DEF Phases
  <2>2. CASE Timer
    <3>1. wf' = [wf EXCEPT !.due = "recover", !.input = "none", !.timers = wf.timers + 1]
      BY <2>2 DEF Timer
    <3>2. wf.timers \in 0..MaxAutomatic /\ wf.timers < MaxAutomatic
      BY <1>1, <2>2 DEF Timer, WfType
    <3>3. wf.timers + 1 \in 0..MaxAutomatic
      BY <3>2, GongbuAssumption
    <3> QED
      BY <1>1, <2>1, <3>1, <3>3 DEF WfType
  <2>3. CASE TakeSignal
    <3>1. PICK a \in OperatorActions :
            wf' = [wf EXCEPT !.due = "recover", !.input = a, !.pending = wf.pending - 1]
      BY <2>3 DEF TakeSignal
    <3>2. wf.pending - 1 \in Nat
      <4>1. wf.pending \in Nat
        BY <1>1 DEF WfType
      <4>2. wf.pending > 0
        BY <2>3 DEF TakeSignal
      <4> QED
        BY <4>1, <4>2
    <3> QED
      BY <1>1, <2>1, <3>1, <3>2 DEF WfType
  <2> QED
    BY <2>2, <2>3
<1>3. "live" \in Slots /\ (act["live"].pc # "none" => act["live"].name \in Phases)
  BY GongbuAssumption DEF ExecutionInv, SlotInv, Named
<1>4. WorkflowInv'
  BY <1>1, <1>3 DEF ExecutionInv, WorkflowInv, NothingOverran, PollIsDue, SameRows, Phases,
     Claimed
<1> QED
  BY <1>1, <1>2, <1>4, WorkflowStep DEF TypeOK

\* An operator signals a workflow, or starts a new run of a closed one.
LEMMA OperatorReconcilesInv ==
  ASSUME ExecutionInv, OperatorReconciles
  PROVE  ExecutionInv'
<1>1. SameRows /\ UNCHANGED <<act, staged, record, up>> /\ WfType /\ TypeOK
      /\ exec.status = "reconciliation_required"
      /\ wf' = IF wf.due = "closed" THEN NewRun(1) ELSE [wf EXCEPT !.pending = @ + 1]
  BY DEF OperatorReconciles, SameRows, store, proc, ExecutionInv, TypeOK, WfType
<1>2. WfType' /\ (wf'.due = wf.due \/ (wf.due = "closed" /\ wf'.due = "preflight"))
  BY <1>1, GongbuAssumption DEF WfType, NewRun, Phases
<1>3. "live" \in Slots /\ (act["live"].pc # "none" => act["live"].name \in Phases)
  BY GongbuAssumption DEF ExecutionInv, SlotInv, Named
<1>4. WorkflowInv'
  BY <1>1, <1>2, <1>3 DEF ExecutionInv, WorkflowInv, NothingOverran, PollIsDue, SameRows,
     Phases, Claimed
<1> QED
  BY <1>1, <1>2, <1>4, WorkflowStep DEF TypeOK

\* The process starts again.
LEMMA RestartInv ==
  ASSUME ExecutionInv, Restart
  PROVE  ExecutionInv'
<1>1. SameRows /\ UNCHANGED <<act, staged, record>> /\ WfType /\ TypeOK /\ up' \in BOOLEAN
      /\ wf' = IF wf.due = "closed" /\ exec.status \notin Final THEN NewRun(0) ELSE wf
  BY DEF Restart, SameRows, store, ExecutionInv, TypeOK, WfType
<1>2. WfType' /\ \/ wf'.due = wf.due
                 \/ /\ wf.due = "closed" /\ wf'.due = "preflight"
                    /\ exec.status # "failed"
  BY <1>1, GongbuAssumption DEF WfType, NewRun, Phases, Final
<1>3. "live" \in Slots /\ (act["live"].pc # "none" => act["live"].name \in Phases)
  BY GongbuAssumption DEF ExecutionInv, SlotInv, Named
<1>4. WorkflowInv'
  BY <1>1, <1>2, <1>3 DEF ExecutionInv, WorkflowInv, NothingOverran, PollIsDue, SameRows,
     Phases, Claimed
<1> QED
  BY <1>1, <1>2, <1>4, WorkflowStep

\* The process stops and its activities are lost.
LEMMA CrashInv ==
  ASSUME ExecutionInv, Crash
  PROVE  ExecutionInv'
<1>1. SameRows /\ UNCHANGED <<staged, record, wf>> /\ TypeOK /\ up' \in BOOLEAN
      /\ act' = [s \in Slots |-> NoActivity]
  BY DEF Crash, SameRows, store, ExecutionInv, TypeOK
<1>2. NoActivity \in ActivityType
  BY DEF NoActivity, ActivityType, Outcomes
<1>3. TypeOK'
  BY <1>1, <1>2 DEF TypeOK, SameRows
<1>4. \A t \in Slots : act'[t] = NoActivity
  BY <1>1
<1>5. \A t \in Slots : SlotInv(t)' /\ ~Submitting(t)'
  BY <1>4, IdleSlot
<1>6. RowsInv'
  BY <1>1, SameRowsInv
<1>7. OneSubmits'
  BY <1>5 DEF OneSubmits
<1>8. WorkflowInv'
  BY <1>1, <1>4, GongbuAssumption DEF ExecutionInv, WorkflowInv, NothingOverran, PollIsDue,
     SameRows, Claimed, NoActivity
<1> QED
  BY <1>3, <1>5, <1>6, <1>7, <1>8 DEF ExecutionInv

\* Time passes at Hubu.
LEMMA LapseInv ==
  ASSUME ExecutionInv, Lapse
  PROVE  ExecutionInv'
<1>1. /\ TypeOK
      /\ UNCHANGED <<exec, attempt, staged, durable, receipt, record, wf, act, work, posts,
                     up, overran>>
      /\ \/ hubu = "available" /\ hubu' = "void"
         \/ hubu = "claimed" /\ hubu' = "lapsed"
  BY DEF Lapse, store, proc, ExecutionInv
<1>2. TypeOK'
  BY <1>1 DEF TypeOK
<1>3. RowsInv'
  BY <1>1 DEF ExecutionInv, RowsInv, AttemptFollowsStatus, EvidenceIsTrue,
       MoneyFollowsEvidence, AllDurable, Claimed, Dead, SettlementSent, Completed
<1>4. \A t \in Slots : SlotInv(t)' /\ (Submitting(t)' => Submitting(t))
  BY <1>1 DEF ExecutionInv, SlotInv, ReadStatus, AtProvider, AtEnd, AtTransition, Named,
     Submitting, Current, Dead, AllDurable, SettlementSent, Claimed
<1>5. OneSubmits'
  BY <1>4 DEF ExecutionInv, OneSubmits
<1>6. WorkflowInv'
  BY <1>1 DEF ExecutionInv, WorkflowInv, NothingOverran, PollIsDue, Claimed
<1> QED
  BY <1>2, <1>3, <1>4, <1>5, <1>6 DEF ExecutionInv

-----------------------------------------------------------------------------
(* The theorems                                                               *)

\* Every execution starts with the invariant.
LEMMA InitInv == Init => ExecutionInv
<1> SUFFICES ASSUME Init PROVE ExecutionInv
  OBVIOUS
<1>1. NoActivity \in ActivityType
  BY DEF NoActivity, ActivityType, Outcomes
<1>2. TypeOK
  <2>1. ExecType /\ AttemptType
    BY DEF Init, ExecType, AttemptType, Statuses, Outcomes
  <2>2. WfType
    BY GongbuAssumption DEF Init, WfType, Phases
  <2>3. ActType
    BY <1>1 DEF Init, ActType
  <2>4. durable \in 0..MaxArtifacts /\ posts \in Nat
    <3>1. durable = 0 /\ posts = 0
      BY Zenon DEF Init
    <3> QED
      BY <3>1, GongbuAssumption
  <2>5. staged \in BOOLEAN /\ record \in BOOLEAN /\ up \in BOOLEAN /\ overran \in BOOLEAN
    BY Zenon DEF Init
  <2>6. /\ receipt \in {"none", "created", "sent", "settled"}
        /\ hubu \in {"available", "void", "claimed", "lapsed", "settled", "released"}
        /\ work \in {"none", "running", "done", "refused"}
    BY Zenon DEF Init
  <2> QED
    BY <2>1, <2>2, <2>3, <2>4, <2>5, <2>6, Zenon
       DEF TypeOK, ExecType, AttemptType, WfType, ActType
<1>3. RowsInv
  BY GongbuAssumption DEF Init, RowsInv, AttemptFollowsStatus, EvidenceIsTrue,
       MoneyFollowsEvidence, AllDurable, Claimed, Dead, SettlementSent, Completed
<1>4. \A s \in Slots : SlotInv(s) /\ ~Submitting(s)
  BY DEF Init, NoActivity, SlotInv, ReadStatus, AtProvider, AtEnd, AtTransition, Named,
     Submitting
<1>5. OneSubmits
  BY <1>4 DEF OneSubmits
<1>6. WorkflowInv
  BY GongbuAssumption DEF Init, WorkflowInv, NothingOverran, PollIsDue, NoActivity, Claimed
<1> QED
  BY <1>2, <1>3, <1>4, <1>5, <1>6 DEF ExecutionInv

\* Every step of an activity preserves it.
LEMMA StepPreserves ==
  ASSUME ExecutionInv, NEW s \in Slots, Step(s)
  PROVE  ExecutionInv'
BY StaleInv, TransitionInv, RecordReconciliationInv, PreflightInv, CheckPreflightInv,
   ClaimPhaseInv, CallClaimInv, SaveClaimInv, ValidateInv, InspectClaimInv,
   StartAttemptInv, SubmitInv, BeginTransmissionInv, PostInv, CheckpointInv, PollInv,
   CallPollInv, FinishProviderResultInv, PersistInv, StoreArtifactInv,
   CountArtifactsInv, DeliverInv, ReleaseInv, MarkReleaseInv, CallReleaseInv, SettleInv,
   CreateReceiptInv, BeginSettlementInv, CallSettleInv, CompleteReceiptInv,
   MarkRecoveryInv, RecoverInv, ReclaimInv, SaveRecoveredInv, ReopenInv, ResettleInv,
   RereleaseInv
   DEF Step

\* And so does every step of the system.
LEMMA NextInv == ExecutionInv /\ [Next]_vars => ExecutionInv'
<1> SUFFICES ASSUME ExecutionInv, [Next]_vars PROVE ExecutionInv'
  OBVIOUS
<1>1. CASE UNCHANGED vars
  <2>1. SameRows /\ UNCHANGED <<act, staged, record, up, wf>>
    BY <1>1 DEF vars, store, proc, SameRows
  <2>2. WorkflowInv' /\ WfType' /\ up' \in BOOLEAN
    BY <2>1 DEF ExecutionInv, TypeOK, WfType, WorkflowInv, NothingOverran, PollIsDue,
       SameRows, Claimed
  <2> QED
    BY <2>1, <2>2, WorkflowStep
<1>2. CASE Next
  BY <1>2, StepPreserves, StartActivityInv, OverrunInv, WakeInv, OperatorReconcilesInv,
     CrashInv, RestartInv, LapseInv DEF Next
<1> QED
  BY <1>1, <1>2

\* The inductive invariant holds in every state of an execution.
THEOREM Invariance == Spec => []ExecutionInv
<1>1. Init => ExecutionInv
  BY InitInv
<1>2. ExecutionInv /\ [Next]_vars => ExecutionInv'
  BY NextInv
<1> QED
  BY <1>1, <1>2, PTL DEF Spec

\* Every row, activity and call has its type.
THEOREM TypeCorrect == Spec => []TypeOK
<1>1. ExecutionInv => TypeOK
  BY DEF ExecutionInv
<1> QED
  BY <1>1, Invariance, PTL

\* For any number of retries, crashes, recoveries and operator actions, and with
\* an activity that overran its timeout beside its successor, the paid request
\* reaches the provider at most once, under a claim Hubu granted.
THEOREM ProviderPaidOnce == Spec => []SubmittedOnce
<1>1. ExecutionInv => SubmittedOnce
  BY DEF ExecutionInv, RowsInv, EvidenceIsTrue, SubmittedOnce, Claimed
<1> QED
  BY <1>1, Invariance, PTL

\* Hubu never gives the money back for work that was done or may be going on.
THEOREM NoReleaseOfBilledWork == Spec => []ReleasedIsUnbilled
<1>1. ExecutionInv => ReleasedIsUnbilled
  BY DEF ExecutionInv, RowsInv, EvidenceIsTrue, MoneyFollowsEvidence, Dead,
         ReleasedIsUnbilled
<1> QED
  BY <1>1, Invariance, PTL

\* Hubu settles only for work that was done and is durable.
THEOREM SettlementHasGoods == Spec => []SettledIsDelivered
<1>1. ExecutionInv => SettledIsDelivered
  BY DEF ExecutionInv, RowsInv, EvidenceIsTrue, MoneyFollowsEvidence, AllDurable,
         SettlementSent, SettledIsDelivered
<1> QED
  BY <1>1, Invariance, PTL

\* The end Gongbu reports is the end of the hold at Hubu.
THEOREM GongbuAndHubuAgree == Spec => []EndsAgree
<1>1. ExecutionInv => EndsAgree
  BY DEF ExecutionInv, RowsInv, EvidenceIsTrue, MoneyFollowsEvidence,
         AttemptFollowsStatus, WorkflowInv, NothingOverran, Claimed, EndsAgree, TypeOK
<1> QED
  BY <1>1, Invariance, PTL

-----------------------------------------------------------------------------
(* What one step may do to the rows and to the authorization                  *)

\* The steps that commit a row.
Committing(s) ==
  \/ Transition(s) \/ Preflight(s) \/ SaveClaim(s) \/ StartAttempt(s)
  \/ BeginTransmission(s) \/ Checkpoint(s) \/ FinishProviderResult(s) \/ Deliver(s)
  \/ MarkRelease(s) \/ SaveRecovered(s) \/ Reopen(s)
  \/ CreateReceipt(s) \/ BeginSettlement(s) \/ CompleteReceipt(s)

\* The steps that call Hubu.
Calling(s) == CallClaim(s) \/ CallRelease(s) \/ CallSettle(s)
              \/ Reclaim(s) \/ Resettle(s) \/ Rerelease(s)

RowsKept == UNCHANGED <<exec, attempt, receipt>>

\* How the authorization at Hubu moves.
TokenMoves ==
  \/ hubu' = hubu
  \/ hubu = "available" /\ hubu' \in {"void", "claimed"}
  \/ hubu = "claimed" /\ hubu' \in {"lapsed", "settled", "released"}

\* How the status moves: forward, along the edges of the code's state machine,
\* past the claim only with a claim, and never once the execution has ended.
StatusMoves ==
  \/ exec' = exec
  \/ /\ exec.status \notin Final
     /\ \/ exec'.status = exec.status
        \/ exec.status = "pending" /\ exec'.status = "preflighting"
        \/ /\ Claimed
           /\ <<exec.status, exec'.status>> \in
                {<<"preflighting", "claimed">>, <<"claimed", "executing">>,
                 <<"executing", "settling">>,
                 <<"reconciliation_required", "executing">>}
        \/ /\ <<exec.status, exec'.status>> \in allowed_transition
           /\ exec'.status \in {"failed", "reconciliation_required"}
        \/ /\ Claimed
           /\ <<exec.status, exec'.status>> \in allowed_transition
           /\ exec'.status \in {"succeeded", "released"}

\* How the evidence of the attempt and of the settlement moves.
EvidenceMoves ==
  /\ \/ attempt' = attempt
     \/ /\ attempt.outcome \notin {"succeeded", "failed"}
        /\ attempt.sent => attempt'.sent
  /\ receipt # "none" => receipt' # "none"

\* Every step commits, calls Hubu, or leaves both alone.
LEMMA StepKinds ==
  ASSUME NEW s \in Slots, Step(s)
  PROVE  Committing(s) \/ Calling(s) \/ (RowsKept /\ hubu' = hubu)
<1>1. CASE Stale(s) \/ RecordReconciliation(s) \/ CheckPreflight(s) \/ Claim(s)
           \/ Validate(s) \/ InspectClaim(s) \/ Submit(s) \/ Post(s) \/ Poll(s)
  BY <1>1 DEF Stale, RecordReconciliation, CheckPreflight, Claim, Validate, InspectClaim,
     Submit, Post, Poll, RowsKept, store
<1>2. CASE CallPoll(s) \/ Persist(s) \/ StoreArtifact(s) \/ CountArtifacts(s)
           \/ Release(s) \/ Settle(s) \/ MarkRecovery(s) \/ Recover(s)
  BY <1>2 DEF CallPoll, Persist, StoreArtifact, CountArtifacts, Release, Settle,
     MarkRecovery, Recover, RowsKept, store
<1> QED
  BY <1>1, <1>2 DEF Step, Committing, Calling

\* A call to Hubu leaves the rows alone.
LEMMA CallingKeeps ==
  ASSUME TypeOK, NEW s \in Slots, Calling(s)
  PROVE  RowsKept /\ TokenMoves
<1>1. RowsKept
  BY DEF Calling, CallClaim, CallRelease, CallSettle, Reclaim, Resettle, Rerelease,
     RowsKept, store
<1>2. PICK answer \in Answers :
        HubuClaim(answer) \/ HubuSettle(answer) \/ HubuRelease(answer)
  BY DEF Calling, CallClaim, CallRelease, CallSettle, Reclaim, Resettle, Rerelease
<1> QED
  BY <1>1, <1>2, ClaimAnswer, SettleAnswer, ReleaseAnswer DEF TokenMoves

\* A commit of the execution checks the version, so the status is the one the
\* activity read.
LEMMA CommitMovesStatus ==
  ASSUME ExecutionInv, NEW s \in Slots,
         \/ Transition(s) \/ Preflight(s) \/ SaveClaim(s) \/ StartAttempt(s)
         \/ Deliver(s) \/ MarkRelease(s) \/ SaveRecovered(s) \/ Reopen(s)
  PROVE  StatusMoves /\ hubu' = hubu
<1>1. SlotInv(s) /\ RowsInv /\ ExecType
  BY DEF ExecutionInv, TypeOK, ExecType
<1>2. CASE Transition(s)
  <2>1. /\ act[s].pc = "transition" /\ hubu' = hubu
        /\ <<exec.status, act[s].arg>> \in allowed_transition
        /\ exec'.status = act[s].arg
    BY <1>1, <1>2 DEF Transition, At, ExecType
  <2>2. /\ act[s].arg \in {"failed", "reconciliation_required", "succeeded", "released"}
        /\ act[s].arg \in {"succeeded", "released"} => Claimed
    BY <1>1, <2>1 DEF SlotInv, AtTransition, RowsInv, MoneyFollowsEvidence, Claimed
  <2>3. exec.status \notin Final
    BY <2>1 DEF allowed_transition, Final
  <2> QED
    BY <2>1, <2>2, <2>3 DEF StatusMoves
<1>3. CASE Preflight(s)
  BY <1>1, <1>3 DEF Preflight, ExecType, StatusMoves, Final
<1>4. CASE SaveClaim(s)
  <2>1. act[s].pc = "save_claim" /\ act[s].fresh /\ hubu' = hubu /\ exec'.status = "claimed"
    BY <1>1, <1>4 DEF SaveClaim, At, ExecType
  <2> QED
    BY <1>1, <2>1 DEF SlotInv, ReadStatus, Current, AtProvider, StatusMoves, Final
<1>5. CASE StartAttempt(s)
  <2>1. /\ act[s].pc = "start_attempt" /\ act[s].fresh /\ hubu' = hubu
        /\ exec'.status = "executing"
    BY <1>1, <1>5 DEF StartAttempt, At, ExecType
  <2> QED
    BY <1>1, <2>1 DEF SlotInv, ReadStatus, Current, RowsInv, AttemptFollowsStatus,
       StatusMoves, Final
<1>6. CASE Deliver(s)
  <2>1. act[s].pc = "deliver" /\ act[s].fresh /\ hubu' = hubu /\ exec'.status = "settling"
    BY <1>1, <1>6 DEF Deliver, At, ExecType
  <2> QED
    BY <1>1, <2>1 DEF SlotInv, ReadStatus, Current, RowsInv, AttemptFollowsStatus,
       StatusMoves, Final
<1>7. CASE MarkRelease(s)
  <2>1. act[s].pc = "mark_release" /\ act[s].fresh /\ hubu' = hubu
        /\ exec'.status = exec.status
    BY <1>1, <1>7 DEF MarkRelease, At, ExecType
  <2> QED
    BY <1>1, <2>1 DEF SlotInv, ReadStatus, Current, StatusMoves, Final
<1>8. CASE SaveRecovered(s)
  <2>1. act[s].pc = "save_recovered" /\ act[s].fresh /\ hubu' = hubu
        /\ exec'.status = exec.status
    BY <1>1, <1>8 DEF SaveRecovered, At, ExecType
  <2> QED
    BY <1>1, <2>1 DEF SlotInv, ReadStatus, Current, StatusMoves, Final
<1>9. CASE Reopen(s)
  <2>1. /\ act[s].pc = "reopen" /\ hubu' = hubu
        /\ \/ exec' = exec
           \/ /\ act[s].fresh /\ attempt.outcome = "ambiguous"
              /\ exec'.status = "executing"
    BY <1>1, <1>9 DEF Reopen, At, ExecType
  <2> QED
    BY <1>1, <2>1 DEF SlotInv, ReadStatus, Current, RowsInv, EvidenceIsTrue,
       StatusMoves, Final
<1> QED
  BY <1>2, <1>3, <1>4, <1>5, <1>6, <1>7, <1>8, <1>9

\* The other commits leave the execution alone.
LEMMA OtherCommits ==
  ASSUME NEW s \in Slots,
         \/ BeginTransmission(s) \/ Checkpoint(s) \/ FinishProviderResult(s)
         \/ CreateReceipt(s) \/ BeginSettlement(s) \/ CompleteReceipt(s)
  PROVE  exec' = exec /\ hubu' = hubu
BY DEF BeginTransmission, Checkpoint, FinishProviderResult, CreateReceipt,
       BeginSettlement, CompleteReceipt

\* A commit keeps the evidence of the attempt and of the settlement.
LEMMA CommitKeepsEvidence ==
  ASSUME ExecutionInv, NEW s \in Slots, Committing(s)
  PROVE  EvidenceMoves
<1>1. AttemptType
  BY DEF ExecutionInv, TypeOK, AttemptType
<1>2. CASE \/ Transition(s) \/ Preflight(s) \/ SaveClaim(s) \/ Deliver(s)
           \/ MarkRelease(s) \/ SaveRecovered(s)
  BY <1>2 DEF Transition, Preflight, SaveClaim, Deliver, MarkRelease, SaveRecovered,
     EvidenceMoves
<1>3. CASE CreateReceipt(s) \/ BeginSettlement(s) \/ CompleteReceipt(s)
  BY <1>3 DEF CreateReceipt, BeginSettlement, CompleteReceipt, EvidenceMoves
<1>4. CASE StartAttempt(s)
  BY <1>1, <1>4 DEF StartAttempt, AttemptType, EvidenceMoves
<1>5. CASE Reopen(s)
  BY <1>1, <1>5 DEF Reopen, AttemptType, EvidenceMoves
<1>6. CASE BeginTransmission(s)
  BY <1>1, <1>6 DEF BeginTransmission, begin_provider_transmission, Completed,
     AttemptType, EvidenceMoves
<1>7. CASE Checkpoint(s)
  BY <1>1, <1>7 DEF Checkpoint, AttemptType, EvidenceMoves
<1>8. CASE FinishProviderResult(s)
  <2>1. receipt' = receipt
    BY <1>8 DEF FinishProviderResult
  <2>2. CASE ~complete_provider_attempt
    BY <1>8, <2>1, <2>2 DEF FinishProviderResult, EvidenceMoves
  <2>3. CASE complete_provider_attempt
    <3>1. act[s].arg \in {"success", "empty", "failed", "ambiguous"}
      BY <1>8 DEF FinishProviderResult, At, ExecutionInv, SlotInv, AtProvider
    <3>2. attempt'.sent = attempt.sent
      <4>1. CASE act[s].arg = "success"
        BY <1>1, <1>8, <2>3, <4>1 DEF FinishProviderResult, AttemptType
      <4>2. CASE act[s].arg = "empty"
        BY <1>1, <1>8, <2>3, <4>2 DEF FinishProviderResult, Complete, AttemptType
      <4>3. CASE act[s].arg = "failed"
        BY <1>1, <1>8, <2>3, <4>3 DEF FinishProviderResult, Complete, AttemptType
      <4>4. CASE act[s].arg = "ambiguous"
        BY <1>1, <1>8, <2>3, <4>4 DEF FinishProviderResult, Complete, AttemptType
      <4> QED
        BY <3>1, <4>1, <4>2, <4>3, <4>4
    <3> QED
      BY <2>1, <2>3, <3>2 DEF EvidenceMoves, complete_provider_attempt
  <2> QED
    BY <2>2, <2>3
<1> QED
  BY <1>2, <1>3, <1>4, <1>5, <1>6, <1>7, <1>8 DEF Committing

\* One step of the system, seen from its rows.
LEMMA RowsMove ==
  ASSUME ExecutionInv, [Next]_vars
  PROVE  /\ StatusMoves /\ EvidenceMoves /\ TokenMoves
         /\ exec' = exec \/ hubu' = hubu
<1>0. TypeOK
  BY DEF ExecutionInv
<1>1. CASE RowsKept /\ TokenMoves
  BY <1>1 DEF RowsKept, StatusMoves, EvidenceMoves
<1>2. CASE \E s \in Slots : Step(s)
  <2>1. PICK s \in Slots : Step(s)
    BY <1>2
  <2>2. CASE Committing(s)
    <3>1. StatusMoves /\ hubu' = hubu
      BY <2>2, CommitMovesStatus, OtherCommits DEF Committing, StatusMoves
    <3>2. EvidenceMoves
      BY <2>2, CommitKeepsEvidence
    <3> QED
      BY <3>1, <3>2 DEF TokenMoves
  <2>3. CASE Calling(s)
    BY <1>0, <1>1, <2>3, CallingKeeps DEF RowsKept
  <2>4. CASE RowsKept /\ hubu' = hubu
    BY <1>1, <2>4 DEF TokenMoves, RowsKept
  <2> QED
    BY <2>1, <2>2, <2>3, <2>4, StepKinds
<1>3. CASE StartActivity \/ Overrun \/ Timer \/ TakeSignal \/ OperatorReconciles
           \/ Crash \/ Restart \/ UNCHANGED vars
  <2>1. RowsKept /\ hubu' = hubu
    BY <1>3 DEF StartActivity, Overrun, Timer, TakeSignal, OperatorReconciles, Crash,
       Restart, vars, store, RowsKept
  <2> QED
    BY <1>1, <2>1 DEF TokenMoves, RowsKept
<1>4. CASE Lapse
  <2>1. RowsKept /\ TokenMoves
    BY <1>4 DEF Lapse, store, RowsKept, TokenMoves
  <2> QED
    BY <1>1, <2>1 DEF RowsKept
<1> QED
  BY <1>2, <1>3, <1>4 DEF Next

\* An ended execution and a definite result of the provider stay as they are, the
\* transmission marker and the receipt are never taken back: by any commit of any
\* activity, also one that was overtaken, and across crashes and recoveries.
THEOREM EvidenceIsFinal == Spec => EvidenceFinal
<1>1. ExecutionInv /\ [Next]_vars
        => [ /\ exec.status \in Final => exec' = exec
             /\ attempt.outcome \in {"succeeded", "failed"} => attempt' = attempt
             /\ attempt.sent => attempt'.sent
             /\ receipt # "none" => receipt' # "none" ]_vars
  <2> SUFFICES ASSUME ExecutionInv, [Next]_vars
      PROVE  /\ exec.status \in Final => exec' = exec
             /\ attempt.outcome \in {"succeeded", "failed"} => attempt' = attempt
             /\ attempt.sent => attempt'.sent
             /\ receipt # "none" => receipt' # "none"
    OBVIOUS
  <2>1. StatusMoves /\ EvidenceMoves
    BY RowsMove
  <2> QED
    BY <2>1, Zenon DEF StatusMoves, EvidenceMoves
<1> QED
  BY <1>1, Invariance, PTL DEF Spec, EvidenceFinal

-----------------------------------------------------------------------------
(* Gongbu implements the service its clients see                              *)

PublicStatus ==
  CASE exec.status \in {"pending", "preflighting"} -> "pending"
    [] exec.status \in {"claimed", "executing", "settling"} -> "executing"
    [] OTHER -> exec.status

PublicToken ==
  CASE hubu = "available" -> "live"
    [] hubu = "void" -> "gone"
    [] OTHER -> "claimed"

\* Every step of Gongbu is a step of the service, or one that is not seen.
LEMMA StepRefines ==
  ASSUME ExecutionInv, [Next]_vars
  PROVE  [Service!Next]_<<PublicStatus, PublicToken>>
<1> SUFFICES Service!Next \/ (PublicStatus' = PublicStatus /\ PublicToken' = PublicToken)
  OBVIOUS
<1>1. /\ StatusMoves /\ TokenMoves
      /\ exec' = exec \/ hubu' = hubu
  BY RowsMove
<1>2. /\ hubu = "available" => exec.status \in {"pending", "preflighting",
                                                "reconciliation_required", "failed"}
      /\ PublicToken = "claimed" <=> Claimed
  BY DEF ExecutionInv, TypeOK, Statuses, RowsInv, AttemptFollowsStatus,
     MoneyFollowsEvidence, Claimed, PublicToken
<1>3. CASE exec' = exec
  <2>1. PublicStatus' = PublicStatus
    BY <1>3 DEF PublicStatus
  <2>2. CASE hubu = "available" /\ hubu' = "void"
    BY <2>1, <2>2 DEF PublicStatus, PublicToken, Service!Next, Service!Retire
  <2>3. CASE hubu = "available" /\ hubu' = "claimed"
    BY <1>2, <2>1, <2>3 DEF PublicStatus, PublicToken, Service!Next, Service!Claim
  <2>4. CASE \/ hubu' = hubu
             \/ hubu = "claimed" /\ hubu' \in {"lapsed", "settled", "released"}
    BY <2>1, <2>4 DEF PublicToken
  <2> QED
    BY <1>1, <2>2, <2>3, <2>4 DEF TokenMoves
<1>4. CASE exec' # exec
  <2>1. hubu' = hubu /\ PublicToken' = PublicToken
    BY <1>1, <1>4 DEF PublicToken
  <2>2. CASE exec'.status = exec.status
    BY <2>1, <2>2 DEF PublicStatus
  <2>3. CASE exec.status = "pending" /\ exec'.status = "preflighting"
    BY <2>1, <2>3 DEF PublicStatus
  <2>4. CASE Claimed /\ exec.status = "preflighting" /\ exec'.status = "claimed"
    BY <1>2, <2>1, <2>4 DEF PublicStatus, PublicToken, Service!Next, Service!Progress,
       Service!Begin
  <2>5. CASE \/ exec.status = "claimed" /\ exec'.status = "executing"
             \/ exec.status = "executing" /\ exec'.status = "settling"
    BY <2>1, <2>5 DEF PublicStatus
  <2>6. CASE /\ Claimed /\ exec.status = "reconciliation_required"
             /\ exec'.status = "executing"
    BY <1>2, <2>1, <2>6 DEF PublicStatus, PublicToken, Service!Next, Service!Progress,
       Service!Reopen
  <2>7. CASE /\ <<exec.status, exec'.status>> \in allowed_transition
             /\ exec'.status = "failed"
    BY <2>1, <2>7 DEF allowed_transition, PublicStatus, PublicToken, Service!Next,
       Service!Progress, Service!Fail
  <2>8. CASE /\ <<exec.status, exec'.status>> \in allowed_transition
             /\ exec'.status = "reconciliation_required"
    BY <2>1, <2>8 DEF allowed_transition, PublicStatus, PublicToken, Service!Next,
       Service!Progress, Service!Hold
  <2>9. CASE /\ Claimed
             /\ <<exec.status, exec'.status>> \in allowed_transition
             /\ exec'.status \in {"succeeded", "released"}
    BY <1>2, <2>1, <2>9 DEF allowed_transition, PublicStatus, PublicToken, Service!Next,
       Service!Progress, Service!End
  <2> QED
    BY <1>1, <1>4, <2>2, <2>3, <2>4, <2>5, <2>6, <2>7, <2>8, <2>9 DEF StatusMoves
<1> QED
  BY <1>3, <1>4

\* Gongbu keeps what GongbuService promises: with the public status and the token
\* mapped from the executions row and the authorization, every behaviour of the
\* execution is one of the service that OperationRegistry runs against.
THEOREM GongbuImplementsService == Spec => ImplementsService
<1>1. Init => Service!Init
  BY DEF Init, Service!Init
<1>2. ExecutionInv /\ [Next]_vars => [Service!Next]_<<PublicStatus, PublicToken>>
  BY StepRefines
<1> QED
  BY <1>1, <1>2, Invariance, PTL DEF Spec, ImplementsService, Service!Spec, PublicStatus,
     PublicToken

=============================================================================
