# A TLA+ model of hubu

hubu is a spending control plane for AI agents. A `hubu-server` process keeps
policies, budgets and authorizations in a SQLite file; an agent asks for a
spend, the server reserves budget and issues a token, and either the built-in
wallet pays or an external executor (Gongbu) claims the authorization, does the
work and settles the actual cost. A unified MCP router sits in front of both: it
gives every tool call a durable operation and drives it through Hubu's decision,
a human approval and the Gongbu execution. This directory models the parts that
decide about money and the parts that must not lose or repeat paid work: the
authorization lifecycle, the direct payment path, a Gongbu execution, and the
router's operation registry. It also models the launcher (`hubu stack`) that
renders the configuration of the servers and starts and stops them.

## 1. Inventory

| Component | State it keeps | Operations | Interacts with | Hard behaviour | What makes it correct |
| --- | --- | --- | --- | --- | --- |
| Budget records (`hubu-core/src/budget`) | budgets with numbered versions, one balance (consumed, frozen, remaining) per budget, holds | create, revoke, new version, reserve, claim, settle, release, expire, hydrate | cached in each process, persisted by the governance store | cached sums that must follow the holds | sums equal the holds; limit is hard |
| Governance store (`hubu-core/src/persistence*`) | tables for attempts, decisions, tokens, holds, claims, budgets, balances | immediate transactions for each lifecycle step | every server process on the file | several processes with stale caches; rollback; crash | every commit keeps the file loadable; checks under the write lock |
| Spend authorization (`app/spend_approval.rs`, `spend/manager.rs`) | decisions and tokens in memory | admit, evaluate, deny, approve, discard | policy engine, budgets, store | three commits per request; provisional token | one grant per operation key |
| Human approval (`persistence/human_lifecycle.rs`) | outcome of an attempt | approve, decline | store, budgets | racing resolutions | an outcome is final |
| Executor claims (`app/executor_claim.rs`, `persistence/authorization_void.rs`) | claim with lease and receipt | claim, settle, release, reconcile, void, replays | executors, budgets, store | lost answers, lapsed leases, void racing claim | claim, hold and token end together |
| Budget administration (`budget/coordinator.rs`) | versions, administrative state | create, revoke, change limit, exact retry | users, store | limit lowered below commitments; ambiguous commit | limit covers commitments; a retry applies once |
| Direct payment (`hubu-wallet`) | payment attempts, remembered responses | submit, replay, save | rail (external), ledger, budgets | four separate commits and an external charge | paid once; settled means paid; every charge recorded |
| Double-entry ledger (`hubu-ledger`) | transactions and entries | record transaction | wallet, settlement | - | balanced, immutable |
| Server (`hubu-api`) | managers behind one loop | HTTP routes, startup | all of the above | serves one request at a time; may crash anywhere | - |
| Policy engine (`hubu-core/src/policy`) | rules | evaluate | authorization | rule precedence | pure function |
| Gongbu (`gongbu-api`) | executions, provider attempts, staged and durable artifacts, receipts, reconciliation records; the Temporal workflow | preflight, claim, validate, submit, poll, persist, settle, release, recover, operator actions | Hubu's executor contract, providers, Temporal | crashes around external calls, lost answers, activities that outlive their timeout | one paid request; release only unbilled work; settle only delivered work; both ends agree |
| Unified MCP (`hubu-unified-mcp`) | operation registry with worker leases, recorded results, void obligations | allocate, dispatch, record, approve, resume, bind, claim, create, observe, retry, void | Hubu, Gongbu, harnesses that redeliver calls | lease expiry with work in flight, late answers, expired tokens | refused operations start nothing; ends are final and true; accepted operations end |
| Local-stack launcher (`hubu-cli/src/stack*`) | source files, rendered generations, the active manifest, the ownership record, the lifecycle lock | render, activate, rollback, start, stop | the server processes, the doctor's probes | kills between spawn and record, hung or lost servers, reused process ids, edited sources | configuration never changes under an owned server; no server is lost; the advised commands recover |
| Registration, users, targets, observability, other CLI commands, bench, feedback | identities, advisory amounts, evidence, rendering | - | - | - | outside the money decisions |

`PROJECT.json` lists the same parts with their sources and status, and the
hazards with the line where each bites.

## 2. Plan

1. **Done.** `Totals`, `BudgetStore`, `HoldLedger`, `SpendGovernance`: the store,
   its promise, and the lifecycle of one or several processes. `WalletPayment`:
   the direct payment path.
2. **Done.** `GongbuExecution`: one execution of `workflow.rs` under the granular
   Temporal workflow, with a crash between any two durable writes, lost answers of
   Hubu and of the provider, and overrun activities. `OperationRegistry`: the
   governed operation of the router with its worker, approvals and resumptions.
   `GongbuService` is the interface between the two: the one implements it, the
   other runs against it. `StackLifecycle`: the launcher of the local stack.
3. **Done.** Proofs of the safety properties of `SpendGovernance` (for any number
   of processes, and for one process with the refinement of `HoldLedger`),
   `GongbuExecution` (with the refinement of `GongbuService`), `OperationRegistry`,
   `StackLifecycle` and `WalletPayment`, whose cache and file differ after a failed
   commit.
4. **Open.** The primitive tools of the registry (direct authorization and
   payment), recurring budget series, and operator modules for `money.rs` and the
   precedence of policy rules.

## 3. Modules

| Module | Models |
| --- | --- |
| `Totals` | Sums of bounded amounts without recursion: a sum is the number of units below the graph of the amounts. |
| `BudgetStore` | The records of the governance tables and the pure transitions on them. A decision is one revision of one operation key; unique indexes give it at most one token, hold and claim, so each table is a function of the decision. The same type serves for the file and for a process's cache, because the code applies the same transition to both. |
| `HoldLedger` | What the store promises: budgets with a limit and holds whose amounts are committed against it. No cached sums, no processes, no time. |
| `SpendGovernance` | `disk` and `attempts` are the file, `mem[s]` is what process `s` caches, `req[s]` is the request it serves. One step per committed transaction. |
| `WalletPayment` | `POST /spend` with its rail charge, ledger commit, saved attempt, saved token and hold update as separate steps; an executor competes for the same authorization. |
| `GongbuExecution` | `exec`, `attempt`, `staged`, `durable`, `receipt` and `record` are the rows of Gongbu's SQLite file, `wf` is the Temporal workflow, `act` the activities that run, `hubu` and `work` what Hubu and the provider really have. One step per commit and per outgoing call. |
| `GongbuService` | What Gongbu promises its clients and Hubu: the public status of an execution and the authorization's token. `GongbuExecution` implements it, `OperationRegistry` runs against it. |
| `OperationRegistry` | `op` is the operation's row, `worker` what each router's worker does, `calls` the results with which tool calls go on, `verdict`, `token` and `gongbu` the backends. One step per transaction or request. |
| `StackLifecycle` | `source`, `staged` and `active` are the source files, the generations and the active manifest, `record` is `launcher-state.json`, `proc` the processes, `cmd` the command that holds the lock. One step per durable write, spawn or signal. |
| `MC*` | Constant functions and symmetry sets for TLC. |
| `*Proofs` | Lemmas and theorems, one module per component. |

### SpendGovernance and the code

A process serves one request at a time (`run_server` handles a connection before
it accepts the next), so `req[s]` holds one request. Handlers begin by expiring
overdue holds, in the file and then in memory (`Receive`). A request that commits
once after that (settle, release, reconcile, void, create, revoke) is one
action. Authorization commits an admission, a decision and an outcome, and takes
three steps; a claim, a resolution and a limit change read before the lock and
take two. Everything between two commits touches only the process's own memory,
so nothing is lost by making it one step. `EndRequest` is every other way out of
a handler: an early return, a refusal, or a transaction that SQLite rolled back.
It undoes the provisional token as the code does.

| Action | Code |
| --- | --- |
| `AuthorizeSpend`, `AdmitSpendAttempt`, `EvaluateSpend` | `evaluate_and_reserve_spend_at`, `admit_spend_attempt`, `evaluate_spend_with_revision` |
| `DenyByPolicy`, `DenyNoAvailableBudget`, `DenyInsufficientBudget`, `ApproveAutomatically` | the four exits of `authorize_with_policy_context`, with `save_denied` and `save_approved` |
| `ResolveApproval`, `SaveHumanApproved`, `SaveHumanDeclined` | `resolve_spend_approval_at`, `resolve_human_approval_at`, `save_declined` |
| `ClaimExecutorSpend`, `SaveExecutorClaim`, `ReplayExecutorClaim` | `claim_executor_spend`, `save_executor_claim_with_budget_hold` |
| `SettleExecutorClaim`, `ReleaseExecutorClaim`, `ReconcileAsBilled`, `ReconcileAsNotBilled`, `ReplayFinalization` | `finalize_executor_claim_transactionally` and its callers |
| `VoidUnclaimedAuthorization`, `ReplayVoid` | `void_unclaimed_authorization` |
| `CreateSingleBudget`, `RevokeSingleBudget`, `UpdateBudgetLimit`, `SaveBudgetVersion`, `ReplayBudgetVersion` | `BudgetCoordinator` and `append_budget_version` |
| `Crash`, `StartServer`, `Tick` | end of a process, startup with hydration, the clock |

### GongbuExecution and the code

An activity is a record with the step it is at (`pc`). Every commit that checks
the version of the execution (`update_execution`, `set_claim`,
`start_provider_attempt` ...) needs the version that was read: `fresh` says that
nobody else has committed since, and `Stale` is the error otherwise. Commits
that do not check it (`begin_provider_transmission`,
`complete_provider_attempt`, the receipts) have their own guards. Slot "live" is
the activity Temporal waits for; `Overrun` moves it to "overrun", where its
blocking thread goes on beside the retried activity.

| Action | Code |
| --- | --- |
| `Preflight` ... `StartAttempt` | `preflight_phase`, `claim_phase`, `validate_claim_phase` |
| `Submit`, `BeginTransmission`, `Post`, `Checkpoint` | `provider_submit_phase` |
| `Poll`, `CallPoll`, `FinishProviderResult` | `provider_poll_phase`, `finish_provider_result` |
| `Persist`, `StoreArtifact`, `CountArtifacts`, `Deliver` | `artifact_phase` |
| `Release`, `MarkRelease`, `CallRelease` | `release_phase`, `release_or_reconcile` |
| `Settle`, `CreateReceipt`, `BeginSettlement`, `CallSettle`, `CompleteReceipt` | `settlement_phase` |
| `MarkRecovery`, `Recover`, `Reclaim`, `SaveRecovered`, `Reopen`, `Resettle`, `Rerelease` | `recover_execution`, `recover` |
| `Transition`, `RecordReconciliation` | the two commits of `transition` |
| `StartActivity`, `Timer`, `TakeSignal`, `OperatorReconciles` | `GranularExecutionWorkflow::run`, the reconcile route |
| `Overrun`, `Crash`, `Restart`, `Lapse` | Temporal's timeout, the process, Hubu's clock |

`Service` maps an execution to `GongbuService`: the statuses before the stored claim
are "pending", those after it "executing", and the token is claimed once Hubu has
committed the claim, whether Gongbu knows it or not. `OperationRegistry` instantiates
the same module with its own backends, so what the registry is checked against is
what an execution is shown to do.

Branches no state reaches are left out: claims of migrated rows
(`accept_existing_claim`), a checkpoint that does not parse, a persist phase with
nothing staged.

### OperationRegistry and the code

Tool calls have no identity in the model: any number of them runs, is redelivered
and is arbitrarily slow. So an answer of Hubu is any answer it could have given
so far (`AnswersSoFar`), a status of Gongbu any status it may have had
(`StatusesSoFar`), and a call goes on with any result the row has had (`calls`).
Workers have identities, because leases do.

| Action | Code |
| --- | --- |
| `resolve_or_allocate`, `mark_dispatch_started`, `record_authorization_result` | the same methods, called by `call_tool_with_operation_identity` |
| `ReportAuthorization`, `resolve_gongbu_continuation`, `wait_for_terminal` | the exits of the composite tool and `record_governed_result` |
| `remove_expired_authorization_identifiers` | the same, at the start of calls and bindings |
| `synchronize_approval_status`, `prepare_resume`, `complete_resume` | approval status and `hubu_resume_operation` |
| `promote_accepted_operations`, `claim_due_operation`, `create_durable_execution`, `observe_durable_execution`, `RecordReply`, `FailLate` | `advance_durable_operation_once` |
| `void_rejected_authorization`, `VoidLost`, `finish_authorization_void` | the void obligation of a refused admission |
| `record_gongbu_lifecycle` | observations by callers, beside the worker |
| `CreateTimesOut`, `StrayCreateArrives`, `Crash`, `LeaseExpires`, `DeadlinePasses` | faults and time |

### StackLifecycle and the code

The lock is taken with `LOCK_NB`, so one command runs and the others refuse; the
kernel releases it when the launcher is killed. A process identity is a process id
with its start time and command line (`process_identity`): a wrapper that executes
the server changes it (`Exec`), a reused id has another one (`Reuse`). Everything a
command checks is one probe (`doctor::inspect_profile`) or one `ps`; the world may
change between any two of them.

`process_identity` has no answer for a process that is gone, and none either when `ps`
cannot run, fails or prints more than 32 KiB; `recorded_process_state` takes both for
an exit. The actions that ask therefore have a parameter `blind`, the processes of
which `ps` says nothing at that moment: none in a `Step`, any set of them in a
`Fault`. A start that is misled refuses. A stop that is misled removes the record of
a live server, before the signal (`stop_components`) or while it waits after it
(`stop_owned_process`, which goes on as soon as the recorded identity is not seen to
run); `Removed` then sets `orphaned`. The TERM signal changes nothing in the model:
the server exits, hangs, goes on, or, if it was a wrapper, executes the server under
another identity, which also ends the wait. A second `ps` that differs from the first,
or a failing one at a spawn or a readiness check, makes the command fail (`Error`).

| Action | Code |
| --- | --- |
| `render_profile`, `render_generation`, `activate_manifest` | `render_profile_with_renderer_outcome`, `activate_manifest` |
| `EnsureStopped` | `activate_selected_generation_with_renderer`, `ensure_profile_stopped` |
| `CheckStartable`, `start_profile` | `prepare_startable_profile`, `start_profile` |
| `spawn_component`, `write_runtime_state`, `wait_for_component`, `WaitTimesOut`, `FinalReport` | `start_missing_components` |
| `rollback_started_processes` | the same |
| `stop_components`, `stop_owned_process` | the same |
| `Error`, `Killed` | every `?` of a command; the end of the launcher itself |
| `Listen`, `Exec`, `Hang`, `Exit`, `Reuse`, `EditSource`, `ExternalChanges` | servers, kernel, operator |

Definitions marked "Variant:" stand before the definition they vary. No
specification uses them; each is a plausible mistake (a dropped check, a missing
write) that makes a named property fail, listed under `mutants`.

### Abstractions

- One agent of one owner and one currency; the policy in force may have any
  effect on a request.
- A request's immutable scope is an element of `Scopes`; only its amount matters.
- Two budgets of the agent exclude each other in time exactly as
  `has_overlapping_budget` demands.
- `Amounts` is an interval `0..MaxAmount`. The code checks its additions; the
  model's balances are unbounded integers.
- In `GongbuExecution` the authorization at Hubu is one value (available, claimed,
  lapsed, settled, released, void); a human who closes a lapsed claim at Hubu is
  `SpendGovernance`'s subject. One activity overruns at a time.
- In `OperationRegistry` there is one operation, delays between attempts are left
  to the scheduler, and result codes are merged into the classes of `Codes`.
- In `StackLifecycle` a source version stands for the three files and the binaries
  they name; validation, rendering, the credential handoff and Temporal either
  work or are an `Error`. The instant between `ps` and `kill`, in which a process id could
  be reused, is not modelled, nor a second child of a server's process group.
- In `WalletPayment` authorization is one step, and every operation costs the same.

## 4. Runs

| Run | Question | Result |
| --- | --- | --- |
| `one_server` | One process, two keys, a limit that changes, three instants, crashes and rollbacks everywhere: do the books balance, is the limit hard, do claim, hold and token end together, is the cache coherent, does the file implement `HoldLedger`? | holds, 642,648 states |
| `revisions` | One key retried with a changed scope while one budget period ends and the next begins: one grant, whole, fitting? Does an overdue hold end? | holds, 98,450 states |
| `two_servers` | Two processes with stale caches race for one budget, and resolve one request both ways | HardLimit, ReservationFits and OutcomeFinal hold, 630,845 states |
| `two_servers_hold_lifecycle` | Is the end of a hold final with two processes? | violated, see section 7 |
| `hold_ledger` | Does the abstract ledger stay within its limits? | holds, 46,824 states |
| `wallet_faults` | Two operations of one budget, crashes and failing commits during payments, an executor that competes | file loadable, within the limit, settled means paid, uninterrupted operations are paid once, results final; 1,963,767 states |
| `gongbu_execution` | One execution, two artifacts, crashes, lost answers, overrun activities, one recovery timer, one operator signal at a time | one submission, release, settlement and ends right, evidence final, implements `GongbuService`, ends or waits; 561,547 states |
| `gongbu_evidence` | Does an execution in reconciliation have its record? | violated, see section 7 |
| `operation_registry` | Two routers, any number of calls, two dispatches and two observations, against `GongbuService` | all eight properties hold; 611,763 states |
| `stack_lifecycle` | Any sequence of launcher commands, kills, failures, hung and lost servers, blind `ps` calls and edited sources | files loadable, owned servers run the active generation, nothing left behind, advice recovers; 405,780 states |
| `wallet_expiry`, `wallet_lost_consumption` | What documentation says of the limit and of a settled hold | violated, see section 7 |

**Bounds.** Two keys are the smallest number that compete for a budget; two
scopes and two revisions give a changed retry; amounts 1 to 3 give a reservation
that fits, one that does not, and a limit that can be raised and lowered; in
`one_server`, where a reservation is 2, receipts of 0, 1, 2 and 3 are nothing, below,
at and above the authorized maximum; three instants put an event
before, at and after an expiry; two processes give a stale cache
and two resolutions that have both read the request as pending (the second process
has loaded it at a restart); two budgets
with adjacent periods give a rollover. In `wallet_faults` two operations fit the
limit exactly, so one settles while the other's commit has failed. The interesting cases are combined in
pairs, one pair per run, to stay within memory. A Gongbu execution is one row, so
one execution is enough; two artifacts and a limit of three give a partial and a
duplicated store, one overrun activity gives two writers. In the registry two
workers give a lost lease, two dispatches a retry after a request that may have
arrived, two observations a retry of those; a first `reconciliation_required`
seen by the worker exhausts its limit, while callers may record it any number of
times. With all three limits at two the properties hold as well (923,131
states, four minutes). The launcher's run has two source versions, one that manages
both servers and one that moves Gongbu to another port and leaves Hubu external,
and two processes, as many as a start spawns; with three processes the
invariants hold as well (8,113,016 states). Two server processes with one key and a
changing limit, expiry and reconciliation were checked apart from the runs:
HardLimit and OutcomeFinal hold (755,286 states). `MaxTime`, `MaxVersions`,
`MaxRevision`, `MaxCharges`, `MaxAmount`, `MaxArtifacts`, `MaxAutomatic`,
`MaxPending` and the three retry limits are the only bounds, all in guards or
types. Symmetry (keys, processes) is used for safety only.

**Deadlock** is checked except in the two-process runs. There the finding of
section 7 leaves a file that no process can load, so the system really may stop.

**Fairness.** `FairSpec` assumes that a process that is down is started again,
that a request in progress takes its next step (a handler is straight-line code
and `EndRequest` is always possible), and that some request that sweeps arrives
again and again (any listing does). The clock is free, and crashes are unlimited.
Without the last assumption nothing holds: hubu has no background sweep, which
is what the property is about.

For Gongbu, Temporal starts the activity it waits for again and again, its timers
fire, and an activity that runs takes its next step; from some point on the
process stays up and no activity overruns. Operators are not assumed to act.

For the registry, the worker's loop (`run`) keeps promoting, claiming and finishing
what it began, leases end and the deadline comes. A lease lasts ten seconds and
the updates are local transactions, so not every lease is lost before them, and
Hubu answers a void request sometimes: these two are strong fairness, because a
lease may be lost any number of times. Gongbu and its requests are under no
fairness; the deadline ends what they leave open.

For the launcher, the operator repeats what its messages advise (`stop
--forget-stale`, `activate`, `start`), which is strong fairness because each refuses
while another command holds the lock; commands go on and servers come to listen;
from some point on nothing fails (`Work`) and external components answer. No
state is excluded from the start: everything before that point may have failed.

## 5. Properties

- `BooksBalance`: balances equal what holds and receipts say, after every commit,
  so a restart always succeeds (one process).
- `HardLimit`: consumed plus reserved exceeds the limit by no more than overruns a
  human confirmed.
- `OneGrantPerKey`, `GrantIsWhole`: a key is granted at most once, and wholly.
- `ClaimOwnsHold`: claim, hold and token end together.
- `CacheCoherent`: with one process the cache equals the file between steps, but
  for the provisional token.
- `OutcomeFinal`: the outcome of a request never changes; with two processes that
  have both read it as pending, the check under the lock (`require_pending`) decides.
- `HoldLifecycle`, `ReservationFits`: what else a step may never do.
- `OverdueHoldsEnd`: an overdue hold is eventually given back.
- `ImplementsLedger`: the file implements `HoldLedger`.
- `WithinLimit`: the abstract ledger's own promise.
- `SubmittedOnce`: the paid request reaches the provider at most once, under a claim.
- `ReleasedIsUnbilled`, `SettledIsDelivered`: what happens to the money is what
  happened to the work.
- `EndsAgree`: Gongbu's and Hubu's ends are the same. A preflight that overruns its
  timeout may fail an execution while the retried one claims; the claim is then
  left to its lease, and the property excuses it (`overran`).
- `ImplementsService`: every step of an execution is a step of the service its clients
  see, or none.
- `EvidenceFinal`, `EndsOrWaits`, `EvidenceRecorded`: evidence is not replaced; an
  execution ends or waits for an operator; evidence exists.
- `OutcomeIsGongbus`, `TerminalFinal`: the registry tells the truth about an
  execution and never takes an end back.
- `NeverStarted`, `ReplayOnly`: nothing starts without Hubu's and, where needed,
  a human's consent, whatever is redelivered.
- `NoPoisonRow`: no row makes `claim_due_operation` fail, which would stop the worker for
  every operation behind it; an approved operation can be resumed.
- `RefusedIsVoided`, `AcceptedEnds`: refused budget is given back; accepted
  operations end.
- `OwnedRunsActive`, `NothingLeftBehind`: the launcher never changes the configuration
  under a server it owns, and a server it started is recorded or rolled back until
  one of the five events of section 7 takes its record (`orphaned`).
- `AdviceRecovers`: the commands the launcher advises bring the stack up from
  whatever kills and failures left behind, unless a server was orphaned.
- `PaymentBooksBalance`: after any failed commit the file's balances fit its holds,
  so a restart succeeds; commitments stay within the limit; what executors settled
  stays consumed.
- `SettledIsPaid`, `PaidOnce`, `RecordedResultFinal`: a settled hold was paid for, an
  operation is charged once unless its own request was interrupted between charge and
  saved token, and a saved result is final.
- `SettledIsConsumed`, `PaidWithinLimit`: what the documentation
  says beyond that, which fails (section 7).

## 6. Proofs

All proofs are checked by TLAPS, for every value of the constants that satisfies
the named assumptions. `AmountAssumption`, `StoreAssumption`, `LedgerAssumption`,
`SpendAssumption` and `PaymentAssumption`: finite sets of keys or decisions, amounts within
`MaxAmount`, `NoBudget` not a budget, the token "none" not a scope, positive
time-to-live values. `GongbuAssumption`: at least one artifact, one slot for the
current activity and perhaps one for an activity that overran.
`RegistryAssumption`: positive retry limits, `None` not a worker.
`StackAssumption`: finitely many processes, a port for every component of every
source, `None` neither a process, a source nor a record. TLC evaluates each of
them in the runs.

- `TotalsProofs`: a sum is a natural number, is additive over disjoint sets, and
  depends only on the amounts inside its set. Sums are cardinalities, so these
  follow from the theorems on finite sets without induction over data.
- `BudgetStoreProofs`: every transition keeps a store a store (`...Type`), what it
  does field by field (`...Fields`), and what it does to the books (`...Sound`).
  `Sound(st)` says of one store that balances are the sums of their holds and that a
  claim, its hold and its token are in the same stage. A transition that changes
  one decision is arithmetic on that decision's share of the sums
  (`OneDecisionBooks`); the sweep moves several at once (`ExpireBooks`).
- `HoldLedgerProofs`: `LedgerTypeCorrect` and `LedgerWithinLimit`
  (`Spec => []WithinLimit`). Every action but a lapse changes one hold, so the
  commitments of a budget are split into the share of that hold and the share of
  the others (`SplitShare`); the others do not move (`OthersUnchanged`), and each
  action is arithmetic on one share. A lapse only removes members from the sum.

### SpendGovernance, any number of processes

`SpendGovernanceProofs` assumes nothing of the caches: they may be arbitrarily
stale. `TypeCorrect`, `OneGrant` (`OneGrantPerKey`) and `OutcomesFinal`
(`OutcomeFinal`) follow from `GrantInv`. `OneGrantPerKey` alone is not inductive:
  - an automatic approval does not re-read the outcome of its attempt, so
    `DecidedAlone` must say that an attempt being decided is still pending,
    belongs to one process, and is not one a human may resolve;
  - the latter needs that its stored effect is not `needs_approval`, hence
    `UnattemptedIsBlank` for the moment of admission;
  - a repeated claim writes a cached hold into the file, so `CachedGrantsAllowed`
    must say that cached holds and claims, too, belong to allowed attempts;
  - `Scoped` and `ResolvesAttempted` give every reservation an amount;
  - `DeniedBefore` and `GrantsAllowed` are the goal.

The step proof treats first what leaves attempts alone and adds no grant (the
`...Quiet` lemmas, by `QuietStep`), then admission, evaluation and resolution.
`GrantsAreWhole` (`GrantIsWhole`) and `ReservationsFit` (`ReservationFits`) use
`WholeInv`, which adds `CachedClaimsHeld` (a cached claim has its cached hold: a
repeated claim writes that hold into the file) and `DecidedEffect` (the effect a
process decides on is the one the file has).

### SpendGovernance, one process

The second half of `SpendGovernanceProofs` has the hypothesis `OneServer` (two
processes are the same), because with several processes `HoldLifecycle`, and
with it the books, fail: section 7, 1.
`FileInv` is `GrantInv`, the coherence of the cache and `Sound(disk)`. Coherence
makes every decision taken on the cache one taken on the file, so each request is
one of a few transactions on the file alone (`Transaction`). From them follow
`CacheIsCoherent`, `ClaimsOwnHolds`, `BooksAlwaysBalance` and `HoldsLiveOnce`,
and `FileImplementsLedger` (`ImplementsLedger`): every transaction is a step of
`HoldLedger` or leaves the ledger alone. `HardLimitHolds` (`HardLimit`) is then
not proved again: it is the ledger's `WithinLimit` carried over by the
refinement and `BooksBalance`.

### WalletPayment

There is one process, but no coherence: a failed commit leaves the cache ahead of
the file, and a later operation overwrites one with the other. So `PaymentInv` says what
the two stores share and what each keeps for itself:
  - `PaymentsKept`: the process remembers every saved result, a request in progress
    has what its step needs, and a success is in the ledger and on the rail;
  - `StoresAgree`: cache and file agree on claims, on which holds exist and on their
    budgets, never necessarily on their status; in each of them a settled hold without
    a settled claim has a saved success (`Grounded`);
  - `ChargesKept`: an operation that was charged and not interrupted is in the hands
    of its request, or its token is used, first in memory and then in the file;
  - `BooksKept`: the file's balance derives from the file's holds (the check of
    `update_budget_hold`, kept for the other budgets because a write never moves a hold
    to another budget), while in both stores nothing is overdrawn and executor
    settlements are covered: a step reserves no more than what remains in the store it
    changes, and takes nothing back from what that store has as consumed.

It gives `PaymentTypeCorrect`, `PaymentBooksAlwaysBalance` (`PaymentBooksBalance`),
`SettledHoldsArePaid` (`SettledIsPaid`), `ChargedAtMostOnce` (`PaidOnce`) and
`ResultsAreFinal` (`RecordedResultFinal`). The attempt to prove that consumed equals
the settled holds failed, and showed the behaviour of section 7, 3: an instance whose
limit has room for one operation only does not have it.

### GongbuExecution

`ExecutionInv` has what the rows say of each other (`RowsInv`: no evidence without the
step that made it, no money moved without evidence), what an activity may rely on
at each of its steps (`SlotInv`), that at most one activity is about to submit
(`OneSubmits`), and what is due only when nothing overran (`WorkflowInv`). An
activity that overran goes on beside its successor with the rows it has read, so
the proof is by rely and guarantee: `RowsGrow` is what no step takes back,
`Guarantee(s)` what an activity's step leaves to the others, and each activity's
`SlotInv` survives it. The compare-and-swap on the execution's version, kept
as `fresh`, is what separates the current activity from a late one. From it:
`TypeCorrect`, `ProviderPaidOnce` (`SubmittedOnce`), `NoReleaseOfBilledWork`
(`ReleasedIsUnbilled`), `SettlementHasGoods` (`SettledIsDelivered`),
`GongbuAndHubuAgree` (`EndsAgree`), `EvidenceIsFinal` (`EvidenceFinal`) and
`GongbuImplementsService` (`ImplementsService`).

### OperationRegistry

`RegistryInv` has four parts besides the types. `Lifecycle(row)` is about the row
alone: a row nobody accepted has no trace of an execution, one in hand has its
continuation and its request or execution, an ended one has nothing that could
start it again. `Decided` says that the row says no more than Hubu and the human
decided, `Delivered` that it says no more than Gongbu's execution did, and
`Remembered` that what a call or a worker read is still true when it goes on,
however late and with or without its lease. It holds because nothing is taken back
(`Continues`, `BackendsContinue`). It gives `TypeCorrect`, `RegistryTellsTheTruth`
(`OutcomeIsGongbus`), `NothingUnapprovedStarts` (`NeverStarted`), `NoRowIsStuck`
(`NoPoisonRow`), `RefusedBudgetReturns` (`RefusedIsVoided`), `EndsAreFinal`
(`TerminalFinal`) and `ApprovalIsReplayOnly` (`ReplayOnly`), for any number of
workers and any limits. The proof also shows that the branch of `prepare_resume`
for an approved operation without its intent is never taken in this path.

### StackLifecycle

`StackInv` has the types, which generations exist (`Generations`), what the
command in progress remembers (`Memory`: at each step, how its copy of the record
differs from the file, and that a process belongs to one component),
`OwnedRunsActive`, and that for every live server some record, or the start in
progress, answers unless one was orphaned (`AllAnswerable`). The proof holds for
whatever set of processes `ps` is blind to at each call: a lemma (`RemovedStep`) shows
that a record is removed only from a process that is dead or counts as orphaned. It gives `TypeCorrect`, `OwnedServersRunActive` and
`NoServerLeftBehind` (`NothingLeftBehind`).

Every inductive invariant was first checked by TLC on the instance of the
component's run.

**Only model-checked:** liveness (`OverdueHoldsEnd`, `EndsOrWaits`,
`AcceptedEnds`, `AdviceRecovers`), which is outside what the prover does. Every
safety property of a passing run is a theorem: of one process where the run has one,
of any number otherwise, except `HardLimit` in `two_servers`, which is proved for one
process and checked for two. The runs of section 7 that end in a counterexample have
nothing to prove.

## 7. Where code and documentation differ

1. **A repeated claim reopens a hold** (`two_servers_hold_lifecycle`). With two
   processes on one file: `s1` claims, `s2` settles, the executor repeats the claim
   at `s1`. The stored claim is kept, but the hold is overwritten with the cached
   one (`persistence.rs:554-573`), so a settled hold is claimed again. The frozen
   balance then differs from the active holds: approvals, voids and limit changes of
   that budget are refused, and no process can load the file any more. With one process `HoldLifecycle`
   holds (`one_server`).
2. **A charge beyond the limit** (`wallet_expiry`). `settle_budget` refuses a hold that
   expired after the charge; the sweep gives its amount back and it is spent
   again, although "an agent budget is a hard spending limit"
   (`docs/spend-lifecycle.md`).
3. **A settled hold that was not consumed** (`wallet_lost_consumption`). A settled hold
   means that "the amount moved into consumed usage" (`budget/model.rs:399`). When the
   commit of a settlement fails, the cache has the hold settled and the file has it
   frozen until the sweep expires it there. An executor settlement of another
   operation then replaces the cached balance by the file's (`budget/state.rs:298`), and
   the payment, submitted again, writes its cached hold with that balance
   (`spend_approval.rs:1124`). `update_budget_hold` checks frozen and remaining only, so
   the file now has a paid, settled hold whose amount is still available. With three
   operations the reverse happens, too: a restart after such a write settles a hold a
   second time and more is consumed than was paid (found by TLC with three keys of
   price 1 and limit 3, in 27 steps; too large for a run of its own).
4. **Reconciliation without evidence** (`gongbu_evidence`). `transition` commits
   `reconciliation_required` and the reconciliation record separately
   (`workflow.rs:1239-1272`). After a crash between them every recovery activity
   fails with NotFound and is retried for ever, and no operator action can close the
   execution. The repair that the test `replay_repairs_missing_reconciliation_evidence`
   covers is in `run_with_clock`, which the granular workflow never runs.

Observed in `OperationRegistry`, without a run of their own:

- A call that read `needs_approval` and goes on only after the operation was
  approved, resumed and finished records the result "approval_required" with the
  operation's terminal state, and it is replayed from then on, although
  `outcome_guidance` (`governed_execution.rs:1068`) tells the reader that no provider work started.
- After a denial was synchronized, a redelivered call stores the request's intent
  again, which the comment in `resolve_or_allocate` excludes for ended rows; nothing
  uses it.
- A worker that is lost during its first dispatch leaves `dispatch_attempts` at 0. If the
  retry is then refused as invalid, the operation fails as rejected while the
  first request's execution may go on. Hubu refuses the void of a claimed
  authorization, so no money is lost, but the registry does not show the execution.

In `GongbuExecution`, an attempt that succeeded but has no receipt stays in
reconciliation: recovery can neither settle nor release it.

In `StackLifecycle`, a launcher that is killed between a spawn and the write of its
record leaves a server that no command stops. `start` and `activate` see that the
endpoint is served and refuse, and say so; the operator must end the process by
hand. A rollback drops a child from the record even if the signal to it failed
(`lifecycle.rs:1292-1302`), with the same result, and so does an operator who has a
live process forgotten. `stop` itself can do it without an error: when `ps` fails, the
record of a live server is dropped and no signal is sent (`lifecycle.rs:1093-1096`,
`1759-1778`), or the wait after the signal ends (`1328`, `1338`); the latter also when a
signalled wrapper executes the server. It then reports the server as stopped. All
five set `orphaned`, which `NothingLeftBehind` and `AdviceRecovers` excuse; nothing
else does.

In `WalletPayment`, a ledger commit that fails after the charge leaves a charge without
a ledger transaction and without a saved attempt, and the hold is released, so the
operation may be charged again. The comment at `payment.rs:240-242` ("so a payment can
never succeed at the rail and then fail to be recorded") is about a conversion that is
indeed checked first, not about this commit. `PaidOnce` excuses only requests that
failed there or on the way to the saved token (`interrupted`).

The direct payment rail of the repository is a mock, so 2, 3 and the failing ledger
commit have no effect on real money today.

## 8. Not modelled

Rule matching of policies; amount parsing and rounding (exact provider costs are
rounded up to accounting units, a pure function of one number); registration and
ownership; recurring
budget series and batch creation (several single budgets in one transaction);
schema migrations; HTTP, MCP and command-line transports; lifecycle evidence,
which no decision reads; provider adapters and packs; Gongbu's admission checks;
the primitive tools of the unified MCP server, its preallocated keys and its
artifact delivery; the other commands of the command line. These are I/O, pure
functions or front ends of what is modelled. The entries of a ledger transaction are not modelled,
only that it is committed once.
