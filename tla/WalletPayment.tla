--------------------------- MODULE WalletPayment ---------------------------
(***************************************************************************)
(* The direct payment path of hubu: one server process that authorizes an  *)
(* operation, moves money on a payment rail, posts the ledger, and settles *)
(* the budget hold.  The governance file, the ledger and the payment       *)
(* attempts commit separately, and the rail is outside all of them, so a   *)
(* crash, a failing commit or the clock may come between any two of them.  *)
(*                                                                         *)
(* Authorization is one step here; SpendGovernance has its details.  An    *)
(* executor may claim the same authorization instead of the wallet.        *)
(***************************************************************************)
EXTENDS BudgetStore

CONSTANTS
  Price,        \* what every operation costs (the rail charges exactly that)
  BudgetLimit,  \* limit of every budget
  AuthTTL,      \* authorization_ttl
  ClaimTTL,     \* claim_ttl of the lease profile
  Faults,       \* may the process crash and may a commit fail?
  MaxCharges,   \* bound: rail executions of one decision
  MaxTime       \* bound: the clock

ASSUME PaymentAssumption ==
  /\ Price \in 1..MaxAmount
  /\ BudgetLimit \in 1..MaxAmount
  /\ AuthTTL \in Nat \ {0}
  /\ ClaimTTL \in Nat \ {0}
  /\ Faults \in BOOLEAN
  /\ MaxCharges \in Nat
  /\ MaxTime \in Nat

VARIABLES
  disk,        \* governance tables
  mem,         \* the process's managers
  saved,       \* payment_attempts table: result of each decision's payment
  remembered,  \* payments_by_idempotency_key of the process
  rail,        \* charges the rail executed for each decision
  ledger,      \* ledger transactions of each decision
  req,         \* the payment being submitted
  now,         \* the wall clock
  interrupted  \* decisions whose request once failed after the charge and
               \* before the used token was saved; read by properties only

vars == <<disk, mem, saved, remembered, rail, ledger, req, now, interrupted>>

----------------------------------------------------------------------------

PaymentStatuses == {"none", "succeeded", "failed"}

Idle == [pc |-> "idle"]
Down == [pc |-> "down"]

\* `held' is the status of the hold in the authorization the handler was
\* given; `result' is the payment response once there is one.
Requests ==
  {Idle, Down}
    \cup [pc : {"submit", "post", "refuse", "save", "token", "close"}, d : Decisions,
          held : HoldStatuses, result : PaymentStatuses]

TypeOK ==
  /\ disk \in Store
  /\ mem \in Store
  /\ saved \in [Decisions -> PaymentStatuses]
  /\ remembered \in [Decisions -> PaymentStatuses]
  /\ rail \in [Decisions -> 0..MaxCharges]
  /\ ledger \in [Decisions -> 0..MaxCharges]
  /\ req \in Requests
  /\ now \in Nat
  /\ interrupted \subseteq Decisions

\* Every budget of the agent has been created.
FundedStore ==
  [EmptyStore EXCEPT
    !.budget = [b \in Budgets |-> [state |-> "active", versions |-> <<BudgetLimit>>]],
    !.balance = [b \in Budgets |-> [consumed |-> 0, frozen |-> 0, remaining |-> BudgetLimit]]]

NoPayments == [d \in Decisions |-> "none"]

Init ==
  /\ disk = FundedStore
  /\ mem = FundedStore
  /\ saved = NoPayments
  /\ remembered = NoPayments
  /\ rail = [d \in Decisions |-> 0]
  /\ ledger = [d \in Decisions |-> 0]
  /\ req = Idle
  /\ now = 0
  /\ interrupted = {}

----------------------------------------------------------------------------
(* Budget transitions of the payment path.  Unlike an executor's, they      *)
(* leave the token alone.                                                   *)

\* Variant: the hold takes the token's state.
SettleBudgetAsUsed(st, d) ==
  LET b == st.hold[d].budget
      a == st.hold[d].amount
  IN  [st EXCEPT !.hold[d].status = "used", !.balance[b] = Post(@, a, -a)]

SettleBudget(st, d) ==
  LET b == st.hold[d].budget
      a == st.hold[d].amount
  IN  [st EXCEPT !.hold[d].status = "settled", !.balance[b] = Post(@, a, -a)]

ReleaseBudget(st, d) ==
  LET b == st.hold[d].budget
      a == st.hold[d].amount
  IN  [st EXCEPT !.hold[d].status = "released", !.balance[b] = Post(@, 0, -a)]

\* Variant: the cache is trusted.
OverwriteBudgetHold(st, cache, d) ==
  [st EXCEPT !.hold[d] = cache.hold[d], !.balance[cache.hold[d].budget] =
               cache.balance[cache.hold[d].budget]]

\* update_budget_hold: the hold and the balance of the cache, committed only
\* if the frozen balance still equals the active holds of the file.
UpdateBudgetHold(st, cache, d) ==
  LET b == cache.hold[d].budget
      written == [st EXCEPT !.hold[d] = cache.hold[d], !.balance[b] = cache.balance[b]]
  IN  IF FrozenDerives(written, b) /\ RemainingDerives(written, b) THEN written ELSE st

\* A change of the cache that the file follows, unless the commit fails.
PublishHold(cache, d) ==
  /\ mem' = cache
  /\ \/ disk' = UpdateBudgetHold(disk, cache, d)
     \/ Faults /\ disk' = disk

----------------------------------------------------------------------------
(* Authorization, and the executor that competes for it *)

Sweep(st) == ExpireOverdueBudgetHolds(st, now)

AuthorizeSpend(d) ==
  /\ req = Idle
  /\ LET Granted(st, b) ==
           IssueToken(ReserveBudget(RecordDecision(st, d, "allow"), d, b, Price, now + AuthTTL),
                      d, now + AuthTTL)
     IN  \E b \in Budgets :
           /\ Sweep(disk).hold[d].status = "none"
           /\ Sweep(mem).hold[d].status = "none"
           /\ Sweep(disk).balance[b] = Sweep(mem).balance[b]
           /\ FrozenDerives(Sweep(disk), b)
           /\ AllowsReservation(Sweep(mem), b, now)
           /\ Sweep(mem).balance[b].remaining >= Price
           /\ disk' = Granted(Sweep(disk), b)
           /\ mem' = Granted(Sweep(mem), b)
  /\ UNCHANGED <<saved, remembered, rail, ledger, req, now, interrupted>>

ClaimExecutorSpend(d) ==
  /\ req = Idle
  /\ LET Claimable(st) == /\ st.claim[d].status = "none"
                          /\ st.token[d].state = "live"
                          /\ st.token[d].expires > now
                          /\ st.hold[d].status = "frozen"
     IN  /\ Claimable(Sweep(disk))
         /\ Claimable(Sweep(mem))
         /\ disk' = ClaimHold(Sweep(disk), d, now + ClaimTTL)
         /\ mem' = ClaimHold(Sweep(mem), d, now + ClaimTTL)
  /\ UNCHANGED <<saved, remembered, rail, ledger, req, now, interrupted>>

\* The executor settles what it was authorized for.
SettleExecutorClaim(d) ==
  /\ req = Idle
  /\ disk.claim[d].status = "claimed"
  /\ disk.token[d].state = "live"
  /\ disk.hold[d].status = "claimed"
  /\ disk.claim[d].expires > now
  /\ disk' = SettleClaim(disk, d, disk.hold[d].amount, FALSE)
  /\ mem' = ApplyPersistedFinalization(mem, disk', d)
  /\ UNCHANGED <<saved, remembered, rail, ledger, req, now, interrupted>>

----------------------------------------------------------------------------
(* POST /spend: the authorization is new or replayed, then paid *)

\* An authorization that an executor has claimed is refused.
Spend(d) ==
  /\ req = Idle
  /\ mem.hold[d].status # "none"
  /\ disk' = Sweep(disk)
  /\ mem' = Sweep(mem)
  /\ req' = IF mem.claim[d].status # "none" THEN Idle
            ELSE [pc |-> "submit", d |-> d, held |-> Sweep(mem).hold[d].status, result |-> "none"]
  /\ UNCHANGED <<saved, remembered, rail, ledger, now, interrupted>>

Continue(pc, result) == req' = [req EXCEPT !.pc = pc, !.result = result]

\* The request stops here, charged or not.
Interrupt ==
  interrupted' = interrupted \cup {d \in Decisions : /\ req.pc \in {"post", "save", "token"}
                                                    /\ req.d = d}

\* The payment manager has this idempotency key: its response is returned.
ReplayPayment ==
  /\ req.pc = "submit"
  /\ remembered[req.d] # "none"
  /\ Continue("save", remembered[req.d])
  /\ UNCHANGED <<disk, mem, saved, remembered, rail, ledger, now, interrupted>>

ValidateToken(d) ==
  /\ mem.token[d].state = "live"
  /\ mem.claim[d].status = "none"
  /\ mem.token[d].expires > now

\* The rail takes the money; nothing is recorded yet.
ExecuteRail ==
  /\ req.pc = "submit"
  /\ remembered[req.d] = "none"
  /\ ValidateToken(req.d)
  /\ rail[req.d] < MaxCharges
  /\ rail' = [rail EXCEPT ![req.d] = @ + 1]
  /\ Continue("post", "none")
  /\ UNCHANGED <<disk, mem, saved, remembered, ledger, now, interrupted>>

\* The rail declines; the failure is remembered.
DeclinePayment ==
  /\ req.pc = "submit"
  /\ remembered[req.d] = "none"
  /\ ValidateToken(req.d)
  /\ remembered' = [remembered EXCEPT ![req.d] = "failed"]
  /\ Continue("save", "failed")
  /\ UNCHANGED <<disk, mem, saved, rail, ledger, now, interrupted>>

\* The token is not valid for a payment any more, or the ledger commit after
\* a successful charge fails: the payment manager returns an error.
RejectPayment ==
  /\ \/ req.pc = "submit" /\ remembered[req.d] = "none" /\ ~ValidateToken(req.d)
     \/ req.pc = "post" /\ Faults
  /\ Continue("refuse", "none")
  /\ Interrupt
  /\ UNCHANGED <<disk, mem, saved, remembered, rail, ledger, now>>

\* The error path of submit_payment gives a frozen hold back.
ReleaseRejected ==
  /\ req.pc = "refuse"
  /\ IF req.held = "frozen" THEN PublishHold(ReleaseBudget(mem, req.d), req.d)
                            ELSE UNCHANGED <<disk, mem>>
  /\ req' = Idle
  /\ UNCHANGED <<saved, remembered, rail, ledger, now, interrupted>>

\* The ledger transaction commits; then, in memory only, the token is used
\* and the payment remembered.
PostLedger ==
  /\ req.pc = "post"
  /\ ledger' = [ledger EXCEPT ![req.d] = @ + 1]
  /\ mem' = [mem EXCEPT !.token[req.d].state = "used"]
  /\ remembered' = [remembered EXCEPT ![req.d] = "succeeded"]
  /\ Continue("save", "succeeded")
  /\ UNCHANGED <<disk, saved, rail, now, interrupted>>

\* INSERT OR IGNORE: a row that exists is kept.
SavePaymentAttempt ==
  /\ req.pc = "save"
  /\ saved' = [saved EXCEPT ![req.d] = IF @ = "none" THEN req.result ELSE @]
  /\ Continue(IF req.result = "succeeded" THEN "token" ELSE "close", req.result)
  /\ UNCHANGED <<disk, mem, remembered, rail, ledger, now, interrupted>>

\* Variant: the used token stays in memory.
KeepUsedToken ==
  /\ req.pc = "token"
  /\ Continue("close", req.result)
  /\ UNCHANGED <<disk, mem, saved, remembered, rail, ledger, now, interrupted>>

\* The file takes the token as this process has it.
SaveUsedToken ==
  /\ req.pc = "token"
  /\ disk' = [disk EXCEPT !.token[req.d].state = mem.token[req.d].state]
  /\ Continue("close", req.result)
  /\ UNCHANGED <<mem, saved, remembered, rail, ledger, now, interrupted>>

Active(st, d) == st.hold[d].status \in {"frozen", "claimed"}

\* Variant: the response is not looked at.
SettleAnyHold ==
  /\ req.pc = "close"
  /\ IF Active(mem, req.d) /\ mem.hold[req.d].expires > now
     THEN PublishHold(SettleBudget(mem, req.d), req.d)
     ELSE UNCHANGED <<disk, mem>>
  /\ req' = Idle
  /\ UNCHANGED <<saved, remembered, rail, ledger, now, interrupted>>

\* Consume the hold of a paid operation.  A hold that has expired by now is
\* an error, and stays as it is; one that was settled before is saved again.
SettlePaidHold ==
  /\ req.pc = "close"
  /\ req.result = "succeeded"
  /\ CASE req.held = "settled" -> PublishHold(mem, req.d)
       [] req.held # "settled" /\ Active(mem, req.d) /\ mem.hold[req.d].expires > now
            -> PublishHold(SettleBudget(mem, req.d), req.d)
       [] OTHER -> UNCHANGED <<disk, mem>>
  /\ req' = Idle
  /\ UNCHANGED <<saved, remembered, rail, ledger, now, interrupted>>

ReleaseFailedHold ==
  /\ req.pc = "close"
  /\ req.result = "failed"
  /\ CASE req.held = "released" -> PublishHold(mem, req.d)
       [] req.held # "released" /\ Active(mem, req.d)
            -> PublishHold(ReleaseBudget(mem, req.d), req.d)
       [] OTHER -> UNCHANGED <<disk, mem>>
  /\ req' = Idle
  /\ UNCHANGED <<saved, remembered, rail, ledger, now, interrupted>>

----------------------------------------------------------------------------
(* Failure, crash, restart, time *)

\* A commit of the payment attempt or the token fails; the handler returns.
AbandonPayment ==
  /\ Faults
  /\ req.pc \in {"save", "token"}
  /\ req' = Idle
  /\ Interrupt
  /\ UNCHANGED <<disk, mem, saved, remembered, rail, ledger, now>>

Crash ==
  /\ Faults
  /\ req # Down
  /\ req' = Down
  /\ mem' = EmptyStore
  /\ remembered' = NoPayments
  /\ Interrupt
  /\ UNCHANGED <<disk, saved, rail, ledger, now>>

\* Variant: the payment attempts are not loaded.
StartServerForgetful ==
  /\ req = Down
  /\ HydrationValid(Sweep(disk))
  /\ disk' = Sweep(disk)
  /\ mem' = Sweep(disk)
  /\ req' = Idle
  /\ UNCHANGED <<saved, remembered, rail, ledger, now, interrupted>>

StartServer ==
  /\ req = Down
  /\ HydrationValid(Sweep(disk))
  /\ disk' = Sweep(disk)
  /\ mem' = Sweep(disk)
  /\ remembered' = saved
  /\ req' = Idle
  /\ UNCHANGED <<saved, rail, ledger, now, interrupted>>

Tick ==
  /\ now < MaxTime
  /\ now' = now + 1
  /\ UNCHANGED <<disk, mem, saved, remembered, rail, ledger, req, interrupted>>

----------------------------------------------------------------------------

Submit ==
  \/ ReplayPayment
  \/ ExecuteRail
  \/ DeclinePayment
  \/ RejectPayment
  \/ ReleaseRejected
  \/ PostLedger
  \/ SavePaymentAttempt
  \/ SaveUsedToken
  \/ SettlePaidHold
  \/ ReleaseFailedHold

Next ==
  \/ \E d \in Decisions : \/ AuthorizeSpend(d)
                          \/ ClaimExecutorSpend(d)
                          \/ SettleExecutorClaim(d)
                          \/ Spend(d)
  \/ Submit
  \/ AbandonPayment
  \/ Crash
  \/ StartServer
  \/ Tick

Spec == Init /\ [][Next]_vars

----------------------------------------------------------------------------

\* Decisions of a budget that an executor has settled.
ExecutorSettled(b) ==
  {d \in Decisions : disk.claim[d].status = "settled" /\ disk.hold[d].budget = b}

\* Whatever the cache and the file disagree on after a failed commit, the
\* file's balances fit the file's holds, so a restart succeeds; what is
\* consumed and frozen stays within the limit; and what the executors settled
\* stays consumed.
PaymentBooksBalance ==
  \A b \in Budgets :
    /\ FrozenDerives(disk, b)
    /\ RemainingDerives(disk, b)
    /\ Committed(disk, b) <= Limit(disk, b)
    /\ Total(ClaimCharge(disk), ExecutorSettled(b)) <= disk.balance[b].consumed

\* Budget is consumed for money that moved: a hold that no executor settled
\* is settled only after the rail charged, the ledger was posted and the
\* attempt saved, in every order of failures and retries.
SettledIsPaid ==
  \A d \in Decisions :
    disk.hold[d].status = "settled" /\ disk.claim[d].status # "settled" =>
      /\ saved[d] = "succeeded"
      /\ 1 <= ledger[d] /\ ledger[d] <= rail[d]

\* A recorded result is final, and no recorded failure is ever charged.
RecordedResultFinal ==
  [][\A d \in Decisions : saved[d] # "none" =>
       saved'[d] = saved[d] /\ rail'[d] = rail[d] /\ ledger'[d] = ledger[d]]_vars

\* An operation is charged at most once, recorded in the ledger when its
\* request is over, and never both charged and claimed by an executor,
\* however often it is submitted, whatever other operation fails and whenever
\* the process restarts.  Only a failure of its own request between the charge
\* and the save of the used token excuses it.
PaidOnce ==
  \A d \in Decisions \ interrupted :
    /\ rail[d] <= 1
    /\ disk.claim[d].status # "none" => rail[d] = 0
    /\ req = Idle => ledger[d] = rail[d]

\* What a settled hold consumed: its price, or the executor's receipt.
Consumption(st) ==
  [d \in Decisions |-> IF st.claim[d].status = "settled" THEN st.claim[d].charge
                       ELSE st.hold[d].amount]

\* A settled hold means "payment settled and the amount moved into consumed
\* usage": the file's consumed amount is no less than its settled holds.
SettledIsConsumed ==
  \A b \in Budgets :
    Total(Consumption(disk), SettledHolds(disk, b)) <= disk.balance[b].consumed

\* The budget is a hard limit: what the ledger says was paid for its
\* decisions stays within it.
PaidWithinLimit ==
  \A b \in Budgets :
    Cardinality({u \in Decisions \X (1..MaxCharges) :
                   disk.hold[u[1]].budget = b /\ u[2] <= ledger[u[1]]}) * Price
      <= Limit(disk, b)

=============================================================================
