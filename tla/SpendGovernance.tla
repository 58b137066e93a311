-------------------------- MODULE SpendGovernance --------------------------
(***************************************************************************)
(* The spend authorization lifecycle of hubu: admission of an operation    *)
(* key, policy decision, budget reservation, human approval, executor      *)
(* claim, settlement, release, reconciliation, voiding, expiry, and budget *)
(* administration.                                                         *)
(*                                                                         *)
(* `disk' and `attempts' are the SQLite file, shared by all server         *)
(* processes; `mem[s]' is what process s caches.  A process serves one     *)
(* request at a time.  A handler that commits several transactions takes   *)
(* one step per transaction (`req[s].pc' says where it is), so other       *)
(* processes, a crash, or the clock may come in between; everything it     *)
(* does between two commits touches only its own memory.                   *)
(***************************************************************************)
EXTENDS BudgetStore

CONSTANTS
  Servers,      \* server processes that share the file
  Scopes,       \* immutable request scopes an agent may submit
  AmountOf,     \* [Scopes -> 1..MaxAmount], the amount of a scope
  Limits,       \* budget limits a user may ask for
  Charges,      \* vendor costs a receipt may report
  AuthTTL,      \* authorization_ttl
  ClaimTTL,     \* claim_ttl of the lease profile
  MaxVersions,  \* bound: versions of one budget
  MaxTime       \* bound: the clock

ASSUME SpendAssumption ==
  /\ "none" \notin Scopes
  /\ AmountOf \in [Scopes -> 1..MaxAmount]
  /\ Limits \subseteq 1..MaxAmount
  /\ Charges \subseteq 0..MaxAmount
  /\ AuthTTL \in Nat \ {0}
  /\ ClaimTTL \in Nat \ {0}
  /\ MaxVersions \in Nat
  /\ MaxTime \in Nat

VARIABLES
  attempts,  \* spend_operation_attempts with the latest outcome of each
  disk,      \* the other governance tables
  mem,       \* each process's managers
  req,       \* the request each process is serving
  now        \* the wall clock

vars == <<attempts, disk, mem, req, now>>

----------------------------------------------------------------------------
(* Types *)

Outcomes == {"none", "pending_approval", "allowed", "denied"}
NoScope  == "none"
NoAttempt == [scope |-> NoScope, outcome |-> "none"]

Idle == [pc |-> "idle"]
Down == [pc |-> "down"]

Requests ==
  {Idle, Down}
    \cup [pc : {"admit"}, key : Keys, scope : Scopes, at : Nat]
    \cup [pc : {"evaluate", "decide"}, d : Decisions, at : Nat]
    \cup [pc : {"approve", "decline"}, d : Decisions, at : Nat]
    \cup [pc : {"claim"}, d : Decisions]
    \cup [pc : {"limit"}, budget : Budgets, revision : Nat \ {0},
          limit : Limits, at : Nat]

TypeOK ==
  /\ attempts \in [Decisions -> [scope : Scopes \cup {NoScope}, outcome : Outcomes]]
  /\ disk \in Store
  /\ mem \in [Servers -> Store]
  /\ req \in [Servers -> Requests]
  /\ now \in Nat

Init ==
  /\ attempts = [d \in Decisions |-> NoAttempt]
  /\ disk = EmptyStore
  /\ mem = [s \in Servers |-> EmptyStore]
  /\ req = [s \in Servers |-> Idle]
  /\ now = 0

----------------------------------------------------------------------------
(* State functions *)

Attempted(d) == attempts[d].outcome # "none"
Amount(d)    == AmountOf[attempts[d].scope]

\* Revisions are consecutive from 1: the next one is the largest plus one.
IsNextRevision(k, r) == \A q \in Revisions : Attempted(<<k, q>>) <=> q < r

\* Variant: only authorization records block a changed scope.
AuthorizedPrior(k) ==
  \E r \in Revisions :
    LET d == <<k, r>>
    IN  \/ disk.token[d].state # "none"
        \/ disk.hold[d].status # "none"
        \/ disk.claim[d].status # "none"

\* An attempt that is not denied, or any authorization record, blocks a
\* changed scope under the same key.
UnsafePrior(k) ==
  \E r \in Revisions :
    LET d == <<k, r>>
    IN  \/ Attempted(d) /\ attempts[d].outcome # "denied"
        \/ disk.token[d].state # "none"
        \/ disk.hold[d].status # "none"
        \/ disk.claim[d].status # "none"

\* Variant: the revision is compared and the balance is not.
RevisionFresh(s, b) == disk.budget[b] = mem[s].budget[b]

\* Variant: only the balance is compared with the file.
BalanceFresh(s, b) == disk.balance[b] = mem[s].balance[b]

\* validate_before: the file still shows the snapshot the decision was made on.
SnapshotFresh(s, b) ==
  /\ disk.budget[b] = mem[s].budget[b]
  /\ disk.balance[b] = mem[s].balance[b]

\* Every budget of the agent can be evaluated from the cached records.
Evaluable(st) == \A b \in Budgets : Exists(st, b) => RemainingDerives(st, b)

\* A claim and its token and hold still move together.
ExclusivelyClaimed(d) ==
  /\ disk.claim[d].status = "claimed"
  /\ disk.token[d].state = "live"
  /\ disk.hold[d].status = "claimed"
  /\ disk.balance[disk.hold[d].budget].frozen >= disk.hold[d].amount

----------------------------------------------------------------------------
(* Steps of a request *)

Finish(s) == req' = [req EXCEPT ![s] = Idle]

\* Variant: the sweep does not reach the file.
ReceiveSweepingCache(s, r) ==
  /\ req[s] = Idle
  /\ mem' = [mem EXCEPT ![s] = ExpireOverdueBudgetHolds(@, now)]
  /\ req' = [req EXCEPT ![s] = r]
  /\ UNCHANGED <<attempts, disk, now>>

\* Accept a request whose handler first expires overdue holds, in the file
\* and then in memory.
Receive(s, r) ==
  /\ req[s] = Idle
  /\ disk' = ExpireOverdueBudgetHolds(disk, now)
  /\ mem' = [mem EXCEPT ![s] = ExpireOverdueBudgetHolds(@, now)]
  /\ req' = [req EXCEPT ![s] = r]
  /\ UNCHANGED <<attempts, now>>

\* A read-only request, or one that an early check turns away.
ListBudgets(s) == Receive(s, Idle)

----------------------------------------------------------------------------
(* Automatic authorization *)

AuthorizeSpend(s) ==
  \E k \in Keys, c \in Scopes :
    Receive(s, [pc |-> "admit", key |-> k, scope |-> c, at |-> now])

AdmitSpendAttempt(s) ==
  /\ req[s].pc = "admit"
  /\ LET k == req[s].key
     IN  /\ \A r \in Revisions : attempts[<<k, r>>].scope # req[s].scope
         /\ ~UnsafePrior(k)
         /\ \E r \in Revisions :
              /\ IsNextRevision(k, r)
              /\ attempts' = [attempts EXCEPT ![<<k, r>>] =
                                [scope |-> req[s].scope, outcome |-> "pending_approval"]]
              /\ req' = [req EXCEPT ![s] = [pc |-> "evaluate", d |-> <<k, r>>, at |-> req[s].at]]
  /\ UNCHANGED <<disk, mem, now>>

\* Evaluate the policy in force (any effect), issue a provisional token on
\* allow, and commit the decision.  A request that needs approval stops here.
EvaluateSpend(s) ==
  /\ req[s].pc = "evaluate"
  /\ LET d == req[s].d
     IN  \E e \in Effects :
           /\ disk' = RecordDecision(disk, d, e)
           /\ mem' = [mem EXCEPT ![s] =
                        IF e = "allow"
                        THEN IssueToken(RecordDecision(@, d, e), d, now + AuthTTL)
                        ELSE RecordDecision(@, d, e)]
           /\ req' = [req EXCEPT ![s] = IF e = "needs_approval" THEN Idle
                                        ELSE [req[s] EXCEPT !.pc = "decide"]]
  /\ UNCHANGED <<attempts, now>>

\* save_automatic_denied_transition: the attempt is closed and the
\* provisional token, if any, is dropped.
SaveDenied(s, d) ==
  /\ attempts' = [attempts EXCEPT ![d].outcome = "denied"]
  /\ mem' = [mem EXCEPT ![s] = DiscardToken(@, d)]
  /\ Finish(s)
  /\ UNCHANGED <<disk, now>>

DenyByPolicy(s) ==
  /\ req[s].pc = "decide"
  /\ mem[s].effect[req[s].d] = "deny"
  /\ SaveDenied(s, req[s].d)

\* Budgets in their period but without remaining amount
Exhausted(st, t) == {b \in Budgets : Exists(st, b) /\ Availability(st, b, t) = "exhausted"}

\* No budget of the agent accepts a reservation.  The selection is checked
\* again in the file, and a single exhausted budget, recorded as the
\* evidence of the denial, must be unchanged there.
DenyNoAvailableBudget(s) ==
  /\ req[s].pc = "decide"
  /\ mem[s].effect[req[s].d] = "allow"
  /\ Evaluable(mem[s])
  /\ \A b \in Budgets : /\ ~AllowsReservation(mem[s], b, req[s].at)
                        /\ ~AllowsReservation(disk, b, req[s].at)
  /\ \A b \in Budgets : Exhausted(mem[s], req[s].at) = {b} => SnapshotFresh(s, b)
  /\ SaveDenied(s, req[s].d)

DenyInsufficientBudget(s) ==
  /\ req[s].pc = "decide"
  /\ mem[s].effect[req[s].d] = "allow"
  /\ Evaluable(mem[s])
  /\ \E b \in Budgets : /\ AllowsReservation(mem[s], b, req[s].at)
                        /\ mem[s].balance[b].remaining < Amount(req[s].d)
                        /\ SnapshotFresh(s, b)
  /\ SaveDenied(s, req[s].d)

\* Variant: any remaining amount is enough.
ReservesAnyRemaining(s, d, b) ==
  /\ mem[s].hold[d].status = "none"
  /\ AllowsReservation(mem[s], b, req[s].at)

\* reserve_budget_at on the cached records
Reserves(s, d, b) ==
  /\ mem[s].hold[d].status = "none"
  /\ AllowsReservation(mem[s], b, req[s].at)
  /\ mem[s].balance[b].remaining >= Amount(d)

\* persist_approved_spend_transition: token, hold, balance and outcome in one
\* transaction, on an unchanged budget snapshot whose frozen balance equals
\* its active holds.  The memory already holds the reservation.
SaveApproved(s, d, b, expires) ==
  /\ Reserves(s, d, b)
  /\ disk.hold[d].status = "none"
  /\ SnapshotFresh(s, b)
  /\ FrozenDerives(disk, b)
  /\ LET Granted(st) == IssueToken(ReserveBudget(st, d, b, Amount(d), expires), d, expires)
     IN  /\ disk' = Granted(disk)
         /\ mem' = [mem EXCEPT ![s] = Granted(@)]
  /\ attempts' = [attempts EXCEPT ![d].outcome = "allowed"]
  /\ Finish(s)
  /\ UNCHANGED now

ApproveAutomatically(s) ==
  /\ req[s].pc = "decide"
  /\ mem[s].effect[req[s].d] = "allow"
  /\ Evaluable(mem[s])
  /\ \E b \in Budgets : SaveApproved(s, req[s].d, b, mem[s].token[req[s].d].expires)

----------------------------------------------------------------------------
(* Human approval *)

\* The decision must be known to this process; the recorded outcome is read
\* from the file and must still be pending (a repeated resolution changes
\* nothing, a conflicting one is refused).
ResolveApproval(s) ==
  \E d \in Decisions, pc \in {"approve", "decline"} :
    /\ mem[s].effect[d] = "needs_approval"
    /\ attempts[d].outcome = "pending_approval"
    /\ Receive(s, [pc |-> pc, d |-> d, at |-> now])

\* Variant: the outcome read before the lock is trusted.
EffectNeedsApproval(d) == disk.effect[d] = "needs_approval"

\* require_pending repeats the check under the write lock.
RequirePending(d) ==
  /\ disk.effect[d] = "needs_approval"
  /\ attempts[d].outcome = "pending_approval"

SaveHumanDeclined(s) ==
  /\ req[s].pc = "decline"
  /\ RequirePending(req[s].d)
  /\ attempts' = [attempts EXCEPT ![req[s].d].outcome = "denied"]
  /\ Finish(s)
  /\ UNCHANGED <<disk, mem, now>>

SaveHumanApproved(s) ==
  /\ req[s].pc = "approve"
  /\ RequirePending(req[s].d)
  /\ Evaluable(mem[s])
  /\ \E b \in Budgets : SaveApproved(s, req[s].d, b, now + AuthTTL)

----------------------------------------------------------------------------
(* Executor claims *)

ClaimExecutorSpend(s) ==
  \E d \in Decisions :
    /\ mem[s].token[d].state # "none"
    /\ Receive(s, [pc |-> "claim", d |-> d])

\* A first claim: validated against memory, then token and hold are checked
\* again in the file under the lock that voiding takes.
SaveExecutorClaim(s) ==
  /\ req[s].pc = "claim"
  /\ LET d == req[s].d
         Claimable(st) == /\ st.claim[d].status = "none"
                          /\ st.token[d].state = "live"
                          /\ st.token[d].expires > now
                          /\ st.hold[d].status = "frozen"
     IN  /\ Claimable(mem[s])
         /\ Claimable(disk)
         /\ disk' = ClaimHold(disk, d, now + ClaimTTL)
         /\ mem' = [mem EXCEPT ![s] = ClaimHold(@, d, now + ClaimTTL)]
  /\ Finish(s)
  /\ UNCHANGED <<attempts, now>>

\* A repeated claim: the file keeps its claim row but takes the status and
\* the expiry of the hold from this process's memory.
ReplayExecutorClaim(s) ==
  /\ req[s].pc = "claim"
  /\ LET d == req[s].d
     IN  /\ mem[s].effect[d] # "none"
         /\ mem[s].claim[d].status # "none"
         /\ disk' = [disk EXCEPT !.hold[d].status = mem[s].hold[d].status,
                                 !.hold[d].expires = mem[s].hold[d].expires]
  /\ Finish(s)
  /\ UNCHANGED <<attempts, mem, now>>

\* finalize_executor_claim_transactionally reads and writes the file only;
\* the result is then copied into memory.
SaveFinalization(s, d, st) ==
  /\ req[s] = Idle
  /\ disk' = st
  /\ mem' = [mem EXCEPT ![s] = ApplyPersistedFinalization(@, st, d)]
  /\ UNCHANGED <<attempts, req, now>>

SettleExecutorClaim(s) ==
  \E d \in Decisions, c \in Charges :
    /\ ExclusivelyClaimed(d)
    /\ disk.claim[d].expires > now
    /\ c <= disk.hold[d].amount
    /\ SaveFinalization(s, d, SettleClaim(disk, d, c, FALSE))

ReleaseExecutorClaim(s) ==
  \E d \in Decisions :
    /\ ExclusivelyClaimed(d)
    /\ disk.claim[d].expires > now
    /\ SaveFinalization(s, d, ReleaseClaim(disk, d, FALSE))

\* A human who holds the provider's answer closes a claim whose lease lapsed;
\* a confirmed bill may exceed the authorized maximum.
ReconcileAsBilled(s) ==
  \E d \in Decisions, c \in Charges :
    /\ ExclusivelyClaimed(d)
    /\ disk.claim[d].expires <= now
    /\ SaveFinalization(s, d, SettleClaim(disk, d, c, TRUE))

ReconcileAsNotBilled(s) ==
  \E d \in Decisions :
    /\ ExclusivelyClaimed(d)
    /\ disk.claim[d].expires <= now
    /\ SaveFinalization(s, d, ReleaseClaim(disk, d, TRUE))

\* The same finalization again: the stored result is copied into memory.
ReplayFinalization(s) ==
  \E d \in Decisions :
    /\ disk.claim[d].status \in {"settled", "released"}
    /\ disk.hold[d].status = disk.claim[d].status
    /\ disk.token[d].state = IF disk.claim[d].status = "settled" THEN "used" ELSE "revoked"
    /\ SaveFinalization(s, d, disk)

\* The executor rejected the work before claiming it.
VoidUnclaimedAuthorization(s) ==
  \E d \in Decisions :
    /\ disk.token[d].state = "live"
    /\ disk.claim[d].status = "none"
    /\ disk.hold[d].status = "frozen"
    /\ FrozenDerives(disk, disk.hold[d].budget)
    /\ RemainingDerives(disk, disk.hold[d].budget)
    /\ SaveFinalization(s, d, ReleaseHold(disk, d))

ReplayVoid(s) ==
  \E d \in Decisions :
    /\ disk.token[d].state = "revoked"
    /\ disk.claim[d].status = "none"
    /\ disk.hold[d].status = "released"
    /\ SaveFinalization(s, d, disk)

----------------------------------------------------------------------------
(* Budget administration: commit, then publish the committed state *)

PublishBudgetState(s, st) ==
  /\ HydrationValid(st)
  /\ disk' = st
  /\ mem' = [mem EXCEPT ![s] = ApplyCommittedState(@, st)]
  /\ UNCHANGED <<attempts, now>>

CreateSingleBudget(s) ==
  \E b \in Budgets, l \in Limits :
    /\ req[s] = Idle
    /\ ~Exists(disk, b)
    /\ \A c \in Budgets : disk.budget[c].state = "active" => ~PeriodsOverlap(b, c)
    /\ PublishBudgetState(s, CreateBudget(disk, b, l))
    /\ UNCHANGED req

RevokeSingleBudget(s) ==
  \E b \in Budgets :
    /\ req[s] = Idle
    /\ Exists(mem[s], b)
    /\ disk.budget[b].state = "active"
    /\ PublishBudgetState(s, RevokeBudget(disk, b))
    /\ UNCHANGED req

\* Bound: expecting the last revision MaxVersions allows would only be refused.
UpdateBudgetLimit(s) ==
  \E b \in Budgets, l \in Limits, r \in 1..(MaxVersions - 1) :
    /\ Exists(mem[s], b)
    /\ Receive(s, [pc |-> "limit", budget |-> b, revision |-> r, limit |-> l, at |-> now])

\* Variant: reservations are forgotten.
CoversConsumed(b, limit) == limit >= disk.balance[b].consumed

\* A new limit is not below what is consumed and reserved.
CoversCommitted(b, limit) == limit >= Committed(disk, b)

\* Append the successor of the expected revision.
SaveBudgetVersion(s) ==
  /\ req[s].pc = "limit"
  /\ LET b == req[s].budget
     IN  /\ Exists(disk, b)
         /\ req[s].revision = Len(disk.budget[b].versions)
         /\ req[s].revision < MaxVersions
         /\ Availability(disk, b, req[s].at) \notin {"revoked", "expired"}
         /\ RemainingDerives(disk, b)
         /\ FrozenDerives(disk, b)
         /\ CoversCommitted(b, req[s].limit)
         /\ PublishBudgetState(s, AppendBudgetVersion(disk, b, req[s].limit))
  /\ Finish(s)

\* The expected revision already has this very successor: an exact retry,
\* even when later versions exist.
ReplayBudgetVersion(s) ==
  /\ req[s].pc = "limit"
  /\ LET versions == disk.budget[req[s].budget].versions
     IN  /\ req[s].revision < Len(versions)
         /\ versions[req[s].revision + 1] = req[s].limit
         /\ PublishBudgetState(s, disk)
  /\ Finish(s)

----------------------------------------------------------------------------
(* Failure, crash, restart, time *)

\* Variant: the provisional token is left behind.
EndRequestOnly(s) ==
  /\ req[s] \notin {Idle, Down}
  /\ Finish(s)
  /\ UNCHANGED <<attempts, disk, mem, now>>

\* A request ends without a further commit: an early return (exact replay,
\* blocked key, stale snapshot, refused claim or revision) or a transaction
\* the storage rolled back.  A provisional token and reservation are undone.
EndRequest(s) ==
  /\ req[s] \notin {Idle, Down}
  /\ mem' = [mem EXCEPT ![s] = IF req[s].pc = "decide" THEN DiscardToken(@, req[s].d) ELSE @]
  /\ Finish(s)
  /\ UNCHANGED <<attempts, disk, now>>

Crash(s) ==
  /\ req[s] # Down
  /\ req' = [req EXCEPT ![s] = Down]
  /\ mem' = [mem EXCEPT ![s] = EmptyStore]
  /\ UNCHANGED <<attempts, disk, now>>

\* Startup expires overdue holds in the file, then loads every table.
StartServer(s) ==
  /\ req[s] = Down
  /\ LET st == ExpireOverdueBudgetHolds(disk, now)
     IN  /\ HydrationValid(st)
         /\ disk' = st
         /\ mem' = [mem EXCEPT ![s] = st]
  /\ Finish(s)
  /\ UNCHANGED <<attempts, now>>

Tick ==
  /\ now < MaxTime
  /\ now' = now + 1
  /\ UNCHANGED <<attempts, disk, mem, req>>

----------------------------------------------------------------------------

\* New requests
Accept(s) ==
  \/ ListBudgets(s)
  \/ AuthorizeSpend(s)
  \/ ResolveApproval(s)
  \/ ClaimExecutorSpend(s)
  \/ UpdateBudgetLimit(s)

\* The next step of a request in progress
Proceed(s) ==
  \/ AdmitSpendAttempt(s)
  \/ EvaluateSpend(s)
  \/ DenyByPolicy(s)
  \/ DenyNoAvailableBudget(s)
  \/ DenyInsufficientBudget(s)
  \/ ApproveAutomatically(s)
  \/ SaveHumanDeclined(s)
  \/ SaveHumanApproved(s)
  \/ SaveExecutorClaim(s)
  \/ ReplayExecutorClaim(s)
  \/ SaveBudgetVersion(s)
  \/ ReplayBudgetVersion(s)
  \/ EndRequest(s)

\* Requests served by one transaction
Serve(s) ==
  \/ SettleExecutorClaim(s)
  \/ ReleaseExecutorClaim(s)
  \/ ReconcileAsBilled(s)
  \/ ReconcileAsNotBilled(s)
  \/ ReplayFinalization(s)
  \/ VoidUnclaimedAuthorization(s)
  \/ ReplayVoid(s)
  \/ CreateSingleBudget(s)
  \/ RevokeSingleBudget(s)

Next ==
  \/ \E s \in Servers : Accept(s) \/ Proceed(s) \/ Serve(s) \/ Crash(s) \/ StartServer(s)
  \/ Tick

Spec == Init /\ [][Next]_vars

\* The clock is free.  A process restarts, finishes what it began, and is
\* asked something that expires holds (any listing does) again and again.
Fairness ==
  \A s \in Servers : /\ WF_vars(StartServer(s))
                     /\ WF_vars(Proceed(s))
                     /\ WF_vars(ListBudgets(s))

FairSpec == Spec /\ Fairness

----------------------------------------------------------------------------
(* What the file promises *)

\* The three cached amounts of every budget are what its holds and receipts
\* say, after every single transaction, so a server process that crashes
\* anywhere can load the file again (BudgetState::from_records accepts it).
BooksBalance ==
  /\ HydrationValid(disk)
  /\ \A b \in Budgets :
       /\ FrozenDerives(disk, b)
       /\ RemainingDerives(disk, b)
       /\ disk.balance[b].consumed = SettledTotal(disk, b)

Overruns(st) ==
  [d \in Decisions |-> IF st.claim[d].charge > st.hold[d].amount
                       THEN st.claim[d].charge - st.hold[d].amount ELSE 0]

\* Settlements above their authorized maximum, which only a human confirms.
ConfirmedOverruns(st, b) ==
  {d \in Decisions : /\ st.claim[d].status = "settled"
                     /\ st.claim[d].reconciled
                     /\ st.hold[d].budget = b}

\* The budget is a hard limit: what is consumed and reserved exceeds it by no
\* more than the overruns a human confirmed in reconciliation, whatever
\* limit changes, expiries, crashes and stale caches came in between.
HardLimit ==
  \A b \in Budgets :
    Committed(disk, b) <= Limit(disk, b) + Total(Overruns(disk), ConfirmedOverruns(disk, b))

\* An operation key spends at most once: every revision before the latest
\* was denied, and only a revision whose outcome is allowed ever has a token,
\* a hold or a claim.
OneGrantPerKey ==
  /\ \A k \in Keys, q, r \in Revisions :
       q < r /\ Attempted(<<k, r>>) => attempts[<<k, q>>].outcome = "denied"
  /\ \A d \in Decisions :
       /\ disk.token[d].state # "none" => attempts[d].outcome = "allowed"
       /\ disk.hold[d].status # "none" => attempts[d].outcome = "allowed"
       /\ disk.claim[d].status # "none" => attempts[d].outcome = "allowed"

\* A grant is whole: an allowed attempt has its token and its hold, of the
\* amount that was asked for, under an admitted decision.
GrantIsWhole ==
  \A d \in Decisions : attempts[d].outcome = "allowed" =>
    /\ disk.token[d].state # "none"
    /\ disk.hold[d].status # "none"
    /\ disk.hold[d].amount = Amount(d)
    /\ disk.effect[d] \in {"allow", "needs_approval"}

\* A claim, its hold and its token end together, and only one way: claimed
\* with a live token, settled with a used one, released with a revoked one.
ClaimOwnsHold ==
  \A d \in Decisions :
    LET claim == disk.claim[d].status
        hold  == disk.hold[d].status
        token == disk.token[d].state
    IN  /\ claim # "none" => hold = claim
        /\ hold \in {"claimed", "settled"} => claim = hold
        /\ hold \in {"frozen", "claimed", "expired"} => token = "live"
        /\ hold = "settled" <=> token = "used"
        /\ hold = "released" <=> token = "revoked"

\* With one server process the cache never lies: between the steps of its
\* requests it equals the file, but for the provisional token of the
\* authorization it is deciding, which the file does not have.
CacheCoherent ==
  \A s \in Servers : req[s] # Down =>
    IF req[s].pc = "decide"
    THEN LET d == req[s].d
         IN  /\ disk.token[d] = NoToken
             /\ mem[s] = [disk EXCEPT !.token[d] = mem[s].token[d]]
    ELSE mem[s] = disk

\* An outcome is final: of two processes that resolve one request, both having
\* read it pending before the lock, the first commits and the second changes
\* nothing.
OutcomeFinal ==
  [][\A d \in Decisions : attempts[d].outcome \in {"allowed", "denied"}
        => attempts'[d] = attempts[d]]_vars

\* A hold's end is final, and a claimed hold ends only with its claim:
\* neither a timeout nor a sweep gives its amount back.
HoldLifecycle ==
  [][\A d \in Decisions :
       /\ disk.hold[d].status \in {"settled", "released", "expired"}
            => disk'.hold[d] = disk.hold[d]
       /\ disk.hold[d].status = "claimed"
            => disk'.hold[d].status = disk'.claim[d].status]_vars

\* A reservation that reaches the file fits what the file had left, whatever
\* the committing process had cached, in a budget that was not revoked.
ReservationFits ==
  [][\A d \in Decisions :
       disk.hold[d].status = "none" /\ disk'.hold[d].status # "none" =>
         LET b == disk'.hold[d].budget
         IN  /\ disk.budget[b].state = "active"
             /\ disk'.hold[d].amount <= disk.balance[b].remaining
             /\ disk'.hold[d].revision = Len(disk.budget[b].versions)]_vars

\* A frozen hold whose window has passed is eventually given back, claimed or
\* voided, crashes and failing requests notwithstanding.
OverdueHoldsEnd ==
  \A d \in Decisions :
    d \in Overdue(disk, now) ~> disk.hold[d].status # "frozen"

----------------------------------------------------------------------------
(* The file, seen as the abstract ledger of holds *)

Ledger == INSTANCE HoldLedger WITH
  limit <- [b \in Budgets |-> Limit(disk, b)],
  open  <- {b \in Budgets : disk.budget[b].state = "active"},
  hold  <- [d \in Decisions |->
             [status     |-> disk.hold[d].status,
              budget     |-> disk.hold[d].budget,
              amount     |-> disk.hold[d].amount,
              charge     |-> disk.claim[d].charge,
              reconciled |-> disk.claim[d].reconciled]]

\* The governance store implements the ledger.
ImplementsLedger == Ledger!Spec

=============================================================================
