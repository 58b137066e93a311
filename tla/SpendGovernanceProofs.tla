----------------------- MODULE SpendGovernanceProofs -----------------------
(***************************************************************************)
(* What holds for any keys, revisions, budgets, amounts and instants: for  *)
(* any number of server processes first, then for one process that has the *)
(* file to itself, whatever its crashes.                                   *)
(***************************************************************************)
EXTENDS SpendGovernance, BudgetStoreProofs

----------------------------------------------------------------------------
(* Type correctness *)

\* A request in progress has the fields of its program counter.
LEMMA RequestFields ==
  ASSUME NEW r \in Requests
  PROVE  /\ r.pc = "admit" => r.key \in Keys /\ r.scope \in Scopes /\ r.at \in Nat
         /\ r.pc \in {"evaluate", "decide", "approve", "decline"} => r.d \in Decisions /\ r.at \in Nat
         /\ r.pc = "claim" => r.d \in Decisions
         /\ r.pc = "limit" => /\ r.budget \in Budgets /\ r.revision \in Nat
                              /\ r.limit \in Limits /\ r.at \in Nat
BY DEF Requests, Idle, Down

\* Every accepted request is a request.
LEMMA RequestTypes ==
  /\ Idle \in Requests
  /\ Down \in Requests
  /\ \A k \in Keys, c \in Scopes, t \in Nat :
       [pc |-> "admit", key |-> k, scope |-> c, at |-> t] \in Requests
  /\ \A d \in Decisions, t \in Nat, pc \in {"evaluate", "decide", "approve", "decline"} :
       [pc |-> pc, d |-> d, at |-> t] \in Requests
  /\ \A d \in Decisions : [pc |-> "claim", d |-> d] \in Requests
  /\ \A b \in Budgets, r \in Nat \ {0}, l \in Limits, t \in Nat :
       [pc |-> "limit", budget |-> b, revision |-> r, limit |-> l, at |-> t] \in Requests
BY DEF Requests, Idle, Down

\* A decided request keeps its decision and instant.
LEMMA DecideType ==
  ASSUME NEW r \in Requests, r.pc = "evaluate"
  PROVE  [r EXCEPT !.pc = "decide"] \in Requests
<1>1. r \in [pc : {"evaluate", "decide"}, d : Decisions, at : Nat]
  BY DEF Requests, Idle, Down
<1>2. [r EXCEPT !.pc = "decide"] \in [pc : {"evaluate", "decide"}, d : Decisions, at : Nat]
  BY <1>1
<1> QED BY <1>2 DEF Requests

----------------------------------------------------------------------------
(* The inductive invariant *)

Deciding == {"evaluate", "decide"}
Resolving == {"approve", "decline"}

\* Exactly the attempted decisions have a scope.
Scoped == \A d \in Decisions : Attempted(d) <=> attempts[d].scope # NoScope

\* A decision nobody attempted has no recorded effect.
UnattemptedIsBlank == \A d \in Decisions : ~Attempted(d) => disk.effect[d] = "none"

\* An attempt that a process is deciding is pending, is decided by no other
\* process, and is not one a human may resolve.
DecidedAlone ==
  \A s \in Servers : req[s].pc \in Deciding =>
    /\ attempts[req[s].d].outcome = "pending_approval"
    /\ disk.effect[req[s].d] # "needs_approval"
    /\ \A t \in Servers \ {s} : req[t].pc \in Deciding => req[t].d # req[s].d

\* A process resolves only what was attempted.
ResolvesAttempted ==
  \A s \in Servers : req[s].pc \in Resolving => Attempted(req[s].d)

\* Every revision before an attempted one was denied.
DeniedBefore ==
  \A k \in Keys, q, r \in Revisions :
    q < r /\ Attempted(<<k, r>>) => attempts[<<k, q>>].outcome = "denied"

Granted(st, d) == \/ st.token[d].state # "none"
                  \/ st.hold[d].status # "none"
                  \/ st.claim[d].status # "none"

\* Tokens, holds and claims of the file belong to allowed attempts.
GrantsAllowed ==
  \A d \in Decisions : Granted(disk, d) => attempts[d].outcome = "allowed"

HeldOrClaimed(st, d) == st.hold[d].status # "none" \/ st.claim[d].status # "none"

\* So do the holds and claims that a process has cached.
CachedGrantsAllowed ==
  \A s \in Servers, d \in Decisions :
    HeldOrClaimed(mem[s], d) => attempts[d].outcome = "allowed"

GrantInv ==
  /\ TypeOK
  /\ Scoped
  /\ UnattemptedIsBlank
  /\ DecidedAlone
  /\ ResolvesAttempted
  /\ DeniedBefore
  /\ GrantsAllowed
  /\ CachedGrantsAllowed

\* An attempted decision asks for an amount.
LEMMA AmountType ==
  ASSUME TypeOK, Scoped, NEW d \in Decisions, Attempted(d)
  PROVE  Amount(d) \in Amounts
<1>1. attempts[d].scope \in Scopes
  BY DEF TypeOK, Scoped
<1> QED BY <1>1, SpendAssumption, AmountAssumption DEF Amount, Amounts

----------------------------------------------------------------------------
(* Every step keeps the types *)

\* The common part of the requests that expire overdue holds first.
LEMMA ReceiveType ==
  ASSUME TypeOK, NEW s \in Servers, NEW r \in Requests, Receive(s, r)
  PROVE  TypeOK'
<1>1. disk' \in Store
  BY ExpireType DEF TypeOK, Receive
<1>2. mem' \in [Servers -> Store]
  <2>1. ExpireOverdueBudgetHolds(mem[s], now) \in Store
    BY ExpireType DEF TypeOK
  <2> QED BY <2>1 DEF TypeOK, Receive
<1> QED BY <1>1, <1>2 DEF TypeOK, Receive

\* Accepting a request keeps the types.
LEMMA AcceptType ==
  ASSUME TypeOK, NEW s \in Servers, Accept(s)
  PROVE  TypeOK'
<1> USE RequestTypes
<1>0. now \in Nat
  BY DEF TypeOK
<1>1. CASE ListBudgets(s)
  BY <1>1, ReceiveType DEF ListBudgets
<1>2. CASE AuthorizeSpend(s)
  BY <1>0, <1>2, ReceiveType DEF AuthorizeSpend
<1>3. CASE ResolveApproval(s)
  BY <1>0, <1>3, ReceiveType DEF ResolveApproval
<1>4. CASE ClaimExecutorSpend(s)
  BY <1>4, ReceiveType DEF ClaimExecutorSpend
<1>5. CASE UpdateBudgetLimit(s)
  <2>1. PICK b \in Budgets, l \in Limits, r \in 1..(MaxVersions - 1) :
          Receive(s, [pc |-> "limit", budget |-> b, revision |-> r, limit |-> l, at |-> now])
    BY <1>5 DEF UpdateBudgetLimit
  <2>2. r \in Nat \ {0}
    BY SpendAssumption
  <2> QED BY <1>0, <2>1, <2>2, ReceiveType
<1> QED BY <1>1, <1>2, <1>3, <1>4, <1>5 DEF Accept

\* Saving an approval keeps the types.
LEMMA SaveApprovedType ==
  ASSUME TypeOK, Scoped, NEW s \in Servers, NEW d \in Decisions, Attempted(d),
         NEW b \in Budgets, NEW expires \in Nat, SaveApproved(s, d, b, expires)
  PROVE  TypeOK'
<1> DEFINE G(st) == IssueToken(ReserveBudget(st, d, b, Amount(d), expires), d, expires)
<1>1. disk \in Store /\ mem[s] \in Store
  BY DEF TypeOK
<1>2. Amount(d) \in Amounts
  BY AmountType
<1>3. /\ ReserveBudget(disk, d, b, Amount(d), expires) \in Store
      /\ ReserveBudget(mem[s], d, b, Amount(d), expires) \in Store
  BY <1>1, <1>2, ReserveType
<1>4. G(disk) \in Store /\ G(mem[s]) \in Store
  BY <1>3, IssueTokenType
<1>5. /\ disk' = G(disk)
      /\ mem' = [mem EXCEPT ![s] = G(mem[s])]
      /\ attempts' = [attempts EXCEPT ![d].outcome = "allowed"]
      /\ req' = [req EXCEPT ![s] = Idle]
      /\ now' = now
  BY DEF SaveApproved, Finish
<1> HIDE DEF G
<1>6. mem' \in [Servers -> Store]
  BY <1>4, <1>5 DEF TypeOK
<1>7. attempts' \in [Decisions -> [scope : Scopes \cup {NoScope}, outcome : Outcomes]]
  BY <1>5 DEF TypeOK, Outcomes
<1>8. req' \in [Servers -> Requests]
  BY <1>5, RequestTypes DEF TypeOK
<1> QED BY <1>4, <1>5, <1>6, <1>7, <1>8 DEF TypeOK

\* Saving a denial keeps the types.
LEMMA SaveDeniedType ==
  ASSUME TypeOK, NEW s \in Servers, NEW d \in Decisions, SaveDenied(s, d)
  PROVE  TypeOK'
<1>1. DiscardToken(mem[s], d) \in Store
  BY DiscardTokenType DEF TypeOK
<1>2. mem' \in [Servers -> Store]
  BY <1>1 DEF TypeOK, SaveDenied
<1>3. attempts' \in [Decisions -> [scope : Scopes \cup {NoScope}, outcome : Outcomes]]
  BY DEF TypeOK, SaveDenied, Outcomes
<1>4. req' \in [Servers -> Requests]
  BY RequestTypes DEF TypeOK, SaveDenied, Finish
<1> QED BY <1>2, <1>3, <1>4 DEF TypeOK, SaveDenied

\* Publishing a budget change keeps the types.
LEMMA PublishType ==
  ASSUME TypeOK, NEW s \in Servers, NEW st \in Store, PublishBudgetState(s, st),
         req' \in [Servers -> Requests]
  PROVE  TypeOK'
<1>1. ApplyCommittedState(mem[s], st) \in Store
  BY StoreFields DEF TypeOK, ApplyCommittedState, Store
<1>2. mem' \in [Servers -> Store]
  BY <1>1 DEF TypeOK, PublishBudgetState
<1> QED BY <1>2 DEF TypeOK, PublishBudgetState

\* Saving a finalization keeps the types.
LEMMA FinalizationType ==
  ASSUME TypeOK, NEW s \in Servers, NEW d \in Decisions, NEW st \in Store,
         SaveFinalization(s, d, st)
  PROVE  TypeOK'
<1>1. ApplyPersistedFinalization(mem[s], st, d) \in Store
  BY ApplyType DEF TypeOK
<1>2. mem' \in [Servers -> Store]
  BY <1>1 DEF TypeOK, SaveFinalization
<1> QED BY <1>2 DEF TypeOK, SaveFinalization

\* The requests that one transaction serves keep the types.
LEMMA ServeType ==
  ASSUME TypeOK, NEW s \in Servers, Serve(s)
  PROVE  TypeOK'
<1>0. disk \in Store /\ req \in [Servers -> Requests]
  BY DEF TypeOK
<1>c. Charges \subseteq Amounts /\ Limits \subseteq Amounts
  BY SpendAssumption, AmountAssumption DEF Amounts
<1>1. CASE SettleExecutorClaim(s)
  BY <1>0, <1>c, <1>1, SettleClaimType, FinalizationType DEF SettleExecutorClaim
<1>2. CASE ReleaseExecutorClaim(s)
  BY <1>0, <1>2, ReleaseClaimType, FinalizationType DEF ReleaseExecutorClaim
<1>3. CASE ReconcileAsBilled(s)
  BY <1>0, <1>c, <1>3, SettleClaimType, FinalizationType DEF ReconcileAsBilled
<1>4. CASE ReconcileAsNotBilled(s)
  BY <1>0, <1>4, ReleaseClaimType, FinalizationType DEF ReconcileAsNotBilled
<1>5. CASE ReplayFinalization(s)
  BY <1>0, <1>5, FinalizationType DEF ReplayFinalization
<1>6. CASE VoidUnclaimedAuthorization(s)
  BY <1>0, <1>6, ReleaseHoldType, FinalizationType DEF VoidUnclaimedAuthorization
<1>7. CASE ReplayVoid(s)
  BY <1>0, <1>7, FinalizationType DEF ReplayVoid
<1>8. CASE CreateSingleBudget(s)
  BY <1>0, <1>c, <1>8, CreateBudgetType, PublishType DEF CreateSingleBudget
<1>9. CASE RevokeSingleBudget(s)
  BY <1>0, <1>9, RevokeBudgetType, PublishType DEF RevokeSingleBudget
<1> QED BY <1>1, <1>2, <1>3, <1>4, <1>5, <1>6, <1>7, <1>8, <1>9 DEF Serve

\* Every step of a request in progress keeps the types.
LEMMA ProceedType ==
  ASSUME GrantInv, NEW s \in Servers, Proceed(s)
  PROVE  TypeOK'
<1>0. /\ TypeOK /\ Scoped
      /\ disk \in Store /\ mem[s] \in Store /\ now \in Nat
      /\ req[s] \in Requests
  BY DEF GrantInv, TypeOK
<1>f. /\ req[s].pc = "admit" => req[s].key \in Keys /\ req[s].scope \in Scopes /\ req[s].at \in Nat
      /\ req[s].pc \in {"evaluate", "decide", "approve", "decline"}
           => req[s].d \in Decisions /\ req[s].at \in Nat
      /\ req[s].pc = "claim" => req[s].d \in Decisions
      /\ req[s].pc = "limit" => /\ req[s].budget \in Budgets /\ req[s].revision \in Nat
                                /\ req[s].limit \in Limits /\ req[s].at \in Nat
  BY <1>0, RequestFields
<1>a. req[s].pc \in {"evaluate", "decide", "approve", "decline"} => Attempted(req[s].d)
  BY DEF GrantInv, DecidedAlone, ResolvesAttempted, Deciding, Resolving, Attempted
<1>t. now + AuthTTL \in Nat /\ now + ClaimTTL \in Nat
  BY <1>0, SpendAssumption
<1>1. CASE AdmitSpendAttempt(s)
  <2>1. PICK r \in Revisions :
          /\ attempts' = [attempts EXCEPT ![<<req[s].key, r>>] =
                            [scope |-> req[s].scope, outcome |-> "pending_approval"]]
          /\ req' = [req EXCEPT ![s] = [pc |-> "evaluate", d |-> <<req[s].key, r>>, at |-> req[s].at]]
    BY <1>1 DEF AdmitSpendAttempt
  <2>2. <<req[s].key, r>> \in Decisions
    BY <1>1, <1>f DEF AdmitSpendAttempt, Decisions
  <2>3. attempts' \in [Decisions -> [scope : Scopes \cup {NoScope}, outcome : Outcomes]]
    BY <1>1, <1>0, <1>f, <2>1, <2>2 DEF AdmitSpendAttempt, TypeOK, Outcomes
  <2>4. req' \in [Servers -> Requests]
    BY <1>1, <1>0, <1>f, <2>1, <2>2, RequestTypes DEF AdmitSpendAttempt, TypeOK
  <2> QED BY <1>0, <1>1, <2>3, <2>4 DEF AdmitSpendAttempt, TypeOK
<1>2. CASE EvaluateSpend(s)
  <2> DEFINE d == req[s].d
  <2>1. d \in Decisions
    BY <1>2, <1>f DEF EvaluateSpend
  <2>2. PICK e \in Effects :
          /\ disk' = RecordDecision(disk, d, e)
          /\ mem' = [mem EXCEPT ![s] =
                       IF e = "allow" THEN IssueToken(RecordDecision(mem[s], d, e), d, now + AuthTTL)
                       ELSE RecordDecision(mem[s], d, e)]
          /\ req' = [req EXCEPT ![s] = IF e = "needs_approval" THEN Idle
                                       ELSE [req[s] EXCEPT !.pc = "decide"]]
    BY <1>2 DEF EvaluateSpend
  <2>3. disk' \in Store /\ RecordDecision(mem[s], d, e) \in Store
    BY <1>0, <2>1, <2>2, RecordDecisionType
  <2>4. IssueToken(RecordDecision(mem[s], d, e), d, now + AuthTTL) \in Store
    BY <1>t, <2>1, <2>3, IssueTokenType
  <2>5. mem' \in [Servers -> Store]
    BY <1>0, <2>2, <2>3, <2>4 DEF TypeOK
  <2>6. [req[s] EXCEPT !.pc = "decide"] \in Requests /\ Idle \in Requests
    BY <1>0, <1>2, DecideType, RequestTypes DEF EvaluateSpend
  <2>7. req' \in [Servers -> Requests]
    BY <1>0, <2>2, <2>6 DEF TypeOK
  <2> QED BY <1>0, <1>2, <2>3, <2>5, <2>7 DEF EvaluateSpend, TypeOK
<1>3. CASE DenyByPolicy(s)
  BY <1>0, <1>f, <1>3, SaveDeniedType DEF DenyByPolicy
<1>4. CASE DenyNoAvailableBudget(s)
  BY <1>0, <1>f, <1>4, SaveDeniedType DEF DenyNoAvailableBudget
<1>5. CASE DenyInsufficientBudget(s)
  BY <1>0, <1>f, <1>5, SaveDeniedType DEF DenyInsufficientBudget
<1>6. CASE ApproveAutomatically(s)
  <2>1. req[s].d \in Decisions /\ Attempted(req[s].d)
    BY <1>6, <1>f, <1>a DEF ApproveAutomatically
  <2>2. mem[s].token[req[s].d].expires \in Nat
    BY <1>0, <2>1, StoreFields DEF Token
  <2> QED BY <1>0, <1>6, <2>1, <2>2, SaveApprovedType DEF ApproveAutomatically
<1>7. CASE SaveHumanDeclined(s)
  <2>1. attempts' \in [Decisions -> [scope : Scopes \cup {NoScope}, outcome : Outcomes]]
    BY <1>0, <1>7 DEF SaveHumanDeclined, TypeOK, Outcomes
  <2>2. req' \in [Servers -> Requests]
    BY <1>0, <1>7, RequestTypes DEF SaveHumanDeclined, Finish, TypeOK
  <2> QED BY <1>0, <1>7, <2>1, <2>2 DEF SaveHumanDeclined, TypeOK
<1>8. CASE SaveHumanApproved(s)
  BY <1>0, <1>f, <1>a, <1>t, <1>8, SaveApprovedType DEF SaveHumanApproved
<1>9. CASE SaveExecutorClaim(s)
  <2>1. req[s].d \in Decisions
    BY <1>f, <1>9 DEF SaveExecutorClaim
  <2>2. /\ ClaimHold(disk, req[s].d, now + ClaimTTL) \in Store
        /\ ClaimHold(mem[s], req[s].d, now + ClaimTTL) \in Store
    BY <1>0, <1>t, <2>1, ClaimHoldType
  <2>3. disk' \in Store /\ mem' \in [Servers -> Store]
    BY <1>0, <1>9, <2>2 DEF SaveExecutorClaim, TypeOK
  <2>4. req' \in [Servers -> Requests]
    BY <1>0, <1>9, RequestTypes DEF SaveExecutorClaim, Finish, TypeOK
  <2> QED BY <1>0, <1>9, <2>3, <2>4 DEF SaveExecutorClaim, TypeOK
<1>10. CASE ReplayExecutorClaim(s)
  <2> DEFINE d == req[s].d
             h == [disk.hold[d] EXCEPT !.status = mem[s].hold[d].status,
                                       !.expires = mem[s].hold[d].expires]
             hold == [disk.hold EXCEPT ![d] = h]
  <2>1. d \in Decisions
    BY <1>f, <1>10 DEF ReplayExecutorClaim
  <2>2. disk.hold[d] \in Hold /\ mem[s].hold[d] \in Hold
    BY <1>0, <2>1, StoreFields
  <2>3. h \in Hold
    BY <2>2 DEF Hold
  <2>4. hold \in [Decisions -> Hold]
    BY <1>0, <2>3, StoreFields
  <2>5. disk' = [disk EXCEPT !.hold = hold]
    BY <1>0, <1>10, <2>1 DEF ReplayExecutorClaim, Store, Hold
  <2>6. disk' \in Store
    <3> HIDE DEF hold
    <3> QED BY <1>0, <2>4, <2>5 DEF Store
  <2>7. req' \in [Servers -> Requests]
    BY <1>0, <1>10, RequestTypes DEF ReplayExecutorClaim, Finish, TypeOK
  <2> QED BY <1>0, <1>10, <2>6, <2>7 DEF ReplayExecutorClaim, TypeOK
<1>11. CASE SaveBudgetVersion(s)
  <2>1. req' \in [Servers -> Requests]
    BY <1>0, <1>11, RequestTypes DEF SaveBudgetVersion, Finish, TypeOK
  <2>2. req[s].budget \in Budgets /\ req[s].limit \in Amounts
    <3>1. Limits \subseteq Amounts
      BY SpendAssumption, AmountAssumption DEF Amounts
    <3>2. req[s].budget \in Budgets /\ req[s].limit \in Limits
      BY <1>f, <1>11 DEF SaveBudgetVersion
    <3> QED BY <3>1, <3>2
  <2>3. AppendBudgetVersion(disk, req[s].budget, req[s].limit) \in Store
    BY <1>0, <2>2, AppendBudgetVersionType
  <2> QED BY <1>0, <1>11, <2>1, <2>3, PublishType DEF SaveBudgetVersion
<1>12. CASE ReplayBudgetVersion(s)
  <2>1. req' \in [Servers -> Requests]
    BY <1>0, <1>12, RequestTypes DEF ReplayBudgetVersion, Finish, TypeOK
  <2> QED BY <1>0, <1>12, <2>1, PublishType DEF ReplayBudgetVersion
<1>13. CASE EndRequest(s)
  <2>1. req' \in [Servers -> Requests]
    BY <1>0, <1>13, RequestTypes DEF EndRequest, Finish, TypeOK
  <2>2. req[s].pc = "decide" => DiscardToken(mem[s], req[s].d) \in Store
    BY <1>0, <1>f, DiscardTokenType
  <2>3. mem' \in [Servers -> Store]
    BY <1>0, <1>13, <2>2 DEF EndRequest, TypeOK
  <2> QED BY <1>0, <1>13, <2>1, <2>3 DEF EndRequest, TypeOK
<1> QED BY <1>1, <1>2, <1>3, <1>4, <1>5, <1>6, <1>7, <1>8, <1>9, <1>10, <1>11, <1>12, <1>13
        DEF Proceed

\* Crashes, restarts and the clock keep the types.
LEMMA EnvironmentType ==
  ASSUME TypeOK, \/ \E s \in Servers : Crash(s) \/ StartServer(s)
                 \/ Tick
                 \/ UNCHANGED vars
  PROVE  TypeOK'
<1>1. ASSUME NEW s \in Servers, Crash(s) PROVE TypeOK'
  BY <1>1, EmptyStoreType, RequestTypes DEF Crash, TypeOK
<1>2. ASSUME NEW s \in Servers, StartServer(s) PROVE TypeOK'
  <2>1. ExpireOverdueBudgetHolds(disk, now) \in Store
    BY ExpireType DEF TypeOK
  <2> QED BY <1>2, <2>1, RequestTypes DEF StartServer, Finish, TypeOK
<1>3. CASE Tick
  BY <1>3 DEF Tick, TypeOK
<1>4. CASE UNCHANGED vars
  BY <1>4 DEF vars, TypeOK
<1> QED BY <1>1, <1>2, <1>3, <1>4

\* Every step keeps the types.
LEMMA NextType ==
  ASSUME GrantInv, [Next]_vars
  PROVE  TypeOK'
<1>1. TypeOK
  BY DEF GrantInv
<1> QED BY <1>1, AcceptType, ProceedType, ServeType, EnvironmentType DEF Next

----------------------------------------------------------------------------
(* Steps that create no attempt and no grant *)

NoNewGrant(st, new) ==
  /\ new.effect = st.effect
  /\ \A d \in Decisions : Granted(new, d) => Granted(st, d)

\* The sweep grants nothing.
LEMMA ExpireGrants ==
  ASSUME NEW st \in Store, NEW t \in Nat
  PROVE  /\ NoNewGrant(st, ExpireOverdueBudgetHolds(st, t))
         /\ \A d \in Decisions : HeldOrClaimed(ExpireOverdueBudgetHolds(st, t), d)
                                  => HeldOrClaimed(st, d)
<1> DEFINE new == ExpireOverdueBudgetHolds(st, t)
<1>1. new.effect = st.effect /\ new.token = st.token /\ new.claim = st.claim
  BY DEF ExpireOverdueBudgetHolds, Store
<1>2. \A d \in Decisions :
        new.hold[d] = IF d \in Overdue(st, t) THEN [st.hold[d] EXCEPT !.status = "expired"]
                                              ELSE st.hold[d]
  BY DEF ExpireOverdueBudgetHolds, Store
<1>3. \A d \in Decisions : new.hold[d].status # "none" => st.hold[d].status # "none"
  BY <1>2 DEF Overdue
<1> HIDE DEF new
<1>4. NoNewGrant(st, new) /\ \A d \in Decisions : HeldOrClaimed(new, d) => HeldOrClaimed(st, d)
  BY <1>1, <1>3 DEF NoNewGrant, Granted, HeldOrClaimed
<1> QED BY <1>4 DEF new

\* Finalizing what is granted grants nothing.
LEMMA FinalizeGrants ==
  ASSUME NEW st \in Store, NEW d \in Decisions, NEW c, NEW r, Granted(st, d)
  PROVE  /\ NoNewGrant(st, SettleClaim(st, d, c, r))
         /\ NoNewGrant(st, ReleaseHold(st, d))
         /\ NoNewGrant(st, ReleaseClaim(st, d, r))
<1>1. \A x \in Decisions \ {d} : /\ SettleClaim(st, d, c, r).token[x] = st.token[x]
                                 /\ SettleClaim(st, d, c, r).hold[x] = st.hold[x]
                                 /\ SettleClaim(st, d, c, r).claim[x] = st.claim[x]
  BY DEF SettleClaim, Store
<1>2. \A x \in Decisions \ {d} : /\ ReleaseHold(st, d).token[x] = st.token[x]
                                 /\ ReleaseHold(st, d).hold[x] = st.hold[x]
                                 /\ ReleaseHold(st, d).claim[x] = st.claim[x]
  BY DEF ReleaseHold, Store
<1>3. \A x \in Decisions \ {d} : /\ ReleaseClaim(st, d, r).token[x] = st.token[x]
                                 /\ ReleaseClaim(st, d, r).hold[x] = st.hold[x]
                                 /\ ReleaseClaim(st, d, r).claim[x] = st.claim[x]
  BY DEF ReleaseClaim, ReleaseHold, Store
<1>4. /\ SettleClaim(st, d, c, r).effect = st.effect
      /\ ReleaseHold(st, d).effect = st.effect
      /\ ReleaseClaim(st, d, r).effect = st.effect
  BY DEF SettleClaim, ReleaseHold, ReleaseClaim, Store
<1>5. NoNewGrant(st, SettleClaim(st, d, c, r))
  BY <1>1, <1>4 DEF NoNewGrant, Granted
<1>6. NoNewGrant(st, ReleaseHold(st, d))
  BY <1>2, <1>4 DEF NoNewGrant, Granted
<1>7. NoNewGrant(st, ReleaseClaim(st, d, r))
  BY <1>3, <1>4 DEF NoNewGrant, Granted
<1> QED BY <1>5, <1>6, <1>7

\* Budget administration grants nothing.
LEMMA AdministrationGrants ==
  ASSUME NEW st \in Store, NEW b, NEW l
  PROVE  /\ NoNewGrant(st, CreateBudget(st, b, l))
         /\ NoNewGrant(st, AppendBudgetVersion(st, b, l))
         /\ NoNewGrant(st, RevokeBudget(st, b))
         /\ NoNewGrant(st, st)
BY DEF NoNewGrant, Granted, CreateBudget, AppendBudgetVersion, RevokeBudget, Store

\* What a process copies from the file is granted there.
LEMMA ApplyGrants ==
  ASSUME NEW cache \in Store, NEW st \in Store, NEW d \in Decisions, NEW x \in Decisions
  PROVE  /\ HeldOrClaimed(ApplyPersistedFinalization(cache, st, d), x)
              => HeldOrClaimed(cache, x) \/ Granted(st, x)
         /\ HeldOrClaimed(ApplyCommittedState(cache, st), x)
              => HeldOrClaimed(cache, x) \/ Granted(st, x)
<1>1. /\ ApplyPersistedFinalization(cache, st, d).hold[x] = IF x = d THEN st.hold[x] ELSE cache.hold[x]
      /\ ApplyPersistedFinalization(cache, st, d).claim[x] = IF x = d THEN st.claim[x] ELSE cache.claim[x]
  BY DEF ApplyPersistedFinalization, Store
<1>2. /\ ApplyCommittedState(cache, st).hold = st.hold
      /\ ApplyCommittedState(cache, st).claim = cache.claim
  BY DEF ApplyCommittedState, Store
<1> QED BY <1>1, <1>2 DEF HeldOrClaimed, Granted

OutcomeStep ==
  \A d \in Decisions : attempts[d].outcome \in {"allowed", "denied"} => attempts'[d] = attempts[d]

\* A step that leaves the attempts alone, grants nothing that was not granted
\* or cached before and puts no process in charge of a decision keeps the
\* invariant.
LEMMA QuietStep ==
  ASSUME GrantInv, TypeOK', attempts' = attempts,
         disk'.effect = disk.effect,
         \A d \in Decisions : Granted(disk', d) =>
             Granted(disk, d) \/ \E s \in Servers : HeldOrClaimed(mem[s], d),
         \A s \in Servers, d \in Decisions : HeldOrClaimed(mem'[s], d) =>
             HeldOrClaimed(mem[s], d) \/ Granted(disk, d),
         \A s \in Servers : req'[s].pc \in Deciding => req'[s] = req[s],
         \A s \in Servers : req'[s].pc \in Resolving => req'[s] = req[s] \/ Attempted(req'[s].d)
  PROVE  GrantInv' /\ OutcomeStep
<1> USE DEF GrantInv
<1>1. Scoped' /\ DeniedBefore'
  BY DEF Scoped, DeniedBefore, Attempted
<1>2. UnattemptedIsBlank'
  BY DEF UnattemptedIsBlank, Attempted
<1>3. DecidedAlone'
  BY DEF DecidedAlone
<1>4. ResolvesAttempted'
  BY DEF ResolvesAttempted, Attempted
<1>5. GrantsAllowed' /\ CachedGrantsAllowed'
  <2>1. \A d \in Decisions : Granted(disk, d) => attempts'[d].outcome = "allowed"
    BY DEF GrantsAllowed
  <2>2. \A s \in Servers, d \in Decisions : HeldOrClaimed(mem[s], d) => attempts'[d].outcome = "allowed"
    BY DEF CachedGrantsAllowed
  <2>3. \A d \in Decisions : Granted(disk', d) => attempts'[d].outcome = "allowed"
    BY <2>1, <2>2
  <2>4. \A s \in Servers, d \in Decisions : HeldOrClaimed(mem'[s], d) => attempts'[d].outcome = "allowed"
    BY <2>1, <2>2
  <2>5. \A d \in Decisions : Granted(disk, d)' <=> Granted(disk', d)
    BY DEF Granted
  <2>6. \A s \in Servers, d \in Decisions : HeldOrClaimed(mem[s], d)' <=> HeldOrClaimed(mem'[s], d)
    BY DEF HeldOrClaimed
  <2> QED BY <2>3, <2>4, <2>5, <2>6 DEF GrantsAllowed, CachedGrantsAllowed
<1> QED BY <1>1, <1>2, <1>3, <1>4, <1>5 DEF OutcomeStep

\* Accepting a request grants nothing and decides nothing.
LEMMA AcceptQuiet ==
  ASSUME GrantInv, TypeOK', NEW s \in Servers, Accept(s)
  PROVE  GrantInv' /\ OutcomeStep
<1>0. /\ disk \in Store /\ mem \in [Servers -> Store] /\ now \in Nat
      /\ req \in [Servers -> Requests]
  BY DEF GrantInv, TypeOK
<1>1. PICK r \in Requests : /\ Receive(s, r)
                            /\ r.pc \notin Deciding
                            /\ r.pc \in Resolving => Attempted(r.d)
  <2> USE RequestTypes DEF Deciding, Resolving
  <2>1. CASE ListBudgets(s)
    BY <2>1 DEF ListBudgets, Idle
  <2>2. CASE AuthorizeSpend(s)
    BY <1>0, <2>2 DEF AuthorizeSpend
  <2>3. CASE ResolveApproval(s)
    BY <1>0, <2>3 DEF ResolveApproval, Attempted
  <2>4. CASE ClaimExecutorSpend(s)
    BY <2>4 DEF ClaimExecutorSpend
  <2>5. CASE UpdateBudgetLimit(s)
    <3>1. PICK b \in Budgets, l \in Limits, q \in 1..(MaxVersions - 1) :
            Receive(s, [pc |-> "limit", budget |-> b, revision |-> q, limit |-> l, at |-> now])
      BY <2>5 DEF UpdateBudgetLimit
    <3>2. q \in Nat \ {0}
      BY SpendAssumption
    <3> QED BY <1>0, <3>1, <3>2
  <2> QED BY <2>1, <2>2, <2>3, <2>4, <2>5 DEF Accept
<1>2. /\ disk' = ExpireOverdueBudgetHolds(disk, now)
      /\ mem' = [mem EXCEPT ![s] = ExpireOverdueBudgetHolds(mem[s], now)]
      /\ req' = [req EXCEPT ![s] = r]
      /\ attempts' = attempts
  BY <1>1 DEF Receive
<1>3. /\ disk'.effect = disk.effect
      /\ \A d \in Decisions : Granted(disk', d) => Granted(disk, d)
  BY <1>0, <1>2, ExpireGrants DEF NoNewGrant
<1>4. \A t \in Servers, d \in Decisions : HeldOrClaimed(mem'[t], d) => HeldOrClaimed(mem[t], d)
  BY <1>0, <1>2, ExpireGrants
<1>5. \A t \in Servers : req'[t] = IF t = s THEN r ELSE req[t]
  BY <1>0, <1>2
<1> QED BY <1>1, <1>2, <1>3, <1>4, <1>5, QuietStep

\* Committing and publishing a store that grants nothing new is quiet.
LEMMA PublishQuiet ==
  ASSUME GrantInv, TypeOK', NEW s \in Servers, NEW st \in Store, NoNewGrant(disk, st),
         PublishBudgetState(s, st),
         \A t \in Servers : req'[t] = req[t] \/ req'[t] = Idle
  PROVE  GrantInv' /\ OutcomeStep
<1>0. disk \in Store /\ mem \in [Servers -> Store]
  BY DEF GrantInv, TypeOK
<1>1. /\ disk' = st
      /\ mem' = [mem EXCEPT ![s] = ApplyCommittedState(mem[s], st)]
      /\ attempts' = attempts
  BY DEF PublishBudgetState
<1>2. \A d \in Decisions : Granted(st, d) => Granted(disk, d)
  BY DEF NoNewGrant
<1>3. \A t \in Servers, d \in Decisions :
        HeldOrClaimed(mem'[t], d) => HeldOrClaimed(mem[t], d) \/ Granted(disk, d)
  BY <1>0, <1>1, <1>2, ApplyGrants
<1>4. /\ \A t \in Servers : req'[t].pc \in Deciding => req'[t] = req[t]
      /\ \A t \in Servers : req'[t].pc \in Resolving => req'[t] = req[t]
  BY DEF Deciding, Resolving, Idle
<1>5. disk'.effect = disk.effect
  BY <1>1 DEF NoNewGrant
<1> QED BY <1>1, <1>2, <1>3, <1>4, <1>5, QuietStep

\* So is saving a finalization that grants nothing new.
LEMMA FinalizationQuiet ==
  ASSUME GrantInv, TypeOK', NEW s \in Servers, NEW d \in Decisions, NEW st \in Store,
         NoNewGrant(disk, st), SaveFinalization(s, d, st)
  PROVE  GrantInv' /\ OutcomeStep
<1>0. disk \in Store /\ mem \in [Servers -> Store]
  BY DEF GrantInv, TypeOK
<1>1. /\ disk' = st
      /\ mem' = [mem EXCEPT ![s] = ApplyPersistedFinalization(mem[s], st, d)]
      /\ attempts' = attempts /\ req' = req
  BY DEF SaveFinalization
<1>2. \A x \in Decisions : Granted(st, x) => Granted(disk, x)
  BY DEF NoNewGrant
<1>3. \A t \in Servers, x \in Decisions :
        HeldOrClaimed(mem'[t], x) => HeldOrClaimed(mem[t], x) \/ Granted(disk, x)
  BY <1>0, <1>1, <1>2, ApplyGrants
<1>5. disk'.effect = disk.effect
  BY <1>1 DEF NoNewGrant
<1> QED BY <1>1, <1>2, <1>3, <1>5, QuietStep

\* The requests that one transaction serves grant nothing.
LEMMA ServeQuiet ==
  ASSUME GrantInv, TypeOK', NEW s \in Servers, Serve(s)
  PROVE  GrantInv' /\ OutcomeStep
<1>0. disk \in Store /\ req \in [Servers -> Requests]
  BY DEF GrantInv, TypeOK
<1>c. Charges \subseteq Amounts /\ Limits \subseteq Amounts
  BY SpendAssumption, AmountAssumption DEF Amounts
<1>g. \A d \in Decisions : ExclusivelyClaimed(d) => Granted(disk, d)
  BY DEF ExclusivelyClaimed, Granted
<1>1. CASE SettleExecutorClaim(s)
  BY <1>0, <1>c, <1>g, <1>1, SettleClaimType, FinalizeGrants, FinalizationQuiet DEF SettleExecutorClaim
<1>2. CASE ReleaseExecutorClaim(s)
  BY <1>0, <1>g, <1>2, ReleaseClaimType, FinalizeGrants, FinalizationQuiet DEF ReleaseExecutorClaim
<1>3. CASE ReconcileAsBilled(s)
  BY <1>0, <1>c, <1>g, <1>3, SettleClaimType, FinalizeGrants, FinalizationQuiet DEF ReconcileAsBilled
<1>4. CASE ReconcileAsNotBilled(s)
  BY <1>0, <1>g, <1>4, ReleaseClaimType, FinalizeGrants, FinalizationQuiet DEF ReconcileAsNotBilled
<1>5. CASE ReplayFinalization(s)
  BY <1>0, <1>5, AdministrationGrants, FinalizationQuiet DEF ReplayFinalization
<1>6. CASE VoidUnclaimedAuthorization(s)
  <2>1. PICK d \in Decisions : Granted(disk, d) /\ SaveFinalization(s, d, ReleaseHold(disk, d))
    BY <1>6 DEF VoidUnclaimedAuthorization, Granted
  <2> QED BY <1>0, <2>1, ReleaseHoldType, FinalizeGrants, FinalizationQuiet
<1>7. CASE ReplayVoid(s)
  BY <1>0, <1>7, AdministrationGrants, FinalizationQuiet DEF ReplayVoid
<1>8. CASE CreateSingleBudget(s)
  BY <1>0, <1>c, <1>8, CreateBudgetType, AdministrationGrants, PublishQuiet DEF CreateSingleBudget
<1>9. CASE RevokeSingleBudget(s)
  BY <1>0, <1>9, RevokeBudgetType, AdministrationGrants, PublishQuiet DEF RevokeSingleBudget
<1> QED BY <1>1, <1>2, <1>3, <1>4, <1>5, <1>6, <1>7, <1>8, <1>9 DEF Serve

\* Crashes, restarts and the clock grant nothing.
LEMMA EnvironmentQuiet ==
  ASSUME GrantInv, TypeOK', \/ \E s \in Servers : Crash(s) \/ StartServer(s)
                            \/ Tick
                            \/ UNCHANGED vars
  PROVE  GrantInv' /\ OutcomeStep
<1>0. /\ disk \in Store /\ mem \in [Servers -> Store] /\ now \in Nat
      /\ req \in [Servers -> Requests]
  BY DEF GrantInv, TypeOK
<1>1. ASSUME NEW s \in Servers, Crash(s) PROVE GrantInv' /\ OutcomeStep
  <2>1. \A d \in Decisions : ~HeldOrClaimed(EmptyStore, d)
    BY DEF HeldOrClaimed, EmptyStore, NoHold, NoClaim
  <2>2. /\ attempts' = attempts /\ disk' = disk
        /\ mem' = [mem EXCEPT ![s] = EmptyStore]
        /\ req' = [req EXCEPT ![s] = Down]
    BY <1>1 DEF Crash
  <2>3. \A t \in Servers, d \in Decisions : HeldOrClaimed(mem'[t], d) => HeldOrClaimed(mem[t], d)
    BY <1>0, <2>1, <2>2
  <2>4. \A t \in Servers : req'[t] = req[t] \/ req'[t].pc = "down"
    BY <1>0, <2>2 DEF Down
  <2> QED BY <2>2, <2>3, <2>4, QuietStep DEF Deciding, Resolving
<1>2. ASSUME NEW s \in Servers, StartServer(s) PROVE GrantInv' /\ OutcomeStep
  <2>1. /\ attempts' = attempts
        /\ disk' = ExpireOverdueBudgetHolds(disk, now)
        /\ mem' = [mem EXCEPT ![s] = ExpireOverdueBudgetHolds(disk, now)]
        /\ req' = [req EXCEPT ![s] = Idle]
    BY <1>2 DEF StartServer, Finish
  <2>2. /\ disk'.effect = disk.effect
        /\ \A d \in Decisions : Granted(disk', d) => Granted(disk, d)
    BY <1>0, <2>1, ExpireGrants DEF NoNewGrant
  <2>3. \A d \in Decisions : HeldOrClaimed(ExpireOverdueBudgetHolds(disk, now), d) => Granted(disk, d)
    <3>1. \A d \in Decisions : HeldOrClaimed(ExpireOverdueBudgetHolds(disk, now), d)
                                => HeldOrClaimed(disk, d)
      BY <1>0, ExpireGrants
    <3> QED BY <3>1 DEF HeldOrClaimed, Granted
  <2>4. \A t \in Servers, d \in Decisions :
          HeldOrClaimed(mem'[t], d) => HeldOrClaimed(mem[t], d) \/ Granted(disk, d)
    BY <1>0, <2>1, <2>3
  <2>5. \A t \in Servers : req'[t] = req[t] \/ req'[t].pc = "idle"
    BY <1>0, <2>1 DEF Idle
  <2> QED BY <2>1, <2>2, <2>4, <2>5, QuietStep DEF Deciding, Resolving
<1>3. CASE Tick
  BY <1>3, QuietStep DEF Tick
<1>4. CASE UNCHANGED vars
  BY <1>4, QuietStep DEF vars
<1> QED BY <1>1, <1>2, <1>3, <1>4

\* A first claim finds its token in the file.
LEMMA SaveClaimQuiet ==
  ASSUME GrantInv, TypeOK', NEW s \in Servers, SaveExecutorClaim(s)
  PROVE  GrantInv' /\ OutcomeStep
<1> DEFINE d == req[s].d
<1>0. /\ disk \in Store /\ mem \in [Servers -> Store] /\ req \in [Servers -> Requests]
      /\ d \in Decisions
  BY RequestFields DEF GrantInv, TypeOK, SaveExecutorClaim
<1>1. /\ Granted(disk, d)
      /\ disk' = ClaimHold(disk, d, now + ClaimTTL)
      /\ mem' = [mem EXCEPT ![s] = ClaimHold(mem[s], d, now + ClaimTTL)]
      /\ req' = [req EXCEPT ![s] = Idle]
      /\ attempts' = attempts
  BY DEF SaveExecutorClaim, Finish, Granted
<1> HIDE DEF d
<1>2. ASSUME NEW st \in Store
      PROVE  LET new == ClaimHold(st, d, now + ClaimTTL)
             IN  /\ new.effect = st.effect
                 /\ new.token = st.token
                 /\ \A x \in Decisions \ {d} : new.hold[x] = st.hold[x] /\ new.claim[x] = st.claim[x]
  BY DEF ClaimHold, Store
<1>3. /\ disk'.effect = disk.effect
      /\ \A x \in Decisions : Granted(disk', x) => Granted(disk, x)
  BY <1>0, <1>1, <1>2 DEF Granted
<1>4. \A x \in Decisions : HeldOrClaimed(ClaimHold(mem[s], d, now + ClaimTTL), x)
                            => HeldOrClaimed(mem[s], x) \/ Granted(disk, x)
  BY <1>0, <1>1, <1>2 DEF HeldOrClaimed
<1>5. \A t \in Servers, x \in Decisions :
        HeldOrClaimed(mem'[t], x) => HeldOrClaimed(mem[t], x) \/ Granted(disk, x)
  BY <1>0, <1>1, <1>4
<1>6. \A t \in Servers : req'[t] = req[t] \/ req'[t].pc = "idle"
  BY <1>0, <1>1 DEF Idle
<1> QED BY <1>1, <1>3, <1>5, <1>6, QuietStep DEF Deciding, Resolving

\* A repeated claim writes to the file only what the process has cached.
LEMMA ReplayClaimQuiet ==
  ASSUME GrantInv, TypeOK', NEW s \in Servers, ReplayExecutorClaim(s)
  PROVE  GrantInv' /\ OutcomeStep
<1> DEFINE d == req[s].d
<1>0. /\ disk \in Store /\ mem \in [Servers -> Store] /\ req \in [Servers -> Requests]
      /\ d \in Decisions
  BY RequestFields DEF GrantInv, TypeOK, ReplayExecutorClaim
<1>1. /\ HeldOrClaimed(mem[s], d)
      /\ disk' = [disk EXCEPT !.hold[d].status = mem[s].hold[d].status,
                              !.hold[d].expires = mem[s].hold[d].expires]
      /\ mem' = mem
      /\ req' = [req EXCEPT ![s] = Idle]
      /\ attempts' = attempts
  BY DEF ReplayExecutorClaim, Finish, HeldOrClaimed
<1> HIDE DEF d
<1>2. /\ disk'.effect = disk.effect /\ disk'.token = disk.token /\ disk'.claim = disk.claim
      /\ \A x \in Decisions \ {d} : disk'.hold[x] = disk.hold[x]
  BY <1>0, <1>1 DEF Store
<1>3. \A x \in Decisions :
        Granted(disk', x) => Granted(disk, x) \/ \E t \in Servers : HeldOrClaimed(mem[t], x)
  BY <1>1, <1>2 DEF Granted
<1>4. \A t \in Servers : req'[t] = req[t] \/ req'[t].pc = "idle"
  BY <1>0, <1>1 DEF Idle
<1> QED BY <1>1, <1>2, <1>3, <1>4, QuietStep DEF Deciding, Resolving

\* A request that ends gives its decision up.
LEMMA EndRequestQuiet ==
  ASSUME GrantInv, TypeOK', NEW s \in Servers, EndRequest(s)
  PROVE  GrantInv' /\ OutcomeStep
<1>0. mem \in [Servers -> Store] /\ req \in [Servers -> Requests]
  BY DEF GrantInv, TypeOK
<1>1. /\ attempts' = attempts /\ disk' = disk
      /\ mem' = [mem EXCEPT ![s] = IF req[s].pc = "decide" THEN DiscardToken(mem[s], req[s].d) ELSE mem[s]]
      /\ req' = [req EXCEPT ![s] = Idle]
  BY DEF EndRequest, Finish
<1>2. \A d : /\ DiscardToken(mem[s], d).hold = mem[s].hold
             /\ DiscardToken(mem[s], d).claim = mem[s].claim
  BY <1>0 DEF DiscardToken, Store
<1>3. \A t \in Servers, x \in Decisions : HeldOrClaimed(mem'[t], x) => HeldOrClaimed(mem[t], x)
  BY <1>0, <1>1, <1>2 DEF HeldOrClaimed
<1>4. \A t \in Servers : req'[t] = req[t] \/ req'[t].pc = "idle"
  BY <1>0, <1>1 DEF Idle
<1> QED BY <1>1, <1>3, <1>4, QuietStep DEF Deciding, Resolving

\* Both ways to end a limit change grant nothing.
LEMMA BudgetVersionQuiet ==
  ASSUME GrantInv, TypeOK', NEW s \in Servers, SaveBudgetVersion(s) \/ ReplayBudgetVersion(s)
  PROVE  GrantInv' /\ OutcomeStep
<1>0. disk \in Store /\ req \in [Servers -> Requests] /\ disk' \in Store
  BY DEF GrantInv, TypeOK
<1>1. \A t \in Servers : req'[t] = req[t] \/ req'[t] = Idle
  BY <1>0 DEF SaveBudgetVersion, ReplayBudgetVersion, Finish
<1>2. PublishBudgetState(s, disk') /\ NoNewGrant(disk, disk')
  BY <1>0, AdministrationGrants DEF SaveBudgetVersion, ReplayBudgetVersion, PublishBudgetState
<1> QED BY <1>0, <1>1, <1>2, PublishQuiet

----------------------------------------------------------------------------
(* Steps that admit, decide or resolve an attempt *)

\* A new revision is admitted only when every earlier one was denied.
LEMMA AdmitStep ==
  ASSUME GrantInv, TypeOK', NEW s \in Servers, AdmitSpendAttempt(s)
  PROVE  GrantInv' /\ OutcomeStep
<1> DEFINE k == req[s].key
<1>0. /\ attempts \in [Decisions -> [scope : Scopes \cup {NoScope}, outcome : Outcomes]]
      /\ req \in [Servers -> Requests]
      /\ k \in Keys /\ req[s].scope \in Scopes
  BY RequestFields DEF GrantInv, TypeOK, AdmitSpendAttempt
<1>1. PICK r \in Revisions :
        /\ IsNextRevision(k, r)
        /\ attempts' = [attempts EXCEPT ![<<k, r>>] =
                          [scope |-> req[s].scope, outcome |-> "pending_approval"]]
        /\ req' = [req EXCEPT ![s] = [pc |-> "evaluate", d |-> <<k, r>>, at |-> req[s].at]]
  BY DEF AdmitSpendAttempt
<1>2. ~UnsafePrior(k) /\ disk' = disk /\ mem' = mem
  BY DEF AdmitSpendAttempt
<1> HIDE DEF k
<1> DEFINE new == <<k, r>>
<1>3. new \in Decisions
  BY <1>0 DEF Decisions
<1>4. ~Attempted(new) /\ attempts[new].outcome = "none"
  BY <1>1 DEF IsNextRevision, Revisions, Attempted
<1>5. \A q \in Revisions : q < r => attempts[<<k, q>>].outcome = "denied"
  BY <1>1, <1>2 DEF IsNextRevision, UnsafePrior
<1>6. /\ attempts'[new].outcome = "pending_approval"
      /\ attempts'[new].scope \in Scopes
      /\ \A d \in Decisions \ {new} : attempts'[d] = attempts[d]
  BY <1>0, <1>1, <1>3
<1>7. \A k1 \in Keys, r1 \in Revisions : <<k1, r1>> \in Decisions
  BY DEF Decisions
<1>8. \A k1 \in Keys, r1 \in Revisions : <<k1, r1>> = new <=> k1 = k /\ r1 = r
  OBVIOUS
<1>9. /\ req'[s].pc = "evaluate" /\ req'[s].d = new
      /\ \A t \in Servers \ {s} : req'[t] = req[t]
  BY <1>0, <1>1
<1> HIDE DEF new
<1>10. Scoped'
  BY <1>6, SpendAssumption DEF GrantInv, Scoped, Attempted, NoScope
<1>11. UnattemptedIsBlank'
  BY <1>2, <1>6 DEF GrantInv, UnattemptedIsBlank, Attempted
<1>12. DecidedAlone'
  <2>1. disk.effect[new] = "none"
    BY <1>3, <1>4 DEF GrantInv, UnattemptedIsBlank
  <2>2. \A t \in Servers : req[t].pc \in Deciding => /\ req[t].d # new
                                                     /\ req[t].d \in Decisions
    <3>1. \A t \in Servers : req[t] \in Requests
      BY <1>0
    <3>2. \A t \in Servers : req[t].pc \in Deciding => attempts[req[t].d].outcome = "pending_approval"
      BY DEF GrantInv, DecidedAlone
    <3> QED BY <1>4, <3>1, <3>2, RequestFields DEF Deciding
  <2> QED BY <1>2, <1>6, <1>9, <2>1, <2>2 DEF GrantInv, DecidedAlone, Deciding
<1>13. ResolvesAttempted'
  <2>1. \A t \in Servers : req[t] \in Requests
    BY <1>0
  <2>2. \A t \in Servers : req[t].pc \in Resolving => req[t].d \in Decisions /\ Attempted(req[t].d)
    BY <2>1, RequestFields DEF GrantInv, ResolvesAttempted, Resolving
  <2>3. \A t \in Servers : req'[t].pc \in Resolving => t # s
    BY <1>9 DEF Resolving
  <2>4. \A d \in Decisions : Attempted(d) => attempts'[d].outcome # "none"
    BY <1>4, <1>6 DEF Attempted
  <2> QED BY <1>9, <2>2, <2>3, <2>4 DEF ResolvesAttempted, Attempted
<1>14. DeniedBefore'
  <2> SUFFICES ASSUME NEW k1 \in Keys, NEW q \in Revisions, NEW r1 \in Revisions,
                      q < r1, attempts'[<<k1, r1>>].outcome # "none"
               PROVE  attempts'[<<k1, q>>].outcome = "denied"
    BY DEF DeniedBefore, Attempted
  <2>1. CASE <<k1, r1>> = new
    <3>1. k1 = k /\ r1 = r
      BY <2>1, <1>8
    <3>2. attempts[<<k1, q>>].outcome = "denied"
      BY <3>1, <1>5
    <3> QED BY <3>2, <1>4, <1>6, <1>7
  <2>2. CASE <<k1, r1>> # new
    <3>1. Attempted(<<k1, r1>>)
      BY <2>2, <1>6, <1>7 DEF Attempted
    <3>2. attempts[<<k1, q>>].outcome = "denied"
      BY <3>1 DEF GrantInv, DeniedBefore
    <3> QED BY <3>2, <1>4, <1>6, <1>7
  <2> QED BY <2>1, <2>2
<1>15. GrantsAllowed' /\ CachedGrantsAllowed'
  BY <1>2, <1>4, <1>6 DEF GrantInv, GrantsAllowed, CachedGrantsAllowed, Granted, HeldOrClaimed
<1>16. OutcomeStep
  BY <1>4, <1>6 DEF OutcomeStep
<1> QED BY <1>10, <1>11, <1>12, <1>13, <1>14, <1>15, <1>16 DEF GrantInv

\* Recording an effect leaves the attempt pending; one that a human must
\* resolve is no longer decided by any process.
LEMMA EvaluateStep ==
  ASSUME GrantInv, TypeOK', NEW s \in Servers, EvaluateSpend(s)
  PROVE  GrantInv' /\ OutcomeStep
<1> DEFINE d == req[s].d
<1>0. /\ disk \in Store /\ mem \in [Servers -> Store] /\ req \in [Servers -> Requests]
      /\ req[s].pc = "evaluate" /\ req[s] \in Requests /\ d \in Decisions
  BY RequestFields DEF GrantInv, TypeOK, EvaluateSpend
<1>1. PICK e \in Effects :
        /\ disk' = RecordDecision(disk, d, e)
        /\ mem' = [mem EXCEPT ![s] =
                     IF e = "allow" THEN IssueToken(RecordDecision(mem[s], d, e), d, now + AuthTTL)
                     ELSE RecordDecision(mem[s], d, e)]
        /\ req' = [req EXCEPT ![s] = IF e = "needs_approval" THEN Idle
                                     ELSE [req[s] EXCEPT !.pc = "decide"]]
  BY DEF EvaluateSpend
<1>2. attempts' = attempts
  BY DEF EvaluateSpend
<1>3. /\ disk'.effect = [disk.effect EXCEPT ![d] = e]
      /\ disk'.token = disk.token /\ disk'.hold = disk.hold /\ disk'.claim = disk.claim
  BY <1>0, <1>1 DEF RecordDecision, Store
<1>4. \A t \in Servers : mem'[t].hold = mem[t].hold /\ mem'[t].claim = mem[t].claim
  <2>1. /\ RecordDecision(mem[s], d, e).hold = mem[s].hold
        /\ RecordDecision(mem[s], d, e).claim = mem[s].claim
        /\ IssueToken(RecordDecision(mem[s], d, e), d, now + AuthTTL).hold = mem[s].hold
        /\ IssueToken(RecordDecision(mem[s], d, e), d, now + AuthTTL).claim = mem[s].claim
    BY <1>0 DEF RecordDecision, IssueToken, Store
  <2> QED BY <1>0, <1>1, <2>1
<1>5. /\ req'[s].pc \in Deciding => e # "needs_approval" /\ req'[s].d = d
      /\ req'[s].pc \notin Resolving
      /\ \A t \in Servers \ {s} : req'[t] = req[t]
  <2>1. [req[s] EXCEPT !.pc = "decide"].pc = "decide" /\ [req[s] EXCEPT !.pc = "decide"].d = d
    <3>1. req[s] \in [pc : {"evaluate", "decide"}, d : Decisions, at : Nat]
      BY <1>0 DEF Requests, Idle, Down
    <3> QED BY <3>1
  <2> QED BY <1>0, <1>1, <2>1 DEF Deciding, Resolving, Idle
<1>6. /\ attempts[d].outcome = "pending_approval"
      /\ \A t \in Servers \ {s} : req[t].pc \in Deciding => req[t].d # d
  BY <1>0 DEF GrantInv, DecidedAlone, Deciding
<1>7. disk.effect \in [Decisions -> Effects \cup {"none"}]
  BY <1>0, StoreFields
<1> HIDE DEF d
<1>8. Scoped' /\ DeniedBefore'
  BY <1>2 DEF GrantInv, Scoped, DeniedBefore, Attempted
<1>9. UnattemptedIsBlank'
  BY <1>0, <1>2, <1>3, <1>6, <1>7 DEF GrantInv, UnattemptedIsBlank, Attempted
<1>10. DecidedAlone'
  <2>1. \A t \in Servers : req'[t].pc \in Deciding =>
          /\ attempts'[req'[t].d].outcome = "pending_approval"
          /\ disk'.effect[req'[t].d] # "needs_approval"
    <3>1. CASE req'[s].pc \in Deciding
      <4>1. disk'.effect[d] # "needs_approval"
        BY <1>0, <1>3, <1>5, <1>7, <3>1
      <4>2. \A t \in Servers \ {s} : req[t].pc \in Deciding =>
              /\ attempts[req[t].d].outcome = "pending_approval"
              /\ disk'.effect[req[t].d] # "needs_approval"
        <5>1. \A t \in Servers \ {s} : req[t].pc \in Deciding => req[t].d \in Decisions
          BY <1>0, RequestFields DEF Deciding
        <5> QED BY <1>3, <1>6, <1>7, <5>1 DEF GrantInv, DecidedAlone
      <4> QED BY <1>2, <1>5, <1>6, <4>1, <4>2
    <3>2. CASE req'[s].pc \notin Deciding
      <4>1. \A t \in Servers \ {s} : req[t].pc \in Deciding => req[t].d \in Decisions
        BY <1>0, RequestFields DEF Deciding
      <4> QED BY <1>2, <1>3, <1>5, <1>6, <1>7, <3>2, <4>1 DEF GrantInv, DecidedAlone
    <3> QED BY <3>1, <3>2
  <2>2. \A t, u \in Servers : t # u /\ req'[t].pc \in Deciding /\ req'[u].pc \in Deciding
                                => req'[u].d # req'[t].d
    BY <1>5, <1>6 DEF GrantInv, DecidedAlone
  <2> QED BY <2>1, <2>2 DEF DecidedAlone
<1>11. ResolvesAttempted'
  BY <1>2, <1>5 DEF GrantInv, ResolvesAttempted, Attempted
<1>12. GrantsAllowed' /\ CachedGrantsAllowed'
  BY <1>2, <1>3, <1>4 DEF GrantInv, GrantsAllowed, CachedGrantsAllowed, Granted, HeldOrClaimed
<1>13. OutcomeStep
  BY <1>2 DEF OutcomeStep
<1> QED BY <1>8, <1>9, <1>10, <1>11, <1>12, <1>13 DEF GrantInv

\* Closing a pending attempt that no process goes on deciding.  A grant may
\* appear only for that attempt, and only when it is allowed.
LEMMA ResolveStep ==
  ASSUME GrantInv, TypeOK', NEW d \in Decisions, NEW o \in {"allowed", "denied"},
         attempts[d].outcome = "pending_approval",
         attempts' = [attempts EXCEPT ![d].outcome = o],
         disk'.effect = disk.effect,
         \A t \in Servers : req'[t] = req[t] \/ req'[t] = Idle,
         \A t \in Servers : req'[t].pc \in Deciding => req'[t].d # d,
         \A x \in Decisions : Granted(disk', x) => Granted(disk, x) \/ (x = d /\ o = "allowed"),
         \A t \in Servers, x \in Decisions :
            HeldOrClaimed(mem'[t], x) => HeldOrClaimed(mem[t], x) \/ (x = d /\ o = "allowed")
  PROVE  GrantInv' /\ OutcomeStep
<1>0. /\ attempts \in [Decisions -> [scope : Scopes \cup {NoScope}, outcome : Outcomes]]
      /\ req \in [Servers -> Requests]
  BY DEF GrantInv, TypeOK
<1>1. /\ attempts'[d].outcome = o /\ attempts'[d].scope = attempts[d].scope
      /\ \A x \in Decisions \ {d} : attempts'[x] = attempts[x]
  BY <1>0
<1>2. \A k \in Keys, r \in Revisions : <<k, r>> \in Decisions
  BY DEF Decisions
<1>3. \A t \in Servers : req'[t].pc \in Deciding \cup Resolving => req'[t] = req[t] /\ req[t].d \in Decisions
  BY <1>0, RequestFields DEF Deciding, Resolving, Idle
<1>4. Scoped'
  BY <1>1 DEF GrantInv, Scoped, Attempted
<1>5. UnattemptedIsBlank'
  BY <1>1 DEF GrantInv, UnattemptedIsBlank, Attempted
<1>6. DecidedAlone'
  BY <1>1, <1>3 DEF GrantInv, DecidedAlone
<1>7. ResolvesAttempted'
  BY <1>1, <1>3 DEF GrantInv, ResolvesAttempted, Attempted
<1>8. DeniedBefore'
  <2> SUFFICES ASSUME NEW k \in Keys, NEW q \in Revisions, NEW r \in Revisions,
                      q < r, attempts'[<<k, r>>].outcome # "none"
               PROVE  attempts'[<<k, q>>].outcome = "denied"
    BY DEF DeniedBefore, Attempted
  <2>1. attempts[<<k, r>>].outcome # "none"
    BY <1>1, <1>2
  <2>2. attempts[<<k, q>>].outcome = "denied"
    BY <2>1 DEF GrantInv, DeniedBefore, Attempted
  <2> QED BY <1>1, <1>2, <2>2
<1>9. GrantsAllowed' /\ CachedGrantsAllowed'
  <2>1. \A x \in Decisions : Granted(disk, x) => attempts'[x].outcome = "allowed"
    BY <1>1 DEF GrantInv, GrantsAllowed
  <2>2. \A t \in Servers, x \in Decisions : HeldOrClaimed(mem[t], x) => attempts'[x].outcome = "allowed"
    BY <1>1 DEF GrantInv, CachedGrantsAllowed
  <2>3. \A x \in Decisions : Granted(disk', x) => attempts'[x].outcome = "allowed"
    BY <1>1, <2>1
  <2>4. \A t \in Servers, x \in Decisions : HeldOrClaimed(mem'[t], x) => attempts'[x].outcome = "allowed"
    BY <1>1, <2>2
  <2> QED BY <2>3, <2>4 DEF GrantsAllowed, CachedGrantsAllowed, Granted, HeldOrClaimed
<1>10. OutcomeStep
  BY <1>1 DEF OutcomeStep
<1> QED BY <1>4, <1>5, <1>6, <1>7, <1>8, <1>9, <1>10 DEF GrantInv

\* Every denial of a process closes the attempt it is deciding.
LEMMA DenyStep ==
  ASSUME GrantInv, TypeOK', NEW s \in Servers, req[s].pc = "decide", SaveDenied(s, req[s].d)
  PROVE  GrantInv' /\ OutcomeStep
<1> DEFINE d == req[s].d
<1>0. /\ mem \in [Servers -> Store] /\ req \in [Servers -> Requests] /\ d \in Decisions
  BY RequestFields DEF GrantInv, TypeOK
<1>1. /\ attempts' = [attempts EXCEPT ![d].outcome = "denied"]
      /\ mem' = [mem EXCEPT ![s] = DiscardToken(mem[s], d)]
      /\ req' = [req EXCEPT ![s] = Idle]
      /\ disk' = disk
  BY DEF SaveDenied, Finish
<1>2. /\ attempts[d].outcome = "pending_approval"
      /\ \A t \in Servers \ {s} : req[t].pc \in Deciding => req[t].d # d
  BY DEF GrantInv, DecidedAlone, Deciding
<1> HIDE DEF d
<1>3. \A t \in Servers : req'[t] = IF t = s THEN Idle ELSE req[t]
  BY <1>0, <1>1
<1>4. \A t \in Servers : req'[t].pc \in Deciding => req'[t].d # d
  BY <1>2, <1>3 DEF Deciding, Idle
<1>5. /\ DiscardToken(mem[s], d).hold = mem[s].hold
      /\ DiscardToken(mem[s], d).claim = mem[s].claim
  BY <1>0 DEF DiscardToken, Store
<1>6. \A t \in Servers, x \in Decisions : HeldOrClaimed(mem'[t], x) => HeldOrClaimed(mem[t], x)
  BY <1>0, <1>1, <1>5 DEF HeldOrClaimed
<1> QED BY <1>0, <1>1, <1>2, <1>3, <1>4, <1>6, ResolveStep

\* An approval grants the attempt it closes and nothing else.
LEMMA ApproveStep ==
  ASSUME GrantInv, TypeOK', NEW s \in Servers, NEW d \in Decisions, NEW b, NEW expires,
         attempts[d].outcome = "pending_approval",
         \A t \in Servers \ {s} : req[t].pc \in Deciding => req[t].d # d,
         SaveApproved(s, d, b, expires)
  PROVE  GrantInv' /\ OutcomeStep
<1> DEFINE G(st) == IssueToken(ReserveBudget(st, d, b, Amount(d), expires), d, expires)
<1>0. disk \in Store /\ mem \in [Servers -> Store] /\ req \in [Servers -> Requests]
  BY DEF GrantInv, TypeOK
<1>1. /\ attempts' = [attempts EXCEPT ![d].outcome = "allowed"]
      /\ disk' = G(disk)
      /\ mem' = [mem EXCEPT ![s] = G(mem[s])]
      /\ req' = [req EXCEPT ![s] = Idle]
  BY DEF SaveApproved, Finish
<1>2. ASSUME NEW st \in Store
      PROVE  /\ G(st).effect = st.effect /\ G(st).claim = st.claim
             /\ \A x \in Decisions \ {d} : G(st).token[x] = st.token[x] /\ G(st).hold[x] = st.hold[x]
  BY DEF IssueToken, ReserveBudget, Store
<1> HIDE DEF G
<1>3. \A t \in Servers : req'[t] = IF t = s THEN Idle ELSE req[t]
  BY <1>0, <1>1
<1>4. \A t \in Servers : req'[t].pc \in Deciding => req'[t].d # d
  BY <1>3 DEF Deciding, Idle
<1>5. \A x \in Decisions : Granted(disk', x) => Granted(disk, x) \/ x = d
  BY <1>0, <1>1, <1>2 DEF Granted
<1>6. \A x \in Decisions : HeldOrClaimed(G(mem[s]), x) => HeldOrClaimed(mem[s], x) \/ x = d
  BY <1>0, <1>2 DEF HeldOrClaimed
<1>7. \A t \in Servers, x \in Decisions : HeldOrClaimed(mem'[t], x) => HeldOrClaimed(mem[t], x) \/ x = d
  BY <1>0, <1>1, <1>6
<1>8. disk'.effect = disk.effect
  BY <1>0, <1>1, <1>2
<1> QED BY <1>1, <1>3, <1>4, <1>5, <1>7, <1>8, ResolveStep

\* What a human may resolve, no process is deciding.
LEMMA PendingIsFree ==
  ASSUME GrantInv, NEW d \in Decisions, RequirePending(d)
  PROVE  /\ attempts[d].outcome = "pending_approval"
         /\ \A t \in Servers : req[t].pc \in Deciding => req[t].d # d
BY DEF GrantInv, DecidedAlone, RequirePending

\* Every step of a request in progress keeps the invariant.
LEMMA ProceedStep ==
  ASSUME GrantInv, TypeOK', NEW s \in Servers, Proceed(s)
  PROVE  GrantInv' /\ OutcomeStep
<1>0. /\ mem \in [Servers -> Store] /\ req \in [Servers -> Requests]
      /\ req[s].pc \in {"decide", "approve", "decline"} => req[s].d \in Decisions
  BY RequestFields DEF GrantInv, TypeOK
<1>1. CASE AdmitSpendAttempt(s)
  BY <1>1, AdmitStep
<1>2. CASE EvaluateSpend(s)
  BY <1>2, EvaluateStep
<1>3. CASE DenyByPolicy(s) \/ DenyNoAvailableBudget(s) \/ DenyInsufficientBudget(s)
  BY <1>3, DenyStep DEF DenyByPolicy, DenyNoAvailableBudget, DenyInsufficientBudget
<1>4. CASE ApproveAutomatically(s)
  <2>1. req[s].pc = "decide" /\ req[s].d \in Decisions
    BY <1>0, <1>4 DEF ApproveAutomatically
  <2>2. PICK b \in Budgets : SaveApproved(s, req[s].d, b, mem[s].token[req[s].d].expires)
    BY <1>4 DEF ApproveAutomatically
  <2>3. /\ attempts[req[s].d].outcome = "pending_approval"
        /\ \A t \in Servers \ {s} : req[t].pc \in Deciding => req[t].d # req[s].d
    BY <2>1 DEF GrantInv, DecidedAlone, Deciding
  <2> QED BY <2>1, <2>2, <2>3, ApproveStep
<1>5. CASE SaveHumanDeclined(s)
  <2> DEFINE d == req[s].d
  <2>1. /\ d \in Decisions /\ RequirePending(d)
        /\ attempts' = [attempts EXCEPT ![d].outcome = "denied"]
        /\ req' = [req EXCEPT ![s] = Idle]
        /\ disk' = disk /\ mem' = mem
    BY <1>0, <1>5 DEF SaveHumanDeclined, Finish
  <2> HIDE DEF d
  <2>2. \A t \in Servers : req'[t] = req[t] \/ req'[t] = Idle
    BY <1>0, <2>1
  <2>3. \A t \in Servers : req'[t].pc \in Deciding => req'[t].d # d
    BY <2>1, <2>2, PendingIsFree DEF Deciding, Idle
  <2> QED BY <2>1, <2>2, <2>3, PendingIsFree, ResolveStep
<1>6. CASE SaveHumanApproved(s)
  <2>1. req[s].d \in Decisions /\ RequirePending(req[s].d)
    BY <1>0, <1>6 DEF SaveHumanApproved
  <2>2. PICK b \in Budgets : SaveApproved(s, req[s].d, b, now + AuthTTL)
    BY <1>6 DEF SaveHumanApproved
  <2> QED BY <2>1, <2>2, PendingIsFree, ApproveStep
<1>7. CASE SaveExecutorClaim(s)
  BY <1>7, SaveClaimQuiet
<1>8. CASE ReplayExecutorClaim(s)
  BY <1>8, ReplayClaimQuiet
<1>9. CASE SaveBudgetVersion(s) \/ ReplayBudgetVersion(s)
  BY <1>9, BudgetVersionQuiet
<1>10. CASE EndRequest(s)
  BY <1>10, EndRequestQuiet
<1> QED BY <1>1, <1>2, <1>3, <1>4, <1>5, <1>6, <1>7, <1>8, <1>9, <1>10 DEF Proceed

----------------------------------------------------------------------------
(* The theorems *)

\* The initial state satisfies the invariant.
LEMMA InitGrantInv == Init => GrantInv
<1> SUFFICES ASSUME Init PROVE GrantInv
  OBVIOUS
<1>1. TypeOK
  BY EmptyStoreType, RequestTypes DEF Init, TypeOK, NoAttempt, Outcomes
<1>2. \A d \in Decisions : attempts[d] = NoAttempt
  BY DEF Init
<1>3. \A s \in Servers : req[s].pc = "idle"
  BY DEF Init, Idle
<1>4. Scoped /\ DeniedBefore
  BY <1>2 DEF Scoped, DeniedBefore, Attempted, NoAttempt, Decisions
<1>5. UnattemptedIsBlank
  BY DEF Init, UnattemptedIsBlank, EmptyStore
<1>6. DecidedAlone /\ ResolvesAttempted
  BY <1>3 DEF DecidedAlone, ResolvesAttempted, Deciding, Resolving
<1>7. GrantsAllowed /\ CachedGrantsAllowed
  BY DEF Init, GrantsAllowed, CachedGrantsAllowed, Granted, HeldOrClaimed, EmptyStore, NoToken, NoHold, NoClaim
<1> QED BY <1>1, <1>4, <1>5, <1>6, <1>7 DEF GrantInv

\* Every step keeps the invariant and every outcome that is final.
LEMMA NextGrantInv == GrantInv /\ [Next]_vars => GrantInv' /\ OutcomeStep
<1> SUFFICES ASSUME GrantInv, [Next]_vars PROVE GrantInv' /\ OutcomeStep
  OBVIOUS
<1>1. TypeOK'
  BY NextType
<1> QED BY <1>1, AcceptQuiet, ProceedStep, ServeQuiet, EnvironmentQuiet DEF Next

\* The inductive invariant holds whatever the number of server processes.
THEOREM GrantInvariant == Spec => []GrantInv
BY InitGrantInv, NextGrantInv, PTL DEF Spec

\* Attempts, tables, caches and requests keep their types.
THEOREM TypeCorrect == Spec => []TypeOK
<1>1. GrantInv => TypeOK
  BY DEF GrantInv
<1> QED BY <1>1, GrantInvariant, PTL

\* An operation key spends at most once, whatever the number of server
\* processes that share the file, their crashes and their stale caches.
THEOREM OneGrant == Spec => []OneGrantPerKey
<1>1. GrantInv => OneGrantPerKey
  BY DEF GrantInv, DeniedBefore, GrantsAllowed, Granted, OneGrantPerKey
<1> QED BY <1>1, GrantInvariant, PTL

\* Racing resolutions never change an outcome that was committed.
THEOREM OutcomesFinal == Spec => OutcomeFinal
<1>1. GrantInv /\ [Next]_vars => [OutcomeStep]_vars
  BY NextGrantInv
<1> QED BY <1>1, GrantInvariant, PTL DEF Spec, OutcomeFinal, OutcomeStep

----------------------------------------------------------------------------
(* Grants are whole, for any number of server processes *)

\* A claim that a process has cached has its hold cached.
ClaimHeld(st) == \A d \in Decisions : st.claim[d].status # "none" => st.hold[d].status # "none"

CachedClaimsHeld == \A s \in Servers : ClaimHeld(mem[s])

\* The effect a process decides on is the one the file has.
DecidedEffect ==
  \A s \in Servers : req[s].pc = "decide" => mem[s].effect[req[s].d] = disk.effect[req[s].d]

WholeInv == GrantInv /\ GrantIsWhole /\ CachedClaimsHeld /\ DecidedEffect

\* What is granted stays granted, and keeps its amount and its effect.
KeepsGrants(st, new) ==
  \A d \in Decisions :
    /\ new.effect[d] = st.effect[d]
    /\ st.token[d].state # "none" => new.token[d].state # "none"
    /\ st.hold[d].status # "none" => new.hold[d].status # "none"
    /\ new.hold[d].amount = st.hold[d].amount

FitsStep ==
  \A d \in Decisions :
    disk.hold[d].status = "none" /\ disk'.hold[d].status # "none" =>
      LET b == disk'.hold[d].budget
      IN  /\ disk.budget[b].state = "active"
          /\ disk'.hold[d].amount <= disk.balance[b].remaining
          /\ disk'.hold[d].revision = Len(disk.budget[b].versions)

CacheHeld(s) ==
  \A d \in Decisions : \/ mem'[s].hold[d] = disk'.hold[d]
                       \/ mem'[s].claim[d].status # "none" => mem'[s].hold[d].status # "none"

\* A step that allows no attempt and keeps what is granted.
LEMMA WholeStep ==
  ASSUME WholeInv, GrantInv', OutcomeStep,
         \A d \in Decisions : attempts'[d].outcome = "allowed" => attempts[d].outcome = "allowed",
         \A d \in Decisions : attempts[d].outcome = "allowed" =>
            /\ disk'.effect[d] = disk.effect[d]
            /\ disk.token[d].state # "none" => disk'.token[d].state # "none"
            /\ disk.hold[d].status # "none" => disk'.hold[d].status # "none"
            /\ disk'.hold[d].amount = disk.hold[d].amount,
         \A s \in Servers : CacheHeld(s),
         DecidedEffect'
  PROVE  WholeInv' /\ FitsStep
<1>1. GrantIsWhole'
  <2> SUFFICES ASSUME NEW d \in Decisions, attempts'[d].outcome = "allowed"
               PROVE  /\ disk'.token[d].state # "none"
                      /\ disk'.hold[d].status # "none"
                      /\ disk'.hold[d].amount = AmountOf[attempts'[d].scope]
                      /\ disk'.effect[d] \in {"allow", "needs_approval"}
    BY DEF GrantIsWhole, Amount
  <2>1. attempts[d].outcome = "allowed" /\ attempts'[d] = attempts[d]
    BY DEF OutcomeStep
  <2> QED BY <2>1 DEF WholeInv, GrantIsWhole, Amount
<1>2. CachedClaimsHeld'
  <2> SUFFICES ASSUME NEW s \in Servers, NEW d \in Decisions, mem'[s].claim[d].status # "none"
               PROVE  mem'[s].hold[d].status # "none"
    BY DEF CachedClaimsHeld, ClaimHeld
  <2>1. attempts'[d].outcome = "allowed"
    BY DEF GrantInv, CachedGrantsAllowed, HeldOrClaimed
  <2>2. disk'.hold[d].status # "none"
    BY <1>1, <2>1 DEF GrantIsWhole
  <2> QED BY <2>2 DEF CacheHeld
<1>3. FitsStep
  <2> SUFFICES ASSUME NEW d \in Decisions, disk.hold[d].status = "none", disk'.hold[d].status # "none"
               PROVE  FALSE
    BY DEF FitsStep
  <2>1. attempts'[d].outcome = "allowed"
    BY DEF GrantInv, GrantsAllowed, Granted
  <2>2. attempts[d].outcome = "allowed"
    BY <2>1
  <2> QED BY <2>2 DEF WholeInv, GrantIsWhole
<1> QED BY <1>1, <1>2, <1>3 DEF WholeInv

\* The common case: the attempts stay as they are.
LEMMA KeepingStep ==
  ASSUME WholeInv, GrantInv', OutcomeStep, attempts' = attempts, KeepsGrants(disk, disk'),
         \A s \in Servers : CacheHeld(s),
         \A s \in Servers : req'[s].pc = "decide" => req'[s] = req[s] /\ mem'[s].effect = mem[s].effect
  PROVE  WholeInv' /\ FitsStep
<1>1. DecidedEffect'
  <2> SUFFICES ASSUME NEW s \in Servers, req'[s].pc = "decide"
               PROVE  mem'[s].effect[req'[s].d] = disk'.effect[req'[s].d]
    BY DEF DecidedEffect
  <2>1. req'[s] = req[s] /\ mem'[s].effect = mem[s].effect /\ req[s].pc = "decide"
    OBVIOUS
  <2>2. req[s].d \in Decisions
    BY <2>1, RequestFields DEF WholeInv, GrantInv, TypeOK
  <2>3. disk'.effect[req[s].d] = disk.effect[req[s].d]
    BY <2>2 DEF KeepsGrants
  <2> QED BY <2>1, <2>3 DEF WholeInv, DecidedEffect
<1>2. \A d \in Decisions :
            /\ disk'.effect[d] = disk.effect[d]
            /\ disk.token[d].state # "none" => disk'.token[d].state # "none"
            /\ disk.hold[d].status # "none" => disk'.hold[d].status # "none"
            /\ disk'.hold[d].amount = disk.hold[d].amount
  BY DEF KeepsGrants
<1> QED BY <1>1, <1>2, WholeStep

\* A cache that does not change holds what it claims.
LEMMA SameCacheHeld ==
  ASSUME WholeInv, NEW s \in Servers, mem'[s].hold = mem[s].hold, mem'[s].claim = mem[s].claim
  PROVE  CacheHeld(s)
BY DEF WholeInv, CachedClaimsHeld, ClaimHeld, CacheHeld

\* The sweep keeps what is granted, and what is claimed held.
LEMMA ExpireKeeps ==
  ASSUME NEW st \in Store, NEW t \in Nat
  PROVE  /\ KeepsGrants(st, ExpireOverdueBudgetHolds(st, t))
         /\ ClaimHeld(st) => ClaimHeld(ExpireOverdueBudgetHolds(st, t))
<1> DEFINE new == ExpireOverdueBudgetHolds(st, t)
<1>1. /\ new.effect = st.effect /\ new.token = st.token /\ new.claim = st.claim
      /\ \A d \in Decisions :
           /\ new.hold[d].status = IF d \in Overdue(st, t) THEN "expired" ELSE st.hold[d].status
           /\ new.hold[d].amount = st.hold[d].amount
  BY ExpireFields
<1> HIDE DEF new
<1>2. KeepsGrants(st, new) /\ (ClaimHeld(st) => ClaimHeld(new))
  BY <1>1 DEF KeepsGrants, ClaimHeld
<1> QED BY <1>2 DEF new

\* Accepting a request keeps grants whole.
LEMMA AcceptWhole ==
  ASSUME WholeInv, GrantInv', OutcomeStep, NEW s \in Servers, NEW r, Receive(s, r),
         r.pc # "decide"
  PROVE  WholeInv' /\ FitsStep
<1>0. /\ disk \in Store /\ mem \in [Servers -> Store] /\ now \in Nat
      /\ req \in [Servers -> Requests]
  BY DEF WholeInv, GrantInv, TypeOK
<1>1. /\ disk' = ExpireOverdueBudgetHolds(disk, now)
      /\ mem' = [mem EXCEPT ![s] = ExpireOverdueBudgetHolds(mem[s], now)]
      /\ req' = [req EXCEPT ![s] = r]
      /\ attempts' = attempts
  BY DEF Receive
<1>2. KeepsGrants(disk, disk')
  BY <1>0, <1>1, ExpireKeeps
<1>3. \A t \in Servers : ClaimHeld(mem'[t])
  BY <1>0, <1>1, ExpireKeeps DEF WholeInv, CachedClaimsHeld
<1>4. \A t \in Servers : req'[t].pc = "decide" => req'[t] = req[t] /\ mem'[t].effect = mem[t].effect
  BY <1>0, <1>1
<1>5. \A t \in Servers : CacheHeld(t)
  BY <1>3 DEF CacheHeld, ClaimHeld
<1> QED BY <1>1, <1>2, <1>4, <1>5, KeepingStep

\* So does saving a finalization that keeps them.
LEMMA FinalizationWhole ==
  ASSUME WholeInv, GrantInv', OutcomeStep, NEW s \in Servers, NEW d \in Decisions,
         NEW st \in Store, SaveFinalization(s, d, st), KeepsGrants(disk, st)
  PROVE  WholeInv' /\ FitsStep
<1>0. mem \in [Servers -> Store] /\ req \in [Servers -> Requests]
  BY DEF WholeInv, GrantInv, TypeOK
<1>1. /\ disk' = st
      /\ mem' = [mem EXCEPT ![s] = ApplyPersistedFinalization(mem[s], st, d)]
      /\ attempts' = attempts /\ req' = req
  BY DEF SaveFinalization
<1> DEFINE new == ApplyPersistedFinalization(mem[s], st, d)
<1>2. /\ new.effect = mem[s].effect
      /\ \A x \in Decisions :
              /\ new.hold[x] = IF x = d THEN st.hold[x] ELSE mem[s].hold[x]
              /\ new.claim[x] = IF x = d THEN st.claim[x] ELSE mem[s].claim[x]
  BY <1>0, ApplyFinalizationFields
<1>3. mem'[s] = new /\ \A t \in Servers \ {s} : mem'[t] = mem[t]
  BY <1>0, <1>1
<1> HIDE DEF new
<1>4. CacheHeld(s)
  BY <1>1, <1>2, <1>3 DEF CacheHeld, WholeInv, CachedClaimsHeld, ClaimHeld
<1>5. \A t \in Servers : CacheHeld(t)
  BY <1>3, <1>4, SameCacheHeld
<1>6. \A t \in Servers : mem'[t].effect = mem[t].effect
  BY <1>2, <1>3
<1> QED BY <1>1, <1>5, <1>6, KeepingStep

\* So does publishing a budget change, which changes no hold.
LEMMA PublishWhole ==
  ASSUME WholeInv, GrantInv', OutcomeStep, NEW s \in Servers, NEW st \in Store,
         PublishBudgetState(s, st),
         st.effect = disk.effect, st.token = disk.token, st.hold = disk.hold,
         \A t \in Servers : req'[t] = req[t] \/ req'[t] = Idle
  PROVE  WholeInv' /\ FitsStep
<1>0. mem \in [Servers -> Store]
  BY DEF WholeInv, GrantInv, TypeOK
<1>1. /\ disk' = st
      /\ mem' = [mem EXCEPT ![s] = ApplyCommittedState(mem[s], st)]
      /\ attempts' = attempts
  BY DEF PublishBudgetState
<1> DEFINE new == ApplyCommittedState(mem[s], st)
<1>2. new.effect = mem[s].effect /\ new.hold = st.hold
  BY <1>0, ApplyCommittedFields
<1>3. mem'[s] = new /\ \A t \in Servers \ {s} : mem'[t] = mem[t]
  BY <1>0, <1>1
<1> HIDE DEF new
<1>4. \A t \in Servers : CacheHeld(t)
  BY <1>1, <1>2, <1>3, SameCacheHeld DEF CacheHeld
<1>5. \A t \in Servers : req'[t].pc = "decide" => req'[t] = req[t] /\ mem'[t].effect = mem[t].effect
  BY <1>2, <1>3 DEF Idle
<1>6. KeepsGrants(disk, disk')
  BY <1>1 DEF KeepsGrants
<1> QED BY <1>1, <1>4, <1>5, <1>6, KeepingStep

\* Ending a claim or a hold keeps the grant.
LEMMA FinalizeKeeps ==
  ASSUME NEW st \in Store, NEW d \in Decisions, NEW c, NEW r
  PROVE  /\ KeepsGrants(st, SettleClaim(st, d, c, r))
         /\ KeepsGrants(st, ReleaseHold(st, d))
         /\ KeepsGrants(st, ReleaseClaim(st, d, r))
         /\ KeepsGrants(st, st)
<1>1. KeepsGrants(st, SettleClaim(st, d, c, r))
  <2> DEFINE new == SettleClaim(st, d, c, r)
  <2>1. /\ new.effect = st.effect
        /\ \A x \in Decisions \ {d} : new.token[x] = st.token[x] /\ new.hold[x] = st.hold[x]
        /\ new.token[d].state = "used" /\ new.hold[d].status = "settled"
        /\ new.hold[d].amount = st.hold[d].amount
    BY SettleFields
  <2> HIDE DEF new
  <2>2. KeepsGrants(st, new)
    BY <2>1 DEF KeepsGrants
  <2> QED BY <2>2 DEF new
<1>2. KeepsGrants(st, ReleaseHold(st, d))
  <2> DEFINE new == ReleaseHold(st, d)
  <2>1. /\ new.effect = st.effect
        /\ \A x \in Decisions \ {d} : new.token[x] = st.token[x] /\ new.hold[x] = st.hold[x]
        /\ new.token[d].state = "revoked" /\ new.hold[d].status = "released"
        /\ new.hold[d].amount = st.hold[d].amount
    BY ReleaseFields
  <2> HIDE DEF new
  <2>2. KeepsGrants(st, new)
    BY <2>1 DEF KeepsGrants
  <2> QED BY <2>2 DEF new
<1>3. KeepsGrants(st, ReleaseClaim(st, d, r))
  <2> DEFINE new == ReleaseClaim(st, d, r)
             rel == ReleaseHold(st, d)
  <2>1. new.effect = rel.effect /\ new.token = rel.token /\ new.hold = rel.hold
    BY ReleaseClaimFields
  <2> HIDE DEF new, rel
  <2>2. KeepsGrants(st, rel)
    BY <1>2 DEF rel
  <2>3. KeepsGrants(st, new)
    BY <2>1, <2>2 DEF KeepsGrants
  <2> QED BY <2>3 DEF new
<1>4. KeepsGrants(st, st)
  BY DEF KeepsGrants
<1> QED BY <1>1, <1>2, <1>3, <1>4

\* The requests that one transaction serves keep grants whole.
LEMMA ServeWhole ==
  ASSUME WholeInv, GrantInv', OutcomeStep, NEW s \in Servers, Serve(s)
  PROVE  WholeInv' /\ FitsStep
<1>0. disk \in Store /\ disk' \in Store
  BY DEF WholeInv, GrantInv, TypeOK
<1>1. CASE SettleExecutorClaim(s) \/ ReconcileAsBilled(s)
  <2>0. PICK d \in Decisions : \E c, r : SaveFinalization(s, d, SettleClaim(disk, d, c, r))
    BY <1>1 DEF SettleExecutorClaim, ReconcileAsBilled
  <2>1. PICK c, r : SaveFinalization(s, d, SettleClaim(disk, d, c, r))
    BY <2>0
  <2>2. disk' = SettleClaim(disk, d, c, r)
    BY <2>1 DEF SaveFinalization
  <2> QED BY <1>0, <2>1, <2>2, FinalizeKeeps, FinalizationWhole
<1>2. CASE ReleaseExecutorClaim(s) \/ ReconcileAsNotBilled(s)
  <2>0. PICK d \in Decisions : \E r : SaveFinalization(s, d, ReleaseClaim(disk, d, r))
    BY <1>2 DEF ReleaseExecutorClaim, ReconcileAsNotBilled
  <2>1. PICK r : SaveFinalization(s, d, ReleaseClaim(disk, d, r))
    BY <2>0
  <2>2. disk' = ReleaseClaim(disk, d, r)
    BY <2>1 DEF SaveFinalization
  <2> QED BY <1>0, <2>1, <2>2, FinalizeKeeps, FinalizationWhole
<1>3. CASE VoidUnclaimedAuthorization(s)
  <2>1. PICK d \in Decisions : SaveFinalization(s, d, ReleaseHold(disk, d))
    BY <1>3 DEF VoidUnclaimedAuthorization
  <2>2. disk' = ReleaseHold(disk, d)
    BY <2>1 DEF SaveFinalization
  <2> QED BY <1>0, <2>1, <2>2, FinalizeKeeps, FinalizationWhole
<1>4. CASE ReplayFinalization(s) \/ ReplayVoid(s)
  <2>1. PICK d \in Decisions : SaveFinalization(s, d, disk)
    BY <1>4 DEF ReplayFinalization, ReplayVoid
  <2> QED BY <1>0, <2>1, FinalizeKeeps, FinalizationWhole
<1>5. CASE CreateSingleBudget(s) \/ RevokeSingleBudget(s)
  <2>0. PICK b \in Budgets : \E l : /\ PublishBudgetState(s, disk')
                                    /\ \/ disk' = CreateBudget(disk, b, l)
                                       \/ disk' = RevokeBudget(disk, b)
                                    /\ req' = req
    BY <1>5 DEF CreateSingleBudget, RevokeSingleBudget, PublishBudgetState
  <2>1. PICK l : /\ PublishBudgetState(s, disk')
                 /\ \/ disk' = CreateBudget(disk, b, l)
                    \/ disk' = RevokeBudget(disk, b)
                 /\ req' = req
    BY <2>0
  <2>2. disk'.effect = disk.effect /\ disk'.token = disk.token /\ disk'.hold = disk.hold
    BY <1>0, <2>1, AdministrationFields
  <2> QED BY <1>0, <2>1, <2>2, PublishWhole
<1> QED BY <1>1, <1>2, <1>3, <1>4, <1>5 DEF Serve

\* An approval reserves what fits and makes the grant whole.
LEMMA ApproveWhole ==
  ASSUME WholeInv, GrantInv', OutcomeStep, NEW s \in Servers, NEW d \in Decisions,
         NEW b \in Budgets, NEW e, SaveApproved(s, d, b, e),
         attempts[d].outcome = "pending_approval",
         disk.effect[d] \in {"allow", "needs_approval"}
  PROVE  WholeInv' /\ FitsStep
<1>0. /\ disk \in Store /\ mem \in [Servers -> Store] /\ req \in [Servers -> Requests]
      /\ attempts \in [Decisions -> [scope : Scopes \cup {NoScope}, outcome : Outcomes]]
  BY DEF WholeInv, GrantInv, TypeOK
<1> DEFINE a == Amount(d)
           granted == IssueToken(ReserveBudget(mem[s], d, b, a, e), d, e)
<1>1. /\ disk' = IssueToken(ReserveBudget(disk, d, b, a, e), d, e)
      /\ mem' = [mem EXCEPT ![s] = granted]
      /\ attempts' = [attempts EXCEPT ![d].outcome = "allowed"]
      /\ req' = [req EXCEPT ![s] = Idle]
  BY DEF SaveApproved, Finish
<1> HIDE DEF a
<1>2. /\ disk'.effect = disk.effect
      /\ disk'.token[d].state = "live"
      /\ disk'.hold[d].status = "frozen" /\ disk'.hold[d].budget = b /\ disk'.hold[d].amount = a
      /\ disk'.hold[d].revision = Len(disk.budget[b].versions)
      /\ \A x \in Decisions \ {d} : disk'.token[x] = disk.token[x] /\ disk'.hold[x] = disk.hold[x]
  <2>1. disk \in Store
    BY <1>0
  <2> QED BY <1>1, <2>1, GrantFields
<1>3. /\ granted.effect = mem[s].effect /\ granted.claim = mem[s].claim
      /\ granted.hold[d].status = "frozen"
      /\ \A x \in Decisions \ {d} : granted.hold[x] = mem[s].hold[x]
  <2>1. mem[s] \in Store
    BY <1>0
  <2> QED BY <2>1, GrantFields
<1> HIDE DEF granted
<1>4. /\ mem'[s] = granted /\ req'[s] = Idle
      /\ \A t \in Servers \ {s} : mem'[t] = mem[t] /\ req'[t] = req[t]
  BY <1>0, <1>1
<1>6. /\ attempts'[d].scope = attempts[d].scope
      /\ \A x \in Decisions \ {d} : attempts'[x] = attempts[x]
  BY <1>0, <1>1
<1>7. GrantIsWhole'
  <2> SUFFICES ASSUME NEW x \in Decisions, attempts'[x].outcome = "allowed"
               PROVE  /\ disk'.token[x].state # "none"
                      /\ disk'.hold[x].status # "none"
                      /\ disk'.hold[x].amount = AmountOf[attempts'[x].scope]
                      /\ disk'.effect[x] \in {"allow", "needs_approval"}
    BY DEF GrantIsWhole, Amount
  <2>1. CASE x = d
    BY <1>2, <1>6, <2>1 DEF Amount, a
  <2>2. CASE x # d
    BY <1>2, <1>6, <2>2 DEF WholeInv, GrantIsWhole, Amount
  <2> QED BY <2>1, <2>2
<1>8. CachedClaimsHeld'
  <2> SUFFICES ASSUME NEW t \in Servers, NEW x \in Decisions, mem'[t].claim[x].status # "none"
               PROVE  mem'[t].hold[x].status # "none"
    BY DEF CachedClaimsHeld, ClaimHeld
  <2>1. CASE t # s
    BY <1>4, <2>1 DEF WholeInv, CachedClaimsHeld, ClaimHeld
  <2>2. CASE t = s
    <3>1. mem[s].hold[x].status # "none"
      BY <1>3, <1>4, <2>2 DEF WholeInv, CachedClaimsHeld, ClaimHeld
    <3> QED BY <1>3, <1>4, <2>2, <3>1
  <2> QED BY <2>1, <2>2
<1>9. DecidedEffect'
  BY <1>2, <1>4 DEF WholeInv, DecidedEffect, Idle
<1>10. FitsStep
  <2>1. /\ disk.budget[b] = mem[s].budget[b] /\ disk.balance[b] = mem[s].balance[b]
        /\ mem[s].balance[b].remaining >= a
        /\ AllowsReservation(mem[s], b, req[s].at)
    BY DEF SaveApproved, SnapshotFresh, Reserves, a
  <2>2. mem[s].budget[b].state \in AdminStates /\ mem[s].balance[b].remaining \in Int
    BY <1>0, StoreFields DEF Budget, Balance
  <2>3. mem[s].budget[b].state = "active"
    <3>1. mem[s].budget[b].state # "absent"
      BY <2>1 DEF AllowsReservation, Exists
    <3>2. mem[s].budget[b].state # "revoked"
      BY <2>1 DEF AllowsReservation, Availability
    <3> QED BY <2>2, <3>1, <3>2 DEF AdminStates
  <2>4. a \in Int
    <3>1. Amount(d) \in Amounts
      BY AmountType DEF WholeInv, GrantInv, Attempted
    <3> QED BY <3>1, AmountAssumption DEF Amounts, a
  <2>5. a <= disk.balance[b].remaining
    BY <2>1, <2>2, <2>4
  <2> QED BY <1>2, <2>1, <2>3, <2>5 DEF FitsStep
<1> QED BY <1>7, <1>8, <1>9, <1>10 DEF WholeInv

\* A first claim keeps grants whole.
LEMMA SaveClaimWhole ==
  ASSUME WholeInv, GrantInv', OutcomeStep, NEW s \in Servers, SaveExecutorClaim(s)
  PROVE  WholeInv' /\ FitsStep
<1> DEFINE d == req[s].d
           e == now + ClaimTTL
           claimed == ClaimHold(mem[s], d, e)
<1>0. /\ disk \in Store /\ mem \in [Servers -> Store] /\ req \in [Servers -> Requests]
      /\ d \in Decisions
  BY RequestFields DEF WholeInv, GrantInv, TypeOK, SaveExecutorClaim
<1>1. /\ disk' = ClaimHold(disk, d, e)
      /\ mem' = [mem EXCEPT ![s] = claimed]
      /\ req' = [req EXCEPT ![s] = Idle]
      /\ attempts' = attempts
  BY DEF SaveExecutorClaim, Finish
<1> HIDE DEF d, e
<1>2. /\ disk'.effect = disk.effect /\ disk'.token = disk.token
      /\ \A x \in Decisions \ {d} : disk'.hold[x] = disk.hold[x]
      /\ disk'.hold[d].status = "claimed" /\ disk'.hold[d].amount = disk.hold[d].amount
  <2>1. disk \in Store
    BY <1>0
  <2> QED BY <1>0, <1>1, <2>1, ClaimFields
<1>3. /\ claimed.hold[d].status = "claimed" /\ claimed.effect = mem[s].effect
      /\ \A x \in Decisions \ {d} : /\ claimed.hold[x] = mem[s].hold[x]
                                    /\ claimed.claim[x] = mem[s].claim[x]
  <2>1. mem[s] \in Store
    BY <1>0
  <2> QED BY <1>0, <2>1, ClaimFields
<1> HIDE DEF claimed
<1>4. /\ mem'[s] = claimed /\ req'[s] = Idle
      /\ \A t \in Servers \ {s} : mem'[t] = mem[t] /\ req'[t] = req[t]
  BY <1>0, <1>1
<1>5. CacheHeld(s)
  BY <1>3, <1>4 DEF CacheHeld, WholeInv, CachedClaimsHeld, ClaimHeld
<1>6. \A t \in Servers : CacheHeld(t)
  BY <1>4, <1>5, SameCacheHeld
<1>7. KeepsGrants(disk, disk')
  BY <1>2 DEF KeepsGrants
<1>8. \A t \in Servers : req'[t].pc = "decide" => req'[t] = req[t] /\ mem'[t].effect = mem[t].effect
  BY <1>4 DEF Idle
<1> QED BY <1>1, <1>6, <1>7, <1>8, KeepingStep

\* A repeated claim writes a cached hold to the file, which is one.
LEMMA ReplayClaimWhole ==
  ASSUME WholeInv, GrantInv', OutcomeStep, NEW s \in Servers, ReplayExecutorClaim(s)
  PROVE  WholeInv' /\ FitsStep
<1> DEFINE d == req[s].d
<1>0. /\ disk \in Store /\ mem \in [Servers -> Store] /\ req \in [Servers -> Requests]
      /\ d \in Decisions
  BY RequestFields DEF WholeInv, GrantInv, TypeOK, ReplayExecutorClaim
<1>1. /\ mem[s].claim[d].status # "none"
      /\ disk' = [disk EXCEPT !.hold[d].status = mem[s].hold[d].status,
                              !.hold[d].expires = mem[s].hold[d].expires]
      /\ mem' = mem
      /\ req' = [req EXCEPT ![s] = Idle]
      /\ attempts' = attempts
  BY DEF ReplayExecutorClaim, Finish
<1> HIDE DEF d
<1> DEFINE h == [disk.hold[d] EXCEPT !.status = mem[s].hold[d].status,
                                     !.expires = mem[s].hold[d].expires]
           hold == [disk.hold EXCEPT ![d] = h]
<1>2. disk' = [disk EXCEPT !.hold = hold]
  BY <1>0, <1>1 DEF Store, Hold
<1>3. disk.hold \in [Decisions -> Hold]
  BY <1>0, StoreFields
<1>4. h.status = mem[s].hold[d].status /\ h.amount = disk.hold[d].amount
  BY <1>0, <1>3 DEF Hold
<1> HIDE DEF h
<1>5. hold[d] = h /\ \A x \in Decisions \ {d} : hold[x] = disk.hold[x]
  BY <1>0, <1>3
<1> HIDE DEF hold
<1>6. disk'.effect = disk.effect /\ disk'.token = disk.token /\ disk'.hold = hold
  BY <1>0, <1>2 DEF Store
<1>7. mem[s].hold[d].status # "none"
  BY <1>0, <1>1 DEF WholeInv, CachedClaimsHeld, ClaimHeld
<1>8. KeepsGrants(disk, disk')
  BY <1>4, <1>5, <1>6, <1>7 DEF KeepsGrants
<1>9. \A t \in Servers : CacheHeld(t)
  BY <1>1, SameCacheHeld
<1>10. \A t \in Servers : req'[t].pc = "decide" => req'[t] = req[t] /\ mem'[t].effect = mem[t].effect
  BY <1>0, <1>1 DEF Idle
<1> QED BY <1>1, <1>8, <1>9, <1>10, KeepingStep

\* A step that leaves the file alone, allows nothing and at most discards a
\* token that a process has cached.
LEMMA AttemptWhole ==
  ASSUME WholeInv, GrantInv', OutcomeStep, disk' = disk,
         \A d \in Decisions : attempts'[d].outcome = "allowed" => attempts[d].outcome = "allowed",
         \A t \in Servers : /\ mem'[t].effect = mem[t].effect
                            /\ mem'[t].hold = mem[t].hold
                            /\ mem'[t].claim = mem[t].claim,
         \A t \in Servers : req'[t].pc = "decide" => req'[t] = req[t]
  PROVE  WholeInv' /\ FitsStep
<1>1. \A t \in Servers : CacheHeld(t)
  BY SameCacheHeld
<1>2. DecidedEffect'
  BY DEF WholeInv, DecidedEffect
<1> QED BY <1>1, <1>2, WholeStep

\* Recording an effect keeps grants whole: the decision has none yet.
LEMMA EvaluateWhole ==
  ASSUME WholeInv, GrantInv', OutcomeStep, NEW s \in Servers, EvaluateSpend(s)
  PROVE  WholeInv' /\ FitsStep
<1> DEFINE d == req[s].d
<1>0. /\ disk \in Store /\ mem \in [Servers -> Store] /\ req \in [Servers -> Requests]
      /\ req[s].pc = "evaluate" /\ req[s] \in Requests /\ d \in Decisions
  BY RequestFields DEF WholeInv, GrantInv, TypeOK, EvaluateSpend
<1>1. PICK e \in Effects :
        /\ disk' = RecordDecision(disk, d, e)
        /\ mem' = [mem EXCEPT ![s] =
                     IF e = "allow" THEN IssueToken(RecordDecision(mem[s], d, e), d, now + AuthTTL)
                     ELSE RecordDecision(mem[s], d, e)]
        /\ req' = [req EXCEPT ![s] = IF e = "needs_approval" THEN Idle
                                     ELSE [req[s] EXCEPT !.pc = "decide"]]
  BY DEF EvaluateSpend
<1>2. attempts' = attempts
  BY DEF EvaluateSpend
<1>3. /\ disk'.effect = [disk.effect EXCEPT ![d] = e]
      /\ disk'.token = disk.token /\ disk'.hold = disk.hold
  BY <1>0, <1>1 DEF RecordDecision, Store
<1>4. /\ mem'[s].effect = [mem[s].effect EXCEPT ![d] = e]
      /\ mem'[s].hold = mem[s].hold /\ mem'[s].claim = mem[s].claim
  <2>1. /\ RecordDecision(mem[s], d, e).hold = mem[s].hold
        /\ RecordDecision(mem[s], d, e).claim = mem[s].claim
        /\ RecordDecision(mem[s], d, e).effect = [mem[s].effect EXCEPT ![d] = e]
        /\ IssueToken(RecordDecision(mem[s], d, e), d, now + AuthTTL).hold = mem[s].hold
        /\ IssueToken(RecordDecision(mem[s], d, e), d, now + AuthTTL).claim = mem[s].claim
        /\ IssueToken(RecordDecision(mem[s], d, e), d, now + AuthTTL).effect
             = [mem[s].effect EXCEPT ![d] = e]
    BY <1>0 DEF RecordDecision, IssueToken, Store
  <2> QED BY <1>0, <1>1, <2>1
<1>5. \A t \in Servers \ {s} : req'[t] = req[t] /\ mem'[t] = mem[t]
  BY <1>0, <1>1
<1>6. req'[s].pc = "decide" => req'[s].d = d
  <2>1. req[s] \in [pc : {"evaluate", "decide"}, d : Decisions, at : Nat]
    BY <1>0 DEF Requests, Idle, Down
  <2>2. [req[s] EXCEPT !.pc = "decide"].d = d
    BY <2>1
  <2> QED BY <1>0, <1>1, <2>2 DEF Idle
<1>7. /\ attempts[d].outcome = "pending_approval"
      /\ \A t \in Servers \ {s} : req[t].pc \in Deciding => req[t].d # d
  BY <1>0 DEF WholeInv, GrantInv, DecidedAlone, Deciding
<1>8. disk.effect \in [Decisions -> Effects \cup {"none"}]
      /\ mem[s].effect \in [Decisions -> Effects \cup {"none"}]
  BY <1>0, StoreFields
<1> HIDE DEF d
<1>9. \A x \in Decisions \ {d} : disk'.effect[x] = disk.effect[x]
  BY <1>3, <1>8
<1>10. DecidedEffect'
  <2> SUFFICES ASSUME NEW t \in Servers, req'[t].pc = "decide"
               PROVE  mem'[t].effect[req'[t].d] = disk'.effect[req'[t].d]
    BY DEF DecidedEffect
  <2>1. CASE t = s
    BY <1>0, <1>3, <1>4, <1>6, <1>8, <2>1
  <2>2. CASE t # s
    <3>1. req'[t] = req[t] /\ mem'[t] = mem[t] /\ req[t].pc = "decide"
      BY <1>5, <2>2
    <3>2. req[t].d \in Decisions \ {d}
      BY <1>0, <1>7, <2>2, <3>1, RequestFields DEF Deciding
    <3>3. mem[t].effect[req[t].d] = disk.effect[req[t].d]
      BY <3>1 DEF WholeInv, DecidedEffect
    <3> QED BY <1>9, <3>1, <3>2, <3>3
  <2> QED BY <2>1, <2>2
<1>11. \A t \in Servers : CacheHeld(t)
  BY <1>4, <1>5, SameCacheHeld
<1>12. \A x \in Decisions : attempts[x].outcome = "allowed" =>
            /\ disk'.effect[x] = disk.effect[x]
            /\ disk.token[x].state # "none" => disk'.token[x].state # "none"
            /\ disk.hold[x].status # "none" => disk'.hold[x].status # "none"
            /\ disk'.hold[x].amount = disk.hold[x].amount
  BY <1>3, <1>7, <1>9
<1>13. \A x \in Decisions : attempts'[x].outcome = "allowed" => attempts[x].outcome = "allowed"
  BY <1>2
<1> QED BY <1>10, <1>11, <1>12, <1>13, WholeStep

\* A denial changes an attempt and at most a cached token.
LEMMA DenyWhole ==
  ASSUME WholeInv, GrantInv', OutcomeStep, NEW s \in Servers, NEW d \in Decisions, SaveDenied(s, d)
  PROVE  WholeInv' /\ FitsStep
<1>0. /\ mem \in [Servers -> Store] /\ req \in [Servers -> Requests]
      /\ attempts \in [Decisions -> [scope : Scopes \cup {NoScope}, outcome : Outcomes]]
  BY DEF WholeInv, GrantInv, TypeOK
<1> DEFINE new == DiscardToken(mem[s], d)
<1>1. /\ attempts' = [attempts EXCEPT ![d].outcome = "denied"]
      /\ mem' = [mem EXCEPT ![s] = new]
      /\ req' = [req EXCEPT ![s] = Idle]
      /\ disk' = disk
  BY DEF SaveDenied, Finish
<1>2. new.effect = mem[s].effect /\ new.hold = mem[s].hold /\ new.claim = mem[s].claim
  BY <1>0 DEF DiscardToken, Store
<1> HIDE DEF new
<1>3. \A t \in Servers : /\ mem'[t].effect = mem[t].effect
                         /\ mem'[t].hold = mem[t].hold
                         /\ mem'[t].claim = mem[t].claim
  BY <1>0, <1>1, <1>2
<1>4. \A t \in Servers : req'[t].pc = "decide" => req'[t] = req[t]
  BY <1>0, <1>1 DEF Idle
<1>5. \A x \in Decisions : attempts'[x].outcome = "allowed" => attempts[x].outcome = "allowed"
  BY <1>0, <1>1
<1> QED BY <1>1, <1>3, <1>4, <1>5, AttemptWhole

\* Every step of a request in progress keeps grants whole.
LEMMA ProceedWhole ==
  ASSUME WholeInv, GrantInv', OutcomeStep, NEW s \in Servers, Proceed(s)
  PROVE  WholeInv' /\ FitsStep
<1>0. /\ disk \in Store /\ disk' \in Store /\ mem \in [Servers -> Store]
      /\ req \in [Servers -> Requests]
      /\ attempts \in [Decisions -> [scope : Scopes \cup {NoScope}, outcome : Outcomes]]
      /\ req[s].pc \in {"decide", "approve", "decline"} => req[s].d \in Decisions
  BY RequestFields DEF WholeInv, GrantInv, TypeOK
<1>1. CASE AdmitSpendAttempt(s)
  <2> DEFINE new(r) == [scope |-> req[s].scope, outcome |-> "pending_approval"]
             next(r) == [pc |-> "evaluate", d |-> <<req[s].key, r>>, at |-> req[s].at]
  <2>1. PICK r \in Revisions : /\ attempts' = [attempts EXCEPT ![<<req[s].key, r>>] = new(r)]
                               /\ req' = [req EXCEPT ![s] = next(r)]
    BY <1>1 DEF AdmitSpendAttempt
  <2>2. disk' = disk /\ mem' = mem
    BY <1>1 DEF AdmitSpendAttempt
  <2>3. \A x \in Decisions : attempts'[x].outcome = "allowed" => attempts[x].outcome = "allowed"
    BY <1>0, <2>1
  <2>4. \A t \in Servers : req'[t].pc = "decide" => req'[t] = req[t]
    BY <1>0, <2>1
  <2> QED BY <2>2, <2>3, <2>4, AttemptWhole
<1>2. CASE EvaluateSpend(s)
  BY <1>2, EvaluateWhole
<1>3. CASE DenyByPolicy(s) \/ DenyNoAvailableBudget(s) \/ DenyInsufficientBudget(s)
  BY <1>0, <1>3, DenyWhole DEF DenyByPolicy, DenyNoAvailableBudget, DenyInsufficientBudget
<1>4. CASE ApproveAutomatically(s)
  <2>1. /\ req[s].pc = "decide" /\ req[s].d \in Decisions
        /\ mem[s].effect[req[s].d] = "allow"
    BY <1>0, <1>4 DEF ApproveAutomatically
  <2>2. PICK b \in Budgets : SaveApproved(s, req[s].d, b, mem[s].token[req[s].d].expires)
    BY <1>4 DEF ApproveAutomatically
  <2>3. attempts[req[s].d].outcome = "pending_approval"
    BY <2>1 DEF WholeInv, GrantInv, DecidedAlone, Deciding
  <2>4. disk.effect[req[s].d] = "allow"
    BY <2>1 DEF WholeInv, DecidedEffect
  <2> QED BY <2>1, <2>2, <2>3, <2>4, ApproveWhole
<1>5. CASE SaveHumanDeclined(s)
  <2> DEFINE d == req[s].d
  <2>1. /\ d \in Decisions
        /\ attempts' = [attempts EXCEPT ![d].outcome = "denied"]
        /\ req' = [req EXCEPT ![s] = Idle]
        /\ disk' = disk /\ mem' = mem
    BY <1>0, <1>5 DEF SaveHumanDeclined, Finish
  <2> HIDE DEF d
  <2>2. \A t \in Servers : req'[t].pc = "decide" => req'[t] = req[t]
    BY <1>0, <2>1 DEF Idle
  <2>3. \A x \in Decisions : attempts'[x].outcome = "allowed" => attempts[x].outcome = "allowed"
    BY <1>0, <2>1
  <2> QED BY <2>1, <2>2, <2>3, AttemptWhole
<1>6. CASE SaveHumanApproved(s)
  <2>1. req[s].d \in Decisions /\ RequirePending(req[s].d)
    BY <1>0, <1>6 DEF SaveHumanApproved
  <2>2. PICK b \in Budgets : SaveApproved(s, req[s].d, b, now + AuthTTL)
    BY <1>6 DEF SaveHumanApproved
  <2>3. attempts[req[s].d].outcome = "pending_approval" /\ disk.effect[req[s].d] = "needs_approval"
    BY <2>1 DEF RequirePending
  <2> QED BY <2>1, <2>2, <2>3, ApproveWhole
<1>7. CASE SaveExecutorClaim(s)
  BY <1>7, SaveClaimWhole
<1>8. CASE ReplayExecutorClaim(s)
  BY <1>8, ReplayClaimWhole
<1>9. CASE SaveBudgetVersion(s) \/ ReplayBudgetVersion(s)
  <2>1. \A t \in Servers : req'[t] = req[t] \/ req'[t] = Idle
    BY <1>0, <1>9 DEF SaveBudgetVersion, ReplayBudgetVersion, Finish
  <2>2. /\ PublishBudgetState(s, disk')
        /\ \/ disk' = disk
           \/ \E b, l : disk' = AppendBudgetVersion(disk, b, l)
    BY <1>9 DEF SaveBudgetVersion, ReplayBudgetVersion, PublishBudgetState
  <2>3. disk'.effect = disk.effect /\ disk'.token = disk.token /\ disk'.hold = disk.hold
    BY <1>0, <2>2, AdministrationFields
  <2> QED BY <1>0, <2>1, <2>2, <2>3, PublishWhole
<1>10. CASE EndRequest(s)
  <2> DEFINE new == IF req[s].pc = "decide" THEN DiscardToken(mem[s], req[s].d) ELSE mem[s]
  <2>1. /\ attempts' = attempts /\ disk' = disk
        /\ mem' = [mem EXCEPT ![s] = new]
        /\ req' = [req EXCEPT ![s] = Idle]
    BY <1>10 DEF EndRequest, Finish
  <2>2. new.effect = mem[s].effect /\ new.hold = mem[s].hold /\ new.claim = mem[s].claim
    BY <1>0 DEF DiscardToken, Store
  <2> HIDE DEF new
  <2>3. \A t \in Servers : /\ mem'[t].effect = mem[t].effect
                           /\ mem'[t].hold = mem[t].hold
                           /\ mem'[t].claim = mem[t].claim
    BY <1>0, <2>1, <2>2
  <2>4. \A t \in Servers : req'[t].pc = "decide" => req'[t] = req[t]
    BY <1>0, <2>1 DEF Idle
  <2> QED BY <2>1, <2>3, <2>4, AttemptWhole
<1> QED BY <1>1, <1>2, <1>3, <1>4, <1>5, <1>6, <1>7, <1>8, <1>9, <1>10 DEF Proceed

\* A new request is not one that is being decided.
LEMMA AcceptedRequest ==
  ASSUME NEW s \in Servers, Accept(s)
  PROVE  \E r : Receive(s, r) /\ r.pc # "decide"
<1>1. CASE ListBudgets(s)
  BY <1>1 DEF ListBudgets, Idle
<1>2. CASE AuthorizeSpend(s)
  BY <1>2 DEF AuthorizeSpend
<1>3. CASE ResolveApproval(s)
  <2>1. PICK d \in Decisions, pc \in {"approve", "decline"} : Receive(s, [pc |-> pc, d |-> d, at |-> now])
    BY <1>3 DEF ResolveApproval
  <2>2. [pc |-> pc, d |-> d, at |-> now].pc # "decide"
    OBVIOUS
  <2> QED BY <2>1, <2>2
<1>4. CASE ClaimExecutorSpend(s)
  BY <1>4 DEF ClaimExecutorSpend
<1>5. CASE UpdateBudgetLimit(s)
  BY <1>5 DEF UpdateBudgetLimit
<1> QED BY <1>1, <1>2, <1>3, <1>4, <1>5 DEF Accept

\* New requests keep grants whole.
LEMMA ReceiveWhole ==
  ASSUME WholeInv, GrantInv', OutcomeStep, NEW s \in Servers, Accept(s)
  PROVE  WholeInv' /\ FitsStep
BY AcceptedRequest, AcceptWhole

\* Crashes, restarts and the clock keep grants whole.
LEMMA EnvironmentWhole ==
  ASSUME WholeInv, GrantInv', OutcomeStep, \/ \E s \in Servers : Crash(s) \/ StartServer(s)
                                           \/ Tick
                                           \/ UNCHANGED vars
  PROVE  WholeInv' /\ FitsStep
<1>0. /\ disk \in Store /\ mem \in [Servers -> Store] /\ now \in Nat
      /\ req \in [Servers -> Requests]
  BY DEF WholeInv, GrantInv, TypeOK
<1>k. KeepsGrants(disk, disk)
  BY DEF KeepsGrants
<1>1. ASSUME NEW s \in Servers, Crash(s) PROVE WholeInv' /\ FitsStep
  <2>1. /\ attempts' = attempts /\ disk' = disk
        /\ mem' = [mem EXCEPT ![s] = EmptyStore]
        /\ req' = [req EXCEPT ![s] = Down]
    BY <1>1 DEF Crash
  <2>2. \A d \in Decisions : EmptyStore.claim[d].status = "none"
    BY DEF EmptyStore, NoClaim
  <2>3. /\ mem'[s] = EmptyStore /\ req'[s] = Down
        /\ \A t \in Servers \ {s} : mem'[t] = mem[t] /\ req'[t] = req[t]
    BY <1>0, <2>1
  <2>4. CacheHeld(s)
    BY <2>2, <2>3 DEF CacheHeld
  <2>5. \A t \in Servers : CacheHeld(t)
    BY <2>3, <2>4, SameCacheHeld
  <2>6. \A t \in Servers : req'[t].pc = "decide" => req'[t] = req[t] /\ mem'[t].effect = mem[t].effect
    BY <2>3 DEF Down
  <2> QED BY <1>k, <2>1, <2>5, <2>6, KeepingStep
<1>2. ASSUME NEW s \in Servers, StartServer(s) PROVE WholeInv' /\ FitsStep
  <2>1. /\ attempts' = attempts
        /\ disk' = ExpireOverdueBudgetHolds(disk, now)
        /\ mem' = [mem EXCEPT ![s] = disk']
        /\ req' = [req EXCEPT ![s] = Idle]
    BY <1>2 DEF StartServer, Finish
  <2>2. KeepsGrants(disk, disk')
    BY <1>0, <2>1, ExpireKeeps
  <2>3. /\ mem'[s] = disk' /\ req'[s] = Idle
        /\ \A t \in Servers \ {s} : mem'[t] = mem[t] /\ req'[t] = req[t]
    BY <1>0, <2>1
  <2>4. CacheHeld(s)
    BY <2>3 DEF CacheHeld
  <2>5. \A t \in Servers : CacheHeld(t)
    BY <2>3, <2>4, SameCacheHeld
  <2>6. \A t \in Servers : req'[t].pc = "decide" => req'[t] = req[t] /\ mem'[t].effect = mem[t].effect
    BY <2>3 DEF Idle
  <2> QED BY <2>1, <2>2, <2>5, <2>6, KeepingStep
<1>3. CASE Tick \/ UNCHANGED vars
  <2>1. attempts' = attempts /\ disk' = disk /\ mem' = mem /\ req' = req
    BY <1>3 DEF Tick, vars
  <2>2. \A t \in Servers : CacheHeld(t)
    BY <2>1, SameCacheHeld
  <2> QED BY <1>k, <2>1, <2>2, KeepingStep
<1> QED BY <1>1, <1>2, <1>3

\* Nothing is allowed, claimed or being decided initially.
LEMMA InitWhole == Init => WholeInv
<1> SUFFICES ASSUME Init PROVE WholeInv
  OBVIOUS
<1>1. \A d \in Decisions : attempts[d].outcome = "none"
  BY DEF Init, NoAttempt
<1>2. \A s \in Servers : req[s].pc = "idle"
  BY DEF Init, Idle
<1>3. \A s \in Servers, d \in Decisions : mem[s].claim[d].status = "none"
  BY DEF Init, EmptyStore, NoClaim
<1> QED BY <1>1, <1>2, <1>3, InitGrantInv
        DEF WholeInv, GrantIsWhole, CachedClaimsHeld, ClaimHeld, DecidedEffect

\* Every step keeps grants whole, and what it reserves fits.
LEMMA NextWhole == WholeInv /\ [Next]_vars => WholeInv' /\ FitsStep
<1> SUFFICES ASSUME WholeInv, [Next]_vars PROVE WholeInv' /\ FitsStep
  OBVIOUS
<1>1. GrantInv' /\ OutcomeStep
  BY NextGrantInv DEF WholeInv
<1> QED BY <1>1, ReceiveWhole, ProceedWhole, ServeWhole, EnvironmentWhole DEF Next

\* An allowed attempt has its token and its hold, of the amount it asked for,
\* whatever the other server processes do with stale caches.
THEOREM GrantsAreWhole == Spec => []GrantIsWhole
<1>1. WholeInv => GrantIsWhole
  BY DEF WholeInv
<1> QED BY <1>1, InitWhole, NextWhole, PTL DEF Spec

\* A reservation fits what the file has left in an active budget, and names
\* the limit in force, whatever the committing process had cached.
THEOREM ReservationsFit == Spec => ReservationFits
<1>1. WholeInv /\ [Next]_vars => WholeInv' /\ [FitsStep]_vars
  BY NextWhole
<1> QED BY <1>1, InitWhole, PTL DEF Spec, ReservationFits, FitsStep

----------------------------------------------------------------------------
(* One server process *)

\* The file belongs to at most one process.
OneServer == \A s, t \in Servers : s = t

\* The cache shows the file, the books balance, and every claim, hold and
\* token are in the same stage.
FileInv == GrantInv /\ CacheCoherent /\ Sound(disk)

----------------------------------------------------------------------------
(* The transactions of the file, without the caches they were decided on *)

Granting(d, b, a, e) ==
  /\ disk.hold[d].status = "none" /\ disk.claim[d].status = "none"
  /\ disk.budget[b].state = "active" /\ a <= disk.balance[b].remaining
  /\ disk' = IssueToken(ReserveBudget(disk, d, b, a, e), d, e)

Claiming(d, e) ==
  /\ disk.hold[d].status = "frozen" /\ disk.claim[d].status = "none"
  /\ disk' = ClaimHold(disk, d, e)

Settling(d, c, r) ==
  /\ disk.hold[d].status = "claimed" /\ (c <= disk.hold[d].amount \/ r)
  /\ disk' = SettleClaim(disk, d, c, r)

Releasing(d, r) ==
  /\ disk.hold[d].status = "claimed"
  /\ disk' = ReleaseClaim(disk, d, r)

Voiding(d) ==
  /\ disk.hold[d].status = "frozen" /\ disk.claim[d].status = "none"
  /\ disk' = ReleaseHold(disk, d)

Creating(b, l) ==
  /\ ~Exists(disk, b)
  /\ HydrationValid(disk')
  /\ disk' = CreateBudget(disk, b, l)

Limiting(b, l) ==
  /\ disk.budget[b].state = "active" /\ Committed(disk, b) <= l
  /\ disk' = AppendBudgetVersion(disk, b, l)

Revoking(b) ==
  /\ disk.budget[b].state = "active"
  /\ disk' = RevokeBudget(disk, b)

Transaction ==
  \/ disk' = disk
  \/ \E t \in Nat : disk' = ExpireOverdueBudgetHolds(disk, t)
  \/ \E d \in Decisions, e \in Effects : disk' = RecordDecision(disk, d, e)
  \/ \E d \in Decisions, b \in Budgets, a \in Amounts, e \in Nat : Granting(d, b, a, e)
  \/ \E d \in Decisions, e \in Nat : Claiming(d, e)
  \/ \E d \in Decisions, c \in Amounts, r \in BOOLEAN : Settling(d, c, r)
  \/ \E d \in Decisions, r \in BOOLEAN : Releasing(d, r)
  \/ \E d \in Decisions : Voiding(d)
  \/ \E b \in Budgets, l \in Amounts : Creating(b, l) \/ Limiting(b, l)
  \/ \E b \in Budgets : Revoking(b)

----------------------------------------------------------------------------
(* Equal stores *)

\* A store is its six tables.
LEMMA StoreEqual ==
  ASSUME NEW st \in Store, NEW new \in Store,
         new.effect = st.effect, new.token = st.token, new.hold = st.hold,
         new.claim = st.claim, new.budget = st.budget, new.balance = st.balance
  PROVE  new = st
BY DEF Store

\* The same, entry by entry.
LEMMA TablesEqual ==
  ASSUME NEW st \in Store, NEW new \in Store,
         new.effect = st.effect, new.budget = st.budget,
         \A d \in Decisions : /\ new.token[d] = st.token[d]
                              /\ new.hold[d] = st.hold[d]
                              /\ new.claim[d] = st.claim[d],
         \A b \in Budgets : new.balance[b] = st.balance[b]
  PROVE  new = st
<1>1. /\ st.token \in [Decisions -> Token] /\ new.token \in [Decisions -> Token]
      /\ st.hold \in [Decisions -> Hold] /\ new.hold \in [Decisions -> Hold]
      /\ st.claim \in [Decisions -> Claim] /\ new.claim \in [Decisions -> Claim]
      /\ st.balance \in [Budgets -> Balance] /\ new.balance \in [Budgets -> Balance]
  BY StoreFields
<1>2. new.token = st.token
  BY <1>1
<1>3. new.hold = st.hold
  BY <1>1
<1>4. new.claim = st.claim
  BY <1>1
<1>5. new.balance = st.balance
  BY <1>1
<1> QED BY <1>2, <1>3, <1>4, <1>5, StoreEqual

\* A cache that differs from a store in one provisional token
ButToken(cache, st, d) ==
  /\ cache.effect = st.effect /\ cache.hold = st.hold /\ cache.claim = st.claim
  /\ cache.budget = st.budget /\ cache.balance = st.balance
  /\ \A x \in Decisions \ {d} : cache.token[x] = st.token[x]

\* Discarding the provisional token makes the cache the store again.
LEMMA DiscardRestores ==
  ASSUME NEW st \in Store, NEW cache \in Store, NEW d \in Decisions,
         ButToken(cache, st, d), st.token[d] = NoToken
  PROVE  DiscardToken(cache, d) = st
<1> DEFINE new == DiscardToken(cache, d)
<1>1. new \in Store
  BY DiscardTokenType
<1>2. /\ new.effect = cache.effect /\ new.hold = cache.hold /\ new.claim = cache.claim
      /\ new.budget = cache.budget /\ new.balance = cache.balance
      /\ new.token = [cache.token EXCEPT ![d] = NoToken]
  BY DEF DiscardToken, Store
<1>3. cache.token \in [Decisions -> Token]
  BY StoreFields
<1>4. \A x \in Decisions : new.token[x] = st.token[x]
  BY <1>2, <1>3 DEF ButToken
<1> HIDE DEF new
<1>5. /\ new.effect = st.effect /\ new.hold = st.hold /\ new.claim = st.claim
      /\ new.budget = st.budget /\ new.balance = st.balance
  BY <1>2 DEF ButToken
<1>6. new = st
  BY <1>1, <1>4, <1>5, TablesEqual
<1> QED BY <1>6 DEF new

\* Granting overwrites the provisional token.
LEMMA GrantRestores ==
  ASSUME NEW st \in Store, NEW cache \in Store, NEW d \in Decisions, NEW b \in Budgets,
         NEW a \in Amounts, NEW e \in Nat, ButToken(cache, st, d)
  PROVE  IssueToken(ReserveBudget(cache, d, b, a, e), d, e)
           = IssueToken(ReserveBudget(st, d, b, a, e), d, e)
<1> DEFINE new == IssueToken(ReserveBudget(cache, d, b, a, e), d, e)
           want == IssueToken(ReserveBudget(st, d, b, a, e), d, e)
<1>1. new \in Store /\ want \in Store
  BY ReserveType, IssueTokenType
<1>2. /\ new.effect = cache.effect /\ new.claim = cache.claim /\ new.budget = cache.budget
      /\ new.token = [cache.token EXCEPT ![d] = [state |-> "live", expires |-> e]]
      /\ new.hold = [cache.hold EXCEPT ![d] =
           [status |-> "frozen", budget |-> b, amount |-> a, expires |-> e,
            revision |-> Len(cache.budget[b].versions)]]
      /\ new.balance = [cache.balance EXCEPT ![b] = Post(cache.balance[b], 0, a)]
  BY DEF IssueToken, ReserveBudget, Store
<1>3. /\ want.effect = st.effect /\ want.claim = st.claim /\ want.budget = st.budget
      /\ want.token = [st.token EXCEPT ![d] = [state |-> "live", expires |-> e]]
      /\ want.hold = [st.hold EXCEPT ![d] =
           [status |-> "frozen", budget |-> b, amount |-> a, expires |-> e,
            revision |-> Len(st.budget[b].versions)]]
      /\ want.balance = [st.balance EXCEPT ![b] = Post(st.balance[b], 0, a)]
  BY DEF IssueToken, ReserveBudget, Store
<1>4. cache.token \in [Decisions -> Token] /\ st.token \in [Decisions -> Token]
  BY StoreFields
<1> HIDE DEF new, want
<1>5. \A x \in Decisions : new.token[x] = want.token[x]
  BY <1>2, <1>3, <1>4 DEF ButToken
<1>6. /\ new.effect = want.effect /\ new.claim = want.claim /\ new.budget = want.budget
      /\ new.hold = want.hold /\ new.balance = want.balance
  BY <1>2, <1>3 DEF ButToken
<1>7. new = want
  BY <1>1, <1>5, <1>6, TablesEqual
<1> QED BY <1>7 DEF new, want

\* A finalization copies everything it changed.
LEMMA FinalizationCopies ==
  ASSUME NEW st \in Store, NEW new \in Store, NEW d \in Decisions,
         new.effect = st.effect, new.budget = st.budget,
         \A x \in Decisions \ {d} : /\ new.token[x] = st.token[x]
                                    /\ new.hold[x] = st.hold[x]
                                    /\ new.claim[x] = st.claim[x],
         \A b \in Budgets : b # new.hold[d].budget => new.balance[b] = st.balance[b]
  PROVE  ApplyPersistedFinalization(st, new, d) = new
<1> DEFINE got == ApplyPersistedFinalization(st, new, d)
<1>1. got \in Store
  BY ApplyType
<1>2. /\ got.effect = st.effect /\ got.budget = st.budget
      /\ \A x \in Decisions :
              /\ got.token[x] = IF x = d THEN new.token[x] ELSE st.token[x]
              /\ got.hold[x] = IF x = d THEN new.hold[x] ELSE st.hold[x]
              /\ got.claim[x] = IF x = d THEN new.claim[x] ELSE st.claim[x]
      /\ \A b \in Budgets :
              got.balance[b] = IF b = new.hold[d].budget THEN new.balance[b] ELSE st.balance[b]
  BY ApplyFinalizationFields
<1> HIDE DEF got
<1>3. got = new
  BY <1>1, <1>2, TablesEqual
<1> QED BY <1>3 DEF got

\* A budget change copies everything it changed.
LEMMA CommitCopies ==
  ASSUME NEW st \in Store, NEW new \in Store,
         new.effect = st.effect, new.token = st.token, new.claim = st.claim
  PROVE  ApplyCommittedState(st, new) = new
<1> DEFINE got == ApplyCommittedState(st, new)
<1>1. got \in Store
  BY StoreFields DEF ApplyCommittedState, Store
<1>2. /\ got.effect = st.effect /\ got.token = st.token /\ got.claim = st.claim
      /\ got.hold = new.hold /\ got.budget = new.budget /\ got.balance = new.balance
  BY ApplyCommittedFields
<1> HIDE DEF got
<1>3. got = new
  BY <1>1, <1>2, StoreEqual
<1> QED BY <1>3 DEF got

----------------------------------------------------------------------------
(* Every step is a transaction and leaves the cache coherent *)

\* Between its requests' steps the process sees the file.
LEMMA SeesFile ==
  ASSUME FileInv, NEW s \in Servers, req[s].pc \notin {"decide", "down"}
  PROVE  mem[s] = disk
<1>1. req[s] # Down /\ req[s].pc # "decide"
  BY DEF Down
<1> QED BY <1>1 DEF FileInv, CacheCoherent

\* While it decides, it sees the file and its own provisional token.
LEMMA SeesFileAndToken ==
  ASSUME FileInv, NEW s \in Servers, req[s].pc = "decide"
  PROVE  /\ req[s].d \in Decisions
         /\ disk.token[req[s].d] = NoToken
         /\ ButToken(mem[s], disk, req[s].d)
<1> DEFINE d == req[s].d
<1>0. d \in Decisions /\ disk \in Store
  BY RequestFields DEF FileInv, GrantInv, TypeOK
<1>1. req[s] # Down
  BY DEF Down
<1>2. disk.token[d] = NoToken /\ mem[s] = [disk EXCEPT !.token[d] = mem[s].token[d]]
  BY <1>1 DEF FileInv, CacheCoherent
<1> DEFINE x == mem[s].token[d]
           token == [disk.token EXCEPT ![d] = x]
<1>3. mem[s] = [disk EXCEPT !.token = token]
  BY <1>2
<1>4. \A y \in Decisions \ {d} : token[y] = disk.token[y]
  BY <1>0, StoreFields
<1> HIDE DEF x, token, d
<1>5. /\ mem[s].effect = disk.effect /\ mem[s].hold = disk.hold /\ mem[s].claim = disk.claim
      /\ mem[s].budget = disk.budget /\ mem[s].balance = disk.balance
      /\ mem[s].token = token
  BY <1>0, <1>3 DEF Store
<1>6. ButToken(mem[s], disk, d)
  BY <1>4, <1>5 DEF ButToken
<1> QED BY <1>0, <1>2, <1>6 DEF d

\* What the only process has to show.
LEMMA SoleCoherent ==
  ASSUME OneServer, NEW s \in Servers, mem'[s] = disk', req'[s].pc # "decide"
  PROVE  CacheCoherent'
BY DEF OneServer, CacheCoherent

\* Accepting a request sweeps the file and the cache alike.
LEMMA AcceptCoherent ==
  ASSUME OneServer, FileInv, NEW s \in Servers, NEW r, Receive(s, r), r.pc # "decide"
  PROVE  CacheCoherent' /\ Transaction
<1>0. mem \in [Servers -> Store] /\ now \in Nat /\ req \in [Servers -> Requests]
  BY DEF FileInv, GrantInv, TypeOK
<1>1. /\ disk' = ExpireOverdueBudgetHolds(disk, now)
      /\ mem' = [mem EXCEPT ![s] = ExpireOverdueBudgetHolds(mem[s], now)]
      /\ req' = [req EXCEPT ![s] = r]
  BY DEF Receive
<1>2. mem[s] = disk
  BY SeesFile DEF Receive, Idle
<1>3. mem'[s] = disk' /\ req'[s].pc # "decide"
  BY <1>0, <1>1, <1>2
<1> QED BY <1>0, <1>1, <1>3, SoleCoherent DEF Transaction

\* A finalization leaves nothing in the cache that it changed in the file.
LEMMA FinalizationCoherent ==
  ASSUME OneServer, FileInv, NEW s \in Servers, NEW d \in Decisions, NEW st \in Store,
         SaveFinalization(s, d, st),
         st.effect = disk.effect, st.budget = disk.budget,
         \A x \in Decisions \ {d} : /\ st.token[x] = disk.token[x]
                                    /\ st.hold[x] = disk.hold[x]
                                    /\ st.claim[x] = disk.claim[x],
         \A b \in Budgets : b # st.hold[d].budget => st.balance[b] = disk.balance[b]
  PROVE  CacheCoherent'
<1>0. disk \in Store /\ mem \in [Servers -> Store]
  BY DEF FileInv, GrantInv, TypeOK
<1>1. /\ disk' = st /\ req' = req /\ req[s] = Idle
      /\ mem' = [mem EXCEPT ![s] = ApplyPersistedFinalization(mem[s], st, d)]
  BY DEF SaveFinalization
<1>2. mem[s] = disk
  BY <1>1, SeesFile DEF Idle
<1>3. ApplyPersistedFinalization(disk, st, d) = st
  BY <1>0, FinalizationCopies
<1>4. mem'[s] = disk' /\ req'[s].pc # "decide"
  BY <1>0, <1>1, <1>2, <1>3 DEF Idle
<1> QED BY <1>4, SoleCoherent

\* Nor does a budget change.
LEMMA PublishCoherent ==
  ASSUME OneServer, FileInv, NEW s \in Servers, NEW st \in Store, PublishBudgetState(s, st),
         req[s].pc \in {"idle", "limit"}, req'[s].pc # "decide",
         st.effect = disk.effect, st.token = disk.token, st.claim = disk.claim
  PROVE  CacheCoherent'
<1>0. disk \in Store /\ mem \in [Servers -> Store]
  BY DEF FileInv, GrantInv, TypeOK
<1>1. /\ disk' = st
      /\ mem' = [mem EXCEPT ![s] = ApplyCommittedState(mem[s], st)]
  BY DEF PublishBudgetState
<1>2. mem[s] = disk
  BY SeesFile
<1>3. ApplyCommittedState(disk, st) = st
  BY <1>0, CommitCopies
<1>4. mem'[s] = disk'
  BY <1>0, <1>1, <1>2, <1>3
<1> QED BY <1>4, SoleCoherent

\* The requests that one transaction serves.
LEMMA ServeCoherent ==
  ASSUME OneServer, FileInv, disk' \in Store, NEW s \in Servers, Serve(s)
  PROVE  CacheCoherent' /\ Transaction
<1>0. disk \in Store
  BY DEF FileInv, GrantInv, TypeOK
<1>c. Charges \subseteq Amounts /\ Limits \subseteq Amounts
  BY SpendAssumption, AmountAssumption DEF Amounts
<1>1. CASE SettleExecutorClaim(s) \/ ReconcileAsBilled(s)
  <2>1. PICK d \in Decisions, c \in Amounts, r \in BOOLEAN :
          /\ Settling(d, c, r)
          /\ SaveFinalization(s, d, SettleClaim(disk, d, c, r))
    <3>1. CASE SettleExecutorClaim(s)
      BY <1>c, <3>1 DEF SettleExecutorClaim, ExclusivelyClaimed, SaveFinalization, Settling
    <3>2. CASE ReconcileAsBilled(s)
      BY <1>c, <3>2 DEF ReconcileAsBilled, ExclusivelyClaimed, SaveFinalization, Settling
    <3> QED BY <1>1, <3>1, <3>2
  <2>2. disk' = SettleClaim(disk, d, c, r)
    BY <2>1 DEF SaveFinalization
  <2>3. /\ disk'.effect = disk.effect /\ disk'.budget = disk.budget
        /\ \A x \in Decisions \ {d} : /\ disk'.token[x] = disk.token[x]
                                      /\ disk'.hold[x] = disk.hold[x]
                                      /\ disk'.claim[x] = disk.claim[x]
        /\ disk'.hold[d].budget = disk.hold[d].budget
        /\ \A b \in Budgets : b # disk.hold[d].budget => disk'.balance[b] = disk.balance[b]
    BY <1>0, <2>2, SettleFields
  <2>4. SaveFinalization(s, d, disk')
    BY <2>1, <2>2
  <2> QED BY <1>0, <2>1, <2>3, <2>4, FinalizationCoherent DEF Transaction
<1>2. CASE ReleaseExecutorClaim(s) \/ ReconcileAsNotBilled(s)
  <2>1. PICK d \in Decisions, r \in BOOLEAN :
          /\ Releasing(d, r)
          /\ SaveFinalization(s, d, ReleaseClaim(disk, d, r))
    <3>1. CASE ReleaseExecutorClaim(s)
      BY <3>1 DEF ReleaseExecutorClaim, ExclusivelyClaimed, SaveFinalization, Releasing
    <3>2. CASE ReconcileAsNotBilled(s)
      BY <3>2 DEF ReconcileAsNotBilled, ExclusivelyClaimed, SaveFinalization, Releasing
    <3> QED BY <1>2, <3>1, <3>2
  <2>2. disk' = ReleaseClaim(disk, d, r)
    BY <2>1 DEF SaveFinalization
  <2> DEFINE rel == ReleaseHold(disk, d)
  <2>3. /\ rel.effect = disk.effect /\ rel.budget = disk.budget
        /\ \A x \in Decisions \ {d} : /\ rel.token[x] = disk.token[x]
                                      /\ rel.hold[x] = disk.hold[x]
        /\ rel.hold[d].budget = disk.hold[d].budget
        /\ \A b \in Budgets : b # disk.hold[d].budget => rel.balance[b] = disk.balance[b]
    BY <1>0, ReleaseFields
  <2>4. /\ disk'.effect = rel.effect /\ disk'.token = rel.token /\ disk'.hold = rel.hold
        /\ disk'.budget = rel.budget /\ disk'.balance = rel.balance
        /\ \A x \in Decisions \ {d} : disk'.claim[x] = disk.claim[x]
    BY <1>0, <2>2, ReleaseClaimFields
  <2>5. SaveFinalization(s, d, disk')
    BY <2>1, <2>2
  <2> HIDE DEF rel
  <2> QED BY <1>0, <2>1, <2>3, <2>4, <2>5, FinalizationCoherent DEF Transaction
<1>3. CASE VoidUnclaimedAuthorization(s)
  <2>1. PICK d \in Decisions : Voiding(d) /\ SaveFinalization(s, d, ReleaseHold(disk, d))
    BY <1>3 DEF VoidUnclaimedAuthorization, SaveFinalization, Voiding
  <2>2. disk' = ReleaseHold(disk, d)
    BY <2>1 DEF SaveFinalization
  <2>3. /\ disk'.effect = disk.effect /\ disk'.budget = disk.budget /\ disk'.claim = disk.claim
        /\ \A x \in Decisions \ {d} : /\ disk'.token[x] = disk.token[x]
                                      /\ disk'.hold[x] = disk.hold[x]
        /\ disk'.hold[d].budget = disk.hold[d].budget
        /\ \A b \in Budgets : b # disk.hold[d].budget => disk'.balance[b] = disk.balance[b]
    BY <1>0, <2>2, ReleaseFields
  <2>4. SaveFinalization(s, d, disk')
    BY <2>1, <2>2
  <2> QED BY <1>0, <2>1, <2>3, <2>4, FinalizationCoherent DEF Transaction
<1>4. CASE ReplayFinalization(s) \/ ReplayVoid(s)
  <2>1. PICK d \in Decisions : SaveFinalization(s, d, disk)
    BY <1>4 DEF ReplayFinalization, ReplayVoid
  <2>2. disk' = disk
    BY <2>1 DEF SaveFinalization
  <2> QED BY <1>0, <2>1, <2>2, FinalizationCoherent DEF Transaction
<1>5. CASE CreateSingleBudget(s) \/ RevokeSingleBudget(s)
  <2>1. PICK b \in Budgets, l \in Amounts : /\ Creating(b, l) \/ Revoking(b)
                                            /\ PublishBudgetState(s, disk')
                                            /\ req' = req /\ req[s] = Idle
    <3>1. CASE CreateSingleBudget(s)
      BY <1>c, <3>1 DEF CreateSingleBudget, PublishBudgetState, Creating
    <3>2. CASE RevokeSingleBudget(s)
      <4>1. 0 \in Amounts
        BY AmountAssumption DEF Amounts
      <4> QED BY <3>2, <4>1 DEF RevokeSingleBudget, PublishBudgetState, Revoking
    <3> QED BY <1>5, <3>1, <3>2
  <2>2. disk'.effect = disk.effect /\ disk'.token = disk.token /\ disk'.claim = disk.claim
    BY <1>0, <2>1, AdministrationFields DEF Creating, Revoking
  <2>3. req[s].pc = "idle" /\ req'[s].pc = "idle"
    BY <2>1 DEF Idle
  <2> QED BY <1>0, <2>1, <2>2, <2>3, PublishCoherent DEF Transaction
<1> QED BY <1>1, <1>2, <1>3, <1>4, <1>5 DEF Serve

\* Crashes, restarts and the clock.
LEMMA EnvironmentCoherent ==
  ASSUME OneServer, FileInv, \/ \E s \in Servers : Crash(s) \/ StartServer(s)
                             \/ Tick
                             \/ UNCHANGED vars
  PROVE  CacheCoherent' /\ Transaction
<1>0. mem \in [Servers -> Store] /\ now \in Nat /\ req \in [Servers -> Requests]
  BY DEF FileInv, GrantInv, TypeOK
<1>1. ASSUME NEW s \in Servers, Crash(s) PROVE CacheCoherent' /\ Transaction
  <2>1. disk' = disk /\ req'[s] = Down
    BY <1>0, <1>1 DEF Crash
  <2>2. \A t \in Servers : req'[t] = Down
    BY <2>1 DEF OneServer
  <2> QED BY <2>1, <2>2 DEF CacheCoherent, Transaction
<1>2. ASSUME NEW s \in Servers, StartServer(s) PROVE CacheCoherent' /\ Transaction
  <2>1. /\ disk' = ExpireOverdueBudgetHolds(disk, now)
        /\ mem' = [mem EXCEPT ![s] = disk']
        /\ req' = [req EXCEPT ![s] = Idle]
    BY <1>2 DEF StartServer, Finish
  <2>2. mem'[s] = disk' /\ req'[s].pc # "decide"
    BY <1>0, <2>1 DEF Idle
  <2> QED BY <1>0, <2>1, <2>2, SoleCoherent DEF Transaction
<1>3. CASE Tick \/ UNCHANGED vars
  BY <1>3 DEF Tick, vars, FileInv, CacheCoherent, Transaction
<1> QED BY <1>1, <1>2, <1>3

\* The decision a process works on has no grant yet.
LEMMA PendingIsUngranted ==
  ASSUME GrantInv, NEW d \in Decisions, attempts[d].outcome = "pending_approval"
  PROVE  /\ disk.token[d].state = "none" /\ disk.hold[d].status = "none"
         /\ disk.claim[d].status = "none"
BY DEF GrantInv, GrantsAllowed, Granted

\* Evaluating a request records its effect, and gives the cache the only token
\* the file does not have.
LEMMA EvaluateCoherent ==
  ASSUME OneServer, FileInv, NEW s \in Servers, EvaluateSpend(s)
  PROVE  CacheCoherent' /\ Transaction
<1> DEFINE d == req[s].d
<1>0. /\ disk \in Store /\ mem \in [Servers -> Store] /\ req \in [Servers -> Requests]
      /\ req[s].pc = "evaluate" /\ req[s] \in Requests /\ d \in Decisions
  BY RequestFields DEF FileInv, GrantInv, TypeOK, EvaluateSpend
<1>1. PICK e \in Effects :
        /\ disk' = RecordDecision(disk, d, e)
        /\ mem' = [mem EXCEPT ![s] =
                     IF e = "allow" THEN IssueToken(RecordDecision(mem[s], d, e), d, now + AuthTTL)
                     ELSE RecordDecision(mem[s], d, e)]
        /\ req' = [req EXCEPT ![s] = IF e = "needs_approval" THEN Idle
                                     ELSE [req[s] EXCEPT !.pc = "decide"]]
  BY DEF EvaluateSpend
<1>2. mem[s] = disk
  BY <1>0, SeesFile
<1>3. Transaction
  BY <1>0, <1>1 DEF Transaction
<1>4. disk'.token[d] = NoToken
  <2>1. attempts[d].outcome = "pending_approval"
    BY <1>0 DEF FileInv, GrantInv, DecidedAlone, Deciding
  <2>2. disk.token[d].state = "none" /\ SoundDecision(disk, d)
    BY <1>0, <2>1, PendingIsUngranted DEF FileInv, Sound
  <2>3. disk.token[d] = NoToken
    BY <2>2 DEF SoundDecision
  <2>4. disk'.token = disk.token
    BY <1>0, <1>1 DEF RecordDecision, Store
  <2> QED BY <2>3, <2>4
<1>5. req'[s] = Idle \/ (req'[s].pc = "decide" /\ req'[s].d = d)
  <2>1. req[s] \in [pc : {"evaluate", "decide"}, d : Decisions, at : Nat]
    BY <1>0 DEF Requests, Idle, Down
  <2>2. [req[s] EXCEPT !.pc = "decide"].d = d /\ [req[s] EXCEPT !.pc = "decide"].pc = "decide"
    BY <2>1
  <2> QED BY <1>0, <1>1, <2>2
<1>6. disk' \in Store
  BY <1>0, <1>1, RecordDecisionType
<1> DEFINE issued == IssueToken(disk', d, now + AuthTTL)
<1>7. mem'[s] = IF e = "allow" THEN issued ELSE disk'
  BY <1>0, <1>1, <1>2
<1>8. issued = [disk' EXCEPT !.token[d] = issued.token[d]]
  <2> DEFINE x == [state |-> "live", expires |-> now + AuthTTL]
             token == [disk'.token EXCEPT ![d] = x]
  <2>1. issued = [disk' EXCEPT !.token = token]
    BY DEF IssueToken
  <2>2. disk'.token \in [Decisions -> Token]
    BY <1>6, StoreFields
  <2>3. token[d] = x
    BY <1>0, <2>2
  <2>4. issued.token = token
    BY <1>6, <2>1 DEF Store
  <2> HIDE DEF issued
  <2>5. issued.token[d] = x
    BY <2>3, <2>4
  <2> QED BY <2>1, <2>5
<1>9. disk' = [disk' EXCEPT !.token[d] = disk'.token[d]]
  <2> DEFINE token == [disk'.token EXCEPT ![d] = disk'.token[d]]
  <2>1. disk'.token \in [Decisions -> Token]
    BY <1>6, StoreFields
  <2>2. token = disk'.token
    BY <1>0, <2>1
  <2>3. disk' = [disk' EXCEPT !.token = disk'.token]
    BY <1>6 DEF Store
  <2> QED BY <2>2, <2>3
<1> HIDE DEF issued
<1>10. mem'[s] = [disk' EXCEPT !.token[d] = mem'[s].token[d]]
  <2>1. CASE e = "allow"
    BY <1>7, <1>8, <2>1
  <2>2. CASE e # "allow"
    BY <1>7, <1>9, <2>2
  <2> QED BY <2>1, <2>2
<1>11. CASE req'[s] = Idle
  <2>1. e = "needs_approval"
    <3>1. req[s] \in [pc : {"evaluate", "decide"}, d : Decisions, at : Nat]
      BY <1>0 DEF Requests, Idle, Down
    <3>2. [req[s] EXCEPT !.pc = "decide"] # Idle
      BY <3>1 DEF Idle
    <3> QED BY <1>0, <1>1, <1>11, <3>2
  <2> QED BY <1>3, <1>7, <1>11, <2>1, SoleCoherent DEF Idle
<1>12. CASE req'[s].pc = "decide" /\ req'[s].d = d
  <2> HIDE DEF d
  <2> SUFFICES ASSUME NEW t \in Servers
               PROVE  /\ disk'.token[req'[t].d] = NoToken
                      /\ mem'[t] = [disk' EXCEPT !.token[req'[t].d] = mem'[t].token[req'[t].d]]
                      /\ req'[t].pc = "decide"
    BY <1>3 DEF CacheCoherent
  <2>1. t = s
    BY DEF OneServer
  <2>2. req'[t].d = d
    BY <1>12, <2>1
  <2> QED BY <1>4, <1>10, <1>12, <2>1, <2>2
<1> QED BY <1>5, <1>11, <1>12

\* A denial discards the provisional token.
LEMMA DenyCoherent ==
  ASSUME OneServer, FileInv, NEW s \in Servers, req[s].pc = "decide", SaveDenied(s, req[s].d)
  PROVE  CacheCoherent' /\ Transaction
<1>0. disk \in Store /\ mem \in [Servers -> Store] /\ req \in [Servers -> Requests]
  BY DEF FileInv, GrantInv, TypeOK
<1>1. /\ mem' = [mem EXCEPT ![s] = DiscardToken(mem[s], req[s].d)]
      /\ req' = [req EXCEPT ![s] = Idle]
      /\ disk' = disk
  BY DEF SaveDenied, Finish
<1>2. DiscardToken(mem[s], req[s].d) = disk
  BY <1>0, SeesFileAndToken, DiscardRestores
<1>3. mem'[s] = disk' /\ req'[s].pc # "decide"
  BY <1>0, <1>1, <1>2 DEF Idle
<1> QED BY <1>1, <1>3, SoleCoherent DEF Transaction

\* An approval grants the same in the file and in the cache.
LEMMA ApproveCoherent ==
  ASSUME OneServer, FileInv, NEW s \in Servers, NEW d \in Decisions, NEW b \in Budgets, NEW e \in Nat,
         SaveApproved(s, d, b, e), ButToken(mem[s], disk, d),
         attempts[d].outcome = "pending_approval"
  PROVE  CacheCoherent' /\ Transaction
<1>0. disk \in Store /\ mem \in [Servers -> Store] /\ req \in [Servers -> Requests]
  BY DEF FileInv, GrantInv, TypeOK
<1> DEFINE a == Amount(d)
<1>1. a \in Amounts
  BY AmountType DEF FileInv, GrantInv, Attempted
<1>2. /\ disk' = IssueToken(ReserveBudget(disk, d, b, a, e), d, e)
      /\ mem' = [mem EXCEPT ![s] = IssueToken(ReserveBudget(mem[s], d, b, a, e), d, e)]
      /\ req' = [req EXCEPT ![s] = Idle]
  BY DEF SaveApproved, Finish
<1>3. /\ disk.budget[b] = mem[s].budget[b] /\ disk.balance[b] = mem[s].balance[b]
      /\ mem[s].balance[b].remaining >= a
      /\ AllowsReservation(mem[s], b, req[s].at)
  BY DEF SaveApproved, SnapshotFresh, Reserves
<1> HIDE DEF a
<1>4. IssueToken(ReserveBudget(mem[s], d, b, a, e), d, e)
        = IssueToken(ReserveBudget(disk, d, b, a, e), d, e)
  BY <1>0, <1>1, GrantRestores
<1>5. mem'[s] = disk' /\ req'[s].pc # "decide"
  BY <1>0, <1>2, <1>4 DEF Idle
<1>6. disk.budget[b].state = "active"
  <2>1. mem[s].budget[b].state \in AdminStates
    BY <1>0, StoreFields DEF Budget
  <2>2. mem[s].budget[b].state # "absent"
    BY <1>3 DEF AllowsReservation, Exists
  <2>3. mem[s].budget[b].state # "revoked"
    BY <1>3 DEF AllowsReservation, Availability
  <2> QED BY <1>3, <2>1, <2>2, <2>3 DEF AdminStates
<1>7. a <= disk.balance[b].remaining
  <2>1. mem[s].balance[b].remaining \in Int /\ a \in Int
    BY <1>0, <1>1, StoreFields, AmountAssumption DEF Balance, Amounts
  <2> QED BY <1>3, <2>1
<1>8. disk.hold[d].status = "none" /\ disk.claim[d].status = "none"
  BY PendingIsUngranted DEF FileInv
<1>9. Granting(d, b, a, e)
  BY <1>2, <1>6, <1>7, <1>8 DEF Granting
<1> QED BY <1>1, <1>5, <1>9, SoleCoherent DEF Transaction

\* A store is a cache of itself.
LEMMA ButTokenSelf ==
  ASSUME NEW st, NEW d
  PROVE  ButToken(st, st, d)
BY DEF ButToken

\* With one process a repeated claim writes what the file already has.
LEMMA ReplayClaimCoherent ==
  ASSUME OneServer, FileInv, NEW s \in Servers, ReplayExecutorClaim(s)
  PROVE  CacheCoherent' /\ Transaction
<1> DEFINE d == req[s].d
<1>0. /\ disk \in Store /\ req \in [Servers -> Requests] /\ d \in Decisions /\ req[s].pc = "claim"
  BY RequestFields DEF FileInv, GrantInv, TypeOK, ReplayExecutorClaim
<1>1. mem[s] = disk
  BY <1>0, SeesFile
<1>2. /\ disk' = [disk EXCEPT !.hold[d].status = disk.hold[d].status,
                              !.hold[d].expires = disk.hold[d].expires]
      /\ mem' = mem
      /\ req' = [req EXCEPT ![s] = Idle]
  BY <1>1 DEF ReplayExecutorClaim, Finish
<1> HIDE DEF d
<1> DEFINE h == [disk.hold[d] EXCEPT !.status = disk.hold[d].status,
                                     !.expires = disk.hold[d].expires]
           hold == [disk.hold EXCEPT ![d] = h]
<1>3. disk.hold \in [Decisions -> Hold] /\ disk.hold[d] \in Hold
  BY <1>0, StoreFields
<1>4. h = disk.hold[d]
  BY <1>3 DEF Hold
<1>5. hold = disk.hold
  BY <1>0, <1>3, <1>4
<1>6. disk' = [disk EXCEPT !.hold = hold]
  BY <1>0, <1>2 DEF Store, Hold
<1>7. disk' = disk
  <2> HIDE DEF hold
  <2> QED BY <1>0, <1>5, <1>6 DEF Store
<1>8. mem'[s] = disk' /\ req'[s].pc # "decide"
  BY <1>0, <1>1, <1>2, <1>7 DEF Idle
<1> QED BY <1>7, <1>8, SoleCoherent DEF Transaction

\* Every step of a request in progress.
LEMMA ProceedCoherent ==
  ASSUME OneServer, FileInv, disk' \in Store, NEW s \in Servers, Proceed(s)
  PROVE  CacheCoherent' /\ Transaction
<1>0. /\ disk \in Store /\ mem \in [Servers -> Store] /\ req \in [Servers -> Requests]
      /\ now \in Nat
  BY DEF FileInv, GrantInv, TypeOK
<1>1. CASE AdmitSpendAttempt(s)
  <2>1. disk' = disk /\ mem' = mem /\ req[s].pc = "admit"
    BY <1>1 DEF AdmitSpendAttempt
  <2>2. req'[s].pc # "decide"
    BY <1>0, <1>1 DEF AdmitSpendAttempt
  <2>3. mem[s] = disk
    BY <2>1, SeesFile
  <2> QED BY <2>1, <2>2, <2>3, SoleCoherent DEF Transaction
<1>2. CASE EvaluateSpend(s)
  BY <1>2, EvaluateCoherent
<1>3. CASE DenyByPolicy(s) \/ DenyNoAvailableBudget(s) \/ DenyInsufficientBudget(s)
  BY <1>3, DenyCoherent DEF DenyByPolicy, DenyNoAvailableBudget, DenyInsufficientBudget
<1>4. CASE ApproveAutomatically(s)
  <2>1. req[s].pc = "decide"
    BY <1>4 DEF ApproveAutomatically
  <2>2. req[s].d \in Decisions /\ ButToken(mem[s], disk, req[s].d)
    BY <2>1, SeesFileAndToken
  <2>3. PICK b \in Budgets : SaveApproved(s, req[s].d, b, mem[s].token[req[s].d].expires)
    BY <1>4 DEF ApproveAutomatically
  <2>4. mem[s].token[req[s].d].expires \in Nat
    BY <1>0, <2>2, StoreFields DEF Token
  <2>5. attempts[req[s].d].outcome = "pending_approval"
    BY <2>1 DEF FileInv, GrantInv, DecidedAlone, Deciding
  <2> QED BY <2>2, <2>3, <2>4, <2>5, ApproveCoherent
<1>5. CASE SaveHumanDeclined(s)
  <2>1. disk' = disk /\ mem' = mem /\ req' = [req EXCEPT ![s] = Idle] /\ req[s].pc = "decline"
    BY <1>5 DEF SaveHumanDeclined, Finish
  <2>2. mem'[s] = disk' /\ req'[s].pc # "decide"
    BY <1>0, <2>1, SeesFile DEF Idle
  <2> QED BY <2>1, <2>2, SoleCoherent DEF Transaction
<1>6. CASE SaveHumanApproved(s)
  <2>1. req[s].pc = "approve" /\ req[s].d \in Decisions
    BY <1>0, <1>6, RequestFields DEF SaveHumanApproved
  <2>2. PICK b \in Budgets : SaveApproved(s, req[s].d, b, now + AuthTTL)
    BY <1>6 DEF SaveHumanApproved
  <2>3. attempts[req[s].d].outcome = "pending_approval"
    BY <1>6 DEF SaveHumanApproved, RequirePending
  <2>4. now + AuthTTL \in Nat
    BY <1>0, SpendAssumption
  <2>5. ButToken(mem[s], disk, req[s].d)
    BY <2>1, SeesFile, ButTokenSelf
  <2> QED BY <2>1, <2>2, <2>3, <2>4, <2>5, ApproveCoherent
<1>7. CASE SaveExecutorClaim(s)
  <2> DEFINE d == req[s].d
             e == now + ClaimTTL
  <2>1. /\ req[s].pc = "claim" /\ d \in Decisions
        /\ disk.hold[d].status = "frozen" /\ disk.claim[d].status = "none"
        /\ disk' = ClaimHold(disk, d, e)
        /\ mem' = [mem EXCEPT ![s] = ClaimHold(mem[s], d, e)]
        /\ req' = [req EXCEPT ![s] = Idle]
    BY <1>0, <1>7, RequestFields DEF SaveExecutorClaim, Finish
  <2>2. e \in Nat
    BY <1>0, SpendAssumption
  <2>3. mem[s] = disk
    BY <2>1, SeesFile
  <2> HIDE DEF d, e
  <2>4. mem'[s] = disk' /\ req'[s].pc # "decide"
    BY <1>0, <2>1, <2>3 DEF Idle
  <2>5. Claiming(d, e)
    BY <2>1 DEF Claiming
  <2> QED BY <2>1, <2>2, <2>4, <2>5, SoleCoherent DEF Transaction
<1>8. CASE ReplayExecutorClaim(s)
  BY <1>8, ReplayClaimCoherent
<1>9. CASE SaveBudgetVersion(s)
  <2> DEFINE b == req[s].budget
             l == req[s].limit
  <2>1. /\ req[s].pc = "limit" /\ b \in Budgets /\ l \in Limits
        /\ PublishBudgetState(s, disk') /\ disk' = AppendBudgetVersion(disk, b, l)
        /\ Exists(disk, b) /\ Availability(disk, b, req[s].at) \notin {"revoked", "expired"}
        /\ l >= Committed(disk, b)
        /\ req' = [req EXCEPT ![s] = Idle]
    BY <1>0, <1>9, RequestFields DEF SaveBudgetVersion, PublishBudgetState, CoversCommitted, Finish
  <2> HIDE DEF b, l
  <2>2. l \in Amounts /\ l \in Nat
    BY <2>1, SpendAssumption, AmountAssumption DEF Amounts
  <2>3. disk.budget[b].state = "active"
    <3>1. disk.budget[b].state \in AdminStates
      BY <1>0, <2>1, StoreFields DEF Budget
    <3>2. disk.budget[b].state # "revoked"
      BY <2>1 DEF Availability
    <3> QED BY <2>1, <3>1, <3>2 DEF AdminStates, Exists
  <2>4. Committed(disk, b) <= l
    <3>1. Committed(disk, b) \in Int
      BY <1>0, <2>1, StoreFields DEF Committed, Balance
    <3> QED BY <2>1, <2>2, <3>1
  <2>5. Limiting(b, l)
    BY <2>1, <2>3, <2>4 DEF Limiting
  <2>6. disk'.effect = disk.effect /\ disk'.token = disk.token /\ disk'.claim = disk.claim
    BY <1>0, <2>1, AdministrationFields
  <2>7. req'[s].pc # "decide"
    BY <1>0, <2>1 DEF Idle
  <2> QED BY <2>1, <2>2, <2>5, <2>6, <2>7, PublishCoherent DEF Transaction
<1>10. CASE ReplayBudgetVersion(s)
  <2>1. /\ req[s].pc = "limit" /\ PublishBudgetState(s, disk) /\ disk' = disk
        /\ req' = [req EXCEPT ![s] = Idle]
    BY <1>10 DEF ReplayBudgetVersion, PublishBudgetState, Finish
  <2>2. req'[s].pc # "decide"
    BY <1>0, <2>1 DEF Idle
  <2> QED BY <1>0, <2>1, <2>2, PublishCoherent DEF Transaction
<1>11. CASE EndRequest(s)
  <2>1. /\ disk' = disk /\ req[s] \notin {Idle, Down}
        /\ mem' = [mem EXCEPT ![s] = IF req[s].pc = "decide" THEN DiscardToken(mem[s], req[s].d) ELSE mem[s]]
        /\ req' = [req EXCEPT ![s] = Idle]
    BY <1>11 DEF EndRequest, Finish
  <2>2. CASE req[s].pc = "decide"
    <3>1. DiscardToken(mem[s], req[s].d) = disk
      BY <1>0, <2>2, SeesFileAndToken, DiscardRestores
    <3>2. mem'[s] = disk' /\ req'[s].pc # "decide"
      BY <1>0, <2>1, <2>2, <3>1 DEF Idle
    <3> QED BY <2>1, <3>2, SoleCoherent DEF Transaction
  <2>3. CASE req[s].pc # "decide"
    <3>1. mem[s] = disk
      BY <2>1, <2>3 DEF FileInv, CacheCoherent
    <3>2. mem'[s] = disk' /\ req'[s].pc # "decide"
      BY <1>0, <2>1, <2>3, <3>1 DEF Idle
    <3> QED BY <2>1, <3>2, SoleCoherent DEF Transaction
  <2> QED BY <2>2, <2>3
<1> QED BY <1>1, <1>2, <1>3, <1>4, <1>5, <1>6, <1>7, <1>8, <1>9, <1>10, <1>11 DEF Proceed

\* Every step of the system.
LEMMA NextCoherent ==
  ASSUME OneServer, FileInv, [Next]_vars
  PROVE  CacheCoherent' /\ Transaction
<1>1. disk' \in Store
  <2>1. GrantInv'
    BY NextGrantInv DEF FileInv
  <2> QED BY <2>1 DEF GrantInv, TypeOK
<1>2. ASSUME NEW s \in Servers, Accept(s) PROVE CacheCoherent' /\ Transaction
  <2>1. \E r : Receive(s, r) /\ r.pc # "decide"
    BY <1>2, AcceptedRequest
  <2> QED BY <2>1, AcceptCoherent
<1> QED BY <1>1, <1>2, ProceedCoherent, ServeCoherent, EnvironmentCoherent DEF Next

----------------------------------------------------------------------------
(* Every transaction keeps the file sound *)

\* Whatever one process did to the file, its books balance and its claims,
\* holds and tokens agree.
LEMMA TransactionSound ==
  ASSUME disk \in Store, disk' \in Store, Sound(disk), Transaction
  PROVE  Sound(disk')
<1>1. CASE disk' = disk
  BY <1>1
<1>2. CASE \E t \in Nat : disk' = ExpireOverdueBudgetHolds(disk, t)
  BY <1>2, ExpireSound
<1>3. CASE \E d \in Decisions, e \in Effects : disk' = RecordDecision(disk, d, e)
  BY <1>3, RecordSound
<1>4. ASSUME NEW d \in Decisions, NEW b \in Budgets, NEW a \in Amounts, NEW e \in Nat,
             Granting(d, b, a, e)
      PROVE  Sound(disk')
  <2>1. Exists(disk, b)
    BY <1>4 DEF Granting, Exists
  <2> QED BY <1>4, <2>1, GrantSound DEF Granting
<1>5. ASSUME NEW d \in Decisions, NEW e \in Nat, Claiming(d, e) PROVE Sound(disk')
  BY <1>5, ClaimSound DEF Claiming
<1>6. ASSUME NEW d \in Decisions, NEW c \in Amounts, NEW r \in BOOLEAN, Settling(d, c, r)
      PROVE  Sound(disk')
  BY <1>6, SettleSound DEF Settling
<1>7. ASSUME NEW d \in Decisions, NEW r \in BOOLEAN, Releasing(d, r) PROVE Sound(disk')
  BY <1>7, ReleaseClaimSound DEF Releasing
<1>8. ASSUME NEW d \in Decisions, Voiding(d) PROVE Sound(disk')
  BY <1>8, VoidSound DEF Voiding
<1>9. ASSUME NEW b \in Budgets, NEW l \in Amounts, Creating(b, l) PROVE Sound(disk')
  BY <1>9, CreateSound DEF Creating
<1>10. ASSUME NEW b \in Budgets, NEW l \in Amounts, Limiting(b, l) PROVE Sound(disk')
  <2>1. Exists(disk, b)
    BY <1>10 DEF Limiting, Exists
  <2> QED BY <1>10, <2>1, AppendSound DEF Limiting
<1>11. ASSUME NEW b \in Budgets, Revoking(b) PROVE Sound(disk')
  <2>1. Exists(disk, b)
    BY <1>11 DEF Revoking, Exists
  <2> QED BY <1>11, <2>1, RevokeSound DEF Revoking
<1> QED BY <1>1, <1>2, <1>3, <1>4, <1>5, <1>6, <1>7, <1>8, <1>9, <1>10, <1>11 DEF Transaction

\* A new file and an empty cache are coherent and sound.
LEMMA InitFile == Init => FileInv
<1> SUFFICES ASSUME Init PROVE FileInv
  OBVIOUS
<1>1. GrantInv
  BY InitGrantInv
<1>2. Sound(disk)
  BY EmptySound DEF Init
<1>3. CacheCoherent
  BY DEF Init, CacheCoherent, Idle
<1> QED BY <1>1, <1>2, <1>3 DEF FileInv

\* One process keeps its cache coherent and the file sound.
LEMMA NextFile ==
  ASSUME OneServer, FileInv, [Next]_vars
  PROVE  FileInv' /\ Transaction
<1>1. GrantInv'
  BY NextGrantInv DEF FileInv
<1>2. CacheCoherent' /\ Transaction
  BY NextCoherent
<1>3. disk \in Store /\ disk' \in Store
  BY <1>1 DEF FileInv, GrantInv, TypeOK
<1>4. Sound(disk')
  BY <1>2, <1>3, TransactionSound DEF FileInv
<1>5. Sound(disk)'
  BY <1>4 DEF Sound, SoundDecision, Books, ActiveApart, FrozenDerives, RemainingDerives,
              Limit, Exists, ActiveHoldTotal, SettledTotal, ActiveHolds, SettledHolds,
              HoldAmount, ClaimCharge, Total
<1> QED BY <1>1, <1>2, <1>5 DEF FileInv

----------------------------------------------------------------------------
(* The theorems for one server process *)

\* The file invariant holds of every run with one process.
LEMMA FileInvariant ==
  ASSUME OneServer
  PROVE  Spec => []FileInv
<1>1. Init => FileInv
  BY InitFile
<1>2. FileInv /\ [Next]_vars => FileInv'
  BY NextFile
<1> QED BY <1>1, <1>2, PTL DEF Spec

\* With one server process the cache never lies about the file
\* (SpendManager and BudgetManager against SQLite).
THEOREM CacheIsCoherent ==
  ASSUME OneServer
  PROVE  Spec => []CacheCoherent
<1>1. FileInv => CacheCoherent
  BY DEF FileInv
<1> QED BY <1>1, FileInvariant, PTL

\* A claim, its hold and its token are always in the same stage.
THEOREM ClaimsOwnHolds ==
  ASSUME OneServer
  PROVE  Spec => []ClaimOwnsHold
<1>1. FileInv => ClaimOwnsHold
  BY DEF FileInv, Sound, SoundDecision, ClaimOwnsHold
<1> QED BY <1>1, FileInvariant, PTL

\* Frozen is the sum of the active holds, consumed the sum of the settled
\* charges, remaining what the limit leaves, and the file can always be
\* loaded by the next process to start.
THEOREM BooksAlwaysBalance ==
  ASSUME OneServer
  PROVE  Spec => []BooksBalance
<1>1. FileInv => BooksBalance
  BY SoundHydrates DEF FileInv, GrantInv, TypeOK, Sound, Books, BooksBalance
<1> QED BY <1>1, FileInvariant, PTL

\* A hold's end is final, and a claimed hold ends only with its claim.
THEOREM HoldsLiveOnce ==
  ASSUME OneServer
  PROVE  Spec => HoldLifecycle
<1> DEFINE Step == \A d \in Decisions :
                     /\ disk.hold[d].status \in {"settled", "released", "expired"}
                          => disk'.hold[d] = disk.hold[d]
                     /\ disk.hold[d].status = "claimed"
                          => disk'.hold[d].status = disk'.claim[d].status
<1>1. FileInv /\ [Next]_vars => Step
  <2> SUFFICES ASSUME FileInv, [Next]_vars PROVE Step
    OBVIOUS
  <2>0. /\ disk \in Store /\ disk' \in Store /\ Transaction
        /\ \A d \in Decisions : SoundDecision(disk, d) /\ SoundDecision(disk', d)
    <3>1. FileInv' /\ Transaction
      BY NextFile
    <3>2. disk \in Store /\ disk' \in Store
      BY <3>1 DEF FileInv, GrantInv, TypeOK
    <3> QED BY <3>1, <3>2, TransactionSound DEF FileInv, Sound
  <2>1. \A d \in Decisions : disk.hold[d].status = "claimed" => disk.claim[d].status = "claimed"
    BY <2>0 DEF SoundDecision
  <2>2. CASE disk' = disk
    BY <2>1, <2>2
  <2>3. ASSUME NEW t \in Nat, disk' = ExpireOverdueBudgetHolds(disk, t) PROVE Step
    <3>1. \A d \in Overdue(disk, t) : disk.hold[d].status = "frozen"
      BY DEF Overdue
    <3>2. disk'.claim = disk.claim /\ \A d \in Decisions \ Overdue(disk, t) : disk'.hold[d] = disk.hold[d]
      BY <2>0, <2>3, ExpireFields
    <3> QED BY <2>1, <3>1, <3>2
  <2>4. ASSUME NEW d \in Decisions, NEW e \in Effects, disk' = RecordDecision(disk, d, e) PROVE Step
    <3>1. disk'.hold = disk.hold /\ disk'.claim = disk.claim
      BY <2>0, <2>4 DEF RecordDecision, Store
    <3> QED BY <2>1, <3>1
  <2>5. ASSUME NEW d \in Decisions, NEW b \in Budgets, NEW a \in Amounts, NEW e \in Nat,
               Granting(d, b, a, e)
        PROVE  Step
    <3>1. disk'.claim = disk.claim /\ \A x \in Decisions \ {d} : disk'.hold[x] = disk.hold[x]
      BY <2>0, <2>5, GrantFields DEF Granting
    <3> QED BY <2>1, <2>5, <3>1 DEF Granting
  <2>6. ASSUME NEW d \in Decisions, NEW e \in Nat, Claiming(d, e) PROVE Step
    <3>1. \A x \in Decisions \ {d} : disk'.hold[x] = disk.hold[x] /\ disk'.claim[x] = disk.claim[x]
      BY <2>0, <2>6, ClaimFields DEF Claiming
    <3> QED BY <2>1, <2>6, <3>1 DEF Claiming
  <2>7. ASSUME NEW d \in Decisions, NEW c \in Amounts, NEW r \in BOOLEAN, Settling(d, c, r) PROVE Step
    <3>1. /\ \A x \in Decisions \ {d} : disk'.hold[x] = disk.hold[x] /\ disk'.claim[x] = disk.claim[x]
          /\ disk'.hold[d].status = "settled" /\ disk'.claim[d].status = "settled"
      BY <2>0, <2>7, SettleFields DEF Settling
    <3> QED BY <2>1, <2>7, <3>1 DEF Settling
  <2>8. ASSUME NEW d \in Decisions, NEW r \in BOOLEAN, Releasing(d, r) PROVE Step
    <3> DEFINE rel == ReleaseHold(disk, d)
    <3>1. /\ \A x \in Decisions \ {d} : disk'.claim[x] = disk.claim[x]
          /\ disk'.hold = rel.hold /\ disk'.claim[d].status = "released"
      BY <2>0, <2>8, ReleaseClaimFields DEF Releasing
    <3>2. /\ \A x \in Decisions \ {d} : rel.hold[x] = disk.hold[x]
          /\ rel.hold[d].status = "released"
      BY <2>0, ReleaseFields
    <3> HIDE DEF rel
    <3> QED BY <2>1, <2>8, <3>1, <3>2 DEF Releasing
  <2>9. ASSUME NEW d \in Decisions, Voiding(d) PROVE Step
    <3>1. disk'.claim = disk.claim /\ \A x \in Decisions \ {d} : disk'.hold[x] = disk.hold[x]
      BY <2>0, <2>9, ReleaseFields DEF Voiding
    <3> QED BY <2>1, <2>9, <3>1 DEF Voiding
  <2>10. ASSUME NEW b \in Budgets, NEW l \in Amounts,
                Creating(b, l) \/ Limiting(b, l) \/ Revoking(b)
         PROVE  Step
    <3>1. disk'.hold = disk.hold /\ disk'.claim = disk.claim
      BY <2>0, <2>10, AdministrationFields DEF Creating, Limiting, Revoking
    <3> QED BY <2>1, <3>1
  <2>11. Amounts # {}
    BY AmountAssumption DEF Amounts
  <2> HIDE DEF Step
  <2> QED BY <2>0, <2>2, <2>3, <2>4, <2>5, <2>6, <2>7, <2>8, <2>9, <2>10, <2>11 DEF Transaction
<1>2. FileInv /\ [Next]_vars => [Step]_vars
  BY <1>1
<1> HIDE DEF Step
<1>3. Spec => [][Step]_vars
  BY <1>2, FileInvariant, PTL DEF Spec
<1> QED BY <1>3 DEF HoldLifecycle, Step

----------------------------------------------------------------------------
(* The file implements the ledger of holds *)

LimitView(st) == [b \in Budgets |-> Limit(st, b)]
OpenView(st)  == {b \in Budgets : st.budget[b].state = "active"}
HoldView(st, d) == [status     |-> st.hold[d].status,
                    budget     |-> st.hold[d].budget,
                    amount     |-> st.hold[d].amount,
                    charge     |-> st.claim[d].charge,
                    reconciled |-> st.claim[d].reconciled]
HoldViews(st) == [d \in Decisions |-> HoldView(st, d)]

\* The ledger counts as the store does.
LEMMA LedgerCounts ==
  ASSUME NEW S
  PROVE  Ledger!Cardinality(S) = Cardinality(S)
BY DEF Ledger!Cardinality, Cardinality

\* What the ledger calls committed is what the totals say.
LEMMA LedgerCommitted ==
  ASSUME NEW b
  PROVE  Ledger!CommittedTo(b) = SettledTotal(disk, b) + ActiveHoldTotal(disk, b)
<1>1. Ledger!Spent(b) = SettledHolds(disk, b)
  BY DEF Ledger!Spent, SettledHolds
<1>2. Ledger!Held(b) = ActiveHolds(disk, b)
  BY DEF Ledger!Held, ActiveHolds
<1>3. Ledger!ChargeOfHold = ClaimCharge(disk)
  BY DEF Ledger!ChargeOfHold, ClaimCharge
<1>4. Ledger!AmountOfHold = HoldAmount(disk)
  BY DEF Ledger!AmountOfHold, HoldAmount
<1>5. \A f, D : Ledger!Total(f, D) = Total(f, D)
  BY LedgerCounts DEF Ledger!Total, Total
<1> QED BY <1>1, <1>2, <1>3, <1>4, <1>5 DEF Ledger!CommittedTo, SettledTotal, ActiveHoldTotal

\* In a sound file it is also what the balance says.
LEMMA SoundCommitted ==
  ASSUME disk \in Store, Sound(disk), NEW b \in Budgets
  PROVE  /\ Ledger!CommittedTo(b) = Committed(disk, b)
         /\ Committed(disk, b) \in Nat
         /\ disk.balance[b].remaining = Limit(disk, b) - Committed(disk, b)
<1>1. Books(disk, b)
  BY DEF Sound
<1>2. SettledTotal(disk, b) \in Nat /\ ActiveHoldTotal(disk, b) \in Nat
  BY TotalsType
<1>3. Limit(disk, b) \in Nat
  BY LimitType
<1> QED BY <1>1, <1>2, <1>3, LedgerCommitted DEF Books, FrozenDerives, RemainingDerives, Committed

\* A transaction on one decision changes one hold of the ledger.
LEMMA OneView ==
  ASSUME NEW st \in Store, NEW new \in Store, NEW d \in Decisions,
         \A x \in Decisions \ {d} : new.hold[x] = st.hold[x] /\ new.claim[x] = st.claim[x]
  PROVE  HoldViews(new) = [HoldViews(st) EXCEPT ![d] = HoldView(new, d)]
<1>1. \A x \in Decisions \ {d} : HoldView(new, x) = HoldView(st, x)
  BY DEF HoldView
<1> QED BY <1>1 DEF HoldViews

Settled(v, k, q) == [v EXCEPT !.status = "settled", !.charge = k, !.reconciled = q]
Released(v, q)   == [v EXCEPT !.status = "released", !.reconciled = q]

\* What a settlement and a release do to the view of one hold.
LEMMA ViewExcept ==
  ASSUME NEW st, NEW d, NEW k, NEW q
  PROVE  /\ Settled(HoldView(st, d), k, q)
              = [status |-> "settled", budget |-> st.hold[d].budget, amount |-> st.hold[d].amount,
                 charge |-> k, reconciled |-> q]
         /\ Released(HoldView(st, d), q)
              = [status |-> "released", budget |-> st.hold[d].budget, amount |-> st.hold[d].amount,
                 charge |-> st.claim[d].charge, reconciled |-> q]
<1> DEFINE b == st.hold[d].budget
           a == st.hold[d].amount
           c == st.claim[d].charge
           r == st.claim[d].reconciled
           v == HoldView(st, d)
<1>0. v = [status |-> st.hold[d].status, budget |-> b, amount |-> a, charge |-> c, reconciled |-> r]
  BY DEF HoldView
<1> HIDE DEF b, a, c, r, v
<1>1. Settled(v, k, q)
        = [status |-> "settled", budget |-> b, amount |-> a, charge |-> k, reconciled |-> q]
  <2>1. PICK v1 : v1 = [v EXCEPT !.status = "settled"]
    OBVIOUS
  <2>2. v1 = [status |-> "settled", budget |-> b, amount |-> a, charge |-> c, reconciled |-> r]
    BY <1>0, <2>1
  <2>3. PICK v2 : v2 = [v1 EXCEPT !.charge = k]
    OBVIOUS
  <2>4. v2 = [status |-> "settled", budget |-> b, amount |-> a, charge |-> k, reconciled |-> r]
    BY <2>2, <2>3
  <2>5. [v2 EXCEPT !.reconciled = q]
          = [status |-> "settled", budget |-> b, amount |-> a, charge |-> k, reconciled |-> q]
    BY <2>4
  <2>6. Settled(v, k, q) = [v2 EXCEPT !.reconciled = q]
    BY <2>1, <2>3, Zenon DEF Settled
  <2> QED BY <2>5, <2>6
<1>2. Released(v, q)
        = [status |-> "released", budget |-> b, amount |-> a, charge |-> c, reconciled |-> q]
  <2>1. PICK v1 : v1 = [v EXCEPT !.status = "released"]
    OBVIOUS
  <2>2. v1 = [status |-> "released", budget |-> b, amount |-> a, charge |-> c, reconciled |-> r]
    BY <1>0, <2>1
  <2>3. [v1 EXCEPT !.reconciled = q]
          = [status |-> "released", budget |-> b, amount |-> a, charge |-> c, reconciled |-> q]
    BY <2>2
  <2>4. Released(v, q) = [v1 EXCEPT !.reconciled = q]
    BY <2>1, Zenon DEF Released
  <2> QED BY <2>3, <2>4
<1> QED BY <1>1, <1>2, Zenon DEF b, a, c, v

\* A lapse changes the status of the holds that lapsed.
LEMMA LapseView ==
  ASSUME NEW st \in Store, NEW new \in Store, NEW t \in Nat, new = ExpireOverdueBudgetHolds(st, t)
  PROVE  HoldViews(new) = [d \in Decisions |->
           IF d \in Overdue(st, t) THEN [HoldViews(st)[d] EXCEPT !.status = "expired"]
           ELSE HoldViews(st)[d]]
<1>1. /\ new.claim = st.claim
      /\ \A d \in Decisions :
           /\ new.hold[d].status = IF d \in Overdue(st, t) THEN "expired" ELSE st.hold[d].status
           /\ new.hold[d].budget = st.hold[d].budget
           /\ new.hold[d].amount = st.hold[d].amount
  BY ExpireFields
<1>2. \A d \in Decisions :
        HoldView(new, d) = IF d \in Overdue(st, t) THEN [HoldView(st, d) EXCEPT !.status = "expired"]
                           ELSE HoldView(st, d)
  BY <1>1 DEF HoldView
<1> QED BY <1>2 DEF HoldViews

\* Every transaction of the file is a step of the ledger, or leaves it alone.
LEMMA TransactionImplements ==
  ASSUME disk \in Store, disk' \in Store, Sound(disk), Transaction
  PROVE  Ledger!Next \/ UNCHANGED Ledger!ledgerVars
<1> DEFINE l0 == LimitView(disk)
           l1 == LimitView(disk')
           o0 == OpenView(disk)
           o1 == OpenView(disk')
           h0 == HoldViews(disk)
           h1 == HoldViews(disk')
<1>0. Sound(disk) /\ disk \in Store /\ disk' \in Store
  OBVIOUS
<1>1. ASSUME disk'.budget = disk.budget PROVE l1 = l0 /\ o1 = o0
  BY <1>1 DEF LimitView, OpenView, Limit
<1>2. ASSUME disk'.hold = disk.hold, disk'.claim = disk.claim PROVE h1 = h0
  BY <1>2 DEF HoldViews, HoldView
<1>3. \A d \in Decisions :
        /\ h0[d] = HoldView(disk, d)
        /\ h0[d].status = disk.hold[d].status
        /\ h0[d].amount = disk.hold[d].amount
  BY DEF HoldViews, HoldView
<1>4. \A b \in Budgets : l0[b] = Limit(disk, b) /\ (b \in o0 <=> disk.budget[b].state = "active")
  BY DEF LimitView, OpenView
<1>5. \A b \in Budgets :
        /\ Ledger!CommittedTo(b) = Committed(disk, b)
        /\ Committed(disk, b) \in Nat
        /\ disk.balance[b].remaining = Limit(disk, b) - Committed(disk, b)
        /\ Limit(disk, b) \in Nat
  BY SoundCommitted, LimitType
<1>6. ASSUME l1 = l0, o1 = o0, h1 = h0 PROVE UNCHANGED Ledger!ledgerVars
  BY <1>6 DEF Ledger!ledgerVars, LimitView, OpenView, HoldViews, HoldView, Limit
<1>8. ASSUME NEW d \in Decisions, NEW b \in Budgets, NEW a \in Amounts, l1 = l0, o1 = o0,
             h0[d].status = "none", b \in o0, Ledger!CommittedTo(b) + a <= l0[b],
             h1 = [h0 EXCEPT ![d] = [status |-> "frozen", budget |-> b, amount |-> a,
                                     charge |-> 0, reconciled |-> FALSE]]
      PROVE  Ledger!Reserve(d, b, a)
  BY <1>8 DEF Ledger!Reserve, LimitView, OpenView, HoldViews, HoldView, Limit
<1>9. ASSUME NEW d \in Decisions, l1 = l0, o1 = o0, h0[d].status = "frozen",
             h1 = [h0 EXCEPT ![d].status = "claimed"]
      PROVE  Ledger!ClaimReserved(d)
  BY <1>9 DEF Ledger!ClaimReserved, LimitView, OpenView, HoldViews, HoldView, Limit
<1>10. ASSUME NEW d \in Decisions, NEW c \in Amounts, NEW r \in BOOLEAN, l1 = l0, o1 = o0,
             h0[d].status = "claimed", c <= h0[d].amount \/ r,
             h1 = [h0 EXCEPT ![d].status = "settled", ![d].charge = c, ![d].reconciled = r]
      PROVE  Ledger!Settle(d, c, r)
  BY <1>10 DEF Ledger!Settle, LimitView, OpenView, HoldViews, HoldView, Limit
<1>11. ASSUME NEW d \in Decisions, NEW r \in BOOLEAN, l1 = l0, o1 = o0,
             h0[d].status \in {"frozen", "claimed"},
             h1 = [h0 EXCEPT ![d].status = "released", ![d].reconciled = r]
      PROVE  Ledger!Release(d, r)
  BY <1>11 DEF Ledger!Release, LimitView, OpenView, HoldViews, HoldView, Limit
<1>12. ASSUME NEW b \in Budgets, NEW l \in Amounts, b \notin o0, l0[b] = 0,
             l1 = [l0 EXCEPT ![b] = l], o1 = o0 \cup {b}, h1 = h0
      PROVE  Ledger!Open(b, l)
  BY <1>12 DEF Ledger!Open, LimitView, OpenView, HoldViews, HoldView, Limit
<1>13. ASSUME NEW b \in Budgets, NEW l \in Amounts, b \in o0, Ledger!CommittedTo(b) <= l,
             l1 = [l0 EXCEPT ![b] = l], o1 = o0, h1 = h0
      PROVE  Ledger!SetLimit(b, l)
  BY <1>13 DEF Ledger!SetLimit, LimitView, OpenView, HoldViews, HoldView, Limit
<1>14. ASSUME NEW b \in Budgets, b \in o0, l1 = l0, o1 = o0 \ {b}, h1 = h0
      PROVE  Ledger!Close(b)
  BY <1>14 DEF Ledger!Close, LimitView, OpenView, HoldViews, HoldView, Limit
<1> HIDE DEF l0, l1, o0, o1, h0, h1
<1> DEFINE Goal == Ledger!Next \/ UNCHANGED Ledger!ledgerVars
<1>15. ASSUME disk' = disk PROVE Goal
  BY <1>1, <1>2, <1>6, <1>15
<1>16. ASSUME NEW t \in Nat, disk' = ExpireOverdueBudgetHolds(disk, t) PROVE Goal
  <2>0. PICK D \in SUBSET Decisions : D = Overdue(disk, t)
    BY DEF Overdue
  <2>1. \A d \in D : h0[d].status = "frozen"
    BY <1>3, <2>0 DEF Overdue
  <2>2. h1 = [d \in Decisions |-> IF d \in D THEN [h0[d] EXCEPT !.status = "expired"] ELSE h0[d]]
    BY <1>0, <1>16, <2>0, LapseView DEF h0, h1
  <2>3. disk'.budget = disk.budget
    BY <1>0, <1>16, ExpireFields
  <2>4. l1 = l0 /\ o1 = o0
    BY <1>1, <2>3
  <2>5. Ledger!Lapse(D)
    BY <2>1, <2>2, <2>4 DEF Ledger!Lapse, l0, l1, o0, o1, h0, h1, LimitView, OpenView,
                            HoldViews, HoldView, Limit
  <2> QED BY <2>5 DEF Ledger!Next
<1>17. ASSUME NEW d \in Decisions, NEW e \in Effects, disk' = RecordDecision(disk, d, e) PROVE Goal
  <2>1. disk'.hold = disk.hold /\ disk'.claim = disk.claim /\ disk'.budget = disk.budget
    BY <1>0, <1>17 DEF RecordDecision, Store
  <2> QED BY <1>1, <1>2, <1>6, <2>1
<1>18. ASSUME NEW d \in Decisions, NEW b \in Budgets, NEW a \in Amounts, NEW e \in Nat,
              Granting(d, b, a, e)
       PROVE  Goal
  <2>1. /\ disk.hold[d].status = "none" /\ disk.claim[d].status = "none"
        /\ disk.budget[b].state = "active" /\ a <= disk.balance[b].remaining
        /\ disk' = IssueToken(ReserveBudget(disk, d, b, a, e), d, e)
    BY <1>18 DEF Granting
  <2>2. /\ disk'.claim = disk.claim /\ disk'.budget = disk.budget
        /\ \A x \in Decisions \ {d} : disk'.hold[x] = disk.hold[x]
        /\ disk'.hold[d].status = "frozen" /\ disk'.hold[d].budget = b /\ disk'.hold[d].amount = a
    BY <1>0, <2>1, GrantFields
  <2>3. disk.claim[d] = NoClaim
    BY <1>0, <2>1 DEF Sound, SoundDecision
  <2>4. HoldView(disk', d) = [status |-> "frozen", budget |-> b, amount |-> a,
                              charge |-> 0, reconciled |-> FALSE]
    BY <2>2, <2>3 DEF HoldView, NoClaim
  <2>5. h1 = [h0 EXCEPT ![d] = [status |-> "frozen", budget |-> b, amount |-> a,
                                charge |-> 0, reconciled |-> FALSE]]
    BY <1>0, <2>2, <2>4, OneView DEF h0, h1
  <2>6. Ledger!CommittedTo(b) + a <= l0[b]
    <3>1. a \in Nat
      BY AmountAssumption DEF Amounts
    <3> QED BY <1>4, <1>5, <2>1, <3>1
  <2>7. Ledger!Reserve(d, b, a)
    BY <1>1, <1>3, <1>4, <1>8, <2>1, <2>2, <2>5, <2>6
  <2>8. a \in Ledger!Amounts
    BY DEF Amounts, Ledger!Amounts
  <2> QED BY <2>7, <2>8 DEF Ledger!Next
<1>19. ASSUME NEW d \in Decisions, NEW e \in Nat, Claiming(d, e) PROVE Goal
  <2>1. /\ disk.hold[d].status = "frozen" /\ disk.claim[d].status = "none"
        /\ disk' = ClaimHold(disk, d, e)
    BY <1>19 DEF Claiming
  <2>2. /\ disk'.budget = disk.budget
        /\ \A x \in Decisions \ {d} : disk'.hold[x] = disk.hold[x] /\ disk'.claim[x] = disk.claim[x]
        /\ disk'.hold[d].status = "claimed" /\ disk'.hold[d].budget = disk.hold[d].budget
        /\ disk'.hold[d].amount = disk.hold[d].amount /\ disk'.claim[d].charge = 0
    BY <1>0, <2>1, ClaimFields
  <2>3. ~disk'.claim[d].reconciled /\ disk'.claim[d].reconciled \in BOOLEAN
    BY <1>0, <2>1, ClaimUnreconciled, StoreFields DEF Claim
  <2>4. disk.claim[d].charge = 0 /\ disk'.claim[d].reconciled = disk.claim[d].reconciled
    <3>1. disk.claim[d] = NoClaim
      BY <1>0, <2>1 DEF Sound, SoundDecision
    <3>2. NoClaim.charge = 0 /\ NoClaim.reconciled = FALSE
      BY DEF NoClaim
    <3>3. disk'.claim[d].reconciled = FALSE
      BY <2>3
    <3> QED BY <3>1, <3>2, <3>3
  <2>5. HoldView(disk', d) = [HoldView(disk, d) EXCEPT !.status = "claimed"]
    BY <2>2, <2>4 DEF HoldView
  <2>6. h1 = [h0 EXCEPT ![d].status = "claimed"]
    BY <1>0, <1>3, <2>2, <2>5, OneView DEF h0, h1
  <2>7. Ledger!ClaimReserved(d)
    BY <1>1, <1>3, <1>9, <2>1, <2>2, <2>6
  <2> QED BY <2>7 DEF Ledger!Next
<1>20. ASSUME NEW d \in Decisions, NEW c \in Amounts, NEW r \in BOOLEAN, Settling(d, c, r) PROVE Goal
  <2>1. /\ disk.hold[d].status = "claimed" /\ (c <= disk.hold[d].amount \/ r)
        /\ disk' = SettleClaim(disk, d, c, r)
    BY <1>20 DEF Settling
  <2>2. /\ disk'.budget = disk.budget
        /\ \A x \in Decisions \ {d} : disk'.hold[x] = disk.hold[x] /\ disk'.claim[x] = disk.claim[x]
        /\ disk'.hold[d].status = "settled" /\ disk'.hold[d].budget = disk.hold[d].budget
        /\ disk'.hold[d].amount = disk.hold[d].amount
        /\ disk'.claim[d].charge = c /\ disk'.claim[d].reconciled = r
    BY <1>0, <2>1, SettleFields
  <2>3. HoldView(disk', d) = Settled(HoldView(disk, d), c, r)
    <3> DEFINE v == [status |-> "settled", budget |-> disk.hold[d].budget,
                     amount |-> disk.hold[d].amount, charge |-> c, reconciled |-> r]
    <3>1. HoldView(disk', d) = v
      BY <2>2 DEF HoldView
    <3>2. Settled(HoldView(disk, d), c, r) = v
      BY ViewExcept
    <3> HIDE DEF v
    <3> QED BY <3>1, <3>2
  <2>4. h1 = [h0 EXCEPT ![d] = Settled(HoldView(disk, d), c, r)]
    BY <1>0, <2>2, <2>3, OneView DEF h0, h1
  <2>5. h1 = [h0 EXCEPT ![d].status = "settled", ![d].charge = c, ![d].reconciled = r]
    BY <1>3, <2>4 DEF h0, HoldViews, Settled
  <2>6. Ledger!Settle(d, c, r)
    BY <1>1, <1>3, <1>10, <2>1, <2>2, <2>5
  <2>7. c \in Ledger!Amounts
    BY DEF Amounts, Ledger!Amounts
  <2> QED BY <2>6, <2>7 DEF Ledger!Next
<1>21. ASSUME NEW d \in Decisions, NEW r \in BOOLEAN, disk.hold[d].status \in {"frozen", "claimed"},
              disk'.budget = disk.budget,
              \A x \in Decisions \ {d} : disk'.hold[x] = disk.hold[x] /\ disk'.claim[x] = disk.claim[x],
              disk'.hold[d].status = "released", disk'.hold[d].budget = disk.hold[d].budget,
              disk'.hold[d].amount = disk.hold[d].amount,
              disk'.claim[d].charge = disk.claim[d].charge, disk'.claim[d].reconciled = r
       PROVE  Goal
  <2>1. HoldView(disk', d) = Released(HoldView(disk, d), r)
    <3> DEFINE v == [status |-> "released", budget |-> disk.hold[d].budget,
                     amount |-> disk.hold[d].amount, charge |-> disk.claim[d].charge,
                     reconciled |-> r]
    <3>1. HoldView(disk', d) = v
      BY <1>21 DEF HoldView
    <3>2. Released(HoldView(disk, d), r) = v
      BY ViewExcept
    <3> HIDE DEF v
    <3> QED BY <3>1, <3>2
  <2>2. h1 = [h0 EXCEPT ![d] = Released(HoldView(disk, d), r)]
    BY <1>0, <1>21, <2>1, OneView DEF h0, h1
  <2>3. h1 = [h0 EXCEPT ![d].status = "released", ![d].reconciled = r]
    BY <1>3, <2>2 DEF h0, HoldViews, Released
  <2>4. Ledger!Release(d, r)
    BY <1>1, <1>3, <1>11, <1>21, <2>3
  <2> QED BY <2>4 DEF Ledger!Next
<1>22. ASSUME NEW d \in Decisions, NEW r \in BOOLEAN, Releasing(d, r) PROVE Goal
  <2> DEFINE rel == ReleaseHold(disk, d)
  <2>1. disk.hold[d].status = "claimed" /\ disk' = ReleaseClaim(disk, d, r)
    BY <1>22 DEF Releasing
  <2>2. /\ disk'.hold = rel.hold /\ disk'.budget = rel.budget
        /\ \A x \in Decisions \ {d} : disk'.claim[x] = disk.claim[x]
        /\ disk'.claim[d].reconciled = r /\ disk'.claim[d].charge = disk.claim[d].charge
    BY <1>0, <2>1, ReleaseClaimFields
  <2>3. /\ rel.budget = disk.budget
        /\ \A x \in Decisions \ {d} : rel.hold[x] = disk.hold[x]
        /\ rel.hold[d].status = "released"
        /\ rel.hold[d].budget = disk.hold[d].budget /\ rel.hold[d].amount = disk.hold[d].amount
    BY <1>0, ReleaseFields
  <2> HIDE DEF rel, Goal
  <2> QED BY <1>21, <2>1, <2>2, <2>3
<1>23. ASSUME NEW d \in Decisions, Voiding(d) PROVE Goal
  <2>1. disk.hold[d].status = "frozen" /\ disk' = ReleaseHold(disk, d)
    BY <1>23 DEF Voiding
  <2>2. /\ disk'.budget = disk.budget /\ disk'.claim = disk.claim
        /\ \A x \in Decisions \ {d} : disk'.hold[x] = disk.hold[x]
        /\ disk'.hold[d].status = "released"
        /\ disk'.hold[d].budget = disk.hold[d].budget /\ disk'.hold[d].amount = disk.hold[d].amount
    BY <1>0, <2>1, ReleaseFields
  <2>3. disk.claim[d].reconciled \in BOOLEAN
    BY <1>0, StoreFields DEF Claim
  <2> HIDE DEF Goal
  <2> QED BY <1>21, <2>1, <2>2, <2>3
<1>24. ASSUME NEW b \in Budgets, NEW l \in Amounts, Creating(b, l) PROVE Goal
  <2>1. ~Exists(disk, b) /\ disk' = CreateBudget(disk, b, l)
    BY <1>24 DEF Creating
  <2>2. /\ disk'.hold = disk.hold /\ disk'.claim = disk.claim
        /\ \A c \in Budgets \ {b} : disk'.budget[c] = disk.budget[c]
        /\ disk'.budget[b].state = "active" /\ Limit(disk', b) = l
    BY <1>0, <2>1, AdministrationFields, BudgetFields
  <2>3. l1 = [l0 EXCEPT ![b] = l]
    <3>1. \A c \in Budgets \ {b} : Limit(disk', c) = Limit(disk, c)
      BY <2>2 DEF Limit
    <3> QED BY <2>2, <3>1 DEF l0, l1, LimitView
  <2>4. o1 = o0 \cup {b}
    BY <2>2 DEF o0, o1, OpenView
  <2>5. b \notin o0 /\ l0[b] = 0
    <3>1. disk.budget[b].versions = <<>> /\ disk.budget[b].state = "absent"
      BY <1>0, <2>1 DEF Sound, Exists
    <3> QED BY <1>4, <3>1 DEF Limit
  <2>6. Ledger!Open(b, l)
    BY <1>2, <1>12, <2>2, <2>3, <2>4, <2>5
  <2>7. l \in Ledger!Amounts
    BY DEF Amounts, Ledger!Amounts
  <2> QED BY <2>6, <2>7 DEF Ledger!Next
<1>25. ASSUME NEW b \in Budgets, NEW l \in Amounts, Limiting(b, l) PROVE Goal
  <2>1. /\ disk.budget[b].state = "active" /\ Committed(disk, b) <= l
        /\ disk' = AppendBudgetVersion(disk, b, l)
    BY <1>25 DEF Limiting
  <2>2. /\ disk'.hold = disk.hold /\ disk'.claim = disk.claim
        /\ \A c \in Budgets \ {b} : disk'.budget[c] = disk.budget[c]
        /\ disk'.budget[b].state = disk.budget[b].state /\ Limit(disk', b) = l
    BY <1>0, <2>1, AdministrationFields, BudgetFields
  <2>3. l1 = [l0 EXCEPT ![b] = l]
    <3>1. \A c \in Budgets \ {b} : Limit(disk', c) = Limit(disk, c)
      BY <2>2 DEF Limit
    <3> QED BY <2>2, <3>1 DEF l0, l1, LimitView
  <2>4. o1 = o0
    BY <2>2 DEF o0, o1, OpenView
  <2>5. Ledger!SetLimit(b, l)
    BY <1>2, <1>4, <1>5, <1>13, <2>1, <2>2, <2>3, <2>4
  <2>6. l \in Ledger!Amounts
    BY DEF Amounts, Ledger!Amounts
  <2> QED BY <2>5, <2>6 DEF Ledger!Next
<1>26. ASSUME NEW b \in Budgets, Revoking(b) PROVE Goal
  <2>1. disk.budget[b].state = "active" /\ disk' = RevokeBudget(disk, b)
    BY <1>26 DEF Revoking
  <2>2. /\ disk'.hold = disk.hold /\ disk'.claim = disk.claim
        /\ \A c \in Budgets \ {b} : disk'.budget[c] = disk.budget[c]
        /\ disk'.budget[b].state = "revoked" /\ disk'.budget[b].versions = disk.budget[b].versions
    <3>1. 0 \in Amounts
      BY AmountAssumption DEF Amounts
    <3> QED BY <1>0, <2>1, <3>1, AdministrationFields, BudgetFields
  <2>3. l1 = l0
    <3>1. \A c \in Budgets : Limit(disk', c) = Limit(disk, c)
      BY <2>2 DEF Limit
    <3> QED BY <3>1 DEF l0, l1, LimitView
  <2>4. o1 = o0 \ {b}
    BY <2>2 DEF o0, o1, OpenView
  <2>5. Ledger!Close(b)
    BY <1>2, <1>4, <1>14, <2>1, <2>2, <2>3, <2>4
  <2> QED BY <2>5 DEF Ledger!Next
<1> HIDE DEF Goal
<1>27. Goal
  BY <1>15, <1>16, <1>17, <1>18, <1>19, <1>20, <1>22, <1>23, <1>24, <1>25, <1>26 DEF Transaction
<1> QED BY <1>27 DEF Goal

\* With one server process the governance store implements the ledger of holds:
\* every step of every handler, sweep, crash and restart is one ledger step or
\* none.
THEOREM FileImplementsLedger ==
  ASSUME OneServer
  PROVE  Spec => ImplementsLedger
<1>1. Init => Ledger!Init
  <2> SUFFICES ASSUME Init PROVE Ledger!Init
    OBVIOUS
  <2>1. disk = EmptyStore
    BY DEF Init
  <2> QED BY <2>1 DEF Ledger!Init, Ledger!NoHold, EmptyStore, Limit, NoHold, NoClaim
<1>2. FileInv /\ [Next]_vars => [Ledger!Next]_(Ledger!ledgerVars)
  <2> SUFFICES ASSUME FileInv, [Next]_vars
               PROVE  Ledger!Next \/ UNCHANGED Ledger!ledgerVars
    OBVIOUS
  <2>1. FileInv' /\ Transaction
    BY NextFile
  <2>2. disk \in Store /\ disk' \in Store /\ Sound(disk)
    BY <2>1 DEF FileInv, GrantInv, TypeOK
  <2> QED BY <2>1, <2>2, TransactionImplements
<1> QED BY <1>1, <1>2, FileInvariant, PTL DEF Spec, ImplementsLedger, Ledger!Spec

----------------------------------------------------------------------------
(* The limit, from the theorem about the ledger *)

LedgerTheory == INSTANCE HoldLedgerProofs WITH
  limit <- [b \in Budgets |-> Limit(disk, b)],
  open  <- {b \in Budgets : disk.budget[b].state = "active"},
  hold  <- [d \in Decisions |->
             [status     |-> disk.hold[d].status,
              budget     |-> disk.hold[d].budget,
              amount     |-> disk.hold[d].amount,
              charge     |-> disk.claim[d].charge,
              reconciled |-> disk.claim[d].reconciled]]

\* The theorem about the ledger, with the file for its state.
LEMMA FileLedgerWithinLimit == LedgerTheory!Spec => []LedgerTheory!WithinLimit
<1>1. IsFiniteSet(Decisions)
  <2>1. IsFiniteSet(Revisions)
    BY StoreAssumption, FS_Interval DEF Revisions
  <2> QED BY <2>1, StoreAssumption, FS_Product DEF Decisions
<1>2. LedgerTheory!IsFiniteSet(Decisions)
  BY <1>1 DEF IsFiniteSet, LedgerTheory!IsFiniteSet
<1>3. LedgerTheory!LedgerAssumption
  BY <1>2, StoreAssumption DEF LedgerTheory!LedgerAssumption
<1>4. MaxAmount \in Nat
  BY AmountAssumption
<1> QED BY <1>2, <1>3, <1>4, StoreAssumption, LedgerTheory!LedgerWithinLimit, PTL

\* Both instances of the ledger commit the same.
LEMMA SameCommitted ==
  ASSUME NEW b
  PROVE  Ledger!CommittedTo(b) = LedgerTheory!CommittedTo(b)
<1>1. \A f, D : Ledger!Total(f, D) = LedgerTheory!Total(f, D)
  BY DEF Ledger!Total, LedgerTheory!Total, Ledger!Cardinality, LedgerTheory!Cardinality
<1> QED BY <1>1 DEF Ledger!CommittedTo, LedgerTheory!CommittedTo, Ledger!Spent, Ledger!Held,
     LedgerTheory!Spent, LedgerTheory!Held, Ledger!AmountOfHold, Ledger!ChargeOfHold,
     LedgerTheory!AmountOfHold, LedgerTheory!ChargeOfHold

\* It is the ledger the file implements.
LEMMA SameLedger ==
  /\ Ledger!Init => LedgerTheory!Init
  /\ [Ledger!Next]_(Ledger!ledgerVars) => [LedgerTheory!Next]_(LedgerTheory!ledgerVars)
<1>1. Ledger!Init => LedgerTheory!Init
  BY DEF Ledger!Init, LedgerTheory!Init, Ledger!NoHold, LedgerTheory!NoHold
<1>2. UNCHANGED Ledger!ledgerVars => UNCHANGED LedgerTheory!ledgerVars
  BY DEF Ledger!ledgerVars, LedgerTheory!ledgerVars
<1>3. Ledger!Amounts = LedgerTheory!Amounts
  BY DEF Ledger!Amounts, LedgerTheory!Amounts
<1>4. ASSUME NEW b PROVE Ledger!CommittedTo(b) = LedgerTheory!CommittedTo(b)
  BY SameCommitted
<1>5. ASSUME NEW b PROVE Ledger!Close(b) <=> LedgerTheory!Close(b)
  BY DEF Ledger!Close, LedgerTheory!Close
<1>6. ASSUME NEW b, NEW l PROVE Ledger!Open(b, l) <=> LedgerTheory!Open(b, l)
  BY DEF Ledger!Open, LedgerTheory!Open
<1>7. ASSUME NEW b, NEW l PROVE Ledger!SetLimit(b, l) <=> LedgerTheory!SetLimit(b, l)
  BY <1>4 DEF Ledger!SetLimit, LedgerTheory!SetLimit
<1>8. ASSUME NEW d, NEW b, NEW a PROVE Ledger!Reserve(d, b, a) <=> LedgerTheory!Reserve(d, b, a)
  BY <1>4 DEF Ledger!Reserve, LedgerTheory!Reserve
<1>9. ASSUME NEW d PROVE Ledger!ClaimReserved(d) <=> LedgerTheory!ClaimReserved(d)
  BY DEF Ledger!ClaimReserved, LedgerTheory!ClaimReserved
<1>10. ASSUME NEW d, NEW c, NEW r PROVE Ledger!Settle(d, c, r) <=> LedgerTheory!Settle(d, c, r)
  BY DEF Ledger!Settle, LedgerTheory!Settle
<1>11. ASSUME NEW d, NEW r PROVE Ledger!Release(d, r) <=> LedgerTheory!Release(d, r)
  BY DEF Ledger!Release, LedgerTheory!Release
<1>12. ASSUME NEW D PROVE Ledger!Lapse(D) <=> LedgerTheory!Lapse(D)
  BY DEF Ledger!Lapse, LedgerTheory!Lapse
<1>13. Ledger!Next => LedgerTheory!Next
  BY <1>3, <1>5, <1>6, <1>7, <1>8, <1>9, <1>10, <1>11, <1>12 DEF Ledger!Next, LedgerTheory!Next
<1> QED BY <1>1, <1>2, <1>13

\* What a budget has consumed and reserved exceeds its limit by no more than
\* the overruns a human confirmed (validate_actual_amount, reconciliation).
THEOREM HardLimitHolds ==
  ASSUME OneServer
  PROVE  Spec => []HardLimit
<1>1. FileInv /\ LedgerTheory!WithinLimit => HardLimit
  <2> SUFFICES ASSUME FileInv, LedgerTheory!WithinLimit, NEW b \in Budgets
               PROVE  Committed(disk, b) <= Limit(disk, b)
                                            + Total(Overruns(disk), ConfirmedOverruns(disk, b))
    BY DEF HardLimit
  <2>0. disk \in Store /\ Sound(disk)
    BY DEF FileInv, GrantInv, TypeOK
  <2>1. LedgerTheory!CommittedTo(b) = Committed(disk, b)
    BY <2>0, SameCommitted, SoundCommitted
  <2>2. LedgerTheory!OverrunOfHold = Overruns(disk)
    BY DEF LedgerTheory!OverrunOfHold, Overruns
  <2>3. ConfirmedOverruns(disk, b)
          = {d \in LedgerTheory!Spent(b) : disk.claim[d].reconciled}
    <3>1. \A d \in Decisions : disk.claim[d].status = "settled" <=> disk.hold[d].status = "settled"
      BY <2>0 DEF Sound, SoundDecision
    <3> QED BY <3>1 DEF ConfirmedOverruns, LedgerTheory!Spent
  <2>4. \A f, D : LedgerTheory!Total(f, D) = Total(f, D)
    BY DEF LedgerTheory!Total, Total, LedgerTheory!Cardinality, Cardinality
  <2>5. LedgerTheory!CommittedTo(b)
          <= Limit(disk, b) + LedgerTheory!Total(LedgerTheory!OverrunOfHold,
                                {d \in LedgerTheory!Spent(b) : disk.claim[d].reconciled})
    <3>1. {d \in LedgerTheory!Spent(b) : disk.claim[d].reconciled}
            = {d \in LedgerTheory!Spent(b) :
                 [x \in Decisions |->
                   [status |-> disk.hold[x].status, budget |-> disk.hold[x].budget,
                    amount |-> disk.hold[x].amount, charge |-> disk.claim[x].charge,
                    reconciled |-> disk.claim[x].reconciled]][d].reconciled}
      BY DEF LedgerTheory!Spent
    <3> QED BY <3>1 DEF LedgerTheory!WithinLimit
  <2> QED BY <2>1, <2>2, <2>3, <2>4, <2>5
<1>2. Spec => LedgerTheory!Spec
  BY FileImplementsLedger, SameLedger, PTL DEF ImplementsLedger, Ledger!Spec, LedgerTheory!Spec
<1> QED BY <1>1, <1>2, FileInvariant, FileLedgerWithinLimit, PTL
=============================================================================
