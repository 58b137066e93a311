------------------------- MODULE BudgetStoreProofs -------------------------
(* Every transition of BudgetStore takes a store to a store, and a store    *)
(* whose books balance to a store whose books balance.                      *)
EXTENDS BudgetStore, TotalsProofs

\* There are finitely many decisions.
LEMMA DecisionsFinite == IsFiniteSet(Decisions)
<1>1. IsFiniteSet(Revisions)
  BY FS_Interval, StoreAssumption DEF Revisions
<1> QED BY <1>1, FS_Product, StoreAssumption DEF Decisions

\* The records of a store have their types.
LEMMA StoreFields ==
  ASSUME NEW st \in Store
  PROVE  /\ st.effect \in [Decisions -> Effects \cup {"none"}]
         /\ st.token \in [Decisions -> Token]
         /\ st.hold \in [Decisions -> Hold]
         /\ st.claim \in [Decisions -> Claim]
         /\ st.budget \in [Budgets -> Budget]
         /\ st.balance \in [Budgets -> Balance]
BY DEF Store

\* The amounts of a balance are integers, and stay integers.
LEMMA PostType ==
  ASSUME NEW v \in Balance, NEW c \in Int, NEW f \in Int
  PROVE  Post(v, c, f) \in Balance
<1>1. v.consumed \in Int /\ v.frozen \in Int /\ v.remaining \in Int
  BY DEF Balance
<1>2. v.consumed + c \in Int /\ v.frozen + f \in Int /\ v.remaining - c - f \in Int
  BY <1>1
<1> QED BY <1>2 DEF Post, Balance

\* The same for the balance of a budget, or of none, in the table.
LEMMA PostTableType ==
  ASSUME NEW balance \in [Budgets -> Balance], NEW b, NEW c \in Int, NEW f \in Int
  PROVE  [balance EXCEPT ![b] = Post(balance[b], c, f)] \in [Budgets -> Balance]
<1>1. CASE b \in Budgets
  <2>1. Post(balance[b], c, f) \in Balance
    BY <1>1, PostType
  <2> QED BY <2>1
<1>2. CASE b \notin Budgets
  BY <1>2
<1> QED BY <1>1, <1>2

\* The empty file is a store.
LEMMA EmptyStoreType == EmptyStore \in Store
BY StoreAssumption, AmountAssumption
   DEF EmptyStore, Store, NoToken, NoHold, NoClaim, NoBalance, Token, Hold, Claim, Budget,
       Balance, TokenStates, HoldStatuses, ClaimStatuses, AdminStates, Effects, Amounts

----------------------------------------------------------------------------

\* Recording a decision keeps the types.
LEMMA RecordDecisionType ==
  ASSUME NEW st \in Store, NEW d \in Decisions, NEW e \in Effects
  PROVE  RecordDecision(st, d, e) \in Store
BY DEF RecordDecision, Store

\* Issuing a token keeps the types.
LEMMA IssueTokenType ==
  ASSUME NEW st \in Store, NEW d \in Decisions, NEW expires \in Nat
  PROVE  IssueToken(st, d, expires) \in Store
BY DEF IssueToken, Store, Token, TokenStates

\* Discarding a token keeps the types.
LEMMA DiscardTokenType ==
  ASSUME NEW st \in Store, NEW d \in Decisions
  PROVE  DiscardToken(st, d) \in Store
BY DEF DiscardToken, Store, Token, TokenStates, NoToken

\* The sweep keeps the types: what it gives back is a number.
LEMMA ExpireType ==
  ASSUME NEW st \in Store, NEW t \in Nat
  PROVE  ExpireOverdueBudgetHolds(st, t) \in Store
<1> DEFINE hold == [d \in Decisions |-> IF d \in Overdue(st, t)
                                        THEN [st.hold[d] EXCEPT !.status = "expired"]
                                        ELSE st.hold[d]]
           freed(b) == -Total(HoldAmount(st), OverdueIn(st, t, b))
           balance == [b \in Budgets |-> Post(st.balance[b], 0, freed(b))]
<1>1. hold \in [Decisions -> Hold]
  BY DEF Store, Hold, HoldStatuses
<1>2. balance \in [Budgets -> Balance]
  <2> SUFFICES ASSUME NEW b \in Budgets PROVE Post(st.balance[b], 0, freed(b)) \in Balance
    OBVIOUS
  <2>1. OverdueIn(st, t, b) \subseteq Decisions
    BY DEF OverdueIn, Overdue
  <2>2. IsFiniteSet(OverdueIn(st, t, b))
    BY <2>1, DecisionsFinite, FS_Subset
  <2>3. Total(HoldAmount(st), OverdueIn(st, t, b)) \in Nat
    BY <2>2, TotalType
  <2>4. freed(b) \in Int
    BY <2>3
  <2>5. st.balance[b] \in Balance
    BY StoreFields
  <2> HIDE DEF freed
  <2> QED BY <2>4, <2>5, PostType
<1>3. ExpireOverdueBudgetHolds(st, t) = [st EXCEPT !.hold = hold, !.balance = balance]
  BY DEF ExpireOverdueBudgetHolds
<1> HIDE DEF hold, balance
<1> QED BY <1>1, <1>2, <1>3 DEF Store

\* A reservation keeps the types.
LEMMA ReserveType ==
  ASSUME NEW st \in Store, NEW d \in Decisions, NEW b \in Budgets, NEW a \in Amounts,
         NEW expires \in Nat
  PROVE  ReserveBudget(st, d, b, a, expires) \in Store
<1> DEFINE h == [status |-> "frozen", budget |-> b, amount |-> a,
                 expires |-> expires, revision |-> Len(st.budget[b].versions)]
           hold == [st.hold EXCEPT ![d] = h]
           balance == [st.balance EXCEPT ![b] = Post(st.balance[b], 0, a)]
<1>1. Len(st.budget[b].versions) \in Nat
  BY DEF Store, Budget
<1>2. h \in Hold
  BY <1>1 DEF Hold, HoldStatuses
<1>3. hold \in [Decisions -> Hold]
  BY <1>2, StoreFields
<1>4. balance \in [Budgets -> Balance]
  <2>1. a \in Int
    BY AmountAssumption DEF Amounts
  <2> QED BY <2>1, StoreFields, PostTableType
<1>5. ReserveBudget(st, d, b, a, expires) = [st EXCEPT !.hold = hold, !.balance = balance]
  BY DEF ReserveBudget
<1> HIDE DEF hold, balance
<1> QED BY <1>3, <1>4, <1>5 DEF Store

\* Claiming a hold keeps the types.
LEMMA ClaimHoldType ==
  ASSUME NEW st \in Store, NEW d \in Decisions, NEW expires \in Nat
  PROVE  ClaimHold(st, d, expires) \in Store
<1> DEFINE c == [status |-> "claimed", expires |-> expires, charge |-> 0, reconciled |-> FALSE]
           h == [st.hold[d] EXCEPT !.status = "claimed", !.expires = expires]
           claim == [st.claim EXCEPT ![d] = c]
           hold == [st.hold EXCEPT ![d] = h]
<1>1. c \in Claim
  BY AmountAssumption DEF Claim, ClaimStatuses, Amounts
<1>2. h \in Hold
  BY DEF Store, Hold, HoldStatuses
<1>3. claim \in [Decisions -> Claim]
  BY <1>1, StoreFields
<1>4. hold \in [Decisions -> Hold]
  BY <1>2, StoreFields
<1>5. ClaimHold(st, d, expires) = [st EXCEPT !.claim = claim, !.hold = hold]
  BY DEF ClaimHold
<1> HIDE DEF claim, hold
<1> QED BY <1>3, <1>4, <1>5 DEF Store

\* A claim that ends is a claim.
LEMMA EndedClaimType ==
  ASSUME NEW v \in Claim, NEW charge \in Amounts, NEW r \in BOOLEAN
  PROVE  /\ [v EXCEPT !.status = "settled", !.charge = charge, !.reconciled = r] \in Claim
         /\ [v EXCEPT !.status = "released", !.reconciled = r] \in Claim
BY DEF Claim, ClaimStatuses

\* Settling a claim keeps the types.
LEMMA SettleClaimType ==
  ASSUME NEW st \in Store, NEW d \in Decisions, NEW charge \in Amounts, NEW r \in BOOLEAN
  PROVE  SettleClaim(st, d, charge, r) \in Store
<1> DEFINE b == st.hold[d].budget
           a == st.hold[d].amount
           c == [st.claim[d] EXCEPT !.status = "settled", !.charge = charge, !.reconciled = r]
           token == [st.token EXCEPT ![d] = [st.token[d] EXCEPT !.state = "used"]]
           claim == [st.claim EXCEPT ![d] = c]
           hold == [st.hold EXCEPT ![d] = [st.hold[d] EXCEPT !.status = "settled"]]
           balance == [st.balance EXCEPT ![b] = Post(st.balance[b], charge, -a)]
<1>1. token \in [Decisions -> Token]
  BY DEF Store, Token, TokenStates
<1>2. st.claim[d] \in Claim
  BY StoreFields
<1>3. c \in Claim
  BY <1>2, EndedClaimType
<1>4. claim \in [Decisions -> Claim]
  BY <1>3, StoreFields
<1>5. hold \in [Decisions -> Hold]
  BY DEF Store, Hold, HoldStatuses
<1>6. balance \in [Budgets -> Balance]
  <2>1. charge \in Int /\ -a \in Int
    BY AmountAssumption DEF Store, Hold, Amounts
  <2> QED BY <2>1, StoreFields, PostTableType
<1>7. SettleClaim(st, d, charge, r)
        = [st EXCEPT !.token = token, !.claim = claim, !.hold = hold, !.balance = balance]
  BY DEF SettleClaim
<1> HIDE DEF token, claim, hold, balance
<1> QED BY <1>1, <1>4, <1>5, <1>6, <1>7 DEF Store

\* Releasing a hold keeps the types.
LEMMA ReleaseHoldType ==
  ASSUME NEW st \in Store, NEW d \in Decisions
  PROVE  ReleaseHold(st, d) \in Store
<1> DEFINE b == st.hold[d].budget
           a == st.hold[d].amount
           token == [st.token EXCEPT ![d] = [st.token[d] EXCEPT !.state = "revoked"]]
           hold == [st.hold EXCEPT ![d] = [st.hold[d] EXCEPT !.status = "released"]]
           balance == [st.balance EXCEPT ![b] = Post(st.balance[b], 0, -a)]
<1>1. token \in [Decisions -> Token]
  BY DEF Store, Token, TokenStates
<1>2. hold \in [Decisions -> Hold]
  BY DEF Store, Hold, HoldStatuses
<1>3. balance \in [Budgets -> Balance]
  <2>1. -a \in Int
    BY AmountAssumption DEF Store, Hold, Amounts
  <2> QED BY <2>1, StoreFields, PostTableType
<1>4. ReleaseHold(st, d) = [st EXCEPT !.token = token, !.hold = hold, !.balance = balance]
  BY DEF ReleaseHold
<1> HIDE DEF token, hold, balance
<1> QED BY <1>1, <1>2, <1>3, <1>4 DEF Store

\* Releasing a claim keeps the types.
LEMMA ReleaseClaimType ==
  ASSUME NEW st \in Store, NEW d \in Decisions, NEW r \in BOOLEAN
  PROVE  ReleaseClaim(st, d, r) \in Store
<1> DEFINE rt == ReleaseHold(st, d)
           c == [rt.claim[d] EXCEPT !.status = "released", !.reconciled = r]
           claim == [rt.claim EXCEPT ![d] = c]
<1>1. rt \in Store
  BY ReleaseHoldType
<1>2. ReleaseClaim(st, d, r) = [rt EXCEPT !.claim = claim]
  BY DEF ReleaseClaim
<1> HIDE DEF rt
<1>3. rt.claim[d] \in Claim
  BY <1>1, StoreFields
<1>4. 0 \in Amounts
  BY AmountAssumption DEF Amounts
<1>5. c \in Claim
  BY <1>3, <1>4, EndedClaimType
<1>6. claim \in [Decisions -> Claim]
  BY <1>1, <1>5, StoreFields
<1> HIDE DEF claim
<1> QED BY <1>1, <1>2, <1>6 DEF Store

\* Creating a budget keeps the types.
LEMMA CreateBudgetType ==
  ASSUME NEW st \in Store, NEW b \in Budgets, NEW l \in Amounts
  PROVE  CreateBudget(st, b, l) \in Store
<1> DEFINE budget == [st.budget EXCEPT ![b] = [state |-> "active", versions |-> <<l>>]]
           balance == [st.balance EXCEPT ![b] = [consumed |-> 0, frozen |-> 0, remaining |-> l]]
<1>1. budget \in [Budgets -> Budget]
  BY DEF Store, Budget, AdminStates
<1>2. balance \in [Budgets -> Balance]
  BY AmountAssumption DEF Store, Balance, Amounts
<1>3. CreateBudget(st, b, l) = [st EXCEPT !.budget = budget, !.balance = balance]
  BY DEF CreateBudget
<1> HIDE DEF budget, balance
<1> QED BY <1>1, <1>2, <1>3 DEF Store

\* A new budget version keeps the types.
LEMMA AppendBudgetVersionType ==
  ASSUME NEW st \in Store, NEW b \in Budgets, NEW l \in Amounts
  PROVE  AppendBudgetVersion(st, b, l) \in Store
<1> DEFINE v == [state |-> st.budget[b].state, versions |-> Append(st.budget[b].versions, l)]
           w == [st.balance[b] EXCEPT !.remaining = l - Committed(st, b)]
           budget == [st.budget EXCEPT ![b] = v]
           balance == [st.balance EXCEPT ![b] = w]
<1>1. st.budget[b] \in Budget /\ st.balance[b] \in Balance
  BY StoreFields
<1>2. Append(st.budget[b].versions, l) \in Seq(Amounts)
  BY <1>1 DEF Budget
<1>3. v \in Budget
  BY <1>1, <1>2 DEF Budget
<1>4. l - Committed(st, b) \in Int
  BY <1>1, AmountAssumption DEF Balance, Committed, Amounts
<1>5. w \in Balance
  BY <1>1, <1>4 DEF Balance
<1>6. budget \in [Budgets -> Budget] /\ balance \in [Budgets -> Balance]
  BY <1>3, <1>5, StoreFields
<1>7. AppendBudgetVersion(st, b, l) = [st EXCEPT !.budget = budget, !.balance = balance]
  BY DEF AppendBudgetVersion
<1> HIDE DEF budget, balance
<1> QED BY <1>6, <1>7 DEF Store

\* Revoking a budget keeps the types.
LEMMA RevokeBudgetType ==
  ASSUME NEW st \in Store, NEW b \in Budgets
  PROVE  RevokeBudget(st, b) \in Store
<1> DEFINE v == [st.budget[b] EXCEPT !.state = "revoked"]
           budget == [st.budget EXCEPT ![b] = v]
<1>1. st.budget[b] \in Budget
  BY StoreFields
<1>2. v \in Budget
  BY <1>1 DEF Budget, AdminStates
<1>3. budget \in [Budgets -> Budget]
  BY <1>2, StoreFields
<1>4. RevokeBudget(st, b) = [st EXCEPT !.budget = budget]
  BY DEF RevokeBudget
<1> HIDE DEF budget
<1> QED BY <1>3, <1>4 DEF Store

\* What a process copies from a store keeps the types of its memory.
LEMMA ApplyType ==
  ASSUME NEW cache \in Store, NEW st \in Store, NEW d \in Decisions
  PROVE  /\ ApplyPersistedFinalization(cache, st, d) \in Store
         /\ ApplyCommittedState(cache, st) \in Store
<1> DEFINE b == st.hold[d].budget
           claim == [cache.claim EXCEPT ![d] = st.claim[d]]
           token == [cache.token EXCEPT ![d] = st.token[d]]
           hold == [cache.hold EXCEPT ![d] = st.hold[d]]
           balance == [cache.balance EXCEPT ![b] = st.balance[b]]
<1>1. claim \in [Decisions -> Claim] /\ token \in [Decisions -> Token]
  BY StoreFields
<1>2. hold \in [Decisions -> Hold]
  BY StoreFields
<1>3. balance \in [Budgets -> Balance]
  <2>1. CASE b \in Budgets
    BY <2>1, StoreFields
  <2>2. CASE b \notin Budgets
    BY <2>2, StoreFields
  <2> QED BY <2>1, <2>2
<1>4. ApplyPersistedFinalization(cache, st, d)
        = [cache EXCEPT !.claim = claim, !.token = token, !.hold = hold, !.balance = balance]
  BY DEF ApplyPersistedFinalization
<1>5. ApplyCommittedState(cache, st) \in Store
  BY StoreFields DEF ApplyCommittedState, Store
<1> HIDE DEF claim, token, hold, balance
<1> QED BY <1>1, <1>2, <1>3, <1>4, <1>5 DEF Store

----------------------------------------------------------------------------
(* What each transition changes *)

\* The sweep moves the overdue holds and gives their amounts back.
LEMMA ExpireFields ==
  ASSUME NEW st \in Store, NEW t \in Nat, NEW new, new = ExpireOverdueBudgetHolds(st, t)
  PROVE  /\ new.effect = st.effect /\ new.token = st.token /\ new.claim = st.claim
         /\ new.budget = st.budget
         /\ \A d \in Decisions :
              /\ new.hold[d].status = IF d \in Overdue(st, t) THEN "expired" ELSE st.hold[d].status
              /\ new.hold[d].budget = st.hold[d].budget
              /\ new.hold[d].amount = st.hold[d].amount
              /\ d \notin Overdue(st, t) => new.hold[d] = st.hold[d]
         /\ \A b \in Budgets :
              new.balance[b] = Post(st.balance[b], 0, -Total(HoldAmount(st), OverdueIn(st, t, b)))
<1>1. /\ new.effect = st.effect /\ new.token = st.token /\ new.claim = st.claim
      /\ new.budget = st.budget
  BY DEF ExpireOverdueBudgetHolds, Store
<1>2. \A d \in Decisions :
        new.hold[d] = IF d \in Overdue(st, t) THEN [st.hold[d] EXCEPT !.status = "expired"]
                                              ELSE st.hold[d]
  BY DEF ExpireOverdueBudgetHolds, Store
<1>3. \A d \in Decisions : st.hold[d] \in Hold
  BY StoreFields
<1>4. \A b \in Budgets :
        new.balance[b] = Post(st.balance[b], 0, -Total(HoldAmount(st), OverdueIn(st, t, b)))
  BY DEF ExpireOverdueBudgetHolds, Store
<1>5. \A d \in Decisions :
              /\ new.hold[d].status = IF d \in Overdue(st, t) THEN "expired" ELSE st.hold[d].status
              /\ new.hold[d].budget = st.hold[d].budget
              /\ new.hold[d].amount = st.hold[d].amount
              /\ d \notin Overdue(st, t) => new.hold[d] = st.hold[d]
  BY <1>2, <1>3 DEF Hold
<1> QED BY <1>1, <1>4, <1>5

\* A grant adds one hold, its token and its amount.
LEMMA GrantFields ==
  ASSUME NEW st \in Store, NEW d \in Decisions, NEW b \in Budgets, NEW a, NEW e,
         NEW new, new = IssueToken(ReserveBudget(st, d, b, a, e), d, e)
  PROVE  /\ new.effect = st.effect /\ new.claim = st.claim /\ new.budget = st.budget
         /\ \A x \in Decisions \ {d} : new.token[x] = st.token[x] /\ new.hold[x] = st.hold[x]
         /\ new.token[d].state = "live" /\ new.token[d].expires = e
         /\ new.hold[d].status = "frozen" /\ new.hold[d].budget = b /\ new.hold[d].amount = a
         /\ new.hold[d].expires = e /\ new.hold[d].revision = Len(st.budget[b].versions)
         /\ \A c \in Budgets : new.balance[c] = IF c = b THEN Post(st.balance[c], 0, a)
                                                        ELSE st.balance[c]
<1>1. /\ new.effect = st.effect /\ new.claim = st.claim /\ new.budget = st.budget
      /\ new.token = [st.token EXCEPT ![d] = [state |-> "live", expires |-> e]]
      /\ new.hold = [st.hold EXCEPT ![d] =
           [status |-> "frozen", budget |-> b, amount |-> a, expires |-> e,
            revision |-> Len(st.budget[b].versions)]]
      /\ new.balance = [st.balance EXCEPT ![b] = Post(st.balance[b], 0, a)]
  BY DEF IssueToken, ReserveBudget, Store
<1>2. /\ st.token \in [Decisions -> Token] /\ st.hold \in [Decisions -> Hold]
      /\ st.balance \in [Budgets -> Balance]
  BY StoreFields
<1> QED BY <1>1, <1>2

\* A claim takes a hold over.
LEMMA ClaimFields ==
  ASSUME NEW st \in Store, NEW d \in Decisions, NEW e, NEW new, new = ClaimHold(st, d, e)
  PROVE  /\ new.effect = st.effect /\ new.token = st.token /\ new.budget = st.budget
         /\ new.balance = st.balance
         /\ \A x \in Decisions \ {d} : new.hold[x] = st.hold[x] /\ new.claim[x] = st.claim[x]
         /\ new.hold[d].status = "claimed" /\ new.hold[d].expires = e
         /\ new.hold[d].budget = st.hold[d].budget /\ new.hold[d].amount = st.hold[d].amount
         /\ new.hold[d].revision = st.hold[d].revision
         /\ new.claim[d].status = "claimed" /\ new.claim[d].expires = e
         /\ new.claim[d].charge = 0
<1>1. /\ new.effect = st.effect /\ new.token = st.token /\ new.budget = st.budget
      /\ new.balance = st.balance
  BY DEF ClaimHold, Store
<1>2. \A x \in Decisions \ {d} : new.hold[x] = st.hold[x] /\ new.claim[x] = st.claim[x]
  BY DEF ClaimHold, Store
<1>3. /\ new.hold[d] = [st.hold[d] EXCEPT !.status = "claimed", !.expires = e]
      /\ new.claim[d] = [status |-> "claimed", expires |-> e, charge |-> 0,
                         reconciled |-> FALSE]
  BY DEF ClaimHold, Store
<1>4. st.hold[d] \in Hold
  BY StoreFields
<1>5. /\ new.hold[d].status = "claimed" /\ new.hold[d].expires = e
      /\ new.hold[d].budget = st.hold[d].budget /\ new.hold[d].amount = st.hold[d].amount
      /\ new.hold[d].revision = st.hold[d].revision
  BY <1>3, <1>4 DEF Hold
<1> QED BY <1>1, <1>2, <1>3, <1>5

\* Nobody has reconciled a new claim.
LEMMA ClaimUnreconciled ==
  ASSUME NEW st \in Store, NEW d \in Decisions, NEW e, NEW new, new = ClaimHold(st, d, e)
  PROVE  ~new.claim[d].reconciled
<1>1. new.claim = [st.claim EXCEPT ![d] = [status |-> "claimed", expires |-> e, charge |-> 0,
                                           reconciled |-> FALSE]]
  BY DEF ClaimHold, Store
<1>2. st.claim \in [Decisions -> Claim]
  BY StoreFields
<1>3. new.claim[d] = [status |-> "claimed", expires |-> e, charge |-> 0, reconciled |-> FALSE]
  BY <1>1, <1>2
<1> QED BY <1>3

\* A settlement ends one claim with its hold and its token, consumes the charge
\* and gives the reserved amount back.
LEMMA SettleFields ==
  ASSUME NEW st \in Store, NEW d \in Decisions, NEW c, NEW r,
         NEW new, new = SettleClaim(st, d, c, r)
  PROVE  /\ new.effect = st.effect /\ new.budget = st.budget
         /\ \A x \in Decisions \ {d} : /\ new.token[x] = st.token[x]
                                       /\ new.hold[x] = st.hold[x]
                                       /\ new.claim[x] = st.claim[x]
         /\ new.token[d].state = "used"
         /\ new.hold[d].status = "settled"
         /\ new.hold[d].budget = st.hold[d].budget /\ new.hold[d].amount = st.hold[d].amount
         /\ new.claim[d].status = "settled" /\ new.claim[d].charge = c
         /\ new.claim[d].reconciled = r
         /\ \A b \in Budgets : new.balance[b] = IF b = st.hold[d].budget
                                THEN Post(st.balance[b], c, -st.hold[d].amount)
                                ELSE st.balance[b]
<1>1. new.effect = st.effect /\ new.budget = st.budget
  BY DEF SettleClaim, Store
<1>2. \A x \in Decisions \ {d} : /\ new.token[x] = st.token[x]
                                 /\ new.hold[x] = st.hold[x]
                                 /\ new.claim[x] = st.claim[x]
  BY DEF SettleClaim, Store
<1>3. /\ new.token[d] = [st.token[d] EXCEPT !.state = "used"]
      /\ new.hold[d] = [st.hold[d] EXCEPT !.status = "settled"]
      /\ new.claim[d] = [st.claim[d] EXCEPT !.status = "settled", !.charge = c,
                                            !.reconciled = r]
  BY DEF SettleClaim, Store
<1>4. st.token[d] \in Token /\ st.hold[d] \in Hold /\ st.claim[d] \in Claim
  BY StoreFields
<1>5. new.token[d].state = "used"
  BY <1>3, <1>4 DEF Token
<1>6. /\ new.hold[d].status = "settled"
      /\ new.hold[d].budget = st.hold[d].budget /\ new.hold[d].amount = st.hold[d].amount
  BY <1>3, <1>4 DEF Hold
<1>7. /\ new.claim[d].status = "settled" /\ new.claim[d].charge = c
      /\ new.claim[d].reconciled = r
  BY <1>3, <1>4 DEF Claim
<1>8. \A b \in Budgets : new.balance[b] = IF b = st.hold[d].budget
                                THEN Post(st.balance[b], c, -st.hold[d].amount)
                                ELSE st.balance[b]
  BY DEF SettleClaim, Store
<1> QED BY <1>1, <1>2, <1>5, <1>6, <1>7, <1>8

\* A release gives one hold's amount back and revokes its token.
LEMMA ReleaseFields ==
  ASSUME NEW st \in Store, NEW d \in Decisions, NEW new, new = ReleaseHold(st, d)
  PROVE  /\ new.effect = st.effect /\ new.claim = st.claim /\ new.budget = st.budget
         /\ \A x \in Decisions \ {d} : /\ new.token[x] = st.token[x]
                                       /\ new.hold[x] = st.hold[x]
         /\ new.token[d].state = "revoked"
         /\ new.hold[d].status = "released"
         /\ new.hold[d].budget = st.hold[d].budget /\ new.hold[d].amount = st.hold[d].amount
         /\ \A b \in Budgets : new.balance[b] = IF b = st.hold[d].budget
                                THEN Post(st.balance[b], 0, -st.hold[d].amount)
                                ELSE st.balance[b]
<1>1. new.effect = st.effect /\ new.claim = st.claim /\ new.budget = st.budget
  BY DEF ReleaseHold, Store
<1>2. \A x \in Decisions \ {d} : /\ new.token[x] = st.token[x]
                                 /\ new.hold[x] = st.hold[x]
  BY DEF ReleaseHold, Store
<1>3. /\ new.token[d] = [st.token[d] EXCEPT !.state = "revoked"]
      /\ new.hold[d] = [st.hold[d] EXCEPT !.status = "released"]
  BY DEF ReleaseHold, Store
<1>4. st.token[d] \in Token /\ st.hold[d] \in Hold
  BY StoreFields
<1>5. new.token[d].state = "revoked"
  BY <1>3, <1>4 DEF Token
<1>6. /\ new.hold[d].status = "released"
      /\ new.hold[d].budget = st.hold[d].budget /\ new.hold[d].amount = st.hold[d].amount
  BY <1>3, <1>4 DEF Hold
<1>7. \A b \in Budgets : new.balance[b] = IF b = st.hold[d].budget
                                THEN Post(st.balance[b], 0, -st.hold[d].amount)
                                ELSE st.balance[b]
  BY DEF ReleaseHold, Store
<1> QED BY <1>1, <1>2, <1>5, <1>6, <1>7

\* Releasing a claim also ends the claim.
LEMMA ReleaseClaimFields ==
  ASSUME NEW st \in Store, NEW d \in Decisions, NEW r, NEW new, new = ReleaseClaim(st, d, r)
  PROVE  LET rel == ReleaseHold(st, d)
         IN  /\ new.effect = rel.effect /\ new.token = rel.token /\ new.hold = rel.hold
             /\ new.budget = rel.budget /\ new.balance = rel.balance
             /\ \A x \in Decisions \ {d} : new.claim[x] = st.claim[x]
             /\ new.claim[d].status = "released" /\ new.claim[d].reconciled = r
             /\ new.claim[d].charge = st.claim[d].charge
<1> DEFINE rel == ReleaseHold(st, d)
<1>1. rel \in Store
  BY ReleaseHoldType
<1>2. rel.claim = st.claim
  BY ReleaseFields
<1> DEFINE c == [rel.claim[d] EXCEPT !.status = "released", !.reconciled = r]
           claim == [rel.claim EXCEPT ![d] = c]
<1>3. new = [rel EXCEPT !.claim = claim]
  BY DEF ReleaseClaim
<1> HIDE DEF rel, claim
<1>4. /\ new.effect = rel.effect /\ new.token = rel.token /\ new.hold = rel.hold
      /\ new.budget = rel.budget /\ new.balance = rel.balance
      /\ new.claim = claim
  BY <1>1, <1>3 DEF Store
<1>5. \A x \in Decisions \ {d} : new.claim[x] = st.claim[x]
  BY <1>2, <1>4 DEF claim
<1>6. new.claim[d] = [st.claim[d] EXCEPT !.status = "released", !.reconciled = r]
  <2>1. st.claim \in [Decisions -> Claim]
    BY StoreFields
  <2>2. claim = [st.claim EXCEPT ![d] = c] /\ c = [st.claim[d] EXCEPT !.status = "released", !.reconciled = r]
    BY <1>2 DEF claim
  <2> HIDE DEF c
  <2> QED BY <1>4, <2>1, <2>2
<1>7. st.claim[d] \in Claim
  BY StoreFields
<1>8. /\ new.claim[d].status = "released" /\ new.claim[d].reconciled = r
      /\ new.claim[d].charge = st.claim[d].charge
  BY <1>6, <1>7 DEF Claim
<1> QED BY <1>4, <1>5, <1>8 DEF rel

\* Budget administration changes budgets and balances only.
LEMMA AdministrationFields ==
  ASSUME NEW st \in Store, NEW b, NEW l, NEW new,
         \/ new = CreateBudget(st, b, l)
         \/ new = AppendBudgetVersion(st, b, l)
         \/ new = RevokeBudget(st, b)
  PROVE  /\ new.effect = st.effect /\ new.token = st.token
         /\ new.hold = st.hold /\ new.claim = st.claim
BY DEF CreateBudget, AppendBudgetVersion, RevokeBudget, Store

\* What a finalization copies into a cache.
LEMMA ApplyFinalizationFields ==
  ASSUME NEW cache \in Store, NEW st \in Store, NEW d \in Decisions,
         NEW new, new = ApplyPersistedFinalization(cache, st, d)
  PROVE  /\ new.effect = cache.effect /\ new.budget = cache.budget
         /\ \A x \in Decisions :
              /\ new.token[x] = IF x = d THEN st.token[x] ELSE cache.token[x]
              /\ new.hold[x] = IF x = d THEN st.hold[x] ELSE cache.hold[x]
              /\ new.claim[x] = IF x = d THEN st.claim[x] ELSE cache.claim[x]
         /\ \A b \in Budgets :
              new.balance[b] = IF b = st.hold[d].budget THEN st.balance[b] ELSE cache.balance[b]
<1>1. new.effect = cache.effect /\ new.budget = cache.budget
  BY DEF ApplyPersistedFinalization, Store
<1>2. /\ new.token = [cache.token EXCEPT ![d] = st.token[d]]
      /\ new.hold = [cache.hold EXCEPT ![d] = st.hold[d]]
      /\ new.claim = [cache.claim EXCEPT ![d] = st.claim[d]]
      /\ new.balance = [cache.balance EXCEPT ![st.hold[d].budget] = st.balance[st.hold[d].budget]]
  BY DEF ApplyPersistedFinalization, Store
<1>3. /\ cache.token \in [Decisions -> Token] /\ cache.hold \in [Decisions -> Hold]
      /\ cache.claim \in [Decisions -> Claim] /\ cache.balance \in [Budgets -> Balance]
  BY StoreFields
<1> QED BY <1>1, <1>2, <1>3

\* What a budget change copies into a cache.
LEMMA ApplyCommittedFields ==
  ASSUME NEW cache \in Store, NEW st \in Store, NEW new, new = ApplyCommittedState(cache, st)
  PROVE  /\ new.effect = cache.effect /\ new.token = cache.token /\ new.claim = cache.claim
         /\ new.hold = st.hold /\ new.budget = st.budget /\ new.balance = st.balance
BY DEF ApplyCommittedState, Store

----------------------------------------------------------------------------
(* What each transition does to the books *)

\* The cached amounts of a budget are what its holds and receipts say.
Books(st, b) ==
  /\ FrozenDerives(st, b)
  /\ RemainingDerives(st, b)
  /\ st.balance[b].consumed = SettledTotal(st, b)

\* One decision's share of what is reserved from a budget and settled with it
ActiveShare(st, d, b)  == IF d \in ActiveHolds(st, b) THEN st.hold[d].amount ELSE 0
SettledShare(st, d, b) == IF d \in SettledHolds(st, b) THEN st.claim[d].charge ELSE 0

OtherActive(st, d, b)  == Total(HoldAmount(st), ActiveHolds(st, b) \ {d})
OtherSettled(st, d, b) == Total(ClaimCharge(st), SettledHolds(st, b) \ {d})

\* The limit of a budget is an amount.
LEMMA LimitType ==
  ASSUME NEW st \in Store, NEW b \in Budgets
  PROVE  Limit(st, b) \in Amounts /\ Limit(st, b) \in Nat
<1> DEFINE v == st.budget[b].versions
<1>1. v \in Seq(Amounts)
  BY StoreFields DEF Budget
<1> HIDE DEF v
<1>2. (IF v = <<>> THEN 0 ELSE v[Len(v)]) \in Amounts
  BY <1>1, AmountAssumption DEF Amounts
<1>3. Limit(st, b) \in Amounts
  BY <1>2 DEF Limit, v
<1> QED BY <1>3, AmountAssumption DEF Amounts

\* The totals range over finite sets.
LEMMA HoldsFinite ==
  ASSUME NEW st, NEW b
  PROVE  IsFiniteSet(ActiveHolds(st, b)) /\ IsFiniteSet(SettledHolds(st, b))
<1>1. ActiveHolds(st, b) \subseteq Decisions /\ SettledHolds(st, b) \subseteq Decisions
  BY DEF ActiveHolds, SettledHolds
<1> QED BY <1>1, DecisionsFinite, FS_Subset

\* The totals are natural numbers.
LEMMA TotalsType ==
  ASSUME NEW st, NEW b
  PROVE  ActiveHoldTotal(st, b) \in Nat /\ SettledTotal(st, b) \in Nat
BY HoldsFinite, TotalType DEF ActiveHoldTotal, SettledTotal

\* What is reserved is one decision's share and the others'.
LEMMA SplitActive ==
  ASSUME NEW st \in Store, NEW d \in Decisions, NEW b
  PROVE  /\ ActiveHoldTotal(st, b) = OtherActive(st, d, b) + ActiveShare(st, d, b)
         /\ OtherActive(st, d, b) \in Nat /\ ActiveShare(st, d, b) \in Nat
<1> DEFINE A == ActiveHolds(st, b)
           f == HoldAmount(st)
<1>1. IsFiniteSet(A) /\ IsFiniteSet(A \ {d})
  BY HoldsFinite, FS_Subset
<1>2. f[d] = st.hold[d].amount /\ f[d] \in Amounts
  BY StoreFields DEF HoldAmount, Hold
<1>3. f[d] \in Nat
  BY <1>2, AmountAssumption DEF Amounts
<1>4. Total(f, A) \in Nat /\ Total(f, A \ {d}) \in Nat
  BY <1>1, TotalType
<1>5. ActiveHoldTotal(st, b) = Total(f, A) /\ OtherActive(st, d, b) = Total(f, A \ {d})
  BY DEF ActiveHoldTotal, OtherActive
<1> HIDE DEF A, f
<1>6. CASE d \in A
  <2>1. Total(f, A) = Total(f, A \ {d}) + f[d]
    BY <1>1, <1>2, <1>6, TotalRemove
  <2>2. ActiveShare(st, d, b) = f[d]
    BY <1>2, <1>6 DEF ActiveShare, A
  <2> QED BY <1>3, <1>4, <1>5, <2>1, <2>2
<1>7. CASE d \notin A
  <2>1. A \ {d} = A
    BY <1>7
  <2>2. ActiveShare(st, d, b) = 0
    BY <1>7 DEF ActiveShare, A
  <2> QED BY <1>4, <1>5, <2>1, <2>2
<1> QED BY <1>6, <1>7

\* The same for what is settled.
LEMMA SplitSettled ==
  ASSUME NEW st \in Store, NEW d \in Decisions, NEW b
  PROVE  /\ SettledTotal(st, b) = OtherSettled(st, d, b) + SettledShare(st, d, b)
         /\ OtherSettled(st, d, b) \in Nat /\ SettledShare(st, d, b) \in Nat
<1> DEFINE A == SettledHolds(st, b)
           f == ClaimCharge(st)
<1>1. IsFiniteSet(A) /\ IsFiniteSet(A \ {d})
  BY HoldsFinite, FS_Subset
<1>2. f[d] = st.claim[d].charge /\ f[d] \in Amounts
  BY StoreFields DEF ClaimCharge, Claim
<1>3. f[d] \in Nat
  BY <1>2, AmountAssumption DEF Amounts
<1>4. Total(f, A) \in Nat /\ Total(f, A \ {d}) \in Nat
  BY <1>1, TotalType
<1>5. SettledTotal(st, b) = Total(f, A) /\ OtherSettled(st, d, b) = Total(f, A \ {d})
  BY DEF SettledTotal, OtherSettled
<1> HIDE DEF A, f
<1>6. CASE d \in A
  <2>1. Total(f, A) = Total(f, A \ {d}) + f[d]
    BY <1>1, <1>2, <1>6, TotalRemove
  <2>2. SettledShare(st, d, b) = f[d]
    BY <1>2, <1>6 DEF SettledShare, A
  <2> QED BY <1>3, <1>4, <1>5, <2>1, <2>2
<1>7. CASE d \notin A
  <2>1. A \ {d} = A
    BY <1>7
  <2>2. SettledShare(st, d, b) = 0
    BY <1>7 DEF SettledShare, A
  <2> QED BY <1>4, <1>5, <2>1, <2>2
<1> QED BY <1>6, <1>7

\* A change of one decision leaves the others' totals alone.
LEMMA SameOthers ==
  ASSUME NEW st, NEW new, NEW d, NEW b,
         \A x \in Decisions \ {d} : /\ new.hold[x].status = st.hold[x].status
                                    /\ new.hold[x].budget = st.hold[x].budget
                                    /\ new.hold[x].amount = st.hold[x].amount
                                    /\ new.claim[x].charge = st.claim[x].charge
  PROVE  /\ OtherActive(new, d, b) = OtherActive(st, d, b)
         /\ OtherSettled(new, d, b) = OtherSettled(st, d, b)
<1>1. /\ ActiveHolds(new, b) \ {d} = ActiveHolds(st, b) \ {d}
      /\ SettledHolds(new, b) \ {d} = SettledHolds(st, b) \ {d}
  BY DEF ActiveHolds, SettledHolds
<1>2. /\ \A x \in ActiveHolds(st, b) \ {d} : HoldAmount(new)[x] = HoldAmount(st)[x]
      /\ \A x \in SettledHolds(st, b) \ {d} : ClaimCharge(new)[x] = ClaimCharge(st)[x]
  BY DEF ActiveHolds, SettledHolds, HoldAmount, ClaimCharge
<1>3. /\ Total(HoldAmount(new), ActiveHolds(st, b) \ {d})
           = Total(HoldAmount(st), ActiveHolds(st, b) \ {d})
      /\ Total(ClaimCharge(new), SettledHolds(st, b) \ {d})
           = Total(ClaimCharge(st), SettledHolds(st, b) \ {d})
  BY <1>2, TotalSame
<1> QED BY <1>1, <1>3 DEF OtherActive, OtherSettled

\* A transition of one decision keeps the books when it posts to each balance
\* what it adds to the decision's shares.
LEMMA OneDecisionBooks ==
  ASSUME NEW st \in Store, NEW new \in Store, NEW d \in Decisions, NEW b \in Budgets,
         Books(st, b),
         \A x \in Decisions \ {d} : /\ new.hold[x].status = st.hold[x].status
                                    /\ new.hold[x].budget = st.hold[x].budget
                                    /\ new.hold[x].amount = st.hold[x].amount
                                    /\ new.claim[x].charge = st.claim[x].charge,
         new.budget = st.budget,
         new.balance[b].frozen = st.balance[b].frozen + ActiveShare(new, d, b) - ActiveShare(st, d, b),
         new.balance[b].consumed
           = st.balance[b].consumed + SettledShare(new, d, b) - SettledShare(st, d, b),
         new.balance[b].remaining + new.balance[b].consumed + new.balance[b].frozen
           = st.balance[b].remaining + st.balance[b].consumed + st.balance[b].frozen
  PROVE  Books(new, b)
<1>1. /\ ActiveHoldTotal(st, b) = OtherActive(st, d, b) + ActiveShare(st, d, b)
      /\ OtherActive(st, d, b) \in Nat /\ ActiveShare(st, d, b) \in Nat
      /\ ActiveHoldTotal(new, b) = OtherActive(new, d, b) + ActiveShare(new, d, b)
  BY SplitActive
<1>2. /\ SettledTotal(st, b) = OtherSettled(st, d, b) + SettledShare(st, d, b)
      /\ OtherSettled(st, d, b) \in Nat /\ SettledShare(st, d, b) \in Nat
      /\ SettledTotal(new, b) = OtherSettled(new, d, b) + SettledShare(new, d, b)
  BY SplitSettled
<1>3. OtherActive(new, d, b) = OtherActive(st, d, b) /\ OtherSettled(new, d, b) = OtherSettled(st, d, b)
  BY SameOthers
<1>4. /\ st.balance[b].frozen = ActiveHoldTotal(st, b)
      /\ st.balance[b].consumed = SettledTotal(st, b)
      /\ st.balance[b].remaining = Limit(st, b) - st.balance[b].consumed - st.balance[b].frozen
  BY DEF Books, FrozenDerives, RemainingDerives
<1>5. Limit(new, b) = Limit(st, b)
  BY DEF Limit
<1>6. /\ st.balance[b].consumed \in Int /\ st.balance[b].frozen \in Int
      /\ st.balance[b].remaining \in Int
      /\ new.balance[b].remaining \in Int
      /\ Limit(st, b) \in Int
  BY StoreFields, LimitType DEF Balance
<1>7. ActiveShare(new, d, b) \in Nat /\ SettledShare(new, d, b) \in Nat
  BY SplitActive, SplitSettled
<1>8. new.balance[b].frozen = ActiveHoldTotal(new, b) /\ new.balance[b].frozen \in Int
  BY <1>1, <1>3, <1>4, <1>7
<1>9. new.balance[b].consumed = SettledTotal(new, b) /\ new.balance[b].consumed \in Int
  BY <1>2, <1>3, <1>4, <1>7
<1>10. new.balance[b].remaining = Limit(new, b) - new.balance[b].consumed - new.balance[b].frozen
  BY <1>4, <1>5, <1>6, <1>8, <1>9
<1> QED BY <1>8, <1>9, <1>10 DEF Books, FrozenDerives, RemainingDerives

\* The sweep gives each budget back exactly what it takes from its holds.
LEMMA ExpireBooks ==
  ASSUME NEW st \in Store, NEW t \in Nat, NEW b \in Budgets, Books(st, b),
         NEW new \in Store, new = ExpireOverdueBudgetHolds(st, t)
  PROVE  Books(new, b)
<1> DEFINE A == ActiveHolds(st, b)
           O == OverdueIn(st, t, b)
           f == HoldAmount(st)
<1>1. /\ new.claim = st.claim /\ new.budget = st.budget
      /\ \A d \in Decisions :
              /\ new.hold[d].status = IF d \in Overdue(st, t) THEN "expired" ELSE st.hold[d].status
              /\ new.hold[d].budget = st.hold[d].budget
              /\ new.hold[d].amount = st.hold[d].amount
      /\ new.balance[b] = Post(st.balance[b], 0, -Total(f, O))
  BY ExpireFields
<1>2. O \subseteq A /\ ActiveHolds(new, b) = A \ O
  BY <1>1 DEF ActiveHolds, OverdueIn, Overdue
<1>3. SettledHolds(new, b) = SettledHolds(st, b)
  BY <1>1 DEF SettledHolds, Overdue
<1>4. HoldAmount(new) = f /\ ClaimCharge(new) = ClaimCharge(st)
  BY <1>1 DEF HoldAmount, ClaimCharge
<1>5. IsFiniteSet(A) /\ IsFiniteSet(O) /\ IsFiniteSet(A \ O)
  BY <1>2, HoldsFinite, FS_Subset
<1>6. Total(f, A) = Total(f, A \ O) + Total(f, O)
  <2>1. (A \ O) \cup O = A /\ (A \ O) \cap O = {}
    BY <1>2
  <2>2. Total(f, (A \ O) \cup O) = Total(f, A \ O) + Total(f, O)
    BY <1>5, <2>1, TotalDisjoint
  <2> QED BY <2>1, <2>2
<1>7. Total(f, A \ O) \in Nat /\ Total(f, O) \in Nat
  BY <1>5, TotalType
<1>8. /\ st.balance[b].frozen = Total(f, A)
      /\ st.balance[b].consumed = SettledTotal(st, b)
      /\ st.balance[b].remaining = Limit(st, b) - st.balance[b].consumed - st.balance[b].frozen
  BY DEF Books, FrozenDerives, RemainingDerives, ActiveHoldTotal
<1>9. /\ ActiveHoldTotal(new, b) = Total(f, A \ O)
      /\ SettledTotal(new, b) = SettledTotal(st, b)
      /\ Limit(new, b) = Limit(st, b)
  BY <1>1, <1>2, <1>3, <1>4 DEF ActiveHoldTotal, SettledTotal, Limit
<1> DEFINE o == Total(f, O)
           n == Total(f, A \ O)
           l == Limit(st, b)
           s == SettledTotal(st, b)
<1>10. /\ new.balance[b].consumed = st.balance[b].consumed + 0
       /\ new.balance[b].frozen = st.balance[b].frozen + (-o)
       /\ new.balance[b].remaining = st.balance[b].remaining - 0 - (-o)
  BY <1>1 DEF Post
<1>11. l \in Int /\ s \in Nat
  BY LimitType, TotalsType
<1>12. o \in Nat /\ n \in Nat
  BY <1>7
<1>13. /\ st.balance[b].frozen = n + o
       /\ st.balance[b].consumed = s
       /\ st.balance[b].remaining = l - st.balance[b].consumed - st.balance[b].frozen
  BY <1>6, <1>8
<1>14. ActiveHoldTotal(new, b) = n /\ SettledTotal(new, b) = s /\ Limit(new, b) = l
  BY <1>9
<1> HIDE DEF o, n, l, s
<1> QED BY <1>10, <1>11, <1>12, <1>13, <1>14 DEF Books, FrozenDerives, RemainingDerives

\* A budget change leaves the totals alone.
LEMMA SameTotals ==
  ASSUME NEW st, NEW new, NEW b, new.hold = st.hold, new.claim = st.claim
  PROVE  ActiveHoldTotal(new, b) = ActiveHoldTotal(st, b) /\ SettledTotal(new, b) = SettledTotal(st, b)
<1>1. ActiveHolds(new, b) = ActiveHolds(st, b) /\ SettledHolds(new, b) = SettledHolds(st, b)
  BY DEF ActiveHolds, SettledHolds
<1>2. HoldAmount(new) = HoldAmount(st) /\ ClaimCharge(new) = ClaimCharge(st)
  BY DEF HoldAmount, ClaimCharge
<1> QED BY <1>1, <1>2 DEF ActiveHoldTotal, SettledTotal

----------------------------------------------------------------------------
(* Sound stores *)

\* A claim, its hold and its token are in the same stage, what does not exist
\* is blank, and a hold is taken from a budget that exists.
SoundDecision(st, d) ==
  /\ st.claim[d].status # "none" => st.hold[d].status = st.claim[d].status
  /\ st.hold[d].status \in {"claimed", "settled"} => st.claim[d].status = st.hold[d].status
  /\ st.hold[d].status \in {"frozen", "claimed", "expired"} => st.token[d].state = "live"
  /\ st.hold[d].status = "settled" <=> st.token[d].state = "used"
  /\ st.hold[d].status = "released" <=> st.token[d].state = "revoked"
  /\ st.token[d].state = "none" => st.token[d] = NoToken
  /\ st.claim[d].status = "none" => st.claim[d] = NoClaim
  /\ st.hold[d].status # "none" => /\ st.hold[d].budget \in Budgets
                                   /\ Exists(st, st.hold[d].budget)

\* Active budgets have disjoint periods.
ActiveApart(st) ==
  \A b, c \in Budgets :
    b # c /\ st.budget[b].state = "active" /\ st.budget[c].state = "active"
      => ~PeriodsOverlap(b, c)

Sound(st) ==
  /\ \A d \in Decisions : SoundDecision(st, d)
  /\ \A b \in Budgets : Books(st, b)
  /\ \A b \in Budgets : ~Exists(st, b) => st.budget[b].versions = <<>>
  /\ ActiveApart(st)

\* A sound store can be loaded.
LEMMA SoundHydrates ==
  ASSUME NEW st \in Store, Sound(st)
  PROVE  HydrationValid(st)
<1>1. \A b \in Budgets : /\ st.balance[b].consumed >= 0 /\ st.balance[b].frozen >= 0
                         /\ RemainingDerives(st, b) /\ FrozenDerives(st, b)
  <2> TAKE b \in Budgets
  <2>1. Books(st, b)
    BY DEF Sound
  <2>2. ActiveHoldTotal(st, b) \in Nat /\ SettledTotal(st, b) \in Nat
    BY TotalsType
  <2> QED BY <2>1, <2>2 DEF Books, FrozenDerives
<1> QED BY <1>1 DEF Sound, ActiveApart, HydrationValid

\* A transition of one decision that leaves it sound and keeps the books.
LEMMA OneDecisionSound ==
  ASSUME NEW st \in Store, NEW new \in Store, Sound(st), NEW d \in Decisions,
         \A x \in Decisions \ {d} : /\ new.token[x] = st.token[x]
                                    /\ new.hold[x] = st.hold[x]
                                    /\ new.claim[x] = st.claim[x],
         new.budget = st.budget,
         SoundDecision(new, d),
         \A b \in Budgets :
           /\ new.balance[b].frozen
                = st.balance[b].frozen + ActiveShare(new, d, b) - ActiveShare(st, d, b)
           /\ new.balance[b].consumed
                = st.balance[b].consumed + SettledShare(new, d, b) - SettledShare(st, d, b)
           /\ new.balance[b].remaining + new.balance[b].consumed + new.balance[b].frozen
                = st.balance[b].remaining + st.balance[b].consumed + st.balance[b].frozen
  PROVE  Sound(new)
<1>1. \A x \in Decisions : SoundDecision(new, x)
  <2> SUFFICES ASSUME NEW x \in Decisions, x # d PROVE SoundDecision(new, x)
    OBVIOUS
  <2>1. new.token[x] = st.token[x] /\ new.hold[x] = st.hold[x] /\ new.claim[x] = st.claim[x]
    OBVIOUS
  <2>2. SoundDecision(st, x)
    BY DEF Sound
  <2> QED BY <2>1, <2>2 DEF SoundDecision, Exists
<1>2. \A b \in Budgets : Books(new, b)
  <2> TAKE b \in Budgets
  <2>1. Books(st, b)
    BY DEF Sound
  <2>2. \A x \in Decisions \ {d} : /\ new.hold[x].status = st.hold[x].status
                                   /\ new.hold[x].budget = st.hold[x].budget
                                   /\ new.hold[x].amount = st.hold[x].amount
                                   /\ new.claim[x].charge = st.claim[x].charge
    OBVIOUS
  <2> QED BY <2>1, <2>2, OneDecisionBooks
<1>3. /\ \A b \in Budgets : ~Exists(new, b) => new.budget[b].versions = <<>>
      /\ ActiveApart(new)
  BY DEF Sound, Exists, ActiveApart
<1> QED BY <1>1, <1>2, <1>3 DEF Sound

\* The sweep ends unclaimed holds only.
LEMMA ExpireSound ==
  ASSUME NEW st \in Store, Sound(st), NEW t \in Nat,
         NEW new \in Store, new = ExpireOverdueBudgetHolds(st, t)
  PROVE  Sound(new)
<1>1. /\ new.token = st.token /\ new.claim = st.claim /\ new.budget = st.budget
      /\ \A d \in Decisions :
              /\ new.hold[d].status = IF d \in Overdue(st, t) THEN "expired" ELSE st.hold[d].status
              /\ new.hold[d].budget = st.hold[d].budget
  BY ExpireFields
<1>2. \A d \in Decisions : SoundDecision(new, d)
  <2> TAKE d \in Decisions
  <2>1. SoundDecision(st, d)
    BY DEF Sound
  <2>2. CASE d \in Overdue(st, t)
    <3>1. st.hold[d].status = "frozen" /\ new.hold[d].status = "expired"
      BY <1>1, <2>2 DEF Overdue
    <3>2. st.claim[d].status = "none"
      <4>1. st.claim[d].status \in ClaimStatuses
        BY StoreFields DEF Claim
      <4> QED BY <2>1, <3>1, <4>1 DEF SoundDecision, ClaimStatuses
    <3> QED BY <1>1, <2>1, <3>1, <3>2 DEF SoundDecision, Exists
  <2>3. CASE d \notin Overdue(st, t)
    <3>1. new.hold[d].status = st.hold[d].status
      BY <1>1, <2>3
    <3> QED BY <1>1, <2>1, <3>1 DEF SoundDecision, Exists
  <2> QED BY <2>2, <2>3
<1>3. \A b \in Budgets : Books(new, b)
  BY ExpireBooks DEF Sound
<1>4. /\ \A b \in Budgets : ~Exists(new, b) => new.budget[b].versions = <<>>
      /\ ActiveApart(new)
  BY <1>1 DEF Sound, Exists, ActiveApart
<1> QED BY <1>2, <1>3, <1>4 DEF Sound

\* A grant reserves its amount from a budget that exists.
LEMMA GrantSound ==
  ASSUME NEW st \in Store, Sound(st), NEW d \in Decisions, NEW b \in Budgets, Exists(st, b),
         st.hold[d].status = "none", st.claim[d].status = "none", NEW a \in Amounts, NEW e \in Nat,
         NEW new \in Store, new = IssueToken(ReserveBudget(st, d, b, a, e), d, e)
  PROVE  Sound(new)
<1>1. /\ new.claim = st.claim /\ new.budget = st.budget
      /\ \A x \in Decisions \ {d} : new.token[x] = st.token[x] /\ new.hold[x] = st.hold[x]
      /\ new.token[d].state = "live"
      /\ new.hold[d].status = "frozen" /\ new.hold[d].budget = b /\ new.hold[d].amount = a
      /\ \A c \in Budgets : new.balance[c] = IF c = b THEN Post(st.balance[c], 0, a)
                                                      ELSE st.balance[c]
  BY GrantFields
<1>2. SoundDecision(new, d)
  <2>1. SoundDecision(st, d)
    BY DEF Sound
  <2> QED BY <1>1, <2>1 DEF SoundDecision, Exists
<1>3. \A c \in Budgets :
        /\ ActiveShare(st, d, c) = 0 /\ SettledShare(st, d, c) = 0 /\ SettledShare(new, d, c) = 0
        /\ ActiveShare(new, d, c) = IF c = b THEN a ELSE 0
  BY <1>1 DEF ActiveShare, SettledShare, ActiveHolds, SettledHolds
<1>4. \A c \in Budgets :
        /\ new.balance[c].frozen
             = st.balance[c].frozen + ActiveShare(new, d, c) - ActiveShare(st, d, c)
        /\ new.balance[c].consumed
             = st.balance[c].consumed + SettledShare(new, d, c) - SettledShare(st, d, c)
        /\ new.balance[c].remaining + new.balance[c].consumed + new.balance[c].frozen
             = st.balance[c].remaining + st.balance[c].consumed + st.balance[c].frozen
  <2> TAKE c \in Budgets
  <2>1. /\ st.balance[c].consumed \in Int /\ st.balance[c].frozen \in Int
        /\ st.balance[c].remaining \in Int /\ a \in Int
    BY StoreFields, AmountAssumption DEF Balance, Amounts
  <2>2. new.balance[c] = IF c = b THEN Post(st.balance[c], 0, a) ELSE st.balance[c]
    BY <1>1
  <2> QED BY <1>3, <2>1, <2>2 DEF Post
<1> QED BY <1>1, <1>2, <1>4, OneDecisionSound

\* A claim takes over a frozen hold.
LEMMA ClaimSound ==
  ASSUME NEW st \in Store, Sound(st), NEW d \in Decisions, st.hold[d].status = "frozen", NEW e \in Nat,
         NEW new \in Store, new = ClaimHold(st, d, e)
  PROVE  Sound(new)
<1>1. /\ new.token = st.token /\ new.budget = st.budget /\ new.balance = st.balance
      /\ \A x \in Decisions \ {d} : new.hold[x] = st.hold[x] /\ new.claim[x] = st.claim[x]
      /\ new.hold[d].status = "claimed" /\ new.claim[d].status = "claimed"
      /\ new.hold[d].budget = st.hold[d].budget /\ new.hold[d].amount = st.hold[d].amount
  BY ClaimFields
<1>2. SoundDecision(new, d)
  <2>1. SoundDecision(st, d)
    BY DEF Sound
  <2> QED BY <1>1, <2>1 DEF SoundDecision, Exists
<1>3. \A c \in Budgets :
        /\ ActiveShare(new, d, c) = ActiveShare(st, d, c) /\ ActiveShare(st, d, c) \in Nat
        /\ SettledShare(st, d, c) = 0 /\ SettledShare(new, d, c) = 0
  <2>1. \A c \in Budgets : ActiveShare(st, d, c) \in Nat
    BY SplitActive
  <2> QED BY <1>1, <2>1 DEF ActiveShare, SettledShare, ActiveHolds, SettledHolds
<1>4. \A c \in Budgets :
        /\ new.balance[c].frozen
             = st.balance[c].frozen + ActiveShare(new, d, c) - ActiveShare(st, d, c)
        /\ new.balance[c].consumed
             = st.balance[c].consumed + SettledShare(new, d, c) - SettledShare(st, d, c)
        /\ new.balance[c].remaining + new.balance[c].consumed + new.balance[c].frozen
             = st.balance[c].remaining + st.balance[c].consumed + st.balance[c].frozen
  <2> TAKE c \in Budgets
  <2>1. st.balance[c].consumed \in Int /\ st.balance[c].frozen \in Int
    BY StoreFields DEF Balance
  <2> QED BY <1>1, <1>3, <2>1
<1> QED BY <1>1, <1>2, <1>4, OneDecisionSound

\* A settlement consumes the charge and gives the reserved amount back.
LEMMA SettleSound ==
  ASSUME NEW st \in Store, Sound(st), NEW d \in Decisions, st.hold[d].status = "claimed",
         NEW c \in Amounts, NEW r, NEW new \in Store, new = SettleClaim(st, d, c, r)
  PROVE  Sound(new)
<1>1. /\ new.budget = st.budget
      /\ \A x \in Decisions \ {d} : /\ new.token[x] = st.token[x]
                                    /\ new.hold[x] = st.hold[x]
                                    /\ new.claim[x] = st.claim[x]
      /\ new.token[d].state = "used"
      /\ new.hold[d].status = "settled"
      /\ new.hold[d].budget = st.hold[d].budget /\ new.hold[d].amount = st.hold[d].amount
      /\ new.claim[d].status = "settled" /\ new.claim[d].charge = c
      /\ \A b \in Budgets : new.balance[b] = IF b = st.hold[d].budget
                             THEN Post(st.balance[b], c, -st.hold[d].amount)
                             ELSE st.balance[b]
  BY SettleFields
<1>2. SoundDecision(new, d)
  <2>1. SoundDecision(st, d)
    BY DEF Sound
  <2> QED BY <1>1, <2>1 DEF SoundDecision, Exists
<1> DEFINE a == st.hold[d].amount
<1>3. \A b \in Budgets :
        /\ ActiveShare(st, d, b) = IF b = st.hold[d].budget THEN a ELSE 0
        /\ ActiveShare(new, d, b) = 0 /\ SettledShare(st, d, b) = 0
        /\ SettledShare(new, d, b) = IF b = st.hold[d].budget THEN c ELSE 0
  BY <1>1 DEF ActiveShare, SettledShare, ActiveHolds, SettledHolds
<1>4. a \in Nat /\ c \in Nat
  <2>1. a \in Amounts
    BY StoreFields DEF Hold
  <2> QED BY <2>1, AmountAssumption DEF Amounts
<1>5. \A b \in Budgets :
        /\ new.balance[b].frozen
             = st.balance[b].frozen + ActiveShare(new, d, b) - ActiveShare(st, d, b)
        /\ new.balance[b].consumed
             = st.balance[b].consumed + SettledShare(new, d, b) - SettledShare(st, d, b)
        /\ new.balance[b].remaining + new.balance[b].consumed + new.balance[b].frozen
             = st.balance[b].remaining + st.balance[b].consumed + st.balance[b].frozen
  <2> TAKE b \in Budgets
  <2>1. /\ st.balance[b].consumed \in Int /\ st.balance[b].frozen \in Int
        /\ st.balance[b].remaining \in Int
    BY StoreFields DEF Balance
  <2>2. new.balance[b] = IF b = st.hold[d].budget THEN Post(st.balance[b], c, -a) ELSE st.balance[b]
    BY <1>1
  <2> HIDE DEF a
  <2> QED BY <1>3, <1>4, <2>1, <2>2 DEF Post
<1> QED BY <1>1, <1>2, <1>5, OneDecisionSound

\* A hold that is given back is no longer reserved.
LEMMA ReleasePosts ==
  ASSUME NEW st \in Store, NEW d \in Decisions, st.hold[d].status \in {"frozen", "claimed"},
         NEW new, new.hold[d].status = "released", NEW b \in Budgets,
         new.balance[b] = IF b = st.hold[d].budget THEN Post(st.balance[b], 0, -st.hold[d].amount)
                                                   ELSE st.balance[b]
  PROVE  /\ new.balance[b].frozen
              = st.balance[b].frozen + ActiveShare(new, d, b) - ActiveShare(st, d, b)
         /\ new.balance[b].consumed
              = st.balance[b].consumed + SettledShare(new, d, b) - SettledShare(st, d, b)
         /\ new.balance[b].remaining + new.balance[b].consumed + new.balance[b].frozen
              = st.balance[b].remaining + st.balance[b].consumed + st.balance[b].frozen
<1> DEFINE a == st.hold[d].amount
<1>1. /\ ActiveShare(st, d, b) = IF b = st.hold[d].budget THEN a ELSE 0
      /\ ActiveShare(new, d, b) = 0
      /\ SettledShare(st, d, b) = 0 /\ SettledShare(new, d, b) = 0
  BY DEF ActiveShare, SettledShare, ActiveHolds, SettledHolds
<1>2. a \in Nat
  <2>1. a \in Amounts
    BY StoreFields DEF Hold
  <2> QED BY <2>1, AmountAssumption DEF Amounts
<1>3. /\ st.balance[b].consumed \in Int /\ st.balance[b].frozen \in Int
      /\ st.balance[b].remaining \in Int
  BY StoreFields DEF Balance
<1>4. new.balance[b] = IF b = st.hold[d].budget THEN Post(st.balance[b], 0, -a) ELSE st.balance[b]
  OBVIOUS
<1> HIDE DEF a
<1> QED BY <1>1, <1>2, <1>3, <1>4 DEF Post

\* Voiding releases a hold nobody claimed.
LEMMA VoidSound ==
  ASSUME NEW st \in Store, Sound(st), NEW d \in Decisions,
         st.hold[d].status = "frozen", st.claim[d].status = "none",
         NEW new \in Store, new = ReleaseHold(st, d)
  PROVE  Sound(new)
<1>1. /\ new.claim = st.claim /\ new.budget = st.budget
      /\ \A x \in Decisions \ {d} : new.token[x] = st.token[x] /\ new.hold[x] = st.hold[x]
      /\ new.token[d].state = "revoked" /\ new.hold[d].status = "released"
      /\ new.hold[d].budget = st.hold[d].budget
      /\ \A b \in Budgets : new.balance[b] = IF b = st.hold[d].budget
                             THEN Post(st.balance[b], 0, -st.hold[d].amount)
                             ELSE st.balance[b]
  BY ReleaseFields
<1>2. SoundDecision(new, d)
  <2>1. SoundDecision(st, d)
    BY DEF Sound
  <2> QED BY <1>1, <2>1 DEF SoundDecision, Exists
<1>3. \A b \in Budgets :
        /\ new.balance[b].frozen
             = st.balance[b].frozen + ActiveShare(new, d, b) - ActiveShare(st, d, b)
        /\ new.balance[b].consumed
             = st.balance[b].consumed + SettledShare(new, d, b) - SettledShare(st, d, b)
        /\ new.balance[b].remaining + new.balance[b].consumed + new.balance[b].frozen
             = st.balance[b].remaining + st.balance[b].consumed + st.balance[b].frozen
  BY <1>1, ReleasePosts
<1> QED BY <1>1, <1>2, <1>3, OneDecisionSound

\* Releasing a claim ends it with its hold.
LEMMA ReleaseClaimSound ==
  ASSUME NEW st \in Store, Sound(st), NEW d \in Decisions, st.hold[d].status = "claimed",
         NEW r, NEW new \in Store, new = ReleaseClaim(st, d, r)
  PROVE  Sound(new)
<1> DEFINE rel == ReleaseHold(st, d)
<1>1. /\ rel.budget = st.budget
      /\ \A x \in Decisions \ {d} : rel.token[x] = st.token[x] /\ rel.hold[x] = st.hold[x]
      /\ rel.token[d].state = "revoked" /\ rel.hold[d].status = "released"
      /\ rel.hold[d].budget = st.hold[d].budget
      /\ \A b \in Budgets : rel.balance[b] = IF b = st.hold[d].budget
                             THEN Post(st.balance[b], 0, -st.hold[d].amount)
                             ELSE st.balance[b]
  BY ReleaseFields
<1>2. /\ new.token = rel.token /\ new.hold = rel.hold /\ new.budget = rel.budget
      /\ new.balance = rel.balance
      /\ \A x \in Decisions \ {d} : new.claim[x] = st.claim[x]
      /\ new.claim[d].status = "released"
  BY ReleaseClaimFields
<1> HIDE DEF rel
<1>3. SoundDecision(new, d)
  <2>1. SoundDecision(st, d)
    BY DEF Sound
  <2> QED BY <1>1, <1>2, <2>1 DEF SoundDecision, Exists
<1>4. \A b \in Budgets :
        /\ new.balance[b].frozen
             = st.balance[b].frozen + ActiveShare(new, d, b) - ActiveShare(st, d, b)
        /\ new.balance[b].consumed
             = st.balance[b].consumed + SettledShare(new, d, b) - SettledShare(st, d, b)
        /\ new.balance[b].remaining + new.balance[b].consumed + new.balance[b].frozen
             = st.balance[b].remaining + st.balance[b].consumed + st.balance[b].frozen
  BY <1>1, <1>2, ReleasePosts
<1> QED BY <1>1, <1>2, <1>3, <1>4, OneDecisionSound

\* Recording an effect changes nothing that the books are about.
LEMMA RecordSound ==
  ASSUME NEW st \in Store, Sound(st), NEW d \in Decisions, NEW e, NEW new, new = RecordDecision(st, d, e)
  PROVE  Sound(new)
<1>1. /\ new.token = st.token /\ new.hold = st.hold /\ new.claim = st.claim
      /\ new.budget = st.budget /\ new.balance = st.balance
  BY DEF RecordDecision, Store
<1>2. \A b \in Budgets : Books(new, b)
  BY <1>1, SameTotals DEF Sound, Books, FrozenDerives, RemainingDerives, Limit
<1>3. \A x \in Decisions : SoundDecision(new, x)
  BY <1>1 DEF Sound, SoundDecision, Exists
<1> QED BY <1>1, <1>2, <1>3 DEF Sound, Exists, ActiveApart

\* What a budget change does to the budget.
LEMMA BudgetFields ==
  ASSUME NEW st \in Store, NEW b \in Budgets, NEW l \in Amounts, NEW new
  PROVE  /\ new = CreateBudget(st, b, l) =>
              /\ \A c \in Budgets \ {b} : new.budget[c] = st.budget[c] /\ new.balance[c] = st.balance[c]
              /\ new.budget[b].state = "active" /\ Limit(new, b) = l /\ new.budget[b].versions # <<>>
              /\ new.balance[b].consumed = 0 /\ new.balance[b].frozen = 0
              /\ new.balance[b].remaining = l
         /\ new = AppendBudgetVersion(st, b, l) =>
              /\ \A c \in Budgets \ {b} : new.budget[c] = st.budget[c] /\ new.balance[c] = st.balance[c]
              /\ new.budget[b].state = st.budget[b].state /\ Limit(new, b) = l
              /\ new.balance[b].consumed = st.balance[b].consumed
              /\ new.balance[b].frozen = st.balance[b].frozen
              /\ new.balance[b].remaining = l - Committed(st, b)
         /\ new = RevokeBudget(st, b) =>
              /\ new.balance = st.balance
              /\ \A c \in Budgets \ {b} : new.budget[c] = st.budget[c]
              /\ new.budget[b].state = "revoked" /\ new.budget[b].versions = st.budget[b].versions
<1>0. /\ st.budget \in [Budgets -> Budget] /\ st.balance \in [Budgets -> Balance]
      /\ st.budget[b] \in Budget /\ st.balance[b] \in Balance
  BY StoreFields
<1>1. ASSUME new = CreateBudget(st, b, l)
      PROVE  /\ \A c \in Budgets \ {b} : new.budget[c] = st.budget[c] /\ new.balance[c] = st.balance[c]
             /\ new.budget[b].state = "active" /\ Limit(new, b) = l /\ new.budget[b].versions # <<>>
             /\ new.balance[b].consumed = 0 /\ new.balance[b].frozen = 0
             /\ new.balance[b].remaining = l
  <2>1. /\ new.budget = [st.budget EXCEPT ![b] = [state |-> "active", versions |-> <<l>>]]
        /\ new.balance = [st.balance EXCEPT ![b] = [consumed |-> 0, frozen |-> 0, remaining |-> l]]
    BY <1>1 DEF CreateBudget, Store
  <2>2. /\ new.budget[b] = [state |-> "active", versions |-> <<l>>]
        /\ new.balance[b] = [consumed |-> 0, frozen |-> 0, remaining |-> l]
        /\ \A c \in Budgets \ {b} : new.budget[c] = st.budget[c] /\ new.balance[c] = st.balance[c]
    BY <1>0, <2>1
  <2>3. <<l>> # <<>> /\ <<l>>[Len(<<l>>)] = l
    OBVIOUS
  <2> QED BY <2>2, <2>3 DEF Limit
<1>2. ASSUME new = AppendBudgetVersion(st, b, l)
      PROVE  /\ \A c \in Budgets \ {b} : new.budget[c] = st.budget[c] /\ new.balance[c] = st.balance[c]
             /\ new.budget[b].state = st.budget[b].state /\ Limit(new, b) = l
             /\ new.balance[b].consumed = st.balance[b].consumed
             /\ new.balance[b].frozen = st.balance[b].frozen
             /\ new.balance[b].remaining = l - Committed(st, b)
  <2> DEFINE v == Append(st.budget[b].versions, l)
             m == l - Committed(st, b)
  <2>1. /\ new.budget = [st.budget EXCEPT ![b] = [state |-> st.budget[b].state, versions |-> v]]
        /\ new.balance = [st.balance EXCEPT ![b] = [st.balance[b] EXCEPT !.remaining = m]]
    BY <1>2 DEF AppendBudgetVersion, Store
  <2>2. v # <<>> /\ v[Len(v)] = l
    <3>1. st.budget[b].versions \in Seq(Amounts)
      BY <1>0 DEF Budget
    <3> QED BY <3>1
  <2> HIDE DEF v, m
  <2>3. /\ new.budget[b] = [state |-> st.budget[b].state, versions |-> v]
        /\ new.balance[b] = [st.balance[b] EXCEPT !.remaining = m]
        /\ \A c \in Budgets \ {b} : new.budget[c] = st.budget[c] /\ new.balance[c] = st.balance[c]
    BY <1>0, <2>1
  <2>4. /\ new.balance[b].consumed = st.balance[b].consumed
        /\ new.balance[b].frozen = st.balance[b].frozen
        /\ new.balance[b].remaining = m
    BY <1>0, <2>3 DEF Balance
  <2> QED BY <2>2, <2>3, <2>4 DEF Limit, m
<1>3. ASSUME new = RevokeBudget(st, b)
      PROVE  /\ new.balance = st.balance
             /\ \A c \in Budgets \ {b} : new.budget[c] = st.budget[c]
             /\ new.budget[b].state = "revoked" /\ new.budget[b].versions = st.budget[b].versions
  <2> DEFINE r == [st.budget[b] EXCEPT !.state = "revoked"]
  <2>1. new.budget = [st.budget EXCEPT ![b] = r] /\ new.balance = st.balance
    BY <1>3 DEF RevokeBudget, Store
  <2>2. r.state = "revoked" /\ r.versions = st.budget[b].versions
    BY <1>0 DEF Budget
  <2> HIDE DEF r
  <2> QED BY <1>0, <2>1, <2>2
<1> QED BY <1>1, <1>2, <1>3

\* A change of budgets and balances that derives every balance.
LEMMA BudgetSound ==
  ASSUME NEW st \in Store, NEW new \in Store, Sound(st),
         new.token = st.token, new.hold = st.hold, new.claim = st.claim,
         \A b \in Budgets : Books(new, b), ActiveApart(new),
         \A b \in Budgets : ~Exists(new, b) => ~Exists(st, b) /\ new.budget[b] = st.budget[b]
  PROVE  Sound(new)
<1>1. \A d \in Decisions : SoundDecision(new, d)
  <2> TAKE d \in Decisions
  <2>1. SoundDecision(st, d)
    BY DEF Sound
  <2>2. \A b \in Budgets : Exists(st, b) => Exists(new, b)
    OBVIOUS
  <2> QED BY <2>1, <2>2 DEF SoundDecision
<1>2. \A b \in Budgets : ~Exists(new, b) => new.budget[b].versions = <<>>
  BY DEF Sound
<1> QED BY <1>1, <1>2 DEF Sound

\* Nothing is reserved or settled from a budget that does not exist yet.
LEMMA CreateSound ==
  ASSUME NEW st \in Store, Sound(st), NEW b \in Budgets, NEW l \in Amounts, ~Exists(st, b),
         NEW new \in Store, new = CreateBudget(st, b, l), HydrationValid(new)
  PROVE  Sound(new)
<1>1. /\ new.token = st.token /\ new.hold = st.hold /\ new.claim = st.claim
  BY AdministrationFields
<1>2. /\ \A c \in Budgets \ {b} : new.budget[c] = st.budget[c] /\ new.balance[c] = st.balance[c]
      /\ new.budget[b].state = "active" /\ Limit(new, b) = l
      /\ new.balance[b].consumed = 0 /\ new.balance[b].frozen = 0 /\ new.balance[b].remaining = l
  BY BudgetFields
<1>3. ActiveHoldTotal(new, b) = 0 /\ SettledTotal(new, b) = 0
  <2>1. \A d \in Decisions : st.hold[d].status # "none" => st.hold[d].budget # b
    BY DEF Sound, SoundDecision
  <2>2. ActiveHolds(new, b) = {} /\ SettledHolds(new, b) = {}
    BY <1>1, <2>1 DEF ActiveHolds, SettledHolds
  <2> QED BY <2>2, TotalEmpty DEF ActiveHoldTotal, SettledTotal
<1>4. Books(new, b)
  <2>1. l \in Int
    BY AmountAssumption DEF Amounts
  <2> QED BY <1>2, <1>3, <2>1 DEF Books, FrozenDerives, RemainingDerives
<1>5. \A c \in Budgets \ {b} : Books(new, c)
  <2> TAKE c \in Budgets \ {b}
  <2>1. ActiveHoldTotal(new, c) = ActiveHoldTotal(st, c) /\ SettledTotal(new, c) = SettledTotal(st, c)
    BY <1>1, SameTotals
  <2>2. Limit(new, c) = Limit(st, c)
    BY <1>2 DEF Limit
  <2> QED BY <1>2, <2>1, <2>2 DEF Sound, Books, FrozenDerives, RemainingDerives
<1>6. \A c \in Budgets : ~Exists(new, c) => ~Exists(st, c) /\ new.budget[c] = st.budget[c]
  BY <1>2 DEF Exists
<1>7. ActiveApart(new)
  BY DEF HydrationValid, ActiveApart
<1>8. \A c \in Budgets : Books(new, c)
  BY <1>4, <1>5
<1> QED BY <1>1, <1>6, <1>7, <1>8, BudgetSound

\* A new limit derives the remaining amount anew.
LEMMA AppendSound ==
  ASSUME NEW st \in Store, Sound(st), NEW b \in Budgets, NEW l \in Amounts, Exists(st, b),
         NEW new \in Store, new = AppendBudgetVersion(st, b, l)
  PROVE  Sound(new)
<1>1. /\ new.token = st.token /\ new.hold = st.hold /\ new.claim = st.claim
  BY AdministrationFields
<1>2. /\ \A c \in Budgets \ {b} : new.budget[c] = st.budget[c] /\ new.balance[c] = st.balance[c]
      /\ new.budget[b].state = st.budget[b].state /\ Limit(new, b) = l
      /\ new.balance[b].consumed = st.balance[b].consumed
      /\ new.balance[b].frozen = st.balance[b].frozen
      /\ new.balance[b].remaining = l - Committed(st, b)
  BY BudgetFields
<1>3. \A c \in Budgets : /\ ActiveHoldTotal(new, c) = ActiveHoldTotal(st, c)
                         /\ SettledTotal(new, c) = SettledTotal(st, c)
  BY <1>1, SameTotals
<1>4. Books(new, b)
  <2>1. l \in Int /\ st.balance[b].consumed \in Int /\ st.balance[b].frozen \in Int
    BY AmountAssumption, StoreFields DEF Amounts, Balance
  <2>2. Books(st, b)
    BY DEF Sound
  <2> QED BY <1>2, <1>3, <2>1, <2>2 DEF Books, FrozenDerives, RemainingDerives, Committed
<1>5. \A c \in Budgets \ {b} : Books(new, c)
  <2> TAKE c \in Budgets \ {b}
  <2>1. Limit(new, c) = Limit(st, c)
    BY <1>2 DEF Limit
  <2> QED BY <1>2, <1>3, <2>1 DEF Sound, Books, FrozenDerives, RemainingDerives
<1>6. \A c \in Budgets : ~Exists(new, c) => ~Exists(st, c) /\ new.budget[c] = st.budget[c]
  BY <1>2 DEF Exists
<1>7. ActiveApart(new)
  BY <1>2 DEF Sound, ActiveApart
<1>8. \A c \in Budgets : Books(new, c)
  BY <1>4, <1>5
<1> QED BY <1>1, <1>6, <1>7, <1>8, BudgetSound

\* A revoked budget keeps its books.
LEMMA RevokeSound ==
  ASSUME NEW st \in Store, Sound(st), NEW b \in Budgets, Exists(st, b),
         NEW new \in Store, new = RevokeBudget(st, b)
  PROVE  Sound(new)
<1>0. 0 \in Amounts
  BY AmountAssumption DEF Amounts
<1>1. /\ new.token = st.token /\ new.hold = st.hold /\ new.claim = st.claim
  BY AdministrationFields
<1>2. /\ new.balance = st.balance
      /\ \A c \in Budgets \ {b} : new.budget[c] = st.budget[c]
      /\ new.budget[b].state = "revoked" /\ new.budget[b].versions = st.budget[b].versions
  BY <1>0, BudgetFields
<1>3. \A c \in Budgets : Books(new, c)
  <2> TAKE c \in Budgets
  <2>1. ActiveHoldTotal(new, c) = ActiveHoldTotal(st, c) /\ SettledTotal(new, c) = SettledTotal(st, c)
    BY <1>1, SameTotals
  <2>2. Limit(new, c) = Limit(st, c)
    BY <1>2 DEF Limit
  <2> QED BY <1>2, <2>1, <2>2 DEF Sound, Books, FrozenDerives, RemainingDerives
<1>4. \A c \in Budgets : ~Exists(new, c) => ~Exists(st, c) /\ new.budget[c] = st.budget[c]
  BY <1>2 DEF Exists
<1>5. ActiveApart(new)
  <2>1. \A c \in Budgets : new.budget[c].state = "active" => st.budget[c].state = "active"
    BY <1>2
  <2> QED BY <2>1 DEF Sound, ActiveApart
<1> QED BY <1>1, <1>3, <1>4, <1>5, BudgetSound

\* Nothing has happened in the empty file.
LEMMA EmptySound == Sound(EmptyStore)
<1>1. \A d \in Decisions : /\ EmptyStore.hold[d] = NoHold /\ EmptyStore.claim[d] = NoClaim
                           /\ EmptyStore.token[d] = NoToken
  BY DEF EmptyStore
<1>2. \A b \in Budgets : /\ EmptyStore.budget[b] = [state |-> "absent", versions |-> <<>>]
                         /\ EmptyStore.balance[b] = NoBalance
  BY DEF EmptyStore
<1>3. \A d \in Decisions : SoundDecision(EmptyStore, d)
  BY <1>1 DEF SoundDecision, NoHold, NoClaim, NoToken
<1>4. \A b \in Budgets : Books(EmptyStore, b)
  <2> TAKE b \in Budgets
  <2>1. ActiveHolds(EmptyStore, b) = {} /\ SettledHolds(EmptyStore, b) = {}
    BY <1>1 DEF ActiveHolds, SettledHolds, NoHold
  <2>2. ActiveHoldTotal(EmptyStore, b) = 0 /\ SettledTotal(EmptyStore, b) = 0
    BY <2>1, TotalEmpty DEF ActiveHoldTotal, SettledTotal
  <2>3. Limit(EmptyStore, b) = 0
    BY <1>2 DEF Limit
  <2> QED BY <1>2, <2>2, <2>3 DEF Books, FrozenDerives, RemainingDerives, NoBalance
<1>5. /\ \A b \in Budgets : ~Exists(EmptyStore, b) => EmptyStore.budget[b].versions = <<>>
      /\ ActiveApart(EmptyStore)
  BY <1>2 DEF ActiveApart
<1> QED BY <1>3, <1>4, <1>5 DEF Sound

=============================================================================
