------------------------ MODULE WalletPaymentProofs ------------------------
(* The direct payment path, for every number of operations, budgets and     *)
(* retries: no operation is charged twice unless its own request failed in  *)
(* the window between charge and token; recorded results are final; budget  *)
(* is consumed only for money that moved; and the file can always be        *)
(* loaded, whatever commit failed.                                          *)
EXTENDS WalletPayment, BudgetStoreProofs

----------------------------------------------------------------------------
(* The inductive invariant *)

Up == req.pc # "down"

\* The process remembers every saved result, a request in progress has what
\* its step says, and a success is in the ledger and on the rail.
PaymentsKept ==
  /\ Up => \A d \in Decisions : saved[d] # "none" => remembered[d] = saved[d]
  /\ req.pc \in {"save", "token", "close"} => req.result # "none" /\ remembered[req.d] = req.result
  /\ req.pc = "post" => remembered[req.d] = "none" /\ ledger[req.d] + 1 <= rail[req.d]
  /\ req.pc \in {"token", "close"} => saved[req.d] = req.result
  /\ req.pc = "token" => req.result = "succeeded"
  /\ \A d \in Decisions :
       /\ remembered[d] = "succeeded" \/ saved[d] = "succeeded" => 1 <= ledger[d]
       /\ ledger[d] <= rail[d]

\* A token and a claim come with a hold, and a settled hold was paid for.
Grounded(st) ==
  \A d \in Decisions :
    /\ st.token[d].state # "none" \/ st.claim[d].status # "none" => st.hold[d].status # "none"
    /\ st.hold[d].status = "settled" /\ st.claim[d].status # "settled" => saved[d] = "succeeded"

\* File and cache may disagree on the status of a hold, never on whether there
\* is one, nor on its claim and its budget; a payment is made under a hold.
StoresAgree ==
  /\ Grounded(disk)
  /\ Up => /\ Grounded(mem)
           /\ \A d \in Decisions : /\ mem.claim[d] = disk.claim[d]
                                   /\ mem.hold[d].budget = disk.hold[d].budget
                                   /\ mem.hold[d].status = "none" <=> disk.hold[d].status = "none"
  /\ req.pc \notin {"idle", "down"} => mem.hold[req.d].status # "none"

\* Where an operation whose request did not fail stands once it is charged:
\* the token is not usable again, first in memory and then in the file.
ChargedOnce(d) ==
  1 <= rail[d] =>
    /\ rail[d] = 1
    /\ disk.claim[d].status = "none"
    /\ \/ req.pc = "post" /\ req.d = d /\ ledger[d] = 0
       \/ /\ req.pc \in {"save", "token"} /\ req.d = d
          /\ ledger[d] = 1
          /\ mem.token[d].state = "used"
          /\ remembered[d] = "succeeded"
       \/ /\ ledger[d] = 1
          /\ disk.token[d].state = "used"
          /\ Up => mem.token[d].state = "used"

ChargesKept == \A d \in Decisions \ interrupted : ChargedOnce(d)

\* The balance covers what executors settled and nothing is overdrawn.
ExecutorTotal(b) == Total(ClaimCharge(disk), ExecutorSettled(b))

Covers(st, b) ==
  /\ 0 <= st.balance[b].remaining
  /\ ExecutorTotal(b) <= st.balance[b].consumed

Derives(st, b) == FrozenDerives(st, b) /\ RemainingDerives(st, b)

BooksKept ==
  \A b \in Budgets :
    /\ Derives(disk, b)
    /\ Covers(disk, b)
    /\ Up => Covers(mem, b)

PaymentInv == TypeOK /\ PaymentsKept /\ StoresAgree /\ ChargesKept /\ BooksKept

----------------------------------------------------------------------------
(* Requests *)

Steps == {"submit", "post", "refuse", "save", "token", "close"}

\* What a request is made of.
LEMMA RequestFields ==
  ASSUME NEW r \in Requests
  PROVE  /\ r.pc \in Steps \cup {"idle", "down"}
         /\ r.pc = "idle" <=> r = Idle
         /\ r.pc = "down" <=> r = Down
         /\ r.pc \in Steps => /\ r \in [pc : Steps, d : Decisions, held : HoldStatuses,
                                        result : PaymentStatuses]
                              /\ r.d \in Decisions
                              /\ r.held \in HoldStatuses
                              /\ r.result \in PaymentStatuses
BY DEF Requests, Steps, Idle, Down

\* The type invariant, variable by variable.
LEMMA Types ==
  ASSUME TypeOK
  PROVE  /\ disk \in Store /\ mem \in Store /\ req \in Requests /\ now \in Nat
         /\ saved \in [Decisions -> PaymentStatuses]
         /\ remembered \in [Decisions -> PaymentStatuses]
         /\ rail \in [Decisions -> 0..MaxCharges]
         /\ ledger \in [Decisions -> 0..MaxCharges]
         /\ interrupted \subseteq Decisions
BY DEF TypeOK

----------------------------------------------------------------------------
(* Budget transitions of the payment path *)

\* Settling and releasing keep the types.
LEMMA CloseType ==
  ASSUME NEW st \in Store, NEW d \in Decisions
  PROVE  SettleBudget(st, d) \in Store /\ ReleaseBudget(st, d) \in Store
<1> DEFINE b == st.hold[d].budget
           a == st.hold[d].amount
           settled == [st.hold EXCEPT ![d].status = "settled"]
           released == [st.hold EXCEPT ![d].status = "released"]
           spent == [st.balance EXCEPT ![b] = Post(st.balance[b], a, -a)]
           freed == [st.balance EXCEPT ![b] = Post(st.balance[b], 0, -a)]
<1>1. settled \in [Decisions -> Hold] /\ released \in [Decisions -> Hold]
  BY DEF Store, Hold, HoldStatuses
<1>2. a \in Int /\ -a \in Int
  BY AmountAssumption DEF Store, Hold, Amounts
<1>3. spent \in [Budgets -> Balance] /\ freed \in [Budgets -> Balance]
  BY <1>2, StoreFields, PostTableType
<1>4. /\ SettleBudget(st, d) = [st EXCEPT !.hold = settled, !.balance = spent]
      /\ ReleaseBudget(st, d) = [st EXCEPT !.hold = released, !.balance = freed]
  BY DEF SettleBudget, ReleaseBudget
<1> HIDE DEF settled, released, spent, freed
<1> QED BY <1>1, <1>3, <1>4 DEF Store

\* What a settlement or a release of the payment path may do to a store: one
\* hold ends, nothing is taken back and nothing is overdrawn.
Ends1(st, new, d, status) ==
  /\ new.token = st.token /\ new.claim = st.claim /\ new.budget = st.budget
  /\ \A x \in Decisions \ {d} : new.hold[x] = st.hold[x]
  /\ new.hold[d].budget = st.hold[d].budget
  /\ new.hold[d].status = status
  /\ \A b \in Budgets : /\ st.balance[b].consumed <= new.balance[b].consumed
                        /\ st.balance[b].remaining <= new.balance[b].remaining

\* Settling a hold.
LEMMA SettleBudgetFields ==
  ASSUME NEW st \in Store, NEW d \in Decisions, NEW new, new = SettleBudget(st, d)
  PROVE  Ends1(st, new, d, "settled")
<1> DEFINE b == st.hold[d].budget
           a == st.hold[d].amount
<1>0. a \in Nat
  BY AmountAssumption DEF Store, Hold, Amounts
<1>1. new.token = st.token /\ new.claim = st.claim /\ new.budget = st.budget
  BY DEF SettleBudget, Store
<1>2. new.hold = [st.hold EXCEPT ![d].status = "settled"]
  BY DEF SettleBudget, Store
<1>3. new.balance = [st.balance EXCEPT ![b] = Post(st.balance[b], a, -a)]
  BY DEF SettleBudget, Store
<1>4. /\ \A x \in Decisions \ {d} : new.hold[x] = st.hold[x]
      /\ new.hold[d].budget = st.hold[d].budget
      /\ new.hold[d].status = "settled"
  BY <1>2 DEF Store, Hold
<1>5. ASSUME NEW c \in Budgets
      PROVE  /\ st.balance[c].consumed <= new.balance[c].consumed
             /\ st.balance[c].remaining <= new.balance[c].remaining
  <2>1. st.balance[c] \in Balance /\ st.balance \in [Budgets -> Balance]
    BY StoreFields
  <2>2. st.balance[c].consumed \in Int /\ st.balance[c].remaining \in Int
    BY <2>1 DEF Balance
  <2> HIDE DEF a
  <2>3. CASE c = b
    <3>1. new.balance[c] = Post(st.balance[c], a, -a)
      BY <1>3, <2>1, <2>3
    <3> QED BY <3>1, <2>2, <1>0 DEF Post
  <2>4. CASE c # b
    BY <1>3, <2>1, <2>2, <2>4
  <2> QED BY <2>3, <2>4
<1> QED BY <1>1, <1>4, <1>5 DEF Ends1

\* Releasing a hold.
LEMMA ReleaseBudgetFields ==
  ASSUME NEW st \in Store, NEW d \in Decisions, NEW new, new = ReleaseBudget(st, d)
  PROVE  Ends1(st, new, d, "released")
<1> DEFINE b == st.hold[d].budget
           a == st.hold[d].amount
<1>0. a \in Nat
  BY AmountAssumption DEF Store, Hold, Amounts
<1>1. new.token = st.token /\ new.claim = st.claim /\ new.budget = st.budget
  BY DEF ReleaseBudget, Store
<1>2. new.hold = [st.hold EXCEPT ![d].status = "released"]
  BY DEF ReleaseBudget, Store
<1>3. new.balance = [st.balance EXCEPT ![b] = Post(st.balance[b], 0, -a)]
  BY DEF ReleaseBudget, Store
<1>4. /\ \A x \in Decisions \ {d} : new.hold[x] = st.hold[x]
      /\ new.hold[d].budget = st.hold[d].budget
      /\ new.hold[d].status = "released"
  BY <1>2 DEF Store, Hold
<1>5. ASSUME NEW c \in Budgets
      PROVE  /\ st.balance[c].consumed <= new.balance[c].consumed
             /\ st.balance[c].remaining <= new.balance[c].remaining
  <2>1. st.balance[c] \in Balance /\ st.balance \in [Budgets -> Balance]
    BY StoreFields
  <2>2. st.balance[c].consumed \in Int /\ st.balance[c].remaining \in Int
    BY <2>1 DEF Balance
  <2> HIDE DEF a
  <2>3. CASE c = b
    <3>1. new.balance[c] = Post(st.balance[c], 0, -a)
      BY <1>3, <2>1, <2>3
    <3> QED BY <3>1, <2>2, <1>0 DEF Post
  <2>4. CASE c # b
    BY <1>3, <2>1, <2>2, <2>4
  <2> QED BY <2>3, <2>4
<1> QED BY <1>1, <1>4, <1>5 DEF Ends1

\* What a write of the cached hold and balance may do to the file: nothing,
\* or the hold and the balance of its budget are the cache's and derive.
Writes(st, cache, new, d) ==
  \/ new = st
  \/ LET b == cache.hold[d].budget
     IN  /\ new.token = st.token /\ new.claim = st.claim /\ new.budget = st.budget
         /\ \A x \in Decisions : new.hold[x] = IF x = d THEN cache.hold[x] ELSE st.hold[x]
         /\ \A c \in Budgets : new.balance[c] = IF c = b THEN cache.balance[c] ELSE st.balance[c]
         /\ Derives(new, b)

\* update_budget_hold writes, keeping the types.
LEMMA UpdateFields ==
  ASSUME NEW st \in Store, NEW cache \in Store, NEW d \in Decisions,
         NEW new, new = UpdateBudgetHold(st, cache, d)
  PROVE  new \in Store /\ Writes(st, cache, new, d)
<1> DEFINE b == cache.hold[d].budget
           hold == [st.hold EXCEPT ![d] = cache.hold[d]]
           balance == [st.balance EXCEPT ![b] = cache.balance[b]]
           written == [st EXCEPT !.hold[d] = cache.hold[d], !.balance[b] = cache.balance[b]]
<1>1. \/ new = written /\ FrozenDerives(new, b) /\ RemainingDerives(new, b)
      \/ new = st
  BY DEF UpdateBudgetHold
<1>2. CASE new = st
  BY <1>2 DEF Writes
<1>3. CASE new = written /\ FrozenDerives(new, b) /\ RemainingDerives(new, b)
  <2>1. hold \in [Decisions -> Hold]
    BY StoreFields
  <2>2. balance \in [Budgets -> Balance]
    <3>1. CASE b \in Budgets
      BY <3>1, StoreFields
    <3>2. CASE b \notin Budgets
      BY <3>2, StoreFields
    <3> QED BY <3>1, <3>2
  <2>3. new = [st EXCEPT !.hold = hold, !.balance = balance]
    BY <1>3
  <2>4. /\ new.token = st.token /\ new.claim = st.claim /\ new.budget = st.budget
        /\ new.hold = hold /\ new.balance = balance
    BY <2>3 DEF Store
  <2>5. \A x \in Decisions : hold[x] = IF x = d THEN cache.hold[x] ELSE st.hold[x]
    BY StoreFields
  <2>6. \A c \in Budgets : balance[c] = IF c = b THEN cache.balance[c] ELSE st.balance[c]
    BY StoreFields
  <2> HIDE DEF hold, balance
  <2>7. new \in Store
    BY <2>1, <2>2, <2>3 DEF Store
  <2> QED BY <1>3, <2>4, <2>5, <2>6, <2>7 DEF Writes, Derives
<1> QED BY <1>1, <1>2, <1>3

----------------------------------------------------------------------------
(* The sweep, a grant, a claim and a settlement of an executor *)

\* A transition of one decision keeps the balance derived from the holds when
\* it posts to it what it adds to the decision's share.
LEMMA OneDecisionDerives ==
  ASSUME NEW st \in Store, NEW new \in Store, NEW d \in Decisions, NEW b \in Budgets,
         Derives(st, b),
         \A x \in Decisions \ {d} : new.hold[x] = st.hold[x],
         new.budget = st.budget,
         new.balance[b].frozen = st.balance[b].frozen + ActiveShare(new, d, b) - ActiveShare(st, d, b),
         new.balance[b].remaining + new.balance[b].consumed + new.balance[b].frozen
           = st.balance[b].remaining + st.balance[b].consumed + st.balance[b].frozen
  PROVE  Derives(new, b)
<1>1. /\ ActiveHoldTotal(st, b) = OtherActive(st, d, b) + ActiveShare(st, d, b)
      /\ OtherActive(st, d, b) \in Nat /\ ActiveShare(st, d, b) \in Nat
      /\ ActiveHoldTotal(new, b) = OtherActive(new, d, b) + ActiveShare(new, d, b)
      /\ ActiveShare(new, d, b) \in Nat
  BY SplitActive
<1>2. OtherActive(new, d, b) = OtherActive(st, d, b)
  <2>1. ActiveHolds(new, b) \ {d} = ActiveHolds(st, b) \ {d}
    BY DEF ActiveHolds
  <2>2. \A x \in ActiveHolds(st, b) \ {d} : HoldAmount(new)[x] = HoldAmount(st)[x]
    BY DEF ActiveHolds, HoldAmount
  <2>3. Total(HoldAmount(new), ActiveHolds(st, b) \ {d})
          = Total(HoldAmount(st), ActiveHolds(st, b) \ {d})
    BY <2>2, TotalSame
  <2> QED BY <2>1, <2>3 DEF OtherActive
<1>3. /\ st.balance[b].frozen = ActiveHoldTotal(st, b)
      /\ st.balance[b].remaining = Limit(st, b) - st.balance[b].consumed - st.balance[b].frozen
  BY DEF Derives, FrozenDerives, RemainingDerives
<1>4. Limit(new, b) = Limit(st, b)
  BY DEF Limit
<1>5. /\ st.balance[b].consumed \in Int /\ st.balance[b].frozen \in Int
      /\ st.balance[b].remaining \in Int
      /\ new.balance[b].consumed \in Int /\ new.balance[b].frozen \in Int
      /\ new.balance[b].remaining \in Int
      /\ Limit(st, b) \in Int
  BY StoreFields, LimitType DEF Balance
<1>6. new.balance[b].frozen = ActiveHoldTotal(new, b)
  BY <1>1, <1>2, <1>3
<1>7. new.balance[b].remaining = Limit(new, b) - new.balance[b].consumed - new.balance[b].frozen
  BY <1>3, <1>4, <1>5
<1> QED BY <1>6, <1>7 DEF Derives, FrozenDerives, RemainingDerives

\* Holds of the same budget that exist and are settled alike.
Alike(h, k) ==
  /\ k.budget = h.budget
  /\ k.status = "none" <=> h.status = "none"
  /\ k.status = "settled" <=> h.status = "settled"

Swept(st, new) ==
  /\ new.token = st.token /\ new.claim = st.claim /\ new.budget = st.budget
  /\ \A d \in Decisions : Alike(st.hold[d], new.hold[d])
  /\ \A b \in Budgets : /\ new.balance[b].consumed = st.balance[b].consumed
                        /\ st.balance[b].remaining <= new.balance[b].remaining
                        /\ Derives(st, b) => Derives(new, b)

\* The sweep takes overdue amounts from the frozen balance.
LEMMA SweepEffects ==
  ASSUME NEW st \in Store, NEW t \in Nat, NEW new, new = ExpireOverdueBudgetHolds(st, t)
  PROVE  new \in Store /\ Swept(st, new)
<1>0. new \in Store
  BY ExpireType
<1>1. /\ new.token = st.token /\ new.claim = st.claim /\ new.budget = st.budget
      /\ \A d \in Decisions :
              /\ new.hold[d].status = IF d \in Overdue(st, t) THEN "expired" ELSE st.hold[d].status
              /\ new.hold[d].budget = st.hold[d].budget
              /\ new.hold[d].amount = st.hold[d].amount
      /\ \A b \in Budgets :
           new.balance[b] = Post(st.balance[b], 0, -Total(HoldAmount(st), OverdueIn(st, t, b)))
  BY ExpireFields
<1>2. \A d \in Decisions : Alike(st.hold[d], new.hold[d])
  BY <1>1 DEF Alike, Overdue
<1>3. ASSUME NEW b \in Budgets
      PROVE  /\ new.balance[b].consumed = st.balance[b].consumed
             /\ st.balance[b].remaining <= new.balance[b].remaining
             /\ Derives(st, b) => Derives(new, b)
  <2> DEFINE A == ActiveHolds(st, b)
             O == OverdueIn(st, t, b)
             f == HoldAmount(st)
             o == Total(f, O)
             n == Total(f, A \ O)
             l == Limit(st, b)
  <2>1. O \subseteq A /\ ActiveHolds(new, b) = A \ O
    BY <1>1 DEF ActiveHolds, OverdueIn, Overdue
  <2>2. HoldAmount(new) = f
    BY <1>1 DEF HoldAmount
  <2>3. IsFiniteSet(A) /\ IsFiniteSet(O) /\ IsFiniteSet(A \ O)
    BY <2>1, HoldsFinite, FS_Subset
  <2>4. o \in Nat /\ n \in Nat
    BY <2>3, TotalType
  <2>5. Total(f, A) = n + o
    <3>1. (A \ O) \cup O = A /\ (A \ O) \cap O = {}
      BY <2>1
    <3>2. Total(f, (A \ O) \cup O) = n + o
      BY <2>3, <3>1, TotalDisjoint
    <3> QED BY <3>1, <3>2
  <2>6. ActiveHoldTotal(st, b) = Total(f, A) /\ ActiveHoldTotal(new, b) = n
    BY <2>1, <2>2 DEF ActiveHoldTotal
  <2>7. Limit(new, b) = l /\ l \in Int
    BY <1>1, LimitType DEF Limit
  <2>8. /\ new.balance[b].consumed = st.balance[b].consumed + 0
        /\ new.balance[b].frozen = st.balance[b].frozen + (-o)
        /\ new.balance[b].remaining = st.balance[b].remaining - 0 - (-o)
    <3>1. new.balance[b] = Post(st.balance[b], 0, -o)
      BY <1>1
    <3> HIDE DEF o
    <3> QED BY <3>1 DEF Post
  <2>9. /\ st.balance[b].consumed \in Int /\ st.balance[b].frozen \in Int
        /\ st.balance[b].remaining \in Int
    BY StoreFields DEF Balance
  <2>10. ActiveHoldTotal(st, b) = n + o
    BY <2>5, <2>6
  <2> HIDE DEF o, n
  <2>11. /\ new.balance[b].consumed = st.balance[b].consumed
         /\ st.balance[b].remaining <= new.balance[b].remaining
    BY <2>4, <2>8, <2>9
  <2>12. ASSUME Derives(st, b) PROVE Derives(new, b)
    <3>1. /\ st.balance[b].frozen = ActiveHoldTotal(st, b)
          /\ st.balance[b].remaining = l - st.balance[b].consumed - st.balance[b].frozen
      BY <2>12 DEF Derives, FrozenDerives, RemainingDerives
    <3> HIDE DEF l
    <3>2. /\ new.balance[b].frozen = n
          /\ new.balance[b].remaining = l - new.balance[b].consumed - new.balance[b].frozen
      BY <3>1, <2>4, <2>7, <2>8, <2>9, <2>10
    <3> QED BY <3>2, <2>6, <2>7 DEF Derives, FrozenDerives, RemainingDerives
  <2> QED BY <2>11, <2>12
<1> QED BY <1>0, <1>1, <1>2, <1>3 DEF Swept

\* What a transition of d leaves alone.
OthersAlike(st, new, d) ==
  \A x \in Decisions \ {d} : /\ new.token[x] = st.token[x]
                             /\ new.claim[x] = st.claim[x]
                             /\ Alike(st.hold[x], new.hold[x])

Grants(st, new, d, b) ==
  /\ OthersAlike(st, new, d)
  /\ new.claim = st.claim /\ new.budget = st.budget
  /\ st.hold[d].status = "none"
  /\ new.hold[d].status = "frozen" /\ new.hold[d].budget = b
  /\ \A c \in Budgets : /\ new.balance[c].consumed = st.balance[c].consumed
                        /\ 0 <= st.balance[c].remaining => 0 <= new.balance[c].remaining
                        /\ Derives(st, c) => Derives(new, c)

\* A grant reserves what remains.
LEMMA GrantEffects ==
  ASSUME NEW st \in Store, NEW mid \in Store, Swept(st, mid), NEW d \in Decisions,
         NEW b \in Budgets, NEW e \in Nat,
         mid.hold[d].status = "none", mid.balance[b].remaining >= Price,
         NEW new,
         new = IssueToken(ReserveBudget(RecordDecision(mid, d, "allow"), d, b, Price, e), d, e)
  PROVE  new \in Store /\ Grants(st, new, d, b)
<1> DEFINE rec == RecordDecision(mid, d, "allow")
<1>1. rec \in Store
  BY RecordDecisionType DEF Effects
<1>2. Price \in Amounts /\ Price \in Nat
  BY PaymentAssumption, AmountAssumption DEF Amounts
<1>3. /\ rec.token = mid.token /\ rec.hold = mid.hold /\ rec.claim = mid.claim
      /\ rec.budget = mid.budget /\ rec.balance = mid.balance
  BY DEF RecordDecision, Store
<1> HIDE DEF rec
<1>4. new = IssueToken(ReserveBudget(rec, d, b, Price, e), d, e)
  BY DEF rec
<1>5. ReserveBudget(rec, d, b, Price, e) \in Store
  BY <1>1, <1>2, ReserveType
<1>6. new \in Store
  BY <1>4, <1>5, IssueTokenType
<1>7. /\ new.claim = mid.claim /\ new.budget = mid.budget
      /\ \A x \in Decisions \ {d} : new.token[x] = mid.token[x] /\ new.hold[x] = mid.hold[x]
      /\ new.hold[d].status = "frozen" /\ new.hold[d].budget = b /\ new.hold[d].amount = Price
      /\ \A c \in Budgets : new.balance[c] = IF c = b THEN Post(mid.balance[c], 0, Price)
                                                      ELSE mid.balance[c]
  BY <1>1, <1>3, <1>4, GrantFields
<1>8. /\ mid.token = st.token /\ mid.claim = st.claim /\ mid.budget = st.budget
      /\ \A x \in Decisions : Alike(st.hold[x], mid.hold[x])
  BY DEF Swept
<1>9. OthersAlike(st, new, d) /\ st.hold[d].status = "none"
  BY <1>7, <1>8 DEF OthersAlike, Alike
<1>10. ASSUME NEW c \in Budgets
       PROVE  /\ new.balance[c].consumed = st.balance[c].consumed
              /\ 0 <= st.balance[c].remaining => 0 <= new.balance[c].remaining
              /\ Derives(st, c) => Derives(new, c)
  <2>1. /\ mid.balance[c].consumed \in Int /\ mid.balance[c].frozen \in Int
        /\ mid.balance[c].remaining \in Int /\ st.balance[c].remaining \in Int
    BY StoreFields DEF Balance
  <2>2. new.balance[c] = IF c = b THEN Post(mid.balance[c], 0, Price) ELSE mid.balance[c]
    BY <1>7
  <2>3. /\ mid.balance[c].consumed = st.balance[c].consumed
        /\ st.balance[c].remaining <= mid.balance[c].remaining
        /\ Derives(st, c) => Derives(mid, c)
    BY DEF Swept
  <2>4. /\ new.balance[c].consumed = mid.balance[c].consumed
        /\ 0 <= st.balance[c].remaining => 0 <= new.balance[c].remaining
    BY <1>2, <2>1, <2>2, <2>3 DEF Post
  <2>5. ASSUME Derives(mid, c) PROVE Derives(new, c)
    <3>1. ActiveShare(mid, d, c) = 0 /\ ActiveShare(new, d, c) = IF c = b THEN Price ELSE 0
      BY <1>7 DEF ActiveShare, ActiveHolds
    <3>2. /\ new.balance[c].frozen
               = mid.balance[c].frozen + ActiveShare(new, d, c) - ActiveShare(mid, d, c)
          /\ new.balance[c].remaining + new.balance[c].consumed + new.balance[c].frozen
               = mid.balance[c].remaining + mid.balance[c].consumed + mid.balance[c].frozen
      BY <1>2, <2>1, <2>2, <3>1 DEF Post
    <3> QED BY <1>6, <1>7, <2>5, <3>2, OneDecisionDerives
  <2> QED BY <2>3, <2>4, <2>5
<1> QED BY <1>6, <1>7, <1>8, <1>9, <1>10 DEF Grants

Claims(st, new, d, e) ==
  /\ OthersAlike(st, new, d)
  /\ new.token = st.token /\ new.budget = st.budget
  /\ st.hold[d].status # "none"
  /\ new.hold[d].status = "claimed" /\ new.hold[d].budget = st.hold[d].budget
  /\ new.claim[d] = [status |-> "claimed", expires |-> e, charge |-> 0, reconciled |-> FALSE]
  /\ \A c \in Budgets : /\ new.balance[c].consumed = st.balance[c].consumed
                        /\ st.balance[c].remaining <= new.balance[c].remaining
                        /\ Derives(st, c) => Derives(new, c)

\* A claim takes over a hold that the sweep left frozen.
LEMMA ClaimEffects ==
  ASSUME NEW st \in Store, NEW mid \in Store, Swept(st, mid), NEW d \in Decisions,
         NEW e \in Nat, mid.hold[d].status = "frozen", NEW new, new = ClaimHold(mid, d, e)
  PROVE  new \in Store /\ Claims(st, new, d, e)
<1>1. new \in Store
  BY ClaimHoldType
<1>2. /\ new.token = mid.token /\ new.budget = mid.budget /\ new.balance = mid.balance
      /\ \A x \in Decisions \ {d} : new.hold[x] = mid.hold[x] /\ new.claim[x] = mid.claim[x]
      /\ new.hold[d].status = "claimed"
      /\ new.hold[d].budget = mid.hold[d].budget /\ new.hold[d].amount = mid.hold[d].amount
  BY ClaimFields
<1>3. new.claim[d] = [status |-> "claimed", expires |-> e, charge |-> 0, reconciled |-> FALSE]
  BY DEF ClaimHold, Store
<1>4. /\ mid.token = st.token /\ mid.claim = st.claim /\ mid.budget = st.budget
      /\ \A x \in Decisions : Alike(st.hold[x], mid.hold[x])
  BY DEF Swept
<1>5. OthersAlike(st, new, d) /\ st.hold[d].status # "none" /\ new.hold[d].budget = st.hold[d].budget
  BY <1>2, <1>4 DEF OthersAlike, Alike
<1>6. ASSUME NEW c \in Budgets
      PROVE  Derives(mid, c) => Derives(new, c)
  <2> SUFFICES ASSUME Derives(mid, c) PROVE Derives(new, c)
    OBVIOUS
  <2>1. ActiveShare(new, d, c) = ActiveShare(mid, d, c) /\ ActiveShare(mid, d, c) \in Nat
    BY <1>2, SplitActive DEF ActiveShare, ActiveHolds
  <2>2. mid.balance[c].frozen \in Int
    BY StoreFields DEF Balance
  <2>3. new.balance[c].frozen
          = mid.balance[c].frozen + ActiveShare(new, d, c) - ActiveShare(mid, d, c)
    BY <1>2, <2>1, <2>2
  <2>4. new.balance[c].remaining + new.balance[c].consumed + new.balance[c].frozen
          = mid.balance[c].remaining + mid.balance[c].consumed + mid.balance[c].frozen
    BY <1>2
  <2>5. \A x \in Decisions \ {d} : new.hold[x] = mid.hold[x]
    BY <1>2
  <2>6. new.budget = mid.budget
    BY <1>2
  <2> QED BY <1>1, <2>3, <2>4, <2>5, <2>6, OneDecisionDerives
<1> QED BY <1>1, <1>2, <1>3, <1>4, <1>5, <1>6 DEF Claims, Swept

\* A settlement by the executor keeps the balance derived.
LEMMA SettleDerives ==
  ASSUME NEW st \in Store, NEW d \in Decisions, st.hold[d].status = "claimed",
         NEW new \in Store, NEW a, a = st.hold[d].amount, NEW r, new = SettleClaim(st, d, a, r),
         NEW b \in Budgets
  PROVE  /\ Derives(st, b) => Derives(new, b)
         /\ new.balance[b].remaining = st.balance[b].remaining
         /\ b = st.hold[d].budget => new.balance[b].consumed = st.balance[b].consumed + a
         /\ b # st.hold[d].budget => new.balance[b].consumed = st.balance[b].consumed
<1>0. /\ new.budget = st.budget
      /\ \A x \in Decisions \ {d} : /\ new.token[x] = st.token[x]
                                    /\ new.hold[x] = st.hold[x]
                                    /\ new.claim[x] = st.claim[x]
      /\ new.hold[d].status = "settled"
      /\ \A c \in Budgets : new.balance[c] = IF c = st.hold[d].budget
                             THEN Post(st.balance[c], a, -st.hold[d].amount)
                             ELSE st.balance[c]
  BY SettleFields
<1>1. /\ \A x \in Decisions \ {d} : new.hold[x] = st.hold[x]
      /\ new.balance[b] = IF b = st.hold[d].budget THEN Post(st.balance[b], a, -a)
                                                   ELSE st.balance[b]
  BY <1>0
<1>2. /\ st.balance[b].consumed \in Int /\ st.balance[b].frozen \in Int
      /\ st.balance[b].remaining \in Int
  BY StoreFields DEF Balance
<1>3. a \in Nat
  BY AmountAssumption DEF Store, Hold, Amounts
<1>4. /\ ActiveShare(st, d, b) = IF b = st.hold[d].budget THEN a ELSE 0
      /\ ActiveShare(new, d, b) = 0
  BY <1>0 DEF ActiveShare, ActiveHolds
<1>5. /\ new.balance[b].frozen
           = st.balance[b].frozen + ActiveShare(new, d, b) - ActiveShare(st, d, b)
      /\ new.balance[b].remaining = st.balance[b].remaining
      /\ b = st.hold[d].budget => new.balance[b].consumed = st.balance[b].consumed + a
      /\ b # st.hold[d].budget => new.balance[b].consumed = st.balance[b].consumed
      /\ new.balance[b].remaining + new.balance[b].consumed + new.balance[b].frozen
           = st.balance[b].remaining + st.balance[b].consumed + st.balance[b].frozen
  <2>1. CASE b = st.hold[d].budget
    <3>1. new.balance[b] = Post(st.balance[b], a, -a)
      BY <1>1, <2>1
    <3> QED BY <1>2, <1>3, <1>4, <2>1, <3>1 DEF Post
  <2>2. CASE b # st.hold[d].budget
    <3>1. new.balance[b] = st.balance[b]
      BY <1>1, <2>2
    <3> QED BY <1>2, <1>4, <2>2, <3>1
  <2> QED BY <2>1, <2>2
<1> QED BY <1>0, <1>1, <1>5, OneDecisionDerives

----------------------------------------------------------------------------
(* What each action does to the two stores *)

\* The handler's last step ends at most one hold in memory, and writes it.
LEMMA CloseEffects ==
  ASSUME TypeOK, ReleaseRejected \/ SettlePaidHold \/ ReleaseFailedHold
  PROVE  /\ disk' \in Store /\ mem' \in Store /\ req' = Idle
         /\ UNCHANGED <<saved, remembered, rail, ledger, now, interrupted>>
         /\ req.pc \in {"refuse", "close"} /\ req.d \in Decisions
         /\ Writes(disk, mem', disk', req.d)
         /\ \/ mem' = mem
            \/ Ends1(mem, mem', req.d, "released")
            \/ Ends1(mem, mem', req.d, "settled") /\ req.pc = "close" /\ req.result = "succeeded"
<1>1. disk \in Store /\ mem \in Store /\ req \in Requests
  BY Types
<1>2. req.pc \in {"refuse", "close"}
  BY DEF ReleaseRejected, SettlePaidHold, ReleaseFailedHold
<1>3. req.d \in Decisions
  BY <1>1, <1>2, RequestFields DEF Steps
<1>4. req' = Idle /\ UNCHANGED <<saved, remembered, rail, ledger, now, interrupted>>
  BY DEF ReleaseRejected, SettlePaidHold, ReleaseFailedHold
<1>5. ASSUME NEW cache \in Store, PublishHold(cache, req.d)
      PROVE  disk' \in Store /\ mem' = cache /\ Writes(disk, mem', disk', req.d)
  <2>1. mem' = cache
    BY <1>5 DEF PublishHold
  <2>2. CASE disk' = UpdateBudgetHold(disk, cache, req.d)
    BY <1>1, <1>3, <2>1, <2>2, UpdateFields
  <2>3. CASE disk' = disk
    BY <1>1, <2>1, <2>3 DEF Writes
  <2> QED BY <1>5, <2>2, <2>3, <2>1 DEF PublishHold
<1> DEFINE Settles == PublishHold(SettleBudget(mem, req.d), req.d)
           Releases == PublishHold(ReleaseBudget(mem, req.d), req.d)
<1>6. \/ PublishHold(mem, req.d)
      \/ Releases
      \/ Settles /\ req.pc = "close" /\ req.result = "succeeded"
      \/ UNCHANGED <<disk, mem>>
  <2>1. CASE ReleaseRejected
    BY <2>1 DEF ReleaseRejected
  <2>2. CASE SettlePaidHold
    <3> HIDE DEF Releases, Settles
    <3>1. \/ PublishHold(mem, req.d)
          \/ Settles
          \/ UNCHANGED <<disk, mem>>
      BY <2>2 DEF SettlePaidHold, Settles
    <3> QED BY <2>2, <3>1 DEF SettlePaidHold
  <2>3. CASE ReleaseFailedHold
    BY <2>3 DEF ReleaseFailedHold
  <2> QED BY <2>1, <2>2, <2>3
<1>7. CASE PublishHold(mem, req.d)
  BY <1>1, <1>2, <1>3, <1>4, <1>5, <1>7
<1>8. CASE Releases
  <2>1. ReleaseBudget(mem, req.d) \in Store
    BY <1>1, <1>3, CloseType
  <2>2. disk' \in Store /\ mem' = ReleaseBudget(mem, req.d) /\ Writes(disk, mem', disk', req.d)
    BY <1>5, <1>8, <2>1
  <2>3. Ends1(mem, mem', req.d, "released")
    BY <1>1, <1>3, <2>2, ReleaseBudgetFields
  <2> QED BY <1>2, <1>3, <1>4, <2>1, <2>2, <2>3
<1>9. CASE Settles /\ req.pc = "close" /\ req.result = "succeeded"
  <2>1. SettleBudget(mem, req.d) \in Store
    BY <1>1, <1>3, CloseType
  <2>2. disk' \in Store /\ mem' = SettleBudget(mem, req.d) /\ Writes(disk, mem', disk', req.d)
    BY <1>5, <1>9, <2>1
  <2>3. Ends1(mem, mem', req.d, "settled")
    BY <1>1, <1>3, <2>2, SettleBudgetFields
  <2> QED BY <1>2, <1>3, <1>4, <1>9, <2>1, <2>2, <2>3
<1>10. CASE UNCHANGED <<disk, mem>>
  BY <1>1, <1>2, <1>3, <1>4, <1>10 DEF Writes
<1> QED BY <1>6, <1>7, <1>8, <1>9, <1>10

\* An authorization grants the same in the file and in memory.
LEMMA AuthorizeEffects ==
  ASSUME TypeOK, NEW d \in Decisions, AuthorizeSpend(d)
  PROVE  /\ req = Idle /\ req' = req
         /\ UNCHANGED <<saved, remembered, rail, ledger, now, interrupted>>
         /\ disk' \in Store /\ mem' \in Store
         /\ \E b \in Budgets : Grants(disk, disk', d, b) /\ Grants(mem, mem', d, b)
<1> DEFINE e == now + AuthTTL
           granted(st, b) ==
             IssueToken(ReserveBudget(RecordDecision(st, d, "allow"), d, b, Price, e), d, e)
<1>1. disk \in Store /\ mem \in Store /\ now \in Nat
  BY Types
<1>2. e \in Nat
  BY <1>1, PaymentAssumption
<1>3. /\ Sweep(disk) \in Store /\ Swept(disk, Sweep(disk))
      /\ Sweep(mem) \in Store /\ Swept(mem, Sweep(mem))
  BY <1>1, SweepEffects DEF Sweep
<1>4. PICK b \in Budgets :
        /\ Sweep(disk).hold[d].status = "none"
        /\ Sweep(mem).hold[d].status = "none"
        /\ Sweep(disk).balance[b] = Sweep(mem).balance[b]
        /\ Sweep(mem).balance[b].remaining >= Price
        /\ disk' = granted(Sweep(disk), b)
        /\ mem' = granted(Sweep(mem), b)
  BY DEF AuthorizeSpend
<1> HIDE DEF e
<1>5. disk' \in Store /\ Grants(disk, disk', d, b)
  BY <1>1, <1>2, <1>3, <1>4, GrantEffects
<1>6. mem' \in Store /\ Grants(mem, mem', d, b)
  BY <1>1, <1>2, <1>3, <1>4, GrantEffects
<1> QED BY <1>5, <1>6 DEF AuthorizeSpend

\* A claim is the same in the file and in memory, on a live token.
LEMMA ClaimActionEffects ==
  ASSUME TypeOK, NEW d \in Decisions, ClaimExecutorSpend(d)
  PROVE  /\ req = Idle /\ req' = req
         /\ UNCHANGED <<saved, remembered, rail, ledger, now, interrupted>>
         /\ disk' \in Store /\ mem' \in Store
         /\ disk.claim[d].status = "none" /\ disk.token[d].state = "live"
         /\ \E e \in Nat : Claims(disk, disk', d, e) /\ Claims(mem, mem', d, e)
<1> DEFINE e == now + ClaimTTL
<1>1. disk \in Store /\ mem \in Store /\ now \in Nat
  BY Types
<1>2. e \in Nat
  BY <1>1, PaymentAssumption
<1>3. /\ Sweep(disk) \in Store /\ Swept(disk, Sweep(disk))
      /\ Sweep(mem) \in Store /\ Swept(mem, Sweep(mem))
  BY <1>1, SweepEffects DEF Sweep
<1>4. /\ Sweep(disk).claim[d].status = "none"
      /\ Sweep(disk).token[d].state = "live"
      /\ Sweep(disk).hold[d].status = "frozen"
      /\ Sweep(mem).hold[d].status = "frozen"
      /\ disk' = ClaimHold(Sweep(disk), d, e)
      /\ mem' = ClaimHold(Sweep(mem), d, e)
  BY DEF ClaimExecutorSpend
<1> HIDE DEF e
<1>5. disk' \in Store /\ Claims(disk, disk', d, e)
  BY <1>1, <1>2, <1>3, <1>4, ClaimEffects
<1>6. mem' \in Store /\ Claims(mem, mem', d, e)
  BY <1>1, <1>2, <1>3, <1>4, ClaimEffects
<1>7. disk.claim[d].status = "none" /\ disk.token[d].state = "live"
  BY <1>3, <1>4 DEF Swept
<1> QED BY <1>2, <1>5, <1>6, <1>7 DEF ClaimExecutorSpend

\* A new request sweeps both stores; it goes on if no executor has the claim.
LEMMA SpendEffects ==
  ASSUME TypeOK, NEW d \in Decisions, Spend(d)
  PROVE  /\ req = Idle
         /\ UNCHANGED <<saved, remembered, rail, ledger, now, interrupted>>
         /\ disk' \in Store /\ mem' \in Store
         /\ Swept(disk, disk') /\ Swept(mem, mem')
         /\ mem.hold[d].status # "none"
         /\ \/ req' = Idle
            \/ req' \in Requests /\ req'.pc = "submit" /\ req'.d = d
<1>1. disk \in Store /\ mem \in Store /\ now \in Nat
  BY Types
<1>2. disk' = Sweep(disk) /\ mem' = Sweep(mem)
  BY DEF Spend
<1>3. disk' \in Store /\ mem' \in Store /\ Swept(disk, disk') /\ Swept(mem, mem')
  BY <1>1, <1>2, SweepEffects DEF Sweep
<1>4. mem'.hold[d].status \in HoldStatuses
  BY <1>3, StoreFields DEF Hold
<1>5. \/ req' = Idle
      \/ req' = [pc |-> "submit", d |-> d, held |-> mem'.hold[d].status, result |-> "none"]
  BY <1>2 DEF Spend
<1>6. \/ req' = Idle
      \/ req' \in Requests /\ req'.pc = "submit" /\ req'.d = d
  BY <1>4, <1>5 DEF Requests, PaymentStatuses
<1> QED BY <1>3, <1>6 DEF Spend

\* A restart loads the swept file.
LEMMA StartEffects ==
  ASSUME TypeOK, StartServer
  PROVE  /\ req = Down /\ req' = Idle /\ remembered' = saved
         /\ UNCHANGED <<saved, rail, ledger, now, interrupted>>
         /\ disk' \in Store /\ mem' = disk' /\ Swept(disk, disk')
BY Types, SweepEffects DEF StartServer, Sweep

\* The executor's settlement.
LEMMA SettleExecutorEffects ==
  ASSUME TypeOK, NEW d \in Decisions, SettleExecutorClaim(d)
  PROVE  /\ req = Idle /\ req' = req
         /\ UNCHANGED <<saved, remembered, rail, ledger, now, interrupted>>
         /\ disk' \in Store /\ mem' \in Store
         /\ disk.claim[d].status = "claimed" /\ disk.hold[d].status = "claimed"
         /\ disk' = SettleClaim(disk, d, disk.hold[d].amount, FALSE)
         /\ mem' = ApplyPersistedFinalization(mem, disk', d)
<1>1. disk \in Store /\ mem \in Store
  BY Types
<1>2. disk.hold[d].amount \in Amounts
  BY <1>1, StoreFields DEF Hold
<1>3. disk' = SettleClaim(disk, d, disk.hold[d].amount, FALSE)
  BY DEF SettleExecutorClaim
<1>4. disk' \in Store
  BY <1>1, <1>2, <1>3, SettleClaimType
<1>5. mem' = ApplyPersistedFinalization(mem, disk', d)
  BY DEF SettleExecutorClaim
<1>6. mem' \in Store
  BY <1>1, <1>4, <1>5, ApplyType
<1> QED BY <1>3, <1>4, <1>5, <1>6 DEF SettleExecutorClaim

\* A token marked used.
LEMMA TokenEffects ==
  ASSUME NEW st \in Store, NEW d \in Decisions, NEW s \in TokenStates,
         NEW new, new = [st EXCEPT !.token[d].state = s]
  PROVE  /\ new \in Store
         /\ new.hold = st.hold /\ new.claim = st.claim /\ new.budget = st.budget
         /\ new.balance = st.balance
         /\ \A x \in Decisions \ {d} : new.token[x] = st.token[x]
         /\ new.token[d].state = s
<1> DEFINE token == [st.token EXCEPT ![d].state = s]
<1>1. token \in [Decisions -> Token]
  BY DEF Store, Token
<1>2. \A x \in Decisions \ {d} : token[x] = st.token[x]
  BY DEF Store
<1>3. token[d].state = s
  BY DEF Store, Token
<1>4. new = [st EXCEPT !.token = token]
  OBVIOUS
<1> HIDE DEF token
<1>5. /\ new.hold = st.hold /\ new.claim = st.claim /\ new.budget = st.budget
      /\ new.balance = st.balance /\ new.token = token
  BY <1>4 DEF Store
<1>6. new \in Store
  BY <1>1, <1>4 DEF Store
<1> QED BY <1>2, <1>3, <1>5, <1>6

----------------------------------------------------------------------------
(* Requests and results *)

\* The steps that go on with the request.
LEMMA ContinueEffects ==
  ASSUME TypeOK, req.pc \in Steps, NEW pc \in Steps, NEW result \in PaymentStatuses,
         Continue(pc, result)
  PROVE  /\ req' \in Requests /\ req.d \in Decisions
         /\ req'.pc = pc /\ req'.d = req.d /\ req'.result = result
<1>1. req \in Requests
  BY Types
<1>2. req' = [req EXCEPT !.pc = pc, !.result = result]
  BY DEF Continue
<1> DEFINE S == [pc : Steps, d : Decisions, held : HoldStatuses, result : PaymentStatuses]
<1>3. req \in S
  BY <1>1, RequestFields
<1>4. S \subseteq Requests
  BY DEF Requests, Steps
<1>5. req.d \in Decisions
  BY <1>3
<1>6. req' \in S /\ req'.pc = pc /\ req'.d = req.d /\ req'.result = result
  BY <1>2, <1>3
<1> QED BY <1>4, <1>5, <1>6

\* Where the request is before and after each of its steps.
LEMMA StepEffects ==
  ASSUME TypeOK
  PROVE  /\ ReplayPayment =>
              /\ req.pc = "submit" /\ req.d \in Decisions
              /\ req' \in Requests /\ req'.pc = "save" /\ req'.d = req.d
              /\ req'.result = remembered[req.d] /\ remembered[req.d] # "none"
         /\ ExecuteRail =>
              /\ req.pc = "submit" /\ req.d \in Decisions
              /\ req' \in Requests /\ req'.pc = "post" /\ req'.d = req.d
         /\ DeclinePayment =>
              /\ req.pc = "submit" /\ req.d \in Decisions
              /\ req' \in Requests /\ req'.pc = "save" /\ req'.d = req.d /\ req'.result = "failed"
         /\ RejectPayment =>
              /\ req.pc \in {"submit", "post"} /\ req.d \in Decisions
              /\ req' \in Requests /\ req'.pc = "refuse" /\ req'.d = req.d
         /\ PostLedger =>
              /\ req.pc = "post" /\ req.d \in Decisions
              /\ req' \in Requests /\ req'.pc = "save" /\ req'.d = req.d
              /\ req'.result = "succeeded"
         /\ SavePaymentAttempt =>
              /\ req.pc = "save" /\ req.d \in Decisions
              /\ req' \in Requests /\ req'.d = req.d /\ req'.result = req.result
              /\ req'.pc = IF req.result = "succeeded" THEN "token" ELSE "close"
         /\ SaveUsedToken =>
              /\ req.pc = "token" /\ req.d \in Decisions
              /\ req' \in Requests /\ req'.pc = "close" /\ req'.d = req.d
              /\ req'.result = req.result
<1>1. /\ req \in Requests /\ remembered \in [Decisions -> PaymentStatuses]
  BY Types
<1>2. req.pc \in Steps => req.d \in Decisions /\ req.result \in PaymentStatuses
  BY <1>1, RequestFields
<1>3. /\ Steps = {"submit", "post", "refuse", "save", "token", "close"}
      /\ PaymentStatuses = {"none", "succeeded", "failed"}
  BY DEF Steps, PaymentStatuses
<1>4. ReplayPayment =>
              /\ req.pc = "submit" /\ req.d \in Decisions
              /\ req' \in Requests /\ req'.pc = "save" /\ req'.d = req.d
              /\ req'.result = remembered[req.d] /\ remembered[req.d] # "none"
  BY <1>1, <1>2, <1>3, ContinueEffects DEF ReplayPayment
<1>5. ExecuteRail =>
              /\ req.pc = "submit" /\ req.d \in Decisions
              /\ req' \in Requests /\ req'.pc = "post" /\ req'.d = req.d
  BY <1>2, <1>3, ContinueEffects DEF ExecuteRail
<1>6. DeclinePayment =>
              /\ req.pc = "submit" /\ req.d \in Decisions
              /\ req' \in Requests /\ req'.pc = "save" /\ req'.d = req.d /\ req'.result = "failed"
  BY <1>2, <1>3, ContinueEffects DEF DeclinePayment
<1>7. RejectPayment =>
              /\ req.pc \in {"submit", "post"} /\ req.d \in Decisions
              /\ req' \in Requests /\ req'.pc = "refuse" /\ req'.d = req.d
  BY <1>2, <1>3, ContinueEffects DEF RejectPayment
<1>8. PostLedger =>
              /\ req.pc = "post" /\ req.d \in Decisions
              /\ req' \in Requests /\ req'.pc = "save" /\ req'.d = req.d
              /\ req'.result = "succeeded"
  BY <1>2, <1>3, ContinueEffects DEF PostLedger
<1>9. SavePaymentAttempt =>
              /\ req.pc = "save" /\ req.d \in Decisions
              /\ req' \in Requests /\ req'.d = req.d /\ req'.result = req.result
              /\ req'.pc = IF req.result = "succeeded" THEN "token" ELSE "close"
  <2> SUFFICES ASSUME SavePaymentAttempt
               PROVE  /\ req.pc = "save" /\ req.d \in Decisions
                      /\ req' \in Requests /\ req'.d = req.d /\ req'.result = req.result
                      /\ req'.pc = IF req.result = "succeeded" THEN "token" ELSE "close"
    OBVIOUS
  <2> DEFINE next == IF req.result = "succeeded" THEN "token" ELSE "close"
  <2>1. req.pc = "save" /\ Continue(next, req.result)
    BY DEF SavePaymentAttempt
  <2>2. next \in Steps /\ req.pc \in Steps
    BY <1>3, <2>1
  <2> HIDE DEF next
  <2>3. req' \in Requests /\ req'.pc = next /\ req'.d = req.d /\ req'.result = req.result
    BY <1>2, <2>1, <2>2, ContinueEffects
  <2> QED BY <1>2, <2>1, <2>2, <2>3 DEF next
<1>10. SaveUsedToken =>
              /\ req.pc = "token" /\ req.d \in Decisions
              /\ req' \in Requests /\ req'.pc = "close" /\ req'.d = req.d
              /\ req'.result = req.result
  BY <1>2, <1>3, ContinueEffects DEF SaveUsedToken
<1> QED BY <1>4, <1>5, <1>6, <1>7, <1>8, <1>9, <1>10

\* The file's token of the request becomes the cached one.
LEMMA SaveTokenEffects ==
  ASSUME TypeOK, SaveUsedToken
  PROVE  /\ disk' \in Store
         /\ disk'.hold = disk.hold /\ disk'.claim = disk.claim /\ disk'.budget = disk.budget
         /\ disk'.balance = disk.balance
         /\ \A x \in Decisions \ {req.d} : disk'.token[x] = disk.token[x]
         /\ disk'.token[req.d].state = mem.token[req.d].state
<1>1. disk \in Store /\ mem \in Store
  BY Types
<1>2. /\ req.d \in Decisions
      /\ disk' = [disk EXCEPT !.token[req.d].state = mem.token[req.d].state]
  BY StepEffects DEF SaveUsedToken
<1>3. mem.token[req.d].state \in TokenStates
  BY <1>1, <1>2, StoreFields DEF Token
<1> DEFINE x == req.d
           s == mem.token[x].state
           token == [disk.token EXCEPT ![x].state = s]
<1>4. disk' = [disk EXCEPT !.token = token]
  BY <1>2
<1>5. x \in Decisions /\ s \in TokenStates
  BY <1>2, <1>3
<1> HIDE DEF x, s
<1>6. /\ token \in [Decisions -> Token]
      /\ \A y \in Decisions \ {x} : token[y] = disk.token[y]
      /\ token[x].state = s
  BY <1>1, <1>5 DEF Store, Token
<1> HIDE DEF token
<1>7. /\ disk'.hold = disk.hold /\ disk'.claim = disk.claim /\ disk'.budget = disk.budget
      /\ disk'.balance = disk.balance /\ disk'.token = token /\ disk' \in Store
  BY <1>1, <1>4, <1>6 DEF Store
<1> QED BY <1>6, <1>7 DEF x, s

\* Every step keeps what is known of the requests and their results.
LEMMA PaymentsStep ==
  ASSUME TypeOK, PaymentsKept, [Next]_vars
  PROVE  PaymentsKept'
<1> USE DEF Up
<1>1. /\ saved \in [Decisions -> PaymentStatuses]
      /\ remembered \in [Decisions -> PaymentStatuses]
      /\ rail \in [Decisions -> Nat] /\ ledger \in [Decisions -> Nat]
      /\ req \in Requests
  BY Types, PaymentAssumption
<1>2. Idle.pc = "idle" /\ Down.pc = "down"
  BY DEF Idle, Down
<1>3. ASSUME UNCHANGED <<saved, remembered, rail, ledger>>,
             req' = req \/ req'.pc \in {"idle", "submit"}, req.pc # "down" \/ req' = req
      PROVE  PaymentsKept'
  BY <1>3 DEF PaymentsKept
<1>4. ASSUME NEW d \in Decisions, AuthorizeSpend(d) \/ ClaimExecutorSpend(d)
                                  \/ SettleExecutorClaim(d) \/ Spend(d)
      PROVE  PaymentsKept'
  <2>1. CASE AuthorizeSpend(d)
    BY <1>3, <2>1, AuthorizeEffects
  <2>2. CASE ClaimExecutorSpend(d)
    BY <1>3, <2>2, ClaimActionEffects
  <2>3. CASE SettleExecutorClaim(d)
    BY <1>3, <2>3, SettleExecutorEffects
  <2>4. CASE Spend(d)
    BY <1>2, <1>3, <2>4, SpendEffects
  <2> QED BY <1>4, <2>1, <2>2, <2>3, <2>4
<1>5. CASE ReplayPayment
  <2>1. UNCHANGED <<saved, remembered, rail, ledger>>
    BY <1>5 DEF ReplayPayment
  <2> QED BY <1>5, <2>1, StepEffects DEF PaymentsKept
<1>6. CASE ExecuteRail
  <2>1. /\ req.pc = "submit" /\ req.d \in Decisions /\ req'.pc = "post" /\ req'.d = req.d
        /\ remembered[req.d] = "none"
        /\ rail' = [rail EXCEPT ![req.d] = @ + 1]
        /\ UNCHANGED <<saved, remembered, ledger>>
    BY <1>6, StepEffects DEF ExecuteRail
  <2>2. \A d \in Decisions : /\ rail[d] \in Nat /\ ledger[d] \in Nat
                             /\ rail'[d] = IF d = req.d THEN rail[d] + 1 ELSE rail[d]
    BY <1>1, <2>1
  <2>3. ledger[req.d] + 1 <= rail'[req.d]
    BY <2>1, <2>2 DEF PaymentsKept
  <2>4. \A d \in Decisions : ledger[d] <= rail'[d]
    BY <2>2 DEF PaymentsKept
  <2> QED BY <2>1, <2>3, <2>4 DEF PaymentsKept
<1>7. CASE DeclinePayment
  <2>1. /\ req.pc = "submit" /\ req.d \in Decisions /\ req'.pc = "save" /\ req'.d = req.d
        /\ req'.result = "failed"
        /\ remembered[req.d] = "none"
        /\ remembered' = [remembered EXCEPT ![req.d] = "failed"]
        /\ UNCHANGED <<saved, rail, ledger>>
    BY <1>7, StepEffects DEF DeclinePayment
  <2>2. \A d \in Decisions : remembered'[d] = IF d = req.d THEN "failed" ELSE remembered[d]
    BY <1>1, <2>1
  <2> QED BY <2>1, <2>2 DEF PaymentsKept
<1>8. CASE RejectPayment
  <2>1. UNCHANGED <<saved, remembered, rail, ledger>>
    BY <1>8 DEF RejectPayment
  <2> QED BY <1>8, <2>1, StepEffects DEF PaymentsKept
<1>9. CASE ReleaseRejected \/ SettlePaidHold \/ ReleaseFailedHold
  <2>1. UNCHANGED <<saved, remembered, rail, ledger>> /\ req' = Idle /\ req.pc # "down"
    BY <1>9, CloseEffects
  <2> QED BY <1>2, <1>3, <2>1
<1>10. CASE PostLedger
  <2>1. /\ req.pc = "post" /\ req.d \in Decisions /\ req'.pc = "save" /\ req'.d = req.d
        /\ req'.result = "succeeded"
        /\ ledger' = [ledger EXCEPT ![req.d] = @ + 1]
        /\ remembered' = [remembered EXCEPT ![req.d] = "succeeded"]
        /\ UNCHANGED <<saved, rail>>
    BY <1>10, StepEffects DEF PostLedger
  <2>2. \A d \in Decisions :
          /\ rail[d] \in Nat /\ ledger[d] \in Nat
          /\ remembered'[d] = IF d = req.d THEN "succeeded" ELSE remembered[d]
          /\ ledger'[d] = IF d = req.d THEN ledger[d] + 1 ELSE ledger[d]
    BY <1>1, <2>1
  <2>3. remembered[req.d] = "none" /\ saved[req.d] = "none"
    BY <2>1 DEF PaymentsKept
  <2>4. \A d \in Decisions :
          /\ remembered'[d] = "succeeded" \/ saved'[d] = "succeeded" => 1 <= ledger'[d]
          /\ ledger'[d] <= rail'[d]
    BY <2>1, <2>2 DEF PaymentsKept
  <2>5. \A d \in Decisions : saved'[d] # "none" => remembered'[d] = saved'[d]
    BY <2>1, <2>2, <2>3 DEF PaymentsKept
  <2>6. remembered'[req'.d] = req'.result
    BY <2>1, <2>2
  <2> QED BY <2>1, <2>4, <2>5, <2>6 DEF PaymentsKept
<1>11. CASE SavePaymentAttempt
  <2>1. /\ req.pc = "save" /\ req.d \in Decisions /\ req'.d = req.d /\ req'.result = req.result
        /\ req'.pc = IF req.result = "succeeded" THEN "token" ELSE "close"
        /\ saved' = [saved EXCEPT ![req.d] = IF @ = "none" THEN req.result ELSE @]
        /\ UNCHANGED <<remembered, rail, ledger>>
    BY <1>11, StepEffects DEF SavePaymentAttempt
  <2>2. req.result # "none" /\ remembered[req.d] = req.result
    BY <2>1 DEF PaymentsKept
  <2>3. saved'[req.d] = req.result
    BY <1>1, <2>1, <2>2 DEF PaymentsKept
  <2>4. \A d \in Decisions \ {req.d} : saved'[d] = saved[d]
    BY <1>1, <2>1
  <2> QED BY <2>1, <2>2, <2>3, <2>4 DEF PaymentsKept
<1>12. CASE SaveUsedToken
  <2>1. UNCHANGED <<saved, remembered, rail, ledger>>
    BY <1>12 DEF SaveUsedToken
  <2> QED BY <1>12, <2>1, StepEffects DEF PaymentsKept
<1>13. CASE AbandonPayment
  <2>1. /\ UNCHANGED <<saved, remembered, rail, ledger>>
        /\ req' = Idle /\ req.pc \in {"save", "token"}
    BY <1>13 DEF AbandonPayment
  <2> QED BY <1>2, <1>3, <2>1
<1>14. CASE Crash
  <2>1. req' = Down /\ remembered' = NoPayments /\ UNCHANGED <<saved, rail, ledger>>
    BY <1>14 DEF Crash
  <2>2. \A d \in Decisions : remembered'[d] = "none"
    BY <2>1 DEF NoPayments
  <2> QED BY <1>2, <2>1, <2>2 DEF PaymentsKept
<1>15. CASE StartServer
  BY <1>2, <1>15, StartEffects DEF PaymentsKept
<1>16. CASE Tick
  BY <1>3, <1>16 DEF Tick
<1>17. CASE UNCHANGED vars
  BY <1>3, <1>17 DEF vars
<1> QED BY <1>4, <1>5, <1>6, <1>7, <1>8, <1>9, <1>10, <1>11, <1>12, <1>13, <1>14, <1>15,
           <1>16, <1>17 DEF Next, Submit

\* Every step keeps the types.
LEMMA TypeStep ==
  ASSUME TypeOK, PaymentsKept, [Next]_vars
  PROVE  TypeOK'
<1>1. /\ disk \in Store /\ mem \in Store /\ req \in Requests /\ now \in Nat
      /\ saved \in [Decisions -> PaymentStatuses]
      /\ remembered \in [Decisions -> PaymentStatuses]
      /\ rail \in [Decisions -> 0..MaxCharges]
      /\ ledger \in [Decisions -> 0..MaxCharges]
      /\ interrupted \subseteq Decisions
  BY Types
<1>2. Idle \in Requests /\ Down \in Requests
  BY DEF Requests
<1>3. ASSUME NEW d \in Decisions, AuthorizeSpend(d) \/ ClaimExecutorSpend(d)
                                  \/ SettleExecutorClaim(d) \/ Spend(d)
      PROVE  TypeOK'
  <2>1. CASE AuthorizeSpend(d)
    BY <1>1, <2>1, AuthorizeEffects DEF TypeOK
  <2>2. CASE ClaimExecutorSpend(d)
    BY <1>1, <2>2, ClaimActionEffects DEF TypeOK
  <2>3. CASE SettleExecutorClaim(d)
    BY <1>1, <2>3, SettleExecutorEffects DEF TypeOK
  <2>4. CASE Spend(d)
    BY <1>1, <1>2, <2>4, SpendEffects DEF TypeOK
  <2> QED BY <1>3, <2>1, <2>2, <2>3, <2>4
<1>4. CASE ReplayPayment
  <2>1. UNCHANGED <<disk, mem, saved, remembered, rail, ledger, now, interrupted>>
    BY <1>4 DEF ReplayPayment
  <2> QED BY <1>1, <1>4, <2>1, StepEffects DEF TypeOK
<1>5. CASE ExecuteRail
  <2>1. /\ UNCHANGED <<disk, mem, saved, remembered, ledger, now, interrupted>>
        /\ rail[req.d] < MaxCharges /\ rail' = [rail EXCEPT ![req.d] = @ + 1]
        /\ req.d \in Decisions /\ req' \in Requests
    BY <1>5, StepEffects DEF ExecuteRail
  <2>2. rail[req.d] + 1 \in 0..MaxCharges
    BY <1>1, <2>1, PaymentAssumption
  <2>3. rail' \in [Decisions -> 0..MaxCharges]
    BY <1>1, <2>1, <2>2
  <2> QED BY <1>1, <2>1, <2>3 DEF TypeOK
<1>6. CASE DeclinePayment
  <2>1. /\ UNCHANGED <<disk, mem, saved, rail, ledger, now, interrupted>>
        /\ remembered' = [remembered EXCEPT ![req.d] = "failed"]
    BY <1>6 DEF DeclinePayment
  <2>2. remembered' \in [Decisions -> PaymentStatuses]
    BY <1>1, <2>1 DEF PaymentStatuses
  <2> QED BY <1>1, <1>6, <2>1, <2>2, StepEffects DEF TypeOK
<1>7. interrupted \cup {d \in Decisions : req.pc \in {"post", "save", "token"} /\ req.d = d}
        \subseteq Decisions
  BY <1>1
<1>8. CASE RejectPayment
  <2>1. UNCHANGED <<disk, mem, saved, remembered, rail, ledger, now>> /\ Interrupt
    BY <1>8 DEF RejectPayment
  <2> QED BY <1>1, <1>7, <1>8, <2>1, StepEffects DEF TypeOK, Interrupt
<1>9. CASE ReleaseRejected \/ SettlePaidHold \/ ReleaseFailedHold
  BY <1>1, <1>2, <1>9, CloseEffects DEF TypeOK
<1>10. CASE PostLedger
  <2>1. /\ req.pc = "post" /\ req.d \in Decisions /\ req' \in Requests
        /\ ledger' = [ledger EXCEPT ![req.d] = @ + 1]
        /\ mem' = [mem EXCEPT !.token[req.d].state = "used"]
        /\ remembered' = [remembered EXCEPT ![req.d] = "succeeded"]
        /\ UNCHANGED <<disk, saved, rail, now, interrupted>>
    BY <1>10, StepEffects DEF PostLedger
  <2>2. mem' \in Store
    BY <1>1, <2>1, TokenEffects DEF TokenStates
  <2>3. remembered' \in [Decisions -> PaymentStatuses]
    BY <1>1, <2>1 DEF PaymentStatuses
  <2>4. ledger[req.d] + 1 <= rail[req.d]
    BY <2>1 DEF PaymentsKept
  <2>5. ledger[req.d] + 1 \in 0..MaxCharges
    BY <1>1, <2>1, <2>4, PaymentAssumption
  <2>6. ledger' \in [Decisions -> 0..MaxCharges]
    BY <1>1, <2>1, <2>5
  <2> QED BY <1>1, <2>1, <2>2, <2>3, <2>6 DEF TypeOK
<1>11. CASE SavePaymentAttempt
  <2>1. /\ req.pc = "save" /\ req.d \in Decisions /\ req' \in Requests
        /\ saved' = [saved EXCEPT ![req.d] = IF @ = "none" THEN req.result ELSE @]
        /\ UNCHANGED <<disk, mem, remembered, rail, ledger, now, interrupted>>
    BY <1>11, StepEffects DEF SavePaymentAttempt
  <2>2. req.result \in PaymentStatuses
    BY <1>1, <2>1, RequestFields DEF Steps
  <2>3. saved' \in [Decisions -> PaymentStatuses]
    BY <1>1, <2>1, <2>2
  <2> QED BY <1>1, <2>1, <2>3 DEF TypeOK
<1>12. CASE SaveUsedToken
  <2>1. /\ req' \in Requests
        /\ UNCHANGED <<mem, saved, remembered, rail, ledger, now, interrupted>>
    BY <1>12, StepEffects DEF SaveUsedToken
  <2>2. disk' \in Store
    BY <1>12, SaveTokenEffects
  <2> QED BY <1>1, <2>1, <2>2 DEF TypeOK
<1>13. CASE AbandonPayment
  <2>1. /\ UNCHANGED <<disk, mem, saved, remembered, rail, ledger, now>> /\ Interrupt
        /\ req' = Idle
    BY <1>13 DEF AbandonPayment
  <2> QED BY <1>1, <1>2, <1>7, <2>1 DEF TypeOK, Interrupt
<1>14. CASE Crash
  <2>1. /\ UNCHANGED <<disk, saved, rail, ledger, now>> /\ Interrupt
        /\ req' = Down /\ mem' = EmptyStore /\ remembered' = NoPayments
    BY <1>14 DEF Crash
  <2>2. NoPayments \in [Decisions -> PaymentStatuses]
    BY DEF NoPayments, PaymentStatuses
  <2> QED BY <1>1, <1>2, <1>7, <2>1, <2>2, EmptyStoreType DEF TypeOK, Interrupt
<1>15. CASE StartServer
  BY <1>1, <1>2, <1>15, StartEffects DEF TypeOK
<1>16. CASE Tick
  <2>1. now' \in Nat
    BY <1>1, <1>16 DEF Tick
  <2> QED BY <1>1, <1>16, <2>1 DEF TypeOK, Tick
<1>17. CASE UNCHANGED vars
  BY <1>1, <1>17 DEF TypeOK, vars
<1> QED BY <1>3, <1>4, <1>5, <1>6, <1>8, <1>9, <1>10, <1>11, <1>12, <1>13, <1>14, <1>15,
           <1>16, <1>17 DEF Next, Submit

----------------------------------------------------------------------------
(* The file and the cache *)

\* Grounded survives a step that only saves more.
LEMMA SweptGrounded ==
  ASSUME NEW st, NEW new, Swept(st, new), Grounded(st), saved' = saved
  PROVE  \A d \in Decisions :
           /\ new.token[d].state # "none" \/ new.claim[d].status # "none"
                => new.hold[d].status # "none"
           /\ new.hold[d].status = "settled" /\ new.claim[d].status # "settled"
                => saved'[d] = "succeeded"
BY DEF Swept, Alike, Grounded

\* Every step keeps what file and cache agree on.
LEMMA StoresStep ==
  ASSUME TypeOK, PaymentsKept, StoresAgree, [Next]_vars
  PROVE  StoresAgree'
<1> USE DEF Up
<1>1. disk \in Store /\ mem \in Store /\ req \in Requests
      /\ saved \in [Decisions -> PaymentStatuses]
  BY Types
<1>2. Idle.pc = "idle" /\ Down.pc = "down"
  BY DEF Idle, Down
<1>3. ASSUME NEW d \in Decisions, AuthorizeSpend(d)
      PROVE  StoresAgree'
  <2>1. PICK b \in Budgets : Grants(disk, disk', d, b) /\ Grants(mem, mem', d, b)
    BY <1>3, AuthorizeEffects
  <2>2. req = Idle /\ req' = req /\ saved' = saved
    BY <1>3, AuthorizeEffects
  <2>3. Grounded(disk)'
    BY <2>1, <2>2 DEF StoresAgree, Grounded, Grants, OthersAlike, Alike
  <2>4. Grounded(mem)'
    BY <1>2, <2>1, <2>2 DEF StoresAgree, Grounded, Grants, OthersAlike, Alike
  <2>5. \A x \in Decisions : /\ mem'.claim[x] = disk'.claim[x]
                             /\ mem'.hold[x].budget = disk'.hold[x].budget
                             /\ mem'.hold[x].status = "none" <=> disk'.hold[x].status = "none"
    BY <1>2, <2>1, <2>2 DEF StoresAgree, Grants, OthersAlike, Alike
  <2> QED BY <1>2, <2>2, <2>3, <2>4, <2>5 DEF StoresAgree
<1>4. ASSUME NEW d \in Decisions, ClaimExecutorSpend(d)
      PROVE  StoresAgree'
  <2>1. PICK e \in Nat : Claims(disk, disk', d, e) /\ Claims(mem, mem', d, e)
    BY <1>4, ClaimActionEffects
  <2>2. req = Idle /\ req' = req /\ saved' = saved
    BY <1>4, ClaimActionEffects
  <2>3. Grounded(disk)'
    BY <2>1, <2>2 DEF StoresAgree, Grounded, Claims, OthersAlike, Alike
  <2>4. Grounded(mem)'
    BY <1>2, <2>1, <2>2 DEF StoresAgree, Grounded, Claims, OthersAlike, Alike
  <2>5. \A x \in Decisions : /\ mem'.claim[x] = disk'.claim[x]
                             /\ mem'.hold[x].budget = disk'.hold[x].budget
                             /\ mem'.hold[x].status = "none" <=> disk'.hold[x].status = "none"
    BY <1>2, <2>1, <2>2 DEF StoresAgree, Claims, OthersAlike, Alike
  <2> QED BY <1>2, <2>2, <2>3, <2>4, <2>5 DEF StoresAgree
<1>5. ASSUME NEW d \in Decisions, SettleExecutorClaim(d)
      PROVE  StoresAgree'
  <2>1. /\ req = Idle /\ req' = req /\ saved' = saved
        /\ mem' = ApplyPersistedFinalization(mem, disk', d)
        /\ disk' \in Store
    BY <1>5, SettleExecutorEffects
  <2>2. PICK r : disk' = SettleClaim(disk, d, disk.hold[d].amount, r)
    BY <1>5, SettleExecutorEffects
  <2>3. /\ \A x \in Decisions \ {d} : /\ disk'.token[x] = disk.token[x]
                                      /\ disk'.hold[x] = disk.hold[x]
                                      /\ disk'.claim[x] = disk.claim[x]
        /\ disk'.hold[d].status = "settled"
        /\ disk'.claim[d].status = "settled"
    BY <1>1, <2>2, SettleFields
  <2>4. \A x \in Decisions :
          /\ mem'.token[x] = IF x = d THEN disk'.token[x] ELSE mem.token[x]
          /\ mem'.hold[x] = IF x = d THEN disk'.hold[x] ELSE mem.hold[x]
          /\ mem'.claim[x] = IF x = d THEN disk'.claim[x] ELSE mem.claim[x]
    BY <1>1, <2>1, ApplyFinalizationFields
  <2>5. Grounded(disk)'
    BY <2>1, <2>3 DEF StoresAgree, Grounded
  <2>6. Grounded(mem)'
    BY <1>2, <2>1, <2>3, <2>4 DEF StoresAgree, Grounded
  <2>7. \A x \in Decisions : /\ mem'.claim[x] = disk'.claim[x]
                             /\ mem'.hold[x].budget = disk'.hold[x].budget
                             /\ mem'.hold[x].status = "none" <=> disk'.hold[x].status = "none"
    BY <1>2, <2>1, <2>3, <2>4 DEF StoresAgree
  <2> QED BY <1>2, <2>1, <2>5, <2>6, <2>7 DEF StoresAgree
<1>6. ASSUME NEW d \in Decisions, Spend(d)
      PROVE  StoresAgree'
  <2>1. /\ req = Idle /\ saved' = saved
        /\ Swept(disk, disk') /\ Swept(mem, mem')
        /\ mem.hold[d].status # "none"
        /\ req' = Idle \/ (req'.pc = "submit" /\ req'.d = d)
    BY <1>6, SpendEffects
  <2>2. Grounded(disk) /\ Grounded(mem)
    BY <1>2, <2>1 DEF StoresAgree
  <2>3. Grounded(disk)' /\ Grounded(mem)'
    BY <2>1, <2>2, SweptGrounded DEF Grounded
  <2>4. \A x \in Decisions : /\ mem'.claim[x] = disk'.claim[x]
                             /\ mem'.hold[x].budget = disk'.hold[x].budget
                             /\ mem'.hold[x].status = "none" <=> disk'.hold[x].status = "none"
    BY <1>2, <2>1 DEF StoresAgree, Swept, Alike
  <2>5. mem'.hold[d].status # "none"
    BY <2>1 DEF Swept, Alike
  <2> QED BY <1>2, <2>1, <2>3, <2>4, <2>5 DEF StoresAgree
<1>7. ASSUME UNCHANGED <<disk, mem>>, \A d \in Decisions : saved[d] = "succeeded" => saved'[d] = "succeeded",
             \/ req'.pc = "idle" /\ req.pc # "down"
             \/ req' = req
             \/ req'.d = req.d /\ req.pc \in Steps /\ req'.pc \in Steps
      PROVE  StoresAgree'
  BY <1>7 DEF StoresAgree, Grounded, Steps
<1>8. CASE ReplayPayment \/ ExecuteRail \/ DeclinePayment \/ RejectPayment
  <2>1. UNCHANGED <<disk, mem, saved>>
    BY <1>8 DEF ReplayPayment, ExecuteRail, DeclinePayment, RejectPayment
  <2>2. req'.d = req.d /\ req.pc \in Steps /\ req'.pc \in Steps
    BY <1>8, StepEffects DEF Steps
  <2> QED BY <1>7, <2>1, <2>2
<1>9. CASE SavePaymentAttempt
  <2>1. /\ req.pc = "save" /\ req.d \in Decisions
        /\ saved' = [saved EXCEPT ![req.d] = IF @ = "none" THEN req.result ELSE @]
        /\ UNCHANGED <<disk, mem>>
    BY <1>9, StepEffects DEF SavePaymentAttempt
  <2>2. \A d \in Decisions : saved[d] = "succeeded" => saved'[d] = "succeeded"
    BY <1>1, <2>1
  <2>3. req'.d = req.d /\ req.pc \in Steps /\ req'.pc \in Steps
    BY <1>9, StepEffects DEF Steps
  <2> QED BY <1>7, <2>1, <2>2, <2>3
<1>10. CASE PostLedger
  <2>1. /\ req.pc = "post" /\ req.d \in Decisions /\ req'.pc = "save" /\ req'.d = req.d
        /\ mem' = [mem EXCEPT !.token[req.d].state = "used"]
        /\ UNCHANGED <<disk, saved>>
    BY <1>10, StepEffects DEF PostLedger
  <2>2. /\ mem'.hold = mem.hold /\ mem'.claim = mem.claim
        /\ \A x \in Decisions \ {req.d} : mem'.token[x] = mem.token[x]
    BY <1>1, <2>1, TokenEffects DEF TokenStates
  <2>3. mem.hold[req.d].status # "none"
    BY <2>1 DEF StoresAgree
  <2>4. Grounded(mem)'
    BY <2>1, <2>2, <2>3 DEF StoresAgree, Grounded
  <2>5. Grounded(disk)'
    BY <2>1 DEF StoresAgree, Grounded
  <2> QED BY <2>1, <2>2, <2>3, <2>4, <2>5 DEF StoresAgree
<1>11. CASE SaveUsedToken
  <2>1. /\ req.pc = "token" /\ req.d \in Decisions /\ req'.pc = "close" /\ req'.d = req.d
        /\ UNCHANGED <<mem, saved>>
    BY <1>11, StepEffects DEF SaveUsedToken
  <2>3. /\ disk'.hold = disk.hold /\ disk'.claim = disk.claim
        /\ \A x \in Decisions \ {req.d} : disk'.token[x] = disk.token[x]
    BY <1>11, SaveTokenEffects
  <2>4. saved[req.d] = "succeeded"
    BY <2>1 DEF PaymentsKept
  <2>5. Grounded(mem)'
    BY <2>1 DEF StoresAgree, Grounded
  <2>6. disk.hold[req.d].status # "none"
    BY <2>1 DEF StoresAgree
  <2>7. Grounded(disk)'
    BY <2>1, <2>3, <2>6 DEF StoresAgree, Grounded
  <2> QED BY <2>1, <2>3, <2>5, <2>7 DEF StoresAgree
<1>12. CASE ReleaseRejected \/ SettlePaidHold \/ ReleaseFailedHold
  <2> DEFINE d == req.d
  <2>1. /\ req' = Idle /\ saved' = saved /\ d \in Decisions /\ req.pc \in {"refuse", "close"}
        /\ Writes(disk, mem', disk', d)
        /\ \/ mem' = mem
           \/ Ends1(mem, mem', d, "released")
           \/ Ends1(mem, mem', d, "settled") /\ req.pc = "close" /\ req.result = "succeeded"
    BY <1>12, CloseEffects
  <2>2. mem.hold[d].status # "none"
    BY <2>1 DEF StoresAgree
  <2>3. req.pc = "close" /\ req.result = "succeeded" => saved[d] = "succeeded"
    BY <2>1 DEF PaymentsKept
  <2> HIDE DEF d
  <2>4. /\ mem'.token = mem.token /\ mem'.claim = mem.claim
        /\ \A x \in Decisions \ {d} : mem'.hold[x] = mem.hold[x]
        /\ mem'.hold[d].budget = mem.hold[d].budget
        /\ mem'.hold[d].status # "none"
        /\ mem'.hold[d].status = "settled" => mem.hold[d].status = "settled" \/ saved[d] = "succeeded"
    BY <2>1, <2>2, <2>3 DEF Ends1
  <2>5. Grounded(mem)'
    BY <2>1, <2>4 DEF StoresAgree, Grounded
  <2>6. \/ disk' = disk
        \/ /\ disk'.token = disk.token /\ disk'.claim = disk.claim
           /\ \A x \in Decisions : disk'.hold[x] = IF x = d THEN mem'.hold[x] ELSE disk.hold[x]
    BY <2>1 DEF Writes
  <2>7. \A x \in Decisions : /\ mem'.claim[x] = disk'.claim[x]
                             /\ mem'.hold[x].budget = disk'.hold[x].budget
                             /\ mem'.hold[x].status = "none" <=> disk'.hold[x].status = "none"
    <3>1. \A x \in Decisions : /\ mem.claim[x] = disk.claim[x]
                               /\ mem.hold[x].budget = disk.hold[x].budget
                               /\ mem.hold[x].status = "none" <=> disk.hold[x].status = "none"
      BY <2>1 DEF StoresAgree
    <3>2. CASE disk' = disk
      BY <2>1, <2>2, <2>4, <3>1, <3>2
    <3>3. CASE disk' # disk
      BY <2>1, <2>4, <2>6, <3>1, <3>3
    <3> QED BY <3>2, <3>3
  <2>8. Grounded(disk)'
    BY <2>1, <2>4, <2>5, <2>6, <2>7 DEF StoresAgree, Grounded
  <2> QED BY <1>2, <2>1, <2>5, <2>7, <2>8 DEF StoresAgree
<1>13. CASE AbandonPayment
  <2>1. UNCHANGED <<disk, mem, saved>> /\ req' = Idle /\ req.pc \in {"save", "token"}
    BY <1>13 DEF AbandonPayment
  <2> QED BY <1>2, <1>7, <2>1
<1>14. CASE Crash
  <2>1. req' = Down /\ UNCHANGED <<disk, saved>>
    BY <1>14 DEF Crash
  <2> QED BY <1>2, <2>1 DEF StoresAgree, Grounded
<1>15. CASE StartServer
  <2>1. req' = Idle /\ saved' = saved /\ mem' = disk' /\ Swept(disk, disk')
    BY <1>15, StartEffects
  <2>2. Grounded(disk)'
    BY <2>1, SweptGrounded DEF StoresAgree, Grounded
  <2>3. Grounded(mem)'
    BY <2>1, <2>2 DEF Grounded
  <2> QED BY <1>2, <2>1, <2>2, <2>3 DEF StoresAgree
<1>16. CASE Tick
  BY <1>7, <1>16 DEF Tick
<1>17. CASE UNCHANGED vars
  BY <1>7, <1>17 DEF vars
<1> QED BY <1>3, <1>4, <1>5, <1>6, <1>8, <1>9, <1>10, <1>11, <1>12, <1>13, <1>14, <1>15,
           <1>16, <1>17 DEF Next, Submit

----------------------------------------------------------------------------
(* Charges *)

\* A decision stays where it is when its own records do.
LEMMA SameCharge ==
  ASSUME NEW d \in Decisions, ChargedOnce(d),
         rail'[d] = rail[d], ledger'[d] = ledger[d],
         1 <= rail[d] =>
           /\ disk'.claim[d].status = disk.claim[d].status
           /\ disk'.token[d] = disk.token[d]
           /\ Up /\ Up' => mem'.token[d] = mem.token[d]
           /\ ~Up /\ Up' => mem'.token[d].state = disk'.token[d].state,
         req.pc \in {"post", "save", "token"} => req.d # d
  PROVE  ChargedOnce(d)'
BY DEF ChargedOnce, Up

\* Every step keeps the charges.
LEMMA ChargesStep ==
  ASSUME TypeOK, PaymentsKept, StoresAgree, ChargesKept, [Next]_vars
  PROVE  ChargesKept'
<1>1. /\ disk \in Store /\ mem \in Store /\ req \in Requests
      /\ rail \in [Decisions -> Nat] /\ ledger \in [Decisions -> Nat]
      /\ remembered \in [Decisions -> PaymentStatuses]
  BY Types, PaymentAssumption
<1>2. Idle.pc = "idle" /\ Down.pc = "down"
  BY DEF Idle, Down
<1> SUFFICES ASSUME NEW d \in Decisions, d \notin interrupted'
             PROVE  ChargedOnce(d)'
  BY DEF ChargesKept
<1>3. interrupted \subseteq interrupted'
  <2>1. CASE \E x \in Decisions : \/ AuthorizeSpend(x) \/ ClaimExecutorSpend(x)
                                  \/ SettleExecutorClaim(x) \/ Spend(x)
    BY <2>1 DEF AuthorizeSpend, ClaimExecutorSpend, SettleExecutorClaim, Spend
  <2>2. CASE Submit
    BY <2>2 DEF Submit, ReplayPayment, ExecuteRail, DeclinePayment, RejectPayment,
         ReleaseRejected, PostLedger, SavePaymentAttempt, SaveUsedToken, SettlePaidHold,
         ReleaseFailedHold, Interrupt
  <2>3. CASE AbandonPayment \/ Crash \/ StartServer \/ Tick \/ UNCHANGED vars
    BY <2>3 DEF AbandonPayment, Crash, StartServer, Tick, vars, Interrupt
  <2> QED BY <2>1, <2>2, <2>3 DEF Next
<1>4. ChargedOnce(d)
  BY <1>3 DEF ChargesKept
<1>5. rail[d] \in Nat /\ ledger[d] \in Nat /\ ledger[d] <= rail[d]
  BY <1>1 DEF PaymentsKept
<1>6. ASSUME NEW x \in Decisions, AuthorizeSpend(x)
      PROVE  ChargedOnce(d)'
  <2>1. PICK b \in Budgets : Grants(disk, disk', x, b) /\ Grants(mem, mem', x, b)
    BY <1>6, AuthorizeEffects
  <2>2. req = Idle /\ req' = req /\ UNCHANGED <<rail, ledger>>
    BY <1>6, AuthorizeEffects
  <2>3. ASSUME 1 <= rail[d] PROVE d # x
    <3>1. disk.token[d].state = "used"
      BY <1>2, <1>4, <2>2, <2>3 DEF ChargedOnce
    <3>2. disk.hold[d].status # "none"
      BY <3>1 DEF StoresAgree, Grounded
    <3> QED BY <2>1, <3>2 DEF Grants
  <2>4. 1 <= rail[d] => /\ disk'.claim[d].status = disk.claim[d].status
                        /\ disk'.token[d] = disk.token[d]
                        /\ mem'.token[d] = mem.token[d]
    BY <2>1, <2>3 DEF Grants, OthersAlike
  <2> QED BY <1>2, <1>4, <2>2, <2>4, SameCharge DEF Up
<1>7. ASSUME NEW x \in Decisions, ClaimExecutorSpend(x)
      PROVE  ChargedOnce(d)'
  <2>1. PICK e \in Nat : Claims(disk, disk', x, e) /\ Claims(mem, mem', x, e)
    BY <1>7, ClaimActionEffects
  <2>2. req = Idle /\ req' = req /\ UNCHANGED <<rail, ledger>> /\ disk.token[x].state = "live"
    BY <1>7, ClaimActionEffects
  <2>3. 1 <= rail[d] => d # x
    BY <1>2, <1>4, <2>2 DEF ChargedOnce
  <2>4. 1 <= rail[d] => /\ disk'.claim[d].status = disk.claim[d].status
                        /\ disk'.token[d] = disk.token[d]
                        /\ mem'.token[d] = mem.token[d]
    BY <2>1, <2>3 DEF Claims, OthersAlike
  <2> QED BY <1>2, <1>4, <2>2, <2>4, SameCharge DEF Up
<1>8. ASSUME NEW x \in Decisions, SettleExecutorClaim(x)
      PROVE  ChargedOnce(d)'
  <2>1. /\ req = Idle /\ req' = req /\ UNCHANGED <<rail, ledger>>
        /\ disk.claim[x].status = "claimed"
        /\ mem' = ApplyPersistedFinalization(mem, disk', x)
        /\ disk' \in Store
    BY <1>8, SettleExecutorEffects
  <2>2. PICK r : disk' = SettleClaim(disk, x, disk.hold[x].amount, r)
    BY <1>8, SettleExecutorEffects
  <2>3. \A y \in Decisions \ {x} : /\ disk'.token[y] = disk.token[y]
                                   /\ disk'.hold[y] = disk.hold[y]
                                   /\ disk'.claim[y] = disk.claim[y]
    BY <1>1, <2>2, SettleFields
  <2>4. \A y \in Decisions :
          /\ mem'.token[y] = IF y = x THEN disk'.token[y] ELSE mem.token[y]
          /\ mem'.hold[y] = IF y = x THEN disk'.hold[y] ELSE mem.hold[y]
          /\ mem'.claim[y] = IF y = x THEN disk'.claim[y] ELSE mem.claim[y]
    BY <1>1, <2>1, ApplyFinalizationFields
  <2>5. 1 <= rail[d] => d # x
    BY <1>4, <2>1 DEF ChargedOnce
  <2>6. 1 <= rail[d] => /\ disk'.claim[d].status = disk.claim[d].status
                        /\ disk'.token[d] = disk.token[d]
                        /\ mem'.token[d] = mem.token[d]
    BY <2>3, <2>4, <2>5
  <2> QED BY <1>2, <1>4, <2>1, <2>6, SameCharge DEF Up
<1>9. ASSUME NEW x \in Decisions, Spend(x)
      PROVE  ChargedOnce(d)'
  <2>1. req = Idle /\ UNCHANGED <<rail, ledger>> /\ Swept(disk, disk') /\ Swept(mem, mem')
    BY <1>9, SpendEffects
  <2>2. disk'.claim = disk.claim /\ disk'.token = disk.token /\ mem'.token = mem.token
    BY <2>1 DEF Swept
  <2> QED BY <1>2, <1>4, <2>1, <2>2, SameCharge DEF Up
<1>10. CASE ReplayPayment \/ DeclinePayment
  <2>1. UNCHANGED <<disk, mem, rail, ledger>>
    BY <1>10 DEF ReplayPayment, DeclinePayment
  <2>2. req.pc = "submit" /\ req'.pc = "save"
    BY <1>10, StepEffects
  <2> QED BY <1>4, <2>1, <2>2, SameCharge DEF Up
<1>11. CASE ExecuteRail
  <2>1. /\ req.pc = "submit" /\ req.d \in Decisions /\ req'.pc = "post" /\ req'.d = req.d
        /\ ValidateToken(req.d)
        /\ rail' = [rail EXCEPT ![req.d] = @ + 1]
        /\ UNCHANGED <<disk, mem, ledger>>
    BY <1>11, StepEffects DEF ExecuteRail
  <2>2. CASE d = req.d
    <3>1. mem.token[d].state = "live" /\ mem.claim[d].status = "none"
      BY <2>1, <2>2 DEF ValidateToken
    <3>2. disk.claim[d].status = "none"
      BY <2>1, <3>1 DEF StoresAgree, Up
    <3>3. rail[d] = 0
      BY <1>4, <1>5, <2>1, <3>1 DEF ChargedOnce, Up
    <3>4. rail'[d] = 1 /\ ledger'[d] = 0
      BY <1>1, <1>5, <2>1, <2>2, <3>3
    <3> QED BY <2>1, <2>2, <3>2, <3>4 DEF ChargedOnce
  <2>3. CASE d # req.d
    <3>1. rail'[d] = rail[d]
      BY <1>1, <2>1, <2>3
    <3> QED BY <1>4, <2>1, <3>1, SameCharge DEF Up
  <2> QED BY <2>2, <2>3
<1>12. CASE RejectPayment
  <2>1. /\ req.pc \in {"submit", "post"} /\ req'.pc = "refuse" /\ Interrupt
        /\ UNCHANGED <<disk, mem, rail, ledger>>
    BY <1>12, StepEffects DEF RejectPayment
  <2>2. req.pc = "post" => req.d # d
    BY <2>1 DEF Interrupt
  <2> QED BY <1>4, <2>1, <2>2, SameCharge DEF Up
<1>13. CASE ReleaseRejected \/ SettlePaidHold \/ ReleaseFailedHold
  <2>1. /\ req' = Idle /\ req.pc \in {"refuse", "close"} /\ UNCHANGED <<rail, ledger>>
        /\ Writes(disk, mem', disk', req.d)
        /\ \/ mem' = mem
           \/ Ends1(mem, mem', req.d, "released")
           \/ Ends1(mem, mem', req.d, "settled") /\ req.pc = "close" /\ req.result = "succeeded"
    BY <1>13, CloseEffects
  <2>2. mem'.token = mem.token
    BY <2>1 DEF Ends1
  <2>3. disk'.token = disk.token /\ disk'.claim = disk.claim
    BY <2>1 DEF Writes
  <2> QED BY <1>2, <1>4, <2>1, <2>2, <2>3, SameCharge DEF Up
<1>14. CASE PostLedger
  <2>1. /\ req.pc = "post" /\ req.d \in Decisions /\ req'.pc = "save" /\ req'.d = req.d
        /\ ledger' = [ledger EXCEPT ![req.d] = @ + 1]
        /\ mem' = [mem EXCEPT !.token[req.d].state = "used"]
        /\ remembered' = [remembered EXCEPT ![req.d] = "succeeded"]
        /\ UNCHANGED <<disk, rail>>
    BY <1>14, StepEffects DEF PostLedger
  <2>2. /\ \A x \in Decisions \ {req.d} : mem'.token[x] = mem.token[x]
        /\ mem'.token[req.d].state = "used"
    BY <1>1, <2>1, TokenEffects DEF TokenStates
  <2>3. CASE d = req.d
    <3>1. ledger[d] + 1 <= rail[d]
      BY <2>1, <2>3 DEF PaymentsKept
    <3>2. rail[d] = 1 /\ disk.claim[d].status = "none" /\ ledger[d] = 0
      BY <1>4, <1>5, <3>1 DEF ChargedOnce
    <3>3. ledger'[d] = 1 /\ remembered'[d] = "succeeded"
      BY <1>1, <2>1, <2>3, <3>2
    <3> QED BY <2>1, <2>2, <2>3, <3>2, <3>3 DEF ChargedOnce
  <2>4. CASE d # req.d
    <3>1. ledger'[d] = ledger[d] /\ mem'.token[d] = mem.token[d]
      BY <1>1, <2>1, <2>2, <2>4
    <3> QED BY <1>4, <2>1, <2>4, <3>1, SameCharge DEF Up
  <2> QED BY <2>3, <2>4
<1>15. CASE SavePaymentAttempt
  <2>1. /\ req.pc = "save" /\ req.d \in Decisions /\ req'.d = req.d
        /\ req'.pc = IF req.result = "succeeded" THEN "token" ELSE "close"
        /\ UNCHANGED <<disk, mem, remembered, rail, ledger>>
    BY <1>15, StepEffects DEF SavePaymentAttempt
  <2>2. remembered[req.d] = req.result
    BY <2>1 DEF PaymentsKept
  <2> QED BY <1>4, <2>1, <2>2 DEF ChargedOnce, Up
<1>16. CASE SaveUsedToken
  <2>1. /\ req.pc = "token" /\ req.d \in Decisions /\ req'.pc = "close" /\ req'.d = req.d
        /\ UNCHANGED <<mem, remembered, rail, ledger>>
    BY <1>16, StepEffects DEF SaveUsedToken
  <2>3. /\ disk'.claim = disk.claim
        /\ \A x \in Decisions \ {req.d} : disk'.token[x] = disk.token[x]
        /\ disk'.token[req.d].state = mem.token[req.d].state
    BY <1>16, SaveTokenEffects
  <2>4. CASE d = req.d
    BY <1>4, <2>1, <2>3, <2>4 DEF ChargedOnce, Up
  <2>5. CASE d # req.d
    BY <1>4, <2>1, <2>3, <2>5, SameCharge DEF Up
  <2> QED BY <2>4, <2>5
<1>17. CASE AbandonPayment
  <2>1. /\ req' = Idle /\ req.pc \in {"save", "token"} /\ Interrupt
        /\ UNCHANGED <<disk, mem, rail, ledger>>
    BY <1>17 DEF AbandonPayment
  <2>2. req.d # d
    BY <2>1 DEF Interrupt
  <2> QED BY <1>2, <1>4, <2>1, <2>2, SameCharge DEF Up
<1>18. CASE Crash
  <2>1. req' = Down /\ Interrupt /\ UNCHANGED <<disk, rail, ledger>>
    BY <1>18 DEF Crash
  <2>2. req.pc \in {"post", "save", "token"} => req.d # d
    BY <2>1 DEF Interrupt
  <2> QED BY <1>2, <1>4, <2>1, <2>2, SameCharge DEF Up
<1>19. CASE StartServer
  <2>1. /\ req = Down /\ req' = Idle /\ UNCHANGED <<rail, ledger>>
        /\ mem' = disk' /\ Swept(disk, disk')
    BY <1>19, StartEffects
  <2>2. disk'.claim = disk.claim /\ disk'.token = disk.token
    BY <2>1 DEF Swept
  <2> QED BY <1>2, <1>4, <2>1, <2>2, SameCharge DEF Up
<1>20. CASE Tick \/ UNCHANGED vars
  <2>1. UNCHANGED <<disk, mem, remembered, rail, ledger, req>>
    BY <1>20 DEF Tick, vars
  <2> QED BY <1>4, <2>1 DEF ChargedOnce, Up
<1> QED BY <1>6, <1>7, <1>8, <1>9, <1>10, <1>11, <1>12, <1>13, <1>14, <1>15,
           <1>16, <1>17, <1>18, <1>19, <1>20 DEF Next, Submit


----------------------------------------------------------------------------
(* Balances *)

\* What executors settled is a number.
LEMMA ExecutorTotalType ==
  ASSUME NEW b
  PROVE  ExecutorTotal(b) \in Nat /\ IsFiniteSet(ExecutorSettled(b))
<1>1. ExecutorSettled(b) \subseteq Decisions
  BY DEF ExecutorSettled
<1>2. IsFiniteSet(ExecutorSettled(b))
  BY <1>1, DecisionsFinite, FS_Subset
<1> QED BY <1>2, TotalType DEF ExecutorTotal

\* It stays the same when no claim is settled.
LEMMA SameExecutors ==
  ASSUME NEW b,
         \A d \in Decisions :
           /\ disk'.claim[d].status = "settled" <=> disk.claim[d].status = "settled"
           /\ disk.claim[d].status = "settled" =>
                /\ disk'.claim[d].charge = disk.claim[d].charge
                /\ disk'.hold[d].budget = disk.hold[d].budget
  PROVE  ExecutorTotal(b)' = ExecutorTotal(b)
<1>1. ExecutorSettled(b)' = ExecutorSettled(b)
  BY DEF ExecutorSettled
<1>2. \A d \in ExecutorSettled(b) : ClaimCharge(disk')[d] = ClaimCharge(disk)[d]
  BY DEF ExecutorSettled, ClaimCharge
<1>3. Total(ClaimCharge(disk'), ExecutorSettled(b)) = Total(ClaimCharge(disk), ExecutorSettled(b))
  BY <1>2, TotalSame
<1>4. ExecutorTotal(b)' = Total(ClaimCharge(disk'), ExecutorSettled(b)')
  BY DEF ExecutorTotal, ClaimCharge, Total
<1> QED BY <1>1, <1>3, <1>4 DEF ExecutorTotal

\* A write of the cached hold leaves every balance derived, the ones of the
\* other budgets too, since it does not move the hold to another budget.
LEMMA WriteDerives ==
  ASSUME NEW st, NEW cache, NEW new, NEW d \in Decisions, Writes(st, cache, new, d),
         cache.hold[d].budget = st.hold[d].budget, NEW b \in Budgets, Derives(st, b)
  PROVE  Derives(new, b)
<1>1. CASE new = st
  BY <1>1
<1>2. CASE b = cache.hold[d].budget
  BY <1>1, <1>2 DEF Writes
<1>3. CASE new # st /\ b # cache.hold[d].budget
  <2>1. /\ new.budget = st.budget
        /\ \A x \in Decisions : new.hold[x] = IF x = d THEN cache.hold[x] ELSE st.hold[x]
        /\ new.balance[b] = st.balance[b]
    BY <1>3 DEF Writes
  <2>2. ActiveHolds(new, b) = ActiveHolds(st, b) /\ d \notin ActiveHolds(st, b)
    BY <1>3, <2>1 DEF ActiveHolds
  <2>3. \A x \in ActiveHolds(st, b) : HoldAmount(new)[x] = HoldAmount(st)[x]
    BY <2>1, <2>2 DEF HoldAmount, ActiveHolds
  <2>4. Total(HoldAmount(new), ActiveHolds(st, b)) = Total(HoldAmount(st), ActiveHolds(st, b))
    BY <2>3, TotalSame
  <2>5. ActiveHoldTotal(new, b) = ActiveHoldTotal(st, b) /\ Limit(new, b) = Limit(st, b)
    BY <2>1, <2>2, <2>4 DEF ActiveHoldTotal, Limit
  <2> QED BY <2>1, <2>5 DEF Derives, FrozenDerives, RemainingDerives
<1> QED BY <1>1, <1>2, <1>3

\* Every step keeps the balances.
LEMMA BooksStep ==
  ASSUME TypeOK, StoresAgree, BooksKept, TypeOK', [Next]_vars
  PROVE  BooksKept'
<1>1. disk \in Store /\ mem \in Store /\ disk' \in Store /\ mem' \in Store /\ req \in Requests
  BY DEF TypeOK
<1>2. Idle.pc = "idle" /\ Down.pc = "down"
  BY DEF Idle, Down
<1> SUFFICES ASSUME NEW b \in Budgets
             PROVE  /\ Derives(disk', b) /\ Covers(disk, b)'
                    /\ Up' => Covers(mem, b)'
  BY DEF BooksKept, Derives, FrozenDerives, RemainingDerives, ActiveHoldTotal, ActiveHolds,
         HoldAmount, Total, Limit
<1> DEFINE Goal == /\ Derives(disk', b) /\ Covers(disk, b)'
                   /\ Up' => Covers(mem, b)'
<1>3. /\ Derives(disk, b) /\ Covers(disk, b)
      /\ Up => Covers(mem, b)
  BY DEF BooksKept
<1>4. ExecutorTotal(b) \in Nat
  BY ExecutorTotalType
<1>5. /\ disk.balance[b].consumed \in Int /\ disk.balance[b].remaining \in Int
      /\ mem.balance[b].consumed \in Int /\ mem.balance[b].remaining \in Int
      /\ disk'.balance[b].consumed \in Int /\ disk'.balance[b].remaining \in Int
      /\ mem'.balance[b].consumed \in Int /\ mem'.balance[b].remaining \in Int
  BY <1>1, StoreFields DEF Balance
<1>6. ASSUME ExecutorTotal(b)' = ExecutorTotal(b), Derives(disk', b),
             disk.balance[b].consumed <= disk'.balance[b].consumed,
             0 <= disk'.balance[b].remaining,
             Up' => /\ Up
                    /\ mem.balance[b].consumed <= mem'.balance[b].consumed
                    /\ 0 <= mem'.balance[b].remaining
      PROVE  Goal
  <2>1. Covers(disk, b)'
    BY <1>3, <1>4, <1>5, <1>6 DEF Covers
  <2>2. Up' => Covers(mem, b)'
    BY <1>3, <1>4, <1>5, <1>6 DEF Covers
  <2> QED BY <1>6, <2>1, <2>2
<1> HIDE DEF Goal
<1>7. ASSUME ExecutorTotal(b)' = ExecutorTotal(b), Derives(disk', b), Up' => Up,
             disk'.balance = disk.balance, mem'.balance = mem.balance
      PROVE  Goal
  BY <1>3, <1>5, <1>6, <1>7 DEF Covers
<1>8. disk' = disk => ExecutorTotal(b)' = ExecutorTotal(b) /\ Derives(disk', b)
  BY <1>3, SameExecutors
<1>9. ASSUME NEW d \in Decisions, AuthorizeSpend(d)
      PROVE  Goal
  <2>1. PICK c \in Budgets : Grants(disk, disk', d, c) /\ Grants(mem, mem', d, c)
    BY <1>9, AuthorizeEffects
  <2>2. req = Idle /\ req' = req
    BY <1>9, AuthorizeEffects
  <2>3. disk.claim[d].status = "none"
    BY <2>1 DEF StoresAgree, Grounded, Grants
  <2>4. ExecutorTotal(b)' = ExecutorTotal(b)
    BY <2>1, <2>3, SameExecutors DEF Grants, OthersAlike, Alike
  <2>5. /\ Derives(disk', b)
        /\ disk'.balance[b].consumed = disk.balance[b].consumed
        /\ mem'.balance[b].consumed = mem.balance[b].consumed
        /\ 0 <= disk.balance[b].remaining => 0 <= disk'.balance[b].remaining
        /\ 0 <= mem.balance[b].remaining => 0 <= mem'.balance[b].remaining
    BY <1>3, <2>1 DEF Grants
  <2> QED BY <1>2, <1>3, <1>5, <1>6, <2>2, <2>4, <2>5 DEF Covers, Up
<1>10. ASSUME NEW d \in Decisions, ClaimExecutorSpend(d)
       PROVE  Goal
  <2>1. PICK e \in Nat : Claims(disk, disk', d, e) /\ Claims(mem, mem', d, e)
    BY <1>10, ClaimActionEffects
  <2>2. req = Idle /\ req' = req /\ disk.claim[d].status = "none"
    BY <1>10, ClaimActionEffects
  <2>3. ExecutorTotal(b)' = ExecutorTotal(b)
    <3>1. disk'.claim[d].status = "claimed"
      BY <2>1 DEF Claims
    <3>2. \A x \in Decisions \ {d} : disk'.claim[x] = disk.claim[x]
                                     /\ disk'.hold[x].budget = disk.hold[x].budget
      BY <2>1 DEF Claims, OthersAlike, Alike
    <3> QED BY <2>2, <3>1, <3>2, SameExecutors
  <2>4. /\ Derives(disk', b)
        /\ disk'.balance[b].consumed = disk.balance[b].consumed
        /\ mem'.balance[b].consumed = mem.balance[b].consumed
        /\ disk.balance[b].remaining <= disk'.balance[b].remaining
        /\ mem.balance[b].remaining <= mem'.balance[b].remaining
    BY <1>3, <2>1 DEF Claims
  <2> QED BY <1>2, <1>3, <1>5, <1>6, <2>2, <2>3, <2>4 DEF Covers, Up
<1>11. ASSUME NEW d \in Decisions, SettleExecutorClaim(d)
       PROVE  Goal
  <2> DEFINE a == disk.hold[d].amount
             S == ExecutorSettled(b)
  <2>1. /\ req = Idle /\ req' = req
        /\ disk.claim[d].status = "claimed" /\ disk.hold[d].status = "claimed"
        /\ mem' = ApplyPersistedFinalization(mem, disk', d)
    BY <1>11, SettleExecutorEffects
  <2>2. PICK r : disk' = SettleClaim(disk, d, a, r)
    BY <1>11, SettleExecutorEffects
  <2>3. /\ \A x \in Decisions \ {d} : disk'.hold[x] = disk.hold[x] /\ disk'.claim[x] = disk.claim[x]
        /\ disk'.hold[d].budget = disk.hold[d].budget
        /\ disk'.claim[d].status = "settled" /\ disk'.claim[d].charge = a
    BY <1>1, <2>2, SettleFields
  <2>4. /\ Derives(disk', b)
        /\ disk'.balance[b].remaining = disk.balance[b].remaining
        /\ b = disk.hold[d].budget => disk'.balance[b].consumed = disk.balance[b].consumed + a
        /\ b # disk.hold[d].budget => disk'.balance[b].consumed = disk.balance[b].consumed
    <3>1. disk.hold[d].status = "claimed" /\ a = disk.hold[d].amount
      BY <2>1
    <3> HIDE DEF a
    <3>2. disk \in Store /\ disk' \in Store /\ Derives(disk, b)
      BY <1>1, <1>3
    <3>3. disk' = SettleClaim(disk, d, a, r)
      BY <2>2
    <3>4. /\ Derives(disk, b) => Derives(disk', b)
          /\ disk'.balance[b].remaining = disk.balance[b].remaining
      BY <3>1, <3>2, <3>3, SettleDerives
    <3> QED BY <3>1, <3>2, <3>3, <3>4, SettleDerives
  <2>5. mem'.balance[b] = IF b = disk'.hold[d].budget THEN disk'.balance[b] ELSE mem.balance[b]
    BY <1>1, <2>1, ApplyFinalizationFields
  <2>6. a \in Amounts /\ a \in Nat
    BY <1>1, AmountAssumption DEF Store, Hold, Amounts
  <2>7. Up
    BY <1>2, <2>1 DEF Up
  <2>8. CASE b = disk.hold[d].budget
    <3>1. ExecutorSettled(b)' = S \cup {d} /\ d \notin S
      BY <2>1, <2>3, <2>8 DEF ExecutorSettled
    <3>2. ClaimCharge(disk')[d] = a /\ \A x \in S : ClaimCharge(disk')[x] = ClaimCharge(disk)[x]
      BY <2>3, <3>1 DEF ClaimCharge, ExecutorSettled
    <3>3. Total(ClaimCharge(disk'), S) = Total(ClaimCharge(disk), S)
      BY <3>2, TotalSame
    <3>4. IsFiniteSet(S)
      BY ExecutorTotalType
    <3> HIDE DEF a, S
    <3>5. Total(ClaimCharge(disk'), S \cup {d}) = Total(ClaimCharge(disk), S) + a
      BY <2>6, <3>1, <3>2, <3>3, <3>4, TotalAdd
    <3>6. ExecutorTotal(b)' = Total(ClaimCharge(disk'), ExecutorSettled(b)')
      BY DEF ExecutorTotal, ClaimCharge, Total
    <3>7. ExecutorTotal(b)' = ExecutorTotal(b) + a
      BY <3>1, <3>5, <3>6 DEF ExecutorTotal, S
    <3>8. disk'.balance[b].consumed = disk.balance[b].consumed + a
      BY <2>4, <2>8
    <3>9. Covers(disk, b)'
      BY <1>3, <1>4, <1>5, <2>4, <2>6, <3>7, <3>8 DEF Covers
    <3>10. Covers(mem, b)'
      BY <2>3, <2>5, <2>8, <3>9 DEF Covers
    <3> QED BY <2>4, <3>9, <3>10 DEF Goal
  <2>9. CASE b # disk.hold[d].budget
    <3>1. ExecutorSettled(b)' = S /\ d \notin S
      BY <2>1, <2>3, <2>9 DEF ExecutorSettled
    <3>2. \A x \in S : ClaimCharge(disk')[x] = ClaimCharge(disk)[x]
      BY <2>3, <3>1 DEF ClaimCharge, ExecutorSettled
    <3>3. Total(ClaimCharge(disk'), S) = Total(ClaimCharge(disk), S)
      BY <3>2, TotalSame
    <3>4. ExecutorTotal(b)' = Total(ClaimCharge(disk'), ExecutorSettled(b)')
      BY DEF ExecutorTotal, ClaimCharge, Total
    <3>5. ExecutorTotal(b)' = ExecutorTotal(b)
      BY <3>1, <3>3, <3>4 DEF ExecutorTotal
    <3>6. mem'.balance[b] = mem.balance[b]
      BY <2>3, <2>5, <2>9
    <3> QED BY <1>3, <1>5, <1>6, <2>4, <2>7, <2>9, <3>5, <3>6 DEF Covers
  <2> QED BY <2>8, <2>9
<1>12. ASSUME Swept(disk, disk')
       PROVE  /\ ExecutorTotal(b)' = ExecutorTotal(b) /\ Derives(disk', b)
              /\ disk'.balance[b].consumed = disk.balance[b].consumed
              /\ disk.balance[b].remaining <= disk'.balance[b].remaining
  BY <1>3, <1>12, SameExecutors DEF Swept, Alike
<1>13. ASSUME NEW d \in Decisions, Spend(d)
       PROVE  Goal
  <2>1. req = Idle /\ Swept(disk, disk') /\ Swept(mem, mem')
    BY <1>13, SpendEffects
  <2>2. /\ mem'.balance[b].consumed = mem.balance[b].consumed
        /\ mem.balance[b].remaining <= mem'.balance[b].remaining
    BY <2>1 DEF Swept
  <2>3. Up
    BY <1>2, <2>1 DEF Up
  <2> QED BY <1>3, <1>5, <1>6, <1>12, <2>1, <2>2, <2>3 DEF Covers
<1>14. CASE ReplayPayment \/ ExecuteRail \/ DeclinePayment \/ RejectPayment \/ SavePaymentAttempt
            \/ AbandonPayment
  <2>1. disk' = disk /\ mem' = mem
    BY <1>14 DEF ReplayPayment, ExecuteRail, DeclinePayment, RejectPayment, SavePaymentAttempt,
                 AbandonPayment
  <2>2. Up
    BY <1>14 DEF ReplayPayment, ExecuteRail, DeclinePayment, RejectPayment, SavePaymentAttempt,
                 AbandonPayment, Up
  <2> QED BY <1>7, <1>8, <2>1, <2>2 DEF Goal
<1>15. CASE PostLedger
  <2>1. /\ req.pc = "post" /\ req.d \in Decisions
        /\ mem' = [mem EXCEPT !.token[req.d].state = "used"] /\ disk' = disk
    BY <1>15, StepEffects DEF PostLedger
  <2>2. mem'.balance = mem.balance
    BY <1>1, <2>1, TokenEffects DEF TokenStates
  <2>3. Up
    BY <2>1 DEF Up
  <2> QED BY <1>7, <1>8, <2>1, <2>2, <2>3 DEF Goal
<1>16. CASE SaveUsedToken
  <2>1. mem' = mem /\ Up
    BY <1>16 DEF SaveUsedToken, Up
  <2>2. /\ disk'.hold = disk.hold /\ disk'.claim = disk.claim /\ disk'.budget = disk.budget
        /\ disk'.balance = disk.balance
    BY <1>16, SaveTokenEffects
  <2>3. Derives(disk', b)
    BY <1>3, <2>2 DEF Derives, FrozenDerives, RemainingDerives, ActiveHoldTotal, ActiveHolds,
                      HoldAmount, Limit
  <2>4. ExecutorTotal(b)' = ExecutorTotal(b)
    BY <2>2, SameExecutors
  <2> QED BY <1>7, <2>1, <2>2, <2>3, <2>4 DEF Goal
<1>17. CASE ReleaseRejected \/ SettlePaidHold \/ ReleaseFailedHold
  <2> DEFINE d == req.d
  <2>1. /\ d \in Decisions /\ req.pc \in {"refuse", "close"}
        /\ Writes(disk, mem', disk', d)
        /\ \/ mem' = mem
           \/ Ends1(mem, mem', d, "released")
           \/ Ends1(mem, mem', d, "settled")
    BY <1>17, CloseEffects
  <2>2. Up
    BY <2>1 DEF Up
  <2>3. mem.hold[d].budget = disk.hold[d].budget
    BY <2>1, <2>2 DEF StoresAgree
  <2> HIDE DEF d
  <2>4. /\ mem'.hold[d].budget = disk.hold[d].budget
        /\ mem.balance[b].consumed <= mem'.balance[b].consumed
        /\ mem.balance[b].remaining <= mem'.balance[b].remaining
    BY <1>5, <2>1, <2>3 DEF Ends1
  <2>5. Derives(disk', b)
    BY <1>3, <2>1, <2>4, WriteDerives
  <2>6. /\ disk'.claim = disk.claim
        /\ \A x \in Decisions : disk'.hold[x].budget = disk.hold[x].budget
        /\ disk'.balance[b] = disk.balance[b] \/ disk'.balance[b] = mem'.balance[b]
    BY <2>1, <2>4 DEF Writes
  <2>7. ExecutorTotal(b)' = ExecutorTotal(b)
    BY <2>6, SameExecutors
  <2>8. Covers(mem, b)'
    BY <1>3, <1>4, <1>5, <2>2, <2>4, <2>7 DEF Covers
  <2>9. Covers(disk, b)'
    BY <1>3, <2>6, <2>7, <2>8 DEF Covers
  <2> QED BY <2>5, <2>8, <2>9 DEF Goal
<1>18. CASE Crash
  <2>1. req' = Down /\ disk' = disk
    BY <1>18 DEF Crash
  <2> QED BY <1>2, <1>3, <1>5, <1>6, <1>8, <2>1 DEF Covers, Up
<1>19. CASE StartServer
  <2>1. mem' = disk' /\ Swept(disk, disk')
    BY <1>19, StartEffects
  <2>2. Covers(disk, b)'
    BY <1>3, <1>4, <1>5, <1>12, <2>1 DEF Covers
  <2>3. Covers(mem, b)'
    BY <2>1, <2>2 DEF Covers
  <2> QED BY <1>12, <2>1, <2>2, <2>3 DEF Goal
<1>20. CASE Tick \/ UNCHANGED vars
  <2>1. disk' = disk /\ mem' = mem /\ req' = req
    BY <1>20 DEF Tick, vars
  <2> QED BY <1>7, <1>8, <2>1 DEF Up, Goal
<1> QED BY <1>9, <1>10, <1>11, <1>13, <1>14, <1>15, <1>16, <1>17, <1>18, <1>19, <1>20
        DEF Next, Submit, Goal

----------------------------------------------------------------------------
(* Invariance *)

\* The funded store is a store of untouched budgets.
LEMMA FundedStoreFields ==
  /\ FundedStore \in Store
  /\ \A d \in Decisions : /\ FundedStore.token[d].state = "none"
                          /\ FundedStore.claim[d].status = "none"
                          /\ FundedStore.hold[d].status = "none"
  /\ \A b \in Budgets : /\ FundedStore.budget[b].versions = <<BudgetLimit>>
                        /\ FundedStore.balance[b]
                             = [consumed |-> 0, frozen |-> 0, remaining |-> BudgetLimit]
<1> DEFINE budget == [b \in Budgets |-> [state |-> "active", versions |-> <<BudgetLimit>>]]
           balance == [b \in Budgets |-> [consumed |-> 0, frozen |-> 0, remaining |-> BudgetLimit]]
<1>1. BudgetLimit \in Amounts /\ BudgetLimit \in Nat
  BY PaymentAssumption, AmountAssumption DEF Amounts
<1>2. <<BudgetLimit>> \in Seq(Amounts)
  BY <1>1
<1>3. budget \in [Budgets -> Budget]
  BY <1>2 DEF Budget, AdminStates
<1>4. balance \in [Budgets -> Balance]
  BY <1>1 DEF Balance
<1>5. FundedStore = [EmptyStore EXCEPT !.budget = budget, !.balance = balance]
  BY DEF FundedStore
<1>6. /\ \A b \in Budgets : budget[b].versions = <<BudgetLimit>>
      /\ \A b \in Budgets : balance[b]
                              = [consumed |-> 0, frozen |-> 0, remaining |-> BudgetLimit]
  OBVIOUS
<1> HIDE DEF budget, balance
<1>7. EmptyStore \in Store
  BY EmptyStoreType
<1>8. /\ FundedStore \in Store
      /\ FundedStore.budget = budget /\ FundedStore.balance = balance
      /\ FundedStore.token = EmptyStore.token /\ FundedStore.claim = EmptyStore.claim
      /\ FundedStore.hold = EmptyStore.hold
  BY <1>3, <1>4, <1>5, <1>7 DEF Store
<1>9. \A d \in Decisions : /\ EmptyStore.token[d].state = "none"
                           /\ EmptyStore.claim[d].status = "none"
                           /\ EmptyStore.hold[d].status = "none"
  BY DEF EmptyStore, NoToken, NoClaim, NoHold
<1> QED BY <1>6, <1>8, <1>9

\* The invariant holds when every budget is new and nothing was paid.
LEMMA InitPaymentInv == Init => PaymentInv
<1> SUFFICES ASSUME Init PROVE PaymentInv
  OBVIOUS
<1>1. /\ disk = FundedStore /\ mem = FundedStore /\ req = Idle /\ now = 0 /\ interrupted = {}
      /\ \A d \in Decisions : /\ saved[d] = "none" /\ remembered[d] = "none"
                              /\ rail[d] = 0 /\ ledger[d] = 0
  BY DEF Init, NoPayments
<1>2. Idle.pc = "idle"
  BY DEF Idle
<1>3. TypeOK
  <2>1. /\ saved \in [Decisions -> PaymentStatuses] /\ remembered \in [Decisions -> PaymentStatuses]
        /\ rail \in [Decisions -> 0..MaxCharges] /\ ledger \in [Decisions -> 0..MaxCharges]
    BY PaymentAssumption DEF Init, NoPayments, PaymentStatuses
  <2>2. req \in Requests
    BY <1>1 DEF Requests
  <2> QED BY <1>1, <2>1, <2>2, FundedStoreFields DEF TypeOK
<1>4. PaymentsKept /\ ChargesKept
  BY <1>1, <1>2 DEF PaymentsKept, ChargesKept, ChargedOnce
<1>5. StoresAgree
  BY <1>1, <1>2, FundedStoreFields DEF StoresAgree, Grounded
<1>6. BooksKept
  <2> SUFFICES ASSUME NEW b \in Budgets
               PROVE  Derives(FundedStore, b) /\ Covers(FundedStore, b)
    BY <1>1 DEF BooksKept
  <2>1. ActiveHolds(FundedStore, b) = {} /\ ExecutorSettled(b) = {}
    BY <1>1, FundedStoreFields DEF ActiveHolds, ExecutorSettled
  <2>2. ActiveHoldTotal(FundedStore, b) = 0 /\ ExecutorTotal(b) = 0
    BY <2>1, TotalEmpty DEF ActiveHoldTotal, ExecutorTotal
  <2>3. Limit(FundedStore, b) = BudgetLimit
    BY FundedStoreFields DEF Limit
  <2>4. /\ FundedStore.balance[b].consumed = 0 /\ FundedStore.balance[b].frozen = 0
        /\ FundedStore.balance[b].remaining = BudgetLimit
    BY FundedStoreFields
  <2>5. BudgetLimit \in Nat
    BY PaymentAssumption, AmountAssumption
  <2> QED BY <2>2, <2>3, <2>4, <2>5 DEF Derives, FrozenDerives, RemainingDerives, Covers
<1> QED BY <1>3, <1>4, <1>5, <1>6 DEF PaymentInv

\* Every step keeps it.
LEMMA NextPaymentInv == PaymentInv /\ [Next]_vars => PaymentInv'
<1> SUFFICES ASSUME PaymentInv, [Next]_vars PROVE PaymentInv'
  OBVIOUS
<1>1. TypeOK /\ PaymentsKept /\ StoresAgree /\ ChargesKept /\ BooksKept
  BY DEF PaymentInv
<1>2. TypeOK'
  BY <1>1, TypeStep
<1>3. PaymentsKept'
  BY <1>1, PaymentsStep
<1>4. StoresAgree'
  BY <1>1, StoresStep
<1>5. ChargesKept'
  BY <1>1, ChargesStep
<1>6. BooksKept'
  BY <1>1, <1>2, BooksStep
<1> QED BY <1>2, <1>3, <1>4, <1>5, <1>6 DEF PaymentInv

\* The invariant of the payment path.
THEOREM PaymentInvariance == Spec => []PaymentInv
BY InitPaymentInv, NextPaymentInv, PTL DEF Spec

----------------------------------------------------------------------------
(* Theorems *)

\* Every record of the file, of the process and of the request has its type,
\* and no operation is posted to the ledger more often than it was charged.
THEOREM PaymentTypeCorrect == Spec => []TypeOK
<1>1. PaymentInv => TypeOK
  BY DEF PaymentInv
<1> QED BY <1>1, PaymentInvariance, PTL

\* Whatever commits fail and whenever the process restarts: the file loads,
\* no budget is committed beyond its limit, and no settlement of an executor
\* is lost to a write of the payment path from a stale cache.
THEOREM PaymentBooksAlwaysBalance == Spec => []PaymentBooksBalance
<1>1. PaymentInv => PaymentBooksBalance
  <2> SUFFICES ASSUME PaymentInv, NEW b \in Budgets
               PROVE  /\ FrozenDerives(disk, b)
                      /\ RemainingDerives(disk, b)
                      /\ Committed(disk, b) <= Limit(disk, b)
                      /\ Total(ClaimCharge(disk), ExecutorSettled(b)) <= disk.balance[b].consumed
    BY DEF PaymentBooksBalance
  <2>1. disk \in Store
    BY DEF PaymentInv, TypeOK
  <2>2. /\ FrozenDerives(disk, b) /\ RemainingDerives(disk, b)
        /\ 0 <= disk.balance[b].remaining
        /\ Total(ClaimCharge(disk), ExecutorSettled(b)) <= disk.balance[b].consumed
    BY DEF PaymentInv, BooksKept, Derives, Covers, ExecutorTotal
  <2>3. /\ disk.balance[b].consumed \in Int /\ disk.balance[b].frozen \in Int
        /\ disk.balance[b].remaining \in Int /\ Limit(disk, b) \in Int
    BY <2>1, StoreFields, LimitType DEF Balance
  <2>4. Committed(disk, b) <= Limit(disk, b)
    BY <2>2, <2>3 DEF Committed, RemainingDerives
  <2> QED BY <2>2, <2>4
<1> QED BY <1>1, PaymentInvariance, PTL

\* No hold of the payment path is settled for a payment that was not charged,
\* posted and saved.
THEOREM SettledHoldsArePaid == Spec => []SettledIsPaid
<1>1. PaymentInv => SettledIsPaid
  BY DEF PaymentInv, StoresAgree, Grounded, PaymentsKept, SettledIsPaid
<1> QED BY <1>1, PaymentInvariance, PTL

\* Any number of submissions, failures of other operations and restarts
\* charges an operation once at most, unless its own request failed between
\* the charge and the save of its token.
THEOREM ChargedAtMostOnce == Spec => []PaidOnce
<1>1. PaymentInv => PaidOnce
  <2> SUFFICES ASSUME PaymentInv, NEW d \in Decisions \ interrupted
               PROVE  /\ rail[d] <= 1
                      /\ disk.claim[d].status # "none" => rail[d] = 0
                      /\ req = Idle => ledger[d] = rail[d]
    BY DEF PaidOnce
  <2>1. ChargedOnce(d) /\ ledger[d] <= rail[d]
    BY DEF PaymentInv, ChargesKept, PaymentsKept
  <2>2. rail[d] \in Nat /\ ledger[d] \in Nat
    BY PaymentAssumption DEF PaymentInv, TypeOK
  <2>3. req = Idle => req.pc = "idle"
    BY DEF Idle
  <2> QED BY <2>1, <2>2, <2>3 DEF ChargedOnce
<1> QED BY <1>1, PaymentInvariance, PTL

\* A step that charges or posts has no recorded result to contradict, and a
\* result is recorded once.
THEOREM ResultsAreFinal == Spec => RecordedResultFinal
<1> DEFINE Final == \A d \in Decisions : saved[d] # "none" =>
                      saved'[d] = saved[d] /\ rail'[d] = rail[d] /\ ledger'[d] = ledger[d]
<1>1. PaymentInv /\ [Next]_vars => [Final]_vars
  <2> SUFFICES ASSUME PaymentInv, Next PROVE Final
    BY DEF vars
  <2>1. TypeOK /\ PaymentsKept
    BY DEF PaymentInv
  <2>2. /\ saved \in [Decisions -> PaymentStatuses]
        /\ rail \in [Decisions -> 0..MaxCharges] /\ ledger \in [Decisions -> 0..MaxCharges]
    BY <2>1, Types
  <2>3. UNCHANGED <<saved, rail, ledger>> => Final
    OBVIOUS
  <2>4. CASE ExecuteRail
    <3>1. /\ req.pc = "submit" /\ req.d \in Decisions /\ remembered[req.d] = "none"
          /\ rail' = [rail EXCEPT ![req.d] = @ + 1] /\ UNCHANGED <<saved, ledger>>
      BY <2>1, <2>4, StepEffects DEF ExecuteRail
    <3>2. saved[req.d] = "none"
      BY <2>1, <3>1 DEF PaymentsKept, Up
    <3> QED BY <2>2, <3>1, <3>2
  <2>5. CASE PostLedger
    <3>1. /\ req.pc = "post" /\ req.d \in Decisions
          /\ ledger' = [ledger EXCEPT ![req.d] = @ + 1] /\ UNCHANGED <<saved, rail>>
      BY <2>1, <2>5, StepEffects DEF PostLedger
    <3>2. saved[req.d] = "none"
      BY <2>1, <3>1 DEF PaymentsKept, Up
    <3> QED BY <2>2, <3>1, <3>2
  <2>6. CASE SavePaymentAttempt
    <3>1. saved' = [saved EXCEPT ![req.d] = IF @ = "none" THEN req.result ELSE @]
      BY <2>6 DEF SavePaymentAttempt
    <3>2. UNCHANGED <<rail, ledger>>
      BY <2>6 DEF SavePaymentAttempt
    <3> QED BY <2>2, <3>1, <3>2
  <2>7. CASE ReplayPayment \/ DeclinePayment \/ RejectPayment \/ ReleaseRejected \/ SaveUsedToken
             \/ SettlePaidHold \/ ReleaseFailedHold
    <3>1. UNCHANGED <<saved, rail, ledger>>
      BY <2>7 DEF ReplayPayment, DeclinePayment, RejectPayment, ReleaseRejected, SaveUsedToken,
                  SettlePaidHold, ReleaseFailedHold
    <3> QED BY <2>3, <3>1
  <2>8. CASE AbandonPayment \/ Crash \/ StartServer \/ Tick
             \/ \E d \in Decisions : \/ AuthorizeSpend(d) \/ ClaimExecutorSpend(d)
                                     \/ SettleExecutorClaim(d) \/ Spend(d)
    <3>1. UNCHANGED <<saved, rail, ledger>>
      BY <2>8 DEF AbandonPayment, Crash, StartServer, Tick, AuthorizeSpend, ClaimExecutorSpend,
                  SettleExecutorClaim, Spend
    <3> QED BY <2>3, <3>1
  <2> QED BY <2>4, <2>5, <2>6, <2>7, <2>8 DEF Next, Submit
<1>2. Spec => [][Final]_vars
  BY <1>1, PaymentInvariance, PTL DEF Spec
<1> QED BY <1>2 DEF RecordedResultFinal

=============================================================================
