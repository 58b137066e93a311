-------------------------- MODULE HoldLedgerProofs --------------------------
(* The limit of the abstract ledger holds for any decisions, budgets and    *)
(* amounts.  WithinLimit is inductive relative to TypeOK: each action        *)
(* changes the committed amount of one budget by the amount of one hold.     *)
EXTENDS HoldLedger, TotalsProofs

Overspent(b) == {d \in Spent(b) : hold[d].reconciled}

\* The sets of decisions the totals range over are finite.
LEMMA SetsFinite ==
  ASSUME NEW b
  PROVE  /\ IsFiniteSet(Held(b))
         /\ IsFiniteSet(Spent(b))
         /\ IsFiniteSet(Overspent(b))
<1>1. /\ Held(b) \subseteq Decisions
      /\ Spent(b) \subseteq Decisions
      /\ Overspent(b) \subseteq Decisions
  BY DEF Held, Spent, Overspent
<1> QED BY <1>1, LedgerAssumption, FS_Subset

\* Every step of the ledger keeps the types.
THEOREM LedgerTypeCorrect == Spec => []TypeOK
<1>1. Init => TypeOK
  BY AmountAssumption DEF Init, TypeOK, NoHold, Amounts, Statuses
<1>2. TypeOK /\ [Next]_ledgerVars => TypeOK'
  <2> SUFFICES ASSUME TypeOK, [Next]_ledgerVars PROVE TypeOK'
    OBVIOUS
  <2> USE DEF TypeOK
  <2>1. ASSUME NEW b \in Budgets, Close(b) PROVE TypeOK'
    BY <2>1 DEF Close
  <2>2. ASSUME NEW b \in Budgets, NEW l \in Amounts, Open(b, l) \/ SetLimit(b, l)
        PROVE  TypeOK'
    BY <2>2 DEF Open, SetLimit
  <2>3. ASSUME NEW d \in Decisions, NEW b \in Budgets, NEW a \in Amounts, Reserve(d, b, a)
        PROVE  TypeOK'
    BY <2>3, AmountAssumption DEF Reserve, Statuses, Amounts
  <2>4. ASSUME NEW d \in Decisions, ClaimReserved(d) PROVE TypeOK'
    BY <2>4 DEF ClaimReserved, Statuses
  <2>5. ASSUME NEW d \in Decisions, NEW c \in Amounts, NEW r \in BOOLEAN, Settle(d, c, r)
        PROVE  TypeOK'
    <3> DEFINE h == [hold[d] EXCEPT !.status = "settled", !.charge = c, !.reconciled = r]
               Hold == [status : Statuses, budget : Budgets \cup {NoBudget},
                        amount : Amounts, charge : Amounts, reconciled : BOOLEAN]
    <3>1. hold' = [hold EXCEPT ![d] = h]
      BY <2>5 DEF Settle
    <3>2. h \in Hold
      BY DEF Statuses
    <3>3. hold' \in [Decisions -> Hold]
      BY <3>1, <3>2
    <3> QED BY <2>5, <3>3 DEF Settle
  <2>6. ASSUME NEW d \in Decisions, NEW r \in BOOLEAN, Release(d, r) PROVE TypeOK'
    BY <2>6 DEF Release, Statuses
  <2>7. ASSUME NEW D \in SUBSET Decisions, Lapse(D) PROVE TypeOK'
    BY <2>7 DEF Lapse, Statuses
  <2>8. CASE UNCHANGED ledgerVars
    BY <2>8 DEF ledgerVars
  <2> QED BY <2>1, <2>2, <2>3, <2>4, <2>5, <2>6, <2>7, <2>8 DEF Next
<1> QED BY <1>1, <1>2, PTL DEF Spec

----------------------------------------------------------------------------
(* One hold's share of what is committed, and of the confirmed overruns *)

Overrun(b) == Total(OverrunOfHold, Overspent(b))

Share(d, b) == IF d \in Spent(b) THEN hold[d].charge
               ELSE IF d \in Held(b) THEN hold[d].amount ELSE 0

OverrunShare(d, b) == IF d \in Overspent(b) THEN OverrunOfHold[d] ELSE 0

Others(d, b) == Total(ChargeOfHold, Spent(b) \ {d}) + Total(AmountOfHold, Held(b) \ {d})

OtherOverrun(d, b) == Total(OverrunOfHold, Overspent(b) \ {d})

Split(d, b) ==
  /\ CommittedTo(b) = Others(d, b) + Share(d, b)
  /\ Overrun(b) = OtherOverrun(d, b) + OverrunShare(d, b)
  /\ Others(d, b) \in Nat /\ OtherOverrun(d, b) \in Nat
  /\ Share(d, b) \in Nat /\ OverrunShare(d, b) \in Nat

\* Overruns are amounts.
LEMMA OverrunIsAmount ==
  ASSUME TypeOK, NEW d \in Decisions
  PROVE  /\ OverrunOfHold[d] \in Amounts
         /\ ChargeOfHold[d] \in Amounts /\ ChargeOfHold[d] = hold[d].charge
         /\ AmountOfHold[d] \in Amounts /\ AmountOfHold[d] = hold[d].amount
<1>1. hold[d].charge \in Amounts /\ hold[d].amount \in Amounts
  BY DEF TypeOK
<1> DEFINE c == hold[d].charge
           a == hold[d].amount
<1>2. (IF c > a THEN c - a ELSE 0) \in Amounts
  <2> HIDE DEF c, a
  <2>1. c \in Amounts /\ a \in Amounts
    BY <1>1 DEF c, a
  <2> QED BY <2>1, AmountAssumption DEF Amounts
<1> QED BY <1>1, <1>2 DEF OverrunOfHold, ChargeOfHold, AmountOfHold

\* What is committed is the share of one hold and the share of the others.
LEMMA SplitShare ==
  ASSUME TypeOK, NEW d \in Decisions, NEW b
  PROVE  Split(d, b)
<1>1. /\ IsFiniteSet(Held(b)) /\ IsFiniteSet(Held(b) \ {d})
      /\ IsFiniteSet(Spent(b)) /\ IsFiniteSet(Spent(b) \ {d})
      /\ IsFiniteSet(Overspent(b)) /\ IsFiniteSet(Overspent(b) \ {d})
  BY SetsFinite, FS_Subset
<1>2. /\ Total(ChargeOfHold, Spent(b)) \in Nat
      /\ Total(ChargeOfHold, Spent(b) \ {d}) \in Nat
      /\ Total(AmountOfHold, Held(b)) \in Nat
      /\ Total(AmountOfHold, Held(b) \ {d}) \in Nat
      /\ Total(OverrunOfHold, Overspent(b)) \in Nat
      /\ Total(OverrunOfHold, Overspent(b) \ {d}) \in Nat
  BY <1>1, TotalType
<1>3. /\ OverrunOfHold[d] \in Amounts
      /\ ChargeOfHold[d] \in Amounts /\ ChargeOfHold[d] = hold[d].charge
      /\ AmountOfHold[d] \in Amounts /\ AmountOfHold[d] = hold[d].amount
  BY OverrunIsAmount
<1>4. d \in Spent(b) => Total(ChargeOfHold, Spent(b))
                         = Total(ChargeOfHold, Spent(b) \ {d}) + ChargeOfHold[d]
  BY <1>1, <1>3, TotalRemove
<1>5. d \in Held(b) => Total(AmountOfHold, Held(b))
                         = Total(AmountOfHold, Held(b) \ {d}) + AmountOfHold[d]
  BY <1>1, <1>3, TotalRemove
<1>6. d \in Overspent(b) => Total(OverrunOfHold, Overspent(b))
                             = Total(OverrunOfHold, Overspent(b) \ {d}) + OverrunOfHold[d]
  BY <1>1, <1>3, TotalRemove
<1>7. ~(d \in Spent(b) /\ d \in Held(b))
  BY DEF Spent, Held
<1>8. /\ d \notin Spent(b) => Spent(b) \ {d} = Spent(b)
      /\ d \notin Held(b) => Held(b) \ {d} = Held(b)
      /\ d \notin Overspent(b) => Overspent(b) \ {d} = Overspent(b)
  OBVIOUS
<1>9. /\ Share(d, b) = (IF d \in Spent(b) THEN ChargeOfHold[d]
                        ELSE IF d \in Held(b) THEN AmountOfHold[d] ELSE 0)
      /\ OverrunShare(d, b) = (IF d \in Overspent(b) THEN OverrunOfHold[d] ELSE 0)
  BY <1>3 DEF Share, OverrunShare
<1>10. /\ OverrunOfHold[d] \in Nat
       /\ ChargeOfHold[d] \in Nat
       /\ AmountOfHold[d] \in Nat
  BY <1>3, AmountAssumption DEF Amounts
<1>11. /\ Overrun(b) = OtherOverrun(d, b) + OverrunShare(d, b)
       /\ OtherOverrun(d, b) \in Nat
       /\ OverrunShare(d, b) \in Nat
  BY <1>2, <1>6, <1>8, <1>9, <1>10 DEF Overrun, OtherOverrun
<1>12. /\ CommittedTo(b) = Others(d, b) + Share(d, b)
       /\ Others(d, b) \in Nat
       /\ Share(d, b) \in Nat
  <2>1. CASE d \in Spent(b)
    <3>1. Held(b) \ {d} = Held(b) /\ Share(d, b) = ChargeOfHold[d]
      BY <2>1, <1>7, <1>8, <1>9
    <3> QED BY <3>1, <2>1, <1>2, <1>4, <1>10 DEF CommittedTo, Others
  <2>2. CASE d \in Held(b)
    <3>1. Spent(b) \ {d} = Spent(b) /\ Share(d, b) = AmountOfHold[d]
      BY <2>2, <1>7, <1>8, <1>9
    <3> DEFINE x == Total(ChargeOfHold, Spent(b))
               y == Total(AmountOfHold, Held(b) \ {d})
               a == AmountOfHold[d]
    <3>2. /\ CommittedTo(b) = x + (y + a)
          /\ Others(d, b) = x + y
          /\ Share(d, b) = a
      BY <3>1, <2>2, <1>5 DEF CommittedTo, Others
    <3>3. x \in Nat /\ y \in Nat /\ a \in Nat
      BY <1>2, <1>10
    <3> HIDE DEF x, y, a
    <3> QED BY <3>2, <3>3
  <2>3. CASE d \notin Spent(b) /\ d \notin Held(b)
    BY <2>3, <1>2, <1>8, <1>9 DEF CommittedTo, Others
  <2> QED BY <2>1, <2>2, <2>3
<1> QED BY <1>11, <1>12 DEF Split

\* The same in the next state.
LEMMA SplitShareNext ==
  TypeOK' => \A d \in Decisions, b \in Budgets : Split(d, b)'
<1> DEFINE AllSplit == \A d \in Decisions, b \in Budgets : Split(d, b)
<1>1. TypeOK => AllSplit
  BY SplitShare
<1> HIDE DEF AllSplit
<1>2. TypeOK' => AllSplit'
  BY <1>1, PTL
<1> QED BY <1>2 DEF AllSplit

\* A step that changes one hold leaves the shares of the others alone.
LEMMA OthersUnchanged ==
  ASSUME TypeOK, TypeOK', NEW d \in Decisions, NEW b,
         \A x \in Decisions \ {d} : hold'[x] = hold[x]
  PROVE  /\ Others(d, b)' = Others(d, b)
         /\ OtherOverrun(d, b)' = OtherOverrun(d, b)
<1>1. /\ Spent(b)' \ {d} = Spent(b) \ {d}
      /\ Held(b)' \ {d} = Held(b) \ {d}
      /\ Overspent(b)' \ {d} = Overspent(b) \ {d}
  BY DEF Spent, Held, Overspent
<1>2. \A x \in Decisions \ {d} : /\ ChargeOfHold'[x] = ChargeOfHold[x]
                                 /\ AmountOfHold'[x] = AmountOfHold[x]
                                 /\ OverrunOfHold'[x] = OverrunOfHold[x]
  BY DEF ChargeOfHold, AmountOfHold, OverrunOfHold
<1>3. /\ Spent(b) \ {d} \subseteq Decisions \ {d}
      /\ Held(b) \ {d} \subseteq Decisions \ {d}
      /\ Overspent(b) \ {d} \subseteq Decisions \ {d}
  BY DEF Spent, Held, Overspent
<1>4. Total(ChargeOfHold', Spent(b) \ {d}) = Total(ChargeOfHold, Spent(b) \ {d})
  BY <1>2, <1>3, TotalSame
<1>5. Total(AmountOfHold', Held(b) \ {d}) = Total(AmountOfHold, Held(b) \ {d})
  BY <1>2, <1>3, TotalSame
<1>6. Total(OverrunOfHold', Overspent(b) \ {d}) = Total(OverrunOfHold, Overspent(b) \ {d})
  BY <1>2, <1>3, TotalSame
<1>7. Others(d, b)' = Total(ChargeOfHold', Spent(b)' \ {d}) + Total(AmountOfHold', Held(b)' \ {d})
  BY DEF Others, Total
<1>8. OtherOverrun(d, b)' = Total(OverrunOfHold', Overspent(b)' \ {d})
  BY DEF OtherOverrun, Total
<1> QED BY <1>1, <1>4, <1>5, <1>6, <1>7, <1>8 DEF Others, OtherOverrun

----------------------------------------------------------------------------

\* A step that changes one hold, and for each budget adds no more to its share
\* than to its share of the overruns, or no more than is left, keeps the limit.
LEMMA ShareStep ==
  ASSUME TypeOK, TypeOK', WithinLimit, NEW d \in Decisions,
         \A x \in Decisions \ {d} : hold'[x] = hold[x],
         limit' = limit,
         \A b \in Budgets :
           \/ Share(d, b)' + OverrunShare(d, b) <= Share(d, b) + OverrunShare(d, b)'
           \/ CommittedTo(b) + Share(d, b)' <= limit[b]
  PROVE  WithinLimit'
<1> SUFFICES ASSUME NEW b \in Budgets
             PROVE  (CommittedTo(b) <= limit[b] + Overrun(b))'
  BY DEF WithinLimit, Overrun, Overspent
<1>1. CommittedTo(b) <= limit[b] + Overrun(b)
  BY DEF WithinLimit, Overrun, Overspent
<1>2. /\ CommittedTo(b) = Others(d, b) + Share(d, b)
      /\ Overrun(b) = OtherOverrun(d, b) + OverrunShare(d, b)
      /\ Others(d, b) \in Nat /\ OtherOverrun(d, b) \in Nat
      /\ Share(d, b) \in Nat /\ OverrunShare(d, b) \in Nat
  BY SplitShare DEF Split
<1>3. /\ CommittedTo(b)' = Others(d, b)' + Share(d, b)'
      /\ Overrun(b)' = OtherOverrun(d, b)' + OverrunShare(d, b)'
      /\ Share(d, b)' \in Nat /\ OverrunShare(d, b)' \in Nat
  BY SplitShareNext DEF Split
<1>4. /\ Others(d, b)' = Others(d, b)
      /\ OtherOverrun(d, b)' = OtherOverrun(d, b)
  BY OthersUnchanged
<1>5. limit[b] \in Nat /\ limit'[b] = limit[b]
  BY AmountAssumption DEF TypeOK, Amounts
<1> QED BY <1>1, <1>2, <1>3, <1>4, <1>5

\* What is committed to a budget exceeds its limit by no more than the
\* overruns a human confirmed, for any decisions, budgets and amounts.
THEOREM LedgerWithinLimit == Spec => []WithinLimit
<1>1. Init => WithinLimit
  <2> SUFFICES ASSUME Init, NEW b \in Budgets
               PROVE  CommittedTo(b) <= limit[b] + Overrun(b)
    BY DEF WithinLimit, Overrun, Overspent
  <2>1. Spent(b) = {} /\ Held(b) = {} /\ Overspent(b) = {}
    BY DEF Init, NoHold, Spent, Held, Overspent
  <2>2. CommittedTo(b) = 0 + 0 /\ Overrun(b) = 0
    BY <2>1, TotalEmpty DEF CommittedTo, Overrun
  <2>3. limit[b] = 0
    BY DEF Init
  <2> QED BY <2>2, <2>3
<1>2. TypeOK /\ TypeOK' /\ WithinLimit /\ [Next]_ledgerVars => WithinLimit'
  <2> SUFFICES ASSUME TypeOK, TypeOK', WithinLimit, [Next]_ledgerVars PROVE WithinLimit'
    OBVIOUS
  <2>1. ASSUME hold' = hold, \A b \in Budgets : limit'[b] >= limit[b] \/ CommittedTo(b) <= limit'[b]
        PROVE  WithinLimit'
    <3> SUFFICES ASSUME NEW b \in Budgets
                 PROVE  (CommittedTo(b) <= limit[b] + Overrun(b))'
      BY DEF WithinLimit, Overrun, Overspent
    <3>1. CommittedTo(b)' = CommittedTo(b) /\ Overrun(b)' = Overrun(b)
      BY <2>1 DEF CommittedTo, Overrun, Overspent, Spent, Held, AmountOfHold, ChargeOfHold,
                  OverrunOfHold, Total
    <3>2. CommittedTo(b) <= limit[b] + Overrun(b)
      BY DEF WithinLimit, Overrun, Overspent
    <3>3. /\ Total(ChargeOfHold, Spent(b)) \in Nat
          /\ Total(AmountOfHold, Held(b)) \in Nat
          /\ Total(OverrunOfHold, Overspent(b)) \in Nat
      BY SetsFinite, TotalType
    <3>4. CommittedTo(b) \in Nat /\ Overrun(b) \in Nat
      BY <3>3 DEF CommittedTo, Overrun
    <3>5. limit[b] \in Nat /\ limit'[b] \in Nat
      BY AmountAssumption DEF TypeOK, Amounts
    <3> QED BY <2>1, <3>1, <3>2, <3>4, <3>5
  <2>2. ASSUME NEW b \in Budgets, Close(b) PROVE WithinLimit'
    <3>1. \A c \in Budgets : limit'[c] >= limit[c]
      BY <2>2, AmountAssumption DEF Close, TypeOK, Amounts
    <3> QED BY <2>1, <2>2, <3>1 DEF Close
  <2>3. ASSUME NEW b \in Budgets, NEW l \in Amounts, Open(b, l) PROVE WithinLimit'
    <3>1. \A c \in Budgets : limit'[c] >= limit[c]
      BY <2>3, AmountAssumption DEF Open, TypeOK, Amounts
    <3> QED BY <2>1, <2>3, <3>1 DEF Open
  <2>4. ASSUME NEW b \in Budgets, NEW l \in Amounts, SetLimit(b, l) PROVE WithinLimit'
    <3>1. \A c \in Budgets : limit'[c] >= limit[c] \/ CommittedTo(c) <= limit'[c]
      BY <2>4, AmountAssumption DEF SetLimit, TypeOK, Amounts
    <3> QED BY <2>1, <2>4, <3>1 DEF SetLimit
  <2>5. ASSUME NEW d \in Decisions, NEW b \in Budgets, NEW a \in Amounts, Reserve(d, b, a)
        PROVE  WithinLimit'
    <3>1. \A x \in Decisions \ {d} : hold'[x] = hold[x]
      BY <2>5 DEF Reserve, TypeOK
    <3>2. /\ hold[d].status = "none"
          /\ hold'[d].status = "frozen" /\ hold'[d].budget = b /\ hold'[d].amount = a
      BY <2>5 DEF Reserve, TypeOK
    <3>3. \A c \in Budgets : /\ Share(d, c) = 0
                             /\ OverrunShare(d, c)' = 0 /\ OverrunShare(d, c) = 0
                             /\ Share(d, c)' = IF c = b THEN a ELSE 0
      BY <3>2 DEF Share, OverrunShare, Spent, Held, Overspent
    <3>4. CommittedTo(b) + a <= limit[b]
      BY <2>5 DEF Reserve
    <3>5. \A c \in Budgets : \/ Share(d, c)' + OverrunShare(d, c) <= Share(d, c) + OverrunShare(d, c)'
                             \/ CommittedTo(c) + Share(d, c)' <= limit[c]
      BY <3>3, <3>4
    <3>6. limit' = limit
      BY <2>5 DEF Reserve
    <3> QED BY <3>1, <3>5, <3>6, ShareStep
  <2>6. ASSUME NEW d \in Decisions, ClaimReserved(d) PROVE WithinLimit'
    <3>1. \A x \in Decisions \ {d} : hold'[x] = hold[x]
      BY <2>6 DEF ClaimReserved, TypeOK
    <3>2. /\ hold'[d].budget = hold[d].budget /\ hold'[d].amount = hold[d].amount
          /\ hold[d].status = "frozen" /\ hold'[d].status = "claimed"
      BY <2>6 DEF ClaimReserved, TypeOK
    <3>3. \A b \in Budgets : /\ Share(d, b)' = Share(d, b)
                             /\ OverrunShare(d, b)' = 0 /\ OverrunShare(d, b) = 0
      BY <3>2 DEF Share, OverrunShare, Spent, Held, Overspent
    <3>4. \A b \in Budgets : Share(d, b) \in Nat
      BY SplitShare DEF Split
    <3>5. \A b \in Budgets : Share(d, b)' + OverrunShare(d, b) <= Share(d, b) + OverrunShare(d, b)'
      BY <3>3, <3>4
    <3>6. limit' = limit
      BY <2>6 DEF ClaimReserved
    <3> QED BY <3>1, <3>5, <3>6, ShareStep
  <2>7. ASSUME NEW d \in Decisions, NEW c \in Amounts, NEW r \in BOOLEAN, Settle(d, c, r)
        PROVE  WithinLimit'
    <3> DEFINE a == hold[d].amount
    <3>1. \A x \in Decisions \ {d} : hold'[x] = hold[x]
      BY <2>7 DEF Settle, TypeOK
    <3>2. /\ hold[d].status = "claimed" /\ hold'[d].status = "settled"
          /\ hold'[d].budget = hold[d].budget /\ hold'[d].amount = a /\ hold'[d].charge = c
          /\ hold'[d].reconciled = r
      BY <2>7 DEF Settle, TypeOK
    <3>3. c \in Nat /\ a \in Nat /\ (c <= a \/ r)
      BY <2>7, AmountAssumption DEF Settle, TypeOK, Amounts
    <3>4. OverrunOfHold'[d] = IF c > a THEN c - a ELSE 0
      BY <3>2 DEF OverrunOfHold
    <3>5. \A b \in Budgets : OverrunShare(d, b) = 0
      BY <3>2 DEF OverrunShare, Spent, Overspent
    <3>6. \A b \in Budgets : hold[d].budget = b =>
                             /\ Share(d, b) = a /\ Share(d, b)' = c
                             /\ OverrunShare(d, b)' = IF r THEN OverrunOfHold'[d] ELSE 0
      BY <3>2 DEF Share, OverrunShare, Spent, Held, Overspent
    <3>7. \A b \in Budgets : hold[d].budget # b =>
                             /\ Share(d, b) = 0 /\ Share(d, b)' = 0
                             /\ OverrunShare(d, b)' = 0
      BY <3>2 DEF Share, OverrunShare, Spent, Held, Overspent
    <3>8. \A b \in Budgets : Share(d, b)' + OverrunShare(d, b) <= Share(d, b) + OverrunShare(d, b)'
      <4> SUFFICES ASSUME NEW b \in Budgets
                   PROVE  Share(d, b)' + OverrunShare(d, b) <= Share(d, b) + OverrunShare(d, b)'
        OBVIOUS
      <4>1. CASE hold[d].budget # b
        BY <4>1, <3>5, <3>7
      <4>2. CASE hold[d].budget = b
        <5>1. CASE c <= a
          BY <5>1, <4>2, <3>3, <3>4, <3>5, <3>6
        <5>2. CASE ~(c <= a)
          BY <5>2, <4>2, <3>3, <3>4, <3>5, <3>6
        <5> QED BY <5>1, <5>2
      <4> QED BY <4>1, <4>2
    <3>9. limit' = limit
      BY <2>7 DEF Settle
    <3> QED BY <3>1, <3>8, <3>9, ShareStep
  <2>8. ASSUME NEW d \in Decisions, NEW r \in BOOLEAN, Release(d, r) PROVE WithinLimit'
    <3>1. \A x \in Decisions \ {d} : hold'[x] = hold[x]
      BY <2>8 DEF Release, TypeOK
    <3>2. hold[d].status \in {"frozen", "claimed"} /\ hold'[d].status = "released"
      BY <2>8 DEF Release, TypeOK
    <3>3. \A b \in Budgets : /\ Share(d, b)' = 0
                             /\ OverrunShare(d, b)' = 0 /\ OverrunShare(d, b) = 0
      BY <3>2 DEF Share, OverrunShare, Spent, Held, Overspent
    <3>4. \A b \in Budgets : Share(d, b) \in Nat
      BY SplitShare DEF Split
    <3>5. \A b \in Budgets : Share(d, b)' + OverrunShare(d, b) <= Share(d, b) + OverrunShare(d, b)'
      BY <3>3, <3>4
    <3>6. limit' = limit
      BY <2>8 DEF Release
    <3> QED BY <3>1, <3>5, <3>6, ShareStep
  <2>9. ASSUME NEW D \in SUBSET Decisions, Lapse(D) PROVE WithinLimit'
    <3> SUFFICES ASSUME NEW b \in Budgets
                 PROVE  (CommittedTo(b) <= limit[b] + Overrun(b))'
      BY DEF WithinLimit, Overrun, Overspent
    <3>1. \A d \in Decisions : /\ hold'[d].budget = hold[d].budget
                               /\ hold'[d].amount = hold[d].amount
                               /\ hold'[d].charge = hold[d].charge
                               /\ hold'[d].reconciled = hold[d].reconciled
                               /\ hold'[d].status = IF d \in D THEN "expired" ELSE hold[d].status
                               /\ d \in D => hold[d].status = "frozen"
      BY <2>9 DEF Lapse, TypeOK
    <3>2. /\ Spent(b)' = Spent(b) /\ Overspent(b)' = Overspent(b)
          /\ Held(b)' \subseteq Held(b)
      BY <3>1 DEF Spent, Overspent, Held
    <3>3. /\ ChargeOfHold' = ChargeOfHold /\ AmountOfHold' = AmountOfHold
          /\ OverrunOfHold' = OverrunOfHold
      BY <3>1 DEF ChargeOfHold, AmountOfHold, OverrunOfHold
    <3>4. /\ IsFiniteSet(Held(b)) /\ IsFiniteSet(Held(b)')
          /\ IsFiniteSet(Spent(b)) /\ IsFiniteSet(Overspent(b))
      BY <3>2, SetsFinite, FS_Subset
    <3>5. Total(AmountOfHold, Held(b)') <= Total(AmountOfHold, Held(b))
      BY <3>2, <3>4, TotalSubset
    <3>6. /\ Total(AmountOfHold, Held(b)') \in Nat /\ Total(AmountOfHold, Held(b)) \in Nat
          /\ Total(ChargeOfHold, Spent(b)) \in Nat /\ Total(OverrunOfHold, Overspent(b)) \in Nat
      BY <3>4, TotalType
    <3>7. /\ CommittedTo(b)' = Total(ChargeOfHold, Spent(b)) + Total(AmountOfHold, Held(b)')
          /\ Overrun(b)' = Total(OverrunOfHold, Overspent(b))
      BY <3>2, <3>3 DEF CommittedTo, Overrun, Total
    <3>8. Total(ChargeOfHold, Spent(b)) + Total(AmountOfHold, Held(b))
            <= limit[b] + Total(OverrunOfHold, Overspent(b))
      BY DEF WithinLimit, CommittedTo, Overspent
    <3>9. limit'[b] = limit[b] /\ limit[b] \in Nat
      BY <2>9, AmountAssumption DEF Lapse, TypeOK, Amounts
    <3> QED BY <3>5, <3>6, <3>7, <3>8, <3>9
  <2>10. CASE UNCHANGED ledgerVars
    <3>1. \A c \in Budgets : limit'[c] >= limit[c]
      BY <2>10, AmountAssumption DEF ledgerVars, TypeOK, Amounts
    <3> QED BY <2>1, <2>10, <3>1 DEF ledgerVars
  <2> QED BY <2>2, <2>3, <2>4, <2>5, <2>6, <2>7, <2>8, <2>9, <2>10 DEF Next
<1> QED BY <1>1, <1>2, LedgerTypeCorrect, PTL DEF Spec

=============================================================================
