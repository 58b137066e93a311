----------------------------- MODULE HoldLedger -----------------------------
(***************************************************************************)
(* What the governance store promises, without servers, caches, tokens or  *)
(* time: budgets with a limit, and one hold per decision whose amount is    *)
(* committed against the limit until it is settled, released or lapses.    *)
(* Nothing here is cached: what is committed is the sum over the holds.    *)
(***************************************************************************)
EXTENDS Integers, FiniteSets, Totals

CONSTANTS
  Decisions,   \* what a hold is for
  Budgets,     \* what a hold is taken from
  NoBudget     \* the budget of a hold that does not exist

ASSUME LedgerAssumption ==
  /\ IsFiniteSet(Decisions)
  /\ NoBudget \notin Budgets

VARIABLES
  limit,  \* current limit of each budget
  open,   \* budgets that accept reservations
  hold    \* the hold of each decision

ledgerVars == <<limit, open, hold>>

Statuses == {"none", "frozen", "claimed", "settled", "released", "expired"}

NoHold == [status |-> "none", budget |-> NoBudget, amount |-> 0,
           charge |-> 0, reconciled |-> FALSE]

TypeOK ==
  /\ limit \in [Budgets -> Amounts]
  /\ open \subseteq Budgets
  /\ hold \in [Decisions -> [status : Statuses, budget : Budgets \cup {NoBudget},
                             amount : Amounts, charge : Amounts, reconciled : BOOLEAN]]

----------------------------------------------------------------------------

Held(b) == {d \in Decisions : /\ hold[d].status \in {"frozen", "claimed"}
                              /\ hold[d].budget = b}
Spent(b) == {d \in Decisions : hold[d].status = "settled" /\ hold[d].budget = b}

AmountOfHold  == [d \in Decisions |-> hold[d].amount]
ChargeOfHold  == [d \in Decisions |-> hold[d].charge]
OverrunOfHold == [d \in Decisions |-> IF hold[d].charge > hold[d].amount
                                      THEN hold[d].charge - hold[d].amount ELSE 0]

CommittedTo(b) == Total(ChargeOfHold, Spent(b)) + Total(AmountOfHold, Held(b))

----------------------------------------------------------------------------

Init ==
  /\ limit = [b \in Budgets |-> 0]
  /\ open = {}
  /\ hold = [d \in Decisions |-> NoHold]

Open(b, l) ==
  /\ b \notin open
  /\ limit[b] = 0
  /\ limit' = [limit EXCEPT ![b] = l]
  /\ open' = open \cup {b}
  /\ UNCHANGED hold

SetLimit(b, l) ==
  /\ b \in open
  /\ CommittedTo(b) <= l
  /\ limit' = [limit EXCEPT ![b] = l]
  /\ UNCHANGED <<open, hold>>

Close(b) ==
  /\ b \in open
  /\ open' = open \ {b}
  /\ UNCHANGED <<limit, hold>>

\* Variant: a reservation may be larger than what is left.
ReserveBeyond(d, b, a) ==
  /\ hold[d].status = "none"
  /\ b \in open
  /\ CommittedTo(b) < limit[b]
  /\ hold' = [hold EXCEPT ![d] = [status |-> "frozen", budget |-> b, amount |-> a,
                                  charge |-> 0, reconciled |-> FALSE]]
  /\ UNCHANGED <<limit, open>>

Reserve(d, b, a) ==
  /\ hold[d].status = "none"
  /\ b \in open
  /\ CommittedTo(b) + a <= limit[b]
  /\ hold' = [hold EXCEPT ![d] = [status |-> "frozen", budget |-> b, amount |-> a,
                                  charge |-> 0, reconciled |-> FALSE]]
  /\ UNCHANGED <<limit, open>>

ClaimReserved(d) ==
  /\ hold[d].status = "frozen"
  /\ hold' = [hold EXCEPT ![d].status = "claimed"]
  /\ UNCHANGED <<limit, open>>

\* Without reconciliation a settlement stays within the reserved amount.
Settle(d, c, reconciled) ==
  /\ hold[d].status = "claimed"
  /\ c <= hold[d].amount \/ reconciled
  /\ hold' = [hold EXCEPT ![d].status = "settled", ![d].charge = c,
                          ![d].reconciled = reconciled]
  /\ UNCHANGED <<limit, open>>

Release(d, reconciled) ==
  /\ hold[d].status \in {"frozen", "claimed"}
  /\ hold' = [hold EXCEPT ![d].status = "released", ![d].reconciled = reconciled]
  /\ UNCHANGED <<limit, open>>

\* Only holds that nobody claimed lapse.
Lapse(D) ==
  /\ \A d \in D : hold[d].status = "frozen"
  /\ hold' = [d \in Decisions |->
                IF d \in D THEN [hold[d] EXCEPT !.status = "expired"] ELSE hold[d]]
  /\ UNCHANGED <<limit, open>>

Next ==
  \/ \E b \in Budgets : Close(b)
  \/ \E b \in Budgets, l \in Amounts : Open(b, l) \/ SetLimit(b, l)
  \/ \E d \in Decisions, b \in Budgets, a \in Amounts : Reserve(d, b, a)
  \/ \E d \in Decisions : ClaimReserved(d)
  \/ \E d \in Decisions, c \in Amounts, r \in BOOLEAN : Settle(d, c, r)
  \/ \E d \in Decisions, r \in BOOLEAN : Release(d, r)
  \/ \E D \in SUBSET Decisions : Lapse(D)

Spec == Init /\ [][Next]_ledgerVars

----------------------------------------------------------------------------

\* What is committed to a budget exceeds its limit by no more than the
\* overruns confirmed in reconciliation.
WithinLimit ==
  \A b \in Budgets :
    CommittedTo(b) <= limit[b] + Total(OverrunOfHold, {d \in Spent(b) : hold[d].reconciled})

=============================================================================
