---------------------------- MODULE BudgetStore ----------------------------
(***************************************************************************)
(* The records of hubu-core's governance store and the pure transitions    *)
(* on them.  The same record type is used twice: once for the SQLite file  *)
(* and once for the SpendManager/BudgetManager pair that each server       *)
(* process keeps in memory, because the code applies the same transition   *)
(* to both.                                                                *)
(*                                                                         *)
(* A decision is one revision of one operation key.  A decision has at     *)
(* most one token, one hold and one claim (unique indexes of the schema),  *)
(* so all four tables are functions of the decision.                       *)
(***************************************************************************)
EXTENDS Integers, Sequences, FiniteSets, Totals

CONSTANTS
  Keys,         \* operation keys of one agent
  MaxRevision,  \* bound: revisions of one operation key
  Budgets,      \* logical budgets of that agent, all in one currency
  NoBudget,     \* the budget of a hold that does not exist
  Starts,       \* [Budgets -> Nat], first instant of a budget's period
  Ends          \* [Budgets -> Nat], first instant after the period

ASSUME StoreAssumption ==
  /\ IsFiniteSet(Keys)
  /\ MaxRevision \in Nat
  /\ NoBudget \notin Budgets
  /\ Starts \in [Budgets -> Nat]
  /\ Ends \in [Budgets -> Nat]

Revisions == 1..MaxRevision
Decisions == Keys \X Revisions

----------------------------------------------------------------------------
(* Record types *)

Effects       == {"allow", "deny", "needs_approval"}
TokenStates   == {"none", "live", "used", "revoked"}
HoldStatuses  == {"none", "frozen", "claimed", "settled", "released", "expired"}
ClaimStatuses == {"none", "claimed", "settled", "released"}
AdminStates   == {"absent", "active", "revoked"}

Token   == [state : TokenStates, expires : Nat]
Hold    == [status : HoldStatuses, budget : Budgets \cup {NoBudget},
            amount : Amounts, expires : Nat, revision : Nat]
Claim   == [status : ClaimStatuses, expires : Nat, charge : Amounts,
            reconciled : BOOLEAN]
Budget  == [state : AdminStates, versions : Seq(Amounts)]
Balance == [consumed : Int, frozen : Int, remaining : Int]

Store == [effect  : [Decisions -> Effects \cup {"none"}],
          token   : [Decisions -> Token],
          hold    : [Decisions -> Hold],
          claim   : [Decisions -> Claim],
          budget  : [Budgets -> Budget],
          balance : [Budgets -> Balance]]

NoToken   == [state |-> "none", expires |-> 0]
NoHold    == [status |-> "none", budget |-> NoBudget, amount |-> 0,
              expires |-> 0, revision |-> 0]
NoClaim   == [status |-> "none", expires |-> 0, charge |-> 0,
              reconciled |-> FALSE]
NoBalance == [consumed |-> 0, frozen |-> 0, remaining |-> 0]

EmptyStore == [effect  |-> [d \in Decisions |-> "none"],
               token   |-> [d \in Decisions |-> NoToken],
               hold    |-> [d \in Decisions |-> NoHold],
               claim   |-> [d \in Decisions |-> NoClaim],
               budget  |-> [b \in Budgets |-> [state |-> "absent", versions |-> <<>>]],
               balance |-> [b \in Budgets |-> NoBalance]]

----------------------------------------------------------------------------
(* Totals over the holds and the claims *)

HoldAmount(st) == [d \in Decisions |-> st.hold[d].amount]
ClaimCharge(st) == [d \in Decisions |-> st.claim[d].charge]

ActiveHolds(st, b) ==
  {d \in Decisions : /\ st.hold[d].status \in {"frozen", "claimed"}
                     /\ st.hold[d].budget = b}

SettledHolds(st, b) ==
  {d \in Decisions : st.hold[d].status = "settled" /\ st.hold[d].budget = b}

ActiveHoldTotal(st, b) == Total(HoldAmount(st), ActiveHolds(st, b))
SettledTotal(st, b)    == Total(ClaimCharge(st), SettledHolds(st, b))

----------------------------------------------------------------------------
(* Budgets: current limit, availability, overlap, hydration *)

Exists(st, b) == st.budget[b].state # "absent"

Limit(st, b) ==
  LET versions == st.budget[b].versions
  IN  IF versions = <<>> THEN 0 ELSE versions[Len(versions)]

Committed(st, b) == st.balance[b].consumed + st.balance[b].frozen

\* validate_balance_for_limit and the derivation at the head of
\* evaluate_budget_availability
RemainingDerives(st, b) ==
  st.balance[b].remaining = Limit(st, b) - st.balance[b].consumed - st.balance[b].frozen

FrozenDerives(st, b) == st.balance[b].frozen = ActiveHoldTotal(st, b)

\* Variant: revocation is not looked at.
AvailabilityByPeriod(st, b, t) ==
  IF t < Starts[b] THEN "scheduled"
  ELSE IF Ends[b] <= t THEN "expired"
  ELSE IF st.balance[b].remaining <= 0 THEN "exhausted"
  ELSE "active"

Availability(st, b, t) ==
  IF st.budget[b].state = "revoked" THEN "revoked"
  ELSE IF t < Starts[b] THEN "scheduled"
  ELSE IF Ends[b] <= t THEN "expired"
  ELSE IF st.balance[b].remaining <= 0 THEN "exhausted"
  ELSE "active"

AllowsReservation(st, b, t) == Exists(st, b) /\ Availability(st, b, t) = "active"

PeriodsOverlap(b, c) == Starts[b] < Ends[c] /\ Starts[c] < Ends[b]

\* The checks a server process makes when it loads the budget tables; a
\* failed check stops it from starting.
HydrationValid(st) ==
  /\ \A b \in Budgets : Exists(st, b) =>
       /\ st.balance[b].consumed >= 0
       /\ st.balance[b].frozen >= 0
       /\ RemainingDerives(st, b)
       /\ FrozenDerives(st, b)
  /\ \A b, c \in Budgets :
       b # c /\ st.budget[b].state = "active" /\ st.budget[c].state = "active"
         => ~PeriodsOverlap(b, c)

----------------------------------------------------------------------------
(* Transitions of a store *)

\* A balance after so much more is consumed and so much more is frozen; what
\* remains moves the other way.
Post(balance, consumed, frozen) ==
  [consumed  |-> balance.consumed + consumed,
   frozen    |-> balance.frozen + frozen,
   remaining |-> balance.remaining - consumed - frozen]

\* Variant: a lapsed lease makes a claimed hold overdue too.
OverdueOrLapsed(st, t) ==
  {d \in Decisions : st.hold[d].status \in {"frozen", "claimed"} /\ st.hold[d].expires <= t}

Overdue(st, t) ==
  {d \in Decisions : st.hold[d].status = "frozen" /\ st.hold[d].expires <= t}

OverdueIn(st, t, b) == {d \in Overdue(st, t) : st.hold[d].budget = b}

\* Unfreeze every frozen hold whose authorization window has passed.  Claimed
\* holds are left alone whatever their lease says.
ExpireOverdueBudgetHolds(st, t) ==
  [st EXCEPT
    !.hold = [d \in Decisions |->
                IF d \in Overdue(st, t) THEN [st.hold[d] EXCEPT !.status = "expired"] ELSE st.hold[d]],
    !.balance = [b \in Budgets |->
                   Post(st.balance[b], 0, -Total(HoldAmount(st), OverdueIn(st, t, b)))]]

RecordDecision(st, d, e) == [st EXCEPT !.effect[d] = e]

IssueToken(st, d, expires) ==
  [st EXCEPT !.token[d] = [state |-> "live", expires |-> expires]]

DiscardToken(st, d) == [st EXCEPT !.token[d] = NoToken]

\* Freeze a reservation that expires with its token and is attributed to the
\* budget version current when it was made.
ReserveBudget(st, d, b, amount, expires) ==
  [st EXCEPT
    !.hold[d] = [status |-> "frozen", budget |-> b, amount |-> amount,
                 expires |-> expires, revision |-> Len(st.budget[b].versions)],
    !.balance[b] = Post(@, 0, amount)]

\* Bind a hold to an executor claim and extend it to the claim's lease.
ClaimHold(st, d, expires) ==
  [st EXCEPT
    !.claim[d] = [status |-> "claimed", expires |-> expires, charge |-> 0,
                  reconciled |-> FALSE],
    !.hold[d] = [@ EXCEPT !.status = "claimed", !.expires = expires]]

\* Variant: the token of a settled claim stays live.
SettleClaimOnly(st, d, charge, reconciled) ==
  LET b == st.hold[d].budget
      a == st.hold[d].amount
  IN  [st EXCEPT
        !.claim[d] = [@ EXCEPT !.status = "settled", !.charge = charge,
                               !.reconciled = reconciled],
        !.hold[d] = [@ EXCEPT !.status = "settled"],
        !.balance[b] = Post(@, charge, -a)]

SettleClaim(st, d, charge, reconciled) ==
  LET b == st.hold[d].budget
      a == st.hold[d].amount
  IN  [st EXCEPT
        !.token[d] = [@ EXCEPT !.state = "used"],
        !.claim[d] = [@ EXCEPT !.status = "settled", !.charge = charge,
                               !.reconciled = reconciled],
        !.hold[d] = [@ EXCEPT !.status = "settled"],
        !.balance[b] = Post(@, charge, -a)]

\* Variant: the token takes the hold's new status.
ReleaseHoldAndToken(st, d) ==
  [st EXCEPT
    !.token[d] = [@ EXCEPT !.state = "released"],
    !.hold[d] = [@ EXCEPT !.status = "released"],
    !.balance[st.hold[d].budget] = Post(@, 0, -st.hold[d].amount)]

\* Variant: the token is deleted instead of revoked.
ReleaseHoldDeletingToken(st, d) ==
  [st EXCEPT
    !.token[d] = NoToken,
    !.hold[d] = [@ EXCEPT !.status = "released"],
    !.balance[st.hold[d].budget] = Post(@, 0, -st.hold[d].amount)]

\* Variant: the balance is not updated.
ReleaseHoldOnly(st, d) ==
  [st EXCEPT
    !.token[d] = [@ EXCEPT !.state = "revoked"],
    !.hold[d] = [@ EXCEPT !.status = "released"]]

\* Give a hold's amount back and revoke its token.
ReleaseHold(st, d) ==
  LET b == st.hold[d].budget
      a == st.hold[d].amount
  IN  [st EXCEPT
        !.token[d] = [@ EXCEPT !.state = "revoked"],
        !.hold[d] = [@ EXCEPT !.status = "released"],
        !.balance[b] = Post(@, 0, -a)]

ReleaseClaim(st, d, reconciled) ==
  [ReleaseHold(st, d) EXCEPT !.claim[d] = [@ EXCEPT !.status = "released",
                                                    !.reconciled = reconciled]]

CreateBudget(st, b, limit) ==
  [st EXCEPT !.budget[b] = [state |-> "active", versions |-> <<limit>>],
             !.balance[b] = [consumed |-> 0, frozen |-> 0, remaining |-> limit]]

AppendBudgetVersion(st, b, limit) ==
  [st EXCEPT !.budget[b] = [state |-> @.state, versions |-> Append(@.versions, limit)],
             !.balance[b] = [@ EXCEPT !.remaining = limit - Committed(st, b)]]

RevokeBudget(st, b) == [st EXCEPT !.budget[b] = [@ EXCEPT !.state = "revoked"]]

----------------------------------------------------------------------------
(* What a server process copies from the file into its memory *)

\* The claim, token, hold and balance of a finalized or voided authorization.
ApplyPersistedFinalization(cache, st, d) ==
  LET b == st.hold[d].budget
  IN  [cache EXCEPT !.claim[d] = st.claim[d],
                    !.token[d] = st.token[d],
                    !.hold[d] = st.hold[d],
                    !.balance[b] = st.balance[b]]

\* The whole budget state, after a committed change to a budget.
ApplyCommittedState(cache, st) ==
  [cache EXCEPT !.budget = st.budget, !.balance = st.balance, !.hold = st.hold]

=============================================================================
