------------------------------- MODULE Totals -------------------------------
(* Sums of bounded amounts, without recursion and without an order. *)
EXTENDS Integers, FiniteSets

CONSTANT MaxAmount  \* the largest representable Amount (a fixed-width integer)

ASSUME AmountAssumption == MaxAmount \in Nat

Amounts == 0..MaxAmount

\* The sum of f over D, counted unit by unit.
Total(f, D) == Cardinality({u \in D \X (1..MaxAmount) : u[2] <= f[u[1]]})

=============================================================================
