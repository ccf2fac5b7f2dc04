---------------------------- MODULE MCJitBudgets ----------------------------
(* JitBudgets on small instances: one constraint names the three corners     *)
(* that are explored, each with counts of its own.                           *)
EXTENDS JitBudgets

RequestsWithNegative == {-1, 1, 2}

NoMoreThan(carves, reaps, uses, nested, calls, grads) ==
    /\ Len(minted) <= carves /\ Cardinality(reaped) <= reaps
    /\ \A s \in Slots : used[s] <= uses
    /\ Len(extents) <= nested /\ Len(frames) <= calls /\ Len(windows) <= grads

\* Slots that come and go, under the policy of `dmc jit`.
Table == ~records /\ NoMoreThan(3, 2, 3, 2, 1, 0)

\* Extents, loops and calls nested in every order, around one small budget.
Edges ==
    /\ ~records /\ NoMoreThan(1, 1, 0, 3, 4, 1)
    /\ \A s \in Slots \ {0} : live[s] => extent[s] = 1

\* @grad calls that cross charges, and tests that follow each other.
Windows ==
    /\ records /\ NoMoreThan(1, 1, 3, 2, 2, 2)
    /\ \A s \in Slots \ {0} : live[s] => extent[s] = 2

Corners == Table \/ Edges \/ Windows
=============================================================================
