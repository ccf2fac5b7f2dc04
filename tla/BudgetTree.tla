------------------------------ MODULE BudgetTree ------------------------------
(***************************************************************************)
(* What the forge promises about budgets, with no table, no slots and no   *)
(* handles: a tree of budgets, each with a fixed extent, that is spent     *)
(* either on bytes charged to it directly or on the extents carved out of  *)
(* it for its children.  Both backends keep a table of reused slots; the   *)
(* modules InterpBudgets and JitBudgets are checked to implement this one. *)
(*                                                                         *)
(* A budget is an identity, a natural number; 0 is forge.root and a carve  *)
(* always makes a budget that never existed before.                        *)
(***************************************************************************)
EXTENDS Integers, FiniteSetsExt

CONSTANTS
    Limit,        \* the extent of forge.root: a number of bytes, or Unbounded
    Unbounded,    \* no --forge was given: forge.root has no ceiling
    Amounts       \* the byte counts a program may ask for

VARIABLES
    born,         \* how many budgets have ever been carved
    live,         \* the budgets not reaped
    parent,       \* the budget each live budget was carved from
    extent,       \* the bytes each live budget was carved with
    used          \* the bytes charged to each live budget directly

treeVars == <<born, live, parent, extent, used>>

Root == 0

Children(b) == {c \in live \ {Root} : parent[c] = b}

\* The bytes of b that belong to its children, spent or not.
Reserved(b) == MapThenSumSet(LAMBDA c : extent[c], Children(b))

\* b can give away n more bytes, to an allocation or to a child.
Fits(b, n) == extent[b] # Unbounded => used[b] + Reserved(b) + n <= extent[b]

TreeInit ==
    /\ born = 0
    /\ live = {Root}
    /\ parent = [b \in live |-> Root]
    /\ extent = [b \in live |-> Limit]
    /\ used = [b \in live |-> 0]

Carve(p, n) ==
    /\ p \in live
    /\ Fits(p, n)
    /\ born' = born + 1
    /\ live' = live \cup {born'}
    /\ parent' = [b \in live' |-> IF b = born' THEN p ELSE parent[b]]
    /\ extent' = [b \in live' |-> IF b = born' THEN n ELSE extent[b]]
    /\ used' = [b \in live' |-> IF b = born' THEN 0 ELSE used[b]]

\* The whole extent of b goes back to its parent, because it stops being a
\* child; b is never live again.
Reap(b) ==
    /\ b \in live \ {Root}
    /\ Children(b) = {}
    /\ live' = live \ {b}
    /\ parent' = [c \in live' |-> parent[c]]
    /\ extent' = [c \in live' |-> extent[c]]
    /\ used' = [c \in live' |-> used[c]]
    /\ UNCHANGED born

Charge(b, n) ==
    /\ b \in live
    /\ Fits(b, n)
    /\ used' = [used EXCEPT ![b] = @ + n]
    /\ UNCHANGED <<born, live, parent, extent>>

TreeNext ==
    \/ \E p \in live, n \in Amounts : Carve(p, n)
    \/ \E b \in live : Reap(b)
    \/ \E b \in live, n \in Amounts : Charge(b, n)

TreeSpec == TreeInit /\ [][TreeNext]_treeVars

-------------------------------------------------------------------------------

TreeTypeOK ==
    /\ born \in Nat
    /\ live \subseteq 0..born
    /\ Root \in live
    /\ parent \in [live -> live]
    /\ extent \in [live -> Nat \cup {Unbounded}]
    /\ used \in [live -> Nat]
===============================================================================
