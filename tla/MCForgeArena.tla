--------------------------- MODULE MCForgeArena ---------------------------
(* ForgeArena on small instances.  Bytes are scaled: lines of 2, pages of 4. *)
(* One constraint names the two corners that are explored.                   *)
EXTENDS ForgeArena

RootAndChild == [b \in {0, 1} |-> IF b = 0 THEN 16 ELSE 12]
RootOnly == [b \in {0} |-> 16]

\* Marks and growth in two budgets, without @grad calls.
Marks == windows = <<>> /\ slots = <<>> /\ arena[0].used <= 12

\* @grad calls in one budget, over fewer allocations of fewer sizes.
Passes ==
    /\ entered = 0 /\ arena[1] = Fresh(1) /\ events <= 4
    /\ \A x \in blocks : x.bytes # 3

Corners == Marks \/ Passes
===========================================================================
