------------------------------ MODULE JitBudgets ------------------------------
(***************************************************************************)
(* The budget table of the JIT runtime (jit.rs) and the code the JIT emits *)
(* around it.  Every entry owns an arena with a meter of its own, so two   *)
(* counters are kept for one budget: `used` in the table and arena.used.   *)
(* The entered-budget register is restored by calls the lowering emits on  *)
(* each edge that leaves an extent, not by a guard: a normal exit, break,  *)
(* continue, return and `?`.                                               *)
(*                                                                         *)
(* A refusal ends the process (diag::out_of_band_fatal), except exhaustion *)
(* under `dmc test`, which is recorded and let through.  Bytes are counted *)
(* in units of ForgeArena::ALIGN.  Where a block is placed is ForgeArena.  *)
(*                                                                         *)
(* `minted`, `tenant`, `reaped` and `reserved` are history, as they are in *)
(* InterpBudgets, and so is the field `slot` of an extent.                 *)
(***************************************************************************)
EXTENDS Integers, SequencesExt

CONSTANTS
    Limit,        \* extent of the root: --forge, or usize::MAX
    Bounded,      \* whether --forge was given: entry 0's arena has a limit
    Requests,     \* byte counts a program passes to forge.carve, any i64
    Sizes,        \* aligned sizes of the values a program materializes
    MaxSlots,     \* BUDGET_INDEX_MASK + 1
    GenMod,       \* 2^32: the generation is a u32 and wraps
    MaxCarves,    \* bound on the budgets a behaviour carves
    MaxReaps,     \* bound on the budgets a behaviour reaps
    MaxExtents,   \* bound on the nesting of budget extents
    MaxFrames,    \* bound on the nesting of calls and loops
    MaxWindows,   \* bound on the nesting of @grad calls
    MaxUsed       \* bound on the bytes ever charged to one entry

ASSUME JitAssumption ==
    /\ Limit \in Nat /\ Bounded \in BOOLEAN
    /\ Requests \subseteq Int /\ Sizes \subseteq Nat
    /\ MaxSlots \in Nat \ {0} /\ GenMod \in Nat \ {0}
    /\ MaxCarves \in Nat /\ MaxReaps \in Nat /\ MaxExtents \in Nat
    /\ MaxFrames \in Nat \ {0} /\ MaxWindows \in Nat /\ MaxUsed \in Nat
    /\ ~Bounded => MaxUsed <= Limit

VARIABLES
    size,         \* BUDGETS.len()
    parent, extent, used, free, children, gen, live,   \* the fields of BudgetEntry
    metered,      \* arena.used of each entry
    budgetFree,   \* BUDGET_FREE, the stack of reaped slots
    cur,          \* CURRENT_BUDGET, the entered-budget register
    extents,      \* the budget extents open where the program is, innermost last
    frames,       \* the calls and loops it is in: LoopFrame, or a call
    windows,      \* the @grad calls being evaluated, innermost last
    records,      \* FORGE_ON_EXHAUSTION is Record, the policy of `dmc test --jit`
    status,       \* "running", or the refusal that ended the process
    exhausted,    \* FORGE_EXHAUSTED holds a diagnostic
    minted, tenant, reaped, reserved

books == <<parent, extent, used, free, children, metered, reserved>>
names == <<size, gen, live, budgetFree, minted, tenant, reaped>>
policy == <<records, exhausted>>
control == <<cur, extents, frames>>
vars == <<books, names, control, windows, status, policy>>

Slots == 0..(MaxSlots - 1)
RootHandle == [slot |-> 0, gen |-> 0]
Handles == 0..Len(minted)
Descriptor(h) == IF h = 0 THEN RootHandle ELSE minted[h]
Running == status = "running"
Inside == windows # <<>>
Top == Last(windows)

\* The program is in the body of a @grad fn, and in no function it calls.  Such
\* a body is let bindings, differentiable operations and nested .fwd_bwd calls;
\* a tensor literal or an argument in it may call ordinary code.  Lowering the
\* .fwd_bwd entry refuses anything else; the forward-only entry, which the
\* ordinary lowering translates, comes with it for every @grad fn.
Bare == Inside /\ Len(frames) = Top.level

Zero == [s \in Slots |-> 0]
RootAlone(x, y) == [s \in Slots |-> IF s = 0 THEN x ELSE y]
Main == [kind |-> "fn", depth |-> 0]

\* with_budgets: entry 0 is made by the first use.  `dmc jit` keeps the aborting
\* policy.
Init ==
    /\ size = 1 /\ live = RootAlone(TRUE, FALSE) /\ gen = Zero
    /\ parent = Zero /\ extent = RootAlone(Limit, 0) /\ free = extent
    /\ used = Zero /\ metered = Zero /\ children = Zero
    /\ budgetFree = <<>>
    /\ cur = 0 /\ extents = <<>> /\ frames = <<Main>> /\ windows = <<>>
    /\ records \in BOOLEAN
    /\ status = "running" /\ exhausted = FALSE
    /\ minted = <<>> /\ tenant = Zero /\ reaped = {} /\ reserved = Zero

\* out_of_band_fatal: no edge is run, no guard is dropped.
Fatal(refusal) ==
    /\ status' = refusal
    /\ UNCHANGED <<books, names, control, windows, policy>>

-------------------------------------------------------------------------------
(* forge.carve and forge.reap.                                              *)

SaturatingSub(a, b) == IF b > a THEN 0 ELSE a - b

\* resolve_budget.
Resolves(d) == d.slot < size /\ live[d.slot] /\ d.gen = gen[d.slot]

\* A negative byte count is clamped, not refused.
Need(n) == IF n < 0 THEN 0 ELSE n

CarveSlot == IF budgetFree = <<>> THEN size ELSE Last(budgetFree)

\* Slip: a carve out of a parent whose own spending is not looked at.
CarveFitsExtent(p, n) == n <= extent[p]

CarveFits(p, n) == n <= free[p]

\* The entry a carve writes, with a new arena; a fresh slot starts at
\* generation 0, a reused one keeps the generation its reap gave it.
Carve(h, n) ==
    LET p == Descriptor(h).slot  s == CarveSlot IN
    /\ Running /\ ~Bare
    /\ Len(minted) < MaxCarves
    /\ Resolves(Descriptor(h)) /\ CarveFits(p, Need(n)) /\ s \in Slots
    /\ parent' = [parent EXCEPT ![s] = p]
    /\ extent' = [extent EXCEPT ![s] = Need(n)]
    /\ used' = [used EXCEPT ![s] = 0]
    /\ metered' = [metered EXCEPT ![s] = 0]
    /\ free' = [free EXCEPT ![p] = @ - Need(n), ![s] = Need(n)]
    /\ children' = [children EXCEPT ![p] = @ + 1, ![s] = 0]
    /\ reserved' = [reserved EXCEPT ![p] = @ + Need(n), ![s] = 0]
    /\ live' = [live EXCEPT ![s] = TRUE]
    /\ minted' = Append(minted, [slot |-> s, gen |-> gen[s]])
    /\ tenant' = [tenant EXCEPT ![s] = Len(minted) + 1]
    /\ IF budgetFree = <<>>
       THEN size' = size + 1 /\ UNCHANGED budgetFree
       ELSE budgetFree' = Front(budgetFree) /\ UNCHANGED size
    /\ UNCHANGED <<gen, reaped, control, windows, status, policy>>

CarveRefused(h, n) ==
    LET d == Descriptor(h) IN
    /\ Running /\ ~Bare
    /\ \/ ~Resolves(d) /\ Fatal("budget-stale")
       \/ Resolves(d) /\ ~CarveFits(d.slot, Need(n)) /\ Fatal("budget-carve")
       \/ Resolves(d) /\ CarveFits(d.slot, Need(n)) /\ CarveSlot \notin Slots /\ Fatal("table-full")

\* Slip: the root reaped like any other.
ReapableRoot(d) == Resolves(d) /\ children[d.slot] = 0

Reapable(d) == Resolves(d) /\ d.slot # 0 /\ children[d.slot] = 0

\* Slip: only what the child never spent goes back.
CreditFree(s) == free[s]

\* Spent and unspent alike.
CreditOf(s) == extent[s]

\* Slips: a generation that stands still; an entry left as it was.
SameGeneration(g) == g
NotEmptied(f, s) == f

NextGeneration(g) == (g + 1) % GenMod
Emptied(f, s) == [f EXCEPT ![s] = 0]

\* The arena is dropped with its chunks and the entry is emptied.
Reap(h) ==
    LET s == Descriptor(h).slot  p == parent[s] IN
    /\ Running /\ ~Bare
    /\ Cardinality(reaped) < MaxReaps
    /\ Reapable(Descriptor(h))
    /\ free' = [Emptied(free, s) EXCEPT ![p] = @ + CreditOf(s)]
    /\ children' = [Emptied(children, s) EXCEPT ![p] = @ - 1]
    /\ reserved' = [reserved EXCEPT ![p] = @ - extent[s]]
    /\ extent' = Emptied(extent, s)
    /\ used' = Emptied(used, s)
    /\ metered' = Emptied(metered, s)
    /\ gen' = [gen EXCEPT ![s] = NextGeneration(@)]
    /\ live' = [live EXCEPT ![s] = FALSE]
    /\ budgetFree' = Append(budgetFree, s)
    /\ reaped' = reaped \cup {tenant[s]}
    /\ UNCHANGED <<parent, size, minted, tenant, control, windows, status, policy>>

ReapRefused(h) ==
    LET d == Descriptor(h) IN
    /\ Running /\ ~Bare
    /\ \/ ~Resolves(d) /\ Fatal("budget-stale")
       \/ Resolves(d) /\ ~Reapable(d) /\ Fatal("budget-reap")

-------------------------------------------------------------------------------
(* Allocation: budget_allocate, which serves the entered budget, and the    *)
(* root for a vault constructor (forge_alloc_root).                         *)

\* ForgeArena::exceeds_budget, on a meter of m.
ArenaFits(s, m, n) == (s = 0 /\ ~Bounded) \/ m + n <= extent[s]

\* Slip: the arena's own limit everywhere, blind to what was carved out.
PreAOfArena(s, m, n) == ArenaFits(s, m, n)

\* PRE-A: the root with no children asks its arena, any other budget the table.
PreA(s, m, n) ==
    IF s = 0 /\ children[0] = 0 THEN ArenaFits(s, m, n) ELSE n <= free[s]

\* n bytes charged to slot s, whose arena meter stands at m.
Served(s, m, n) ==
    /\ used[s] + n <= MaxUsed
    /\ metered' = [metered EXCEPT ![s] = m + n]
    /\ used' = [used EXCEPT ![s] = @ + n]
    /\ free' = [free EXCEPT ![s] = SaturatingSub(@, n)]
    /\ UNCHANGED <<parent, extent, children, reserved>>

\* Exhaustion aborts, or is recorded and served all the same.
Allocate(s, m, n) ==
    /\ IF PreA(s, m, n) \/ records
       THEN Served(s, m, n) /\ UNCHANGED status
       ELSE status' = "exhausted" /\ UNCHANGED books
    /\ exhausted' = (exhausted \/ (records /\ ~PreA(s, m, n)))
    /\ UNCHANGED <<names, records>>

AllocIn(s, n) ==
    /\ Running
    /\ Allocate(s, metered[s], n)
    /\ UNCHANGED <<control, windows>>

Alloc(n) == AllocIn(cur, n)

AllocVault(n) == ~Bare /\ cur # 0 /\ AllocIn(0, n)

-------------------------------------------------------------------------------
(* Extents and the edges that leave them.                                   *)

Depth == Len(extents)
Frame == Last(frames)

\* __dmc_budget_enter: the displaced index becomes a value of the emitted code.
Enter(h) ==
    LET d == Descriptor(h) IN
    /\ Running /\ ~Bare
    /\ Depth < MaxExtents
    /\ Resolves(d)
    /\ extents' = Append(extents, [prev |-> cur, slot |-> d.slot])
    /\ cur' = d.slot
    /\ UNCHANGED <<books, names, frames, windows, status, policy>>

EnterRefused(h) ==
    /\ Running /\ ~Bare
    /\ ~Resolves(Descriptor(h))
    /\ Fatal("budget-stale")

\* Slip: one exit emitted, for the innermost extent.
ExitInnermost(depth) == IF Depth <= depth THEN cur ELSE Last(extents).prev

\* emit_budget_exits_to_depth: an exit for each extent above `depth`,
\* innermost first, so the one that counts is the outermost's.
ExitsTo(depth) == IF Depth <= depth THEN cur ELSE extents[depth + 1].prev

\* Control leaves the extents above `depth` and the frames above `level`.
LeaveTo(depth, level) ==
    /\ Running /\ ~Bare
    /\ cur' = ExitsTo(depth)
    /\ extents' = SubSeq(extents, 1, depth)
    /\ frames' = SubSeq(frames, 1, level)
    /\ UNCHANGED <<books, names, windows, status, policy>>

\* The end of a forge.enter block, or of the constructor of `<ctor> in b`.
EndExtent == Depth > Frame.depth /\ LeaveTo(Depth - 1, Len(frames))

OpenFrame(kind) ==
    /\ Running /\ (Bare => kind = "fn")
    /\ Len(frames) < MaxFrames
    /\ frames' = Append(frames, [kind |-> kind, depth |-> Depth])
    /\ UNCHANGED <<books, names, cur, extents, windows, status, policy>>

\* LoopFrame::budget_depth.
LoopFloor == Frame.depth

Break == Frame.kind = "loop" /\ LeaveTo(LoopFloor, Len(frames) - 1)
Continue == Frame.kind = "loop" /\ Depth > LoopFloor /\ LeaveTo(LoopFloor, Len(frames))

\* The call being executed, whatever loops are open in it.
Call == CHOOSE i \in 1..Len(frames) :
            frames[i].kind = "fn" /\ \A j \in (i + 1)..Len(frames) : frames[j].kind = "loop"

\* return and the `?` early return leave every extent of the function.  The
\* function's budget_stack starts empty: what its caller entered stays entered.
Return == Call > 1 /\ LeaveTo(frames[Call].depth, Call - 1)

-------------------------------------------------------------------------------
(* @grad calls: a mark at entry, a rewind of the arena at exit.             *)

OpenWindow(kind) ==
    /\ Running
    /\ kind = "forward" => ~Bare
    /\ Len(windows) < MaxWindows
    /\ windows' = Append(windows, [kind |-> kind, slot |-> cur, mark |-> metered[cur],
                                   level |-> Len(frames)])
    /\ UNCHANGED <<books, names, control, status, policy>>

\* The assertions of restore_internal: the mark is of this budget, and not
\* ahead of an arena that a reap and a carve have replaced.
MarkHolds == cur = Top.slot /\ Top.mark <= metered[cur]

CloseWindow(kind) ==
    /\ Running
    /\ Bare /\ Top.kind = kind /\ MarkHolds
    /\ windows' = Front(windows)
    /\ UNCHANGED control

\* A failed assertion cannot unwind out of an extern "C" function.
CloseRefused == Running /\ Bare /\ ~MarkHolds /\ Fatal("mark")

\* restore_internal: the arena's meter and nothing of the table.
CloseForward ==
    /\ CloseWindow("forward")
    /\ metered' = [metered EXCEPT ![cur] = Top.mark]
    /\ UNCHANGED <<parent, extent, used, free, children, reserved, names, status, policy>>

\* grad_call_epilogue: the same, then the published gradients, n bytes, are
\* allocated again.
ClosePass(n) ==
    /\ CloseWindow("pass")
    /\ Allocate(cur, Top.mark, n)

-------------------------------------------------------------------------------
(* `dmc test --jit` runs one test after the other on one thread.  The test   *)
(* has returned and its verdict has taken the record of an exhaustion.       *)

\* Slip: the record cleared, the table kept.
ClearRecord == UNCHANGED <<books, names, cur>>

\* reset_forge_arena: BUDGETS, BUDGET_FREE, CURRENT_BUDGET.
ClearTable ==
    /\ size' = 1 /\ live' = RootAlone(TRUE, FALSE) /\ gen' = Zero
    /\ parent' = Zero /\ extent' = RootAlone(Limit, 0) /\ free' = extent'
    /\ used' = Zero /\ metered' = Zero /\ children' = Zero
    /\ budgetFree' = <<>> /\ cur' = 0
    /\ minted' = <<>> /\ tenant' = Zero /\ reaped' = {} /\ reserved' = Zero

NextTest ==
    /\ Running /\ records /\ ~Inside
    /\ frames = <<Main>> /\ extents = <<>>
    /\ ClearTable
    /\ exhausted' = FALSE
    /\ UNCHANGED <<extents, frames, windows, status, records>>

-------------------------------------------------------------------------------

Next ==
    \/ \E h \in Handles, n \in Requests : Carve(h, n) \/ CarveRefused(h, n)
    \/ \E h \in Handles : Reap(h) \/ ReapRefused(h) \/ Enter(h) \/ EnterRefused(h)
    \/ \E n \in Sizes : Alloc(n) \/ AllocVault(n)
    \/ EndExtent \/ Break \/ Continue \/ Return
    \/ OpenFrame("fn") \/ OpenFrame("loop")
    \/ OpenWindow("forward") \/ OpenWindow("pass") \/ CloseForward \/ CloseRefused
    \/ Inside /\ \E n \in Sizes : ClosePass(n)
    \/ NextTest

Spec == Init /\ [][Next]_vars

-------------------------------------------------------------------------------
(* Properties.                                                              *)

LiveSlots == {s \in 0..(size - 1) : live[s]}
Sum(f, S) == MapThenSumSet(LAMBDA x : f[x], S)

\* Indices stay in the table, meters stay unsigned, a dead slot is on the stack
\* exactly once and is empty.
TypeOK ==
    /\ size \in 1..MaxSlots
    /\ parent \in [Slots -> Slots]
    /\ \A f \in {extent, used, free, metered, reserved, children} : f \in [Slots -> Nat]
    /\ gen \in [Slots -> 0..(GenMod - 1)]
    /\ live \in [Slots -> BOOLEAN] /\ live[0]
    /\ budgetFree \in Seq(1..(size - 1)) /\ IsInjective(budgetFree)
    /\ ToSet(budgetFree) = {s \in 0..(size - 1) : ~live[s]}
    /\ cur \in 0..(size - 1)
    /\ extents \in Seq([prev : 0..(size - 1), slot : 0..(size - 1)])
    /\ frames \in Seq([kind : {"fn", "loop"}, depth : Nat])
    /\ windows \in Seq([kind : {"forward", "pass"}, slot : 0..(size - 1), mark : Nat, level : Nat])
    /\ minted \in Seq([slot : 1..(size - 1), gen : 0..(GenMod - 1)])
    /\ tenant \in [Slots -> Handles]
    /\ reaped \subseteq 1..Len(minted)
    /\ exhausted \in BOOLEAN

\* A handle is refused exactly when its budget has been reaped, as long as the
\* generation has not wrapped.
StaleExact == \A h \in Handles : Resolves(Descriptor(h)) <=> h \notin reaped

\* (LOC): free, charged and carved-out bytes of every live budget are its extent,
\* until an exhaustion is let through on record, or a @grad call rewinds
\* arena.used and not the table.
Loc ==
    exhausted \/ \A s \in LiveSlots :
        used[s] = metered[s] => free[s] + used[s] + reserved[s] = extent[s]

\* The register is the budget of the innermost extent the program is lexically
\* in, and the root outside all of them, whichever edges left the others: a
\* missed or a misordered exit would charge another tenant in silence.
RegisterFollowsExtents == cur = IF extents = <<>> THEN 0 ELSE Last(extents).slot

\* A @grad call ends under the budget it began under, whatever the code it ran
\* entered and however that code left: restore_internal asserts it.
MarkComesHome == Bare => cur = Top.slot

\* What an arena holds, what was carved out and what is still on offer never
\* exceed the extent, unless an exhaustion is on record for the harness: the
\* two counters part at the end of a @grad call, but only to the budget's
\* disadvantage, and `dmc test` passes no test that spent a byte twice, nor
\* charges one with what the test before it spent.
Solvent == exhausted \/ \A s \in LiveSlots : metered[s] + reserved[s] + free[s] <= extent[s]

\* --forge is one ceiling over all the arenas.
ForgeIsACeiling == exhausted \/ Sum(metered, LiveSlots) <= Limit

\* A reaped slot takes no more bytes, even while its extent is still entered.
NothingInReaped ==
    exhausted \/ \A s \in (0..(size - 1)) \ LiveSlots : metered[s] = 0 /\ free[s] = 0

LiveBudgets == Handles \ reaped
SlotOf(b) == Descriptor(b).slot

Tree == INSTANCE BudgetTree WITH
    Unbounded <- -1,
    born <- Len(minted),
    live <- LiveBudgets,
    parent <- [b \in LiveBudgets |-> tenant[parent[SlotOf(b)]]],
    extent <- [b \in LiveBudgets |-> extent[SlotOf(b)]],
    used <- [b \in LiveBudgets |-> used[SlotOf(b)]],
    Amounts <- Sizes \cup {Need(n) : n \in Requests}

\* The table is the tree of budgets both backends promise, reused slots and
\* failed carves included, until Loc has an excuse; every test begins with a new
\* tree.
ImplementsTree ==
    Tree!TreeInit /\ [][\/ Tree!TreeNext
                       \/ exhausted' \/ used' # metered'
                       \/ Tree!TreeInit']_Tree!treeVars
===============================================================================
