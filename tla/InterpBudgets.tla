---------------------------- MODULE InterpBudgets ----------------------------
(***************************************************************************)
(* The budget table of the tree-walking interpreter (interp.rs): the four  *)
(* operations forge.carve, forge.reap, forge.enter(b) { } and <ctor> in b, *)
(* every kind of allocation that reads the entered-budget register, the    *)
(* generation stamp that makes a tensor of a reaped budget unreadable, and *)
(* the unwinding of the register when a runtime error leaves the program.  *)
(*                                                                         *)
(* A BudgetEntry is one slot of the functions parent .. gen; the Vec       *)
(* `budgets` is the slots below `size`.  An error of the interpreter is    *)
(* never caught by a program: it sets `status`, and from then on only the  *)
(* guards still open are dropped.                                          *)
(*                                                                         *)
(* `tenant`, `minted`, `reaped` and `reserved`, and the fields `budget` of *)
(* a guard, `paid` and `late` of a tensor, are history: the code has none  *)
(* of them.  They name budgets by the order they were carved in, which no  *)
(* reuse of a slot can confuse, and the properties compare the code's      *)
(* notion of a budget with that one.  A tensor is late if the budget       *)
(* entered when it was made had been reaped by then.                       *)
(***************************************************************************)
EXTENDS Integers, SequencesExt

CONSTANTS
    Limit,        \* --forge in bytes, or Unbounded when the flag is absent
    Unbounded,    \* stands for None in `extent` and `free`
    VaultLimit,   \* --vault in bytes, or Unbounded
    Requests,     \* byte counts a program passes to forge.carve, any integers
    Sizes,        \* byte counts of the values a program materializes
    MaxSlots,     \* BUDGET_INDEX_MASK + 1, the length the table never exceeds
    GenMod,       \* 2^32: the generation is a u32 and wraps
    MaxCarves,    \* bound on the budgets a behaviour carves
    MaxReaps,     \* bound on the budgets a behaviour reaps
    MaxDepth,     \* bound on the nesting of budget extents
    MaxUsed       \* bound on the watermark of an unbounded root or vault

ASSUME InterpAssumption ==
    /\ Unbounded \notin Int
    /\ Limit \in Nat \cup {Unbounded}
    /\ VaultLimit \in Nat \cup {Unbounded}
    /\ Requests \subseteq Int
    /\ Sizes \subseteq Nat
    /\ MaxSlots \in Nat \ {0}
    /\ GenMod \in Nat \ {0}
    /\ MaxCarves \in Nat /\ MaxReaps \in Nat /\ MaxDepth \in Nat /\ MaxUsed \in Nat

VARIABLES
    size,         \* budgets.len()
    parent, extent, used, free, children, gen,   \* the fields of BudgetEntry
    budgetFree,   \* Interpreter::budget_free, the stack of reaped slots
    cur,          \* CUR_BUDGET, the entered-budget register
    tag,          \* CUR_BUDGET_TAG, the stamp a fresh tensor inherits
    guards,       \* the BudgetGuards on the Rust stack, innermost last
    vaultUsed,    \* Interpreter::vault_used
    tensors,      \* the tensors the program still names
    status,       \* "running", or the runtime error that ended the program
    minted,       \* history: the descriptor every carve returned
    tenant,       \* history: the budget that last took each slot
    reaped,       \* history: the budgets reaped
    reserved      \* history: bytes carved out of each slot's budget and not credited

meters == <<parent, extent, used, free, children, reserved>>
table == <<size, meters, gen, budgetFree, minted, tenant, reaped>>
register == <<cur, tag, guards>>
vars == <<table, register, vaultUsed, tensors, status>>

Slots == 0..(MaxSlots - 1)

\* OriginTag::None, the stamp of everything that can never go stale.
RootTag == [slot |-> 0, gen |-> 0]

-------------------------------------------------------------------------------
(* Descriptors.  A program keeps every handle it was ever given.            *)

Handles == 0..Len(minted)

\* The descriptor the program holds of the h-th budget carved; 0 is forge.root.
Descriptor(h) == IF h = 0 THEN RootTag ELSE minted[h]

\* The staleness test of carve, reap, enter and `in`.
Current(d) == d.slot < size /\ d.gen = gen[d.slot]

\* tensor_is_stale: the stamp shares the generation cell of its slot.
Stale(t) == t.tag.gen # gen[t.tag.slot]

Raise(error) ==
    /\ status' = error
    /\ UNCHANGED <<table, register, vaultUsed, tensors>>

-------------------------------------------------------------------------------

\* Interpreter::new followed by set_arena_limits.
Init ==
    /\ size = 1
    /\ parent = [s \in Slots |-> 0]
    /\ extent = [s \in Slots |-> IF s = 0 THEN Limit ELSE 0]
    /\ free = extent
    /\ used = [s \in Slots |-> 0]
    /\ children = [s \in Slots |-> 0]
    /\ gen = [s \in Slots |-> 0]
    /\ budgetFree = <<>>
    /\ cur = 0
    /\ tag = RootTag
    /\ guards = <<>>
    /\ vaultUsed = 0
    /\ tensors = {}
    /\ status = "running"
    /\ minted = <<>>
    /\ tenant = [s \in Slots |-> 0]
    /\ reaped = {}
    /\ reserved = [s \in Slots |-> 0]

-------------------------------------------------------------------------------
(* forge.carve and forge.reap                                               *)

\* bytes <= free(parent), and nothing to compare for an unbounded root.
Fits(s, n) == free[s] # Unbounded => n <= free[s]

Minus(f, n) == IF f = Unbounded THEN f ELSE f - n
Plus(f, n) == IF f = Unbounded THEN f ELSE f + n

\* The slot a carve takes: the one reaped last, else a new one.
CarveSlot == IF budgetFree = <<>> THEN size ELSE Last(budgetFree)

\* p gives n bytes to a new budget in slot s.
Grant(p, s, n) ==
    /\ parent' = [parent EXCEPT ![s] = p]
    /\ extent' = [extent EXCEPT ![s] = n]
    /\ used' = [used EXCEPT ![s] = 0]
    /\ free' = [free EXCEPT ![p] = Minus(@, n), ![s] = n]
    /\ children' = [children EXCEPT ![p] = @ + 1, ![s] = 0]
    /\ reserved' = [reserved EXCEPT ![p] = @ + n, ![s] = 0]

\* Slip: what the child spent is not returned.
CreditUnspent(s) ==
    LET p == parent[s] IN
    /\ free' = [free EXCEPT ![p] = Plus(@, free[s])]
    /\ children' = [children EXCEPT ![p] = @ - 1]
    /\ reserved' = [reserved EXCEPT ![p] = @ - extent[s]]
    /\ UNCHANGED <<parent, extent, used>>

\* The whole extent of the budget in slot s returns to the slot that gave it.
Credit(s) ==
    LET p == parent[s] IN
    /\ free' = [free EXCEPT ![p] = Plus(@, extent[s])]
    /\ children' = [children EXCEPT ![p] = @ - 1]
    /\ reserved' = [reserved EXCEPT ![p] = @ - extent[s]]
    /\ UNCHANGED <<parent, extent, used>>

\* Slip: a reap that frees the slot and forgets the generation.
SameGeneration(g) == g

NextGeneration(g) == (g + 1) % GenMod

Carve(h, n) ==
    LET d == Descriptor(h) IN
    /\ status = "running"
    /\ Len(minted) < MaxCarves
    /\ Current(d) /\ n >= 0 /\ Fits(d.slot, n)
    /\ CarveSlot \in Slots
    /\ Grant(d.slot, CarveSlot, n)
    /\ minted' = Append(minted, [slot |-> CarveSlot, gen |-> gen[CarveSlot]])
    /\ tenant' = [tenant EXCEPT ![CarveSlot] = Len(minted) + 1]
    /\ IF budgetFree = <<>>
       THEN size' = size + 1 /\ UNCHANGED budgetFree
       ELSE budgetFree' = Front(budgetFree) /\ UNCHANGED size
    /\ UNCHANGED <<gen, reaped, register, vaultUsed, tensors, status>>

CarveRefused(h, n) ==
    LET d == Descriptor(h) IN
    /\ status = "running"
    /\ \/ ~Current(d) /\ Raise("budget-stale")
       \/ Current(d) /\ n < 0 /\ Raise("negative")
       \/ Current(d) /\ n >= 0 /\ ~Fits(d.slot, n) /\ Raise("budget-carve")

\* The table is full: the parent has already been debited when the error is
\* raised, and stays so.
CarveTableFull(h, n) ==
    LET d == Descriptor(h) IN
    /\ status = "running"
    /\ Current(d) /\ n >= 0 /\ Fits(d.slot, n)
    /\ CarveSlot \notin Slots
    /\ free' = [free EXCEPT ![d.slot] = Minus(@, n)]
    /\ children' = [children EXCEPT ![d.slot] = @ + 1]
    /\ status' = "table-full"
    /\ UNCHANGED <<size, parent, extent, used, reserved, gen, budgetFree, minted,
                   tenant, reaped, register, vaultUsed, tensors>>

\* Slips: no look at the live children; forge.root reaped like any other.
ReapableWithChildren(d) == Current(d) /\ d.slot # 0
ReapableRoot(d) == Current(d) /\ children[d.slot] = 0

Reapable(d) == Current(d) /\ d.slot # 0 /\ children[d.slot] = 0

Reap(h) ==
    LET d == Descriptor(h) IN
    /\ status = "running"
    /\ Cardinality(reaped) < MaxReaps
    /\ Reapable(d)
    /\ Credit(d.slot)
    /\ gen' = [gen EXCEPT ![d.slot] = NextGeneration(@)]
    /\ budgetFree' = Append(budgetFree, d.slot)
    /\ reaped' = reaped \cup {tenant[d.slot]}
    /\ UNCHANGED <<size, minted, tenant, register, vaultUsed, tensors, status>>

ReapRefused(h) ==
    LET d == Descriptor(h) IN
    /\ status = "running"
    /\ \/ ~Current(d) /\ Raise("budget-stale")
       \/ Current(d) /\ ~Reapable(d) /\ Raise("budget-reap")

-------------------------------------------------------------------------------
(* forge.enter(b) { ... }; `<ctor> in b` is the same guard held across one  *)
(* constructor, that is Enter, one allocation and Leave.                    *)

\* budget_stamp: the tag a tensor constructed under slot s inherits.
Stamp(s) == IF s = 0 THEN RootTag ELSE [slot |-> s, gen |-> gen[s]]

Enter(h) ==
    LET d == Descriptor(h) IN
    /\ status = "running"
    /\ Len(guards) < MaxDepth
    /\ Current(d)
    /\ guards' = Append(guards, [index |-> cur, tag |-> tag, budget |-> tenant[d.slot]])
    /\ cur' = d.slot
    /\ tag' = Stamp(d.slot)
    /\ UNCHANGED <<table, vaultUsed, tensors, status>>

EnterRefused(h) ==
    /\ status = "running"
    /\ ~Current(Descriptor(h))
    /\ Raise("budget-stale")

\* Slips: the root restored and not the outer budget; a restore line placed
\* after the body, which an error raised in the body never reaches.
LeaveToRoot ==
    /\ guards # <<>>
    /\ cur' = 0 /\ tag' = RootTag
    /\ guards' = Front(guards)
    /\ UNCHANGED <<table, vaultUsed, tensors, status>>

LeaveUnlessError ==
    /\ guards # <<>>
    /\ IF status = "running"
       THEN cur' = Last(guards).index /\ tag' = Last(guards).tag
       ELSE UNCHANGED <<cur, tag>>
    /\ guards' = Front(guards)
    /\ UNCHANGED <<table, vaultUsed, tensors, status>>

\* BudgetGuard::drop, on every exit edge: the end of the block, return, break,
\* continue, `?`, and the unwinding of a runtime error.
Leave ==
    /\ guards # <<>>
    /\ cur' = Last(guards).index
    /\ tag' = Last(guards).tag
    /\ guards' = Front(guards)
    /\ UNCHANGED <<table, vaultUsed, tensors, status>>

-------------------------------------------------------------------------------
(* Allocation.  Every materialized value is charged to the entered budget   *)
(* (PRE-A); a tensor is also stamped with it.                               *)

\* charge_budget: slot s, whatever budget lives there now, pays for n bytes.
ChargeBudget(s, n) ==
    /\ Fits(s, n)
    /\ s = 0 /\ free[s] = Unbounded => used[s] + n <= MaxUsed
    /\ free' = [free EXCEPT ![s] = Minus(@, n)]
    /\ used' = [used EXCEPT ![s] = @ + n]
    /\ UNCHANGED <<parent, extent, children, reserved, size, gen, budgetFree,
                   minted, tenant, reaped>>

\* A tensor bound to a name, with the stamp it is given and the budget that paid.
Bind(stamp) ==
    tensors' = tensors \cup {[tag |-> stamp, paid |-> tenant[cur], late |-> ~Current(tag)]}

\* A constructor or a computed intermediate.  Its value passes through
\* eval_expr, which refuses it when the budget entered was reaped meanwhile.
AllocTensor(n) ==
    /\ status = "running"
    /\ ChargeBudget(cur, n)
    /\ IF Current(tag)
       THEN Bind(tag) /\ UNCHANGED status
       ELSE status' = "budget-stale" /\ UNCHANGED tensors
    /\ UNCHANGED <<register, vaultUsed>>

\* Slip: the copy keeps the stamp of its source, as derive(Clone) would.
CopyTensorWithTag(t, n) ==
    /\ status = "running"
    /\ ~Stale(t)
    /\ ChargeBudget(cur, n)
    /\ Bind(t.tag)
    /\ UNCHANGED <<register, vaultUsed, status>>

\* `let !y = x` and a `!` parameter: eval_expr looks at x, then the private copy
\* is charged where it is made, re-stamped and bound, with no look at the stamp
\* it was given.
CopyTensor(t, n) ==
    /\ status = "running"
    /\ ~Stale(t)
    /\ ChargeBudget(cur, n)
    /\ Bind(tag)
    /\ UNCHANGED <<register, vaultUsed, status>>

\* A string has no stamp: nothing tells that its budget is gone.
AllocString(n) ==
    /\ status = "running"
    /\ ChargeBudget(cur, n)
    /\ UNCHANGED <<register, vaultUsed, tensors, status>>

Exhausted(n) ==
    /\ status = "running"
    /\ ~Fits(cur, n)
    /\ Raise("exhausted")

\* vault.<ctor>[...] inside an extent: the flat Vault meter pays and, under
\* VaultTagGuard, the tensor is stamped as one of the root.
AllocVault(n) ==
    /\ status = "running"
    /\ VaultLimit = Unbounded => vaultUsed + n <= MaxUsed
    /\ IF VaultLimit = Unbounded \/ vaultUsed + n <= VaultLimit
       THEN /\ vaultUsed' = vaultUsed + n
            /\ tensors' = tensors \cup {[tag |-> RootTag, paid |-> 0, late |-> FALSE]}
            /\ UNCHANGED <<table, register, status>>
       ELSE Raise("exhausted")

\* Any expression whose value is a tensor of a reaped budget.
ReadStale(t) == status = "running" /\ Stale(t) /\ Raise("budget-stale")

-------------------------------------------------------------------------------

Next ==
    \/ \E h \in Handles, n \in Requests :
          Carve(h, n) \/ CarveRefused(h, n) \/ CarveTableFull(h, n)
    \/ \E h \in Handles : Reap(h) \/ ReapRefused(h) \/ Enter(h) \/ EnterRefused(h)
    \/ Leave
    \/ \E n \in Sizes : AllocTensor(n) \/ AllocString(n) \/ AllocVault(n) \/ Exhausted(n)
    \/ \E t \in tensors : ReadStale(t) \/ \E n \in Sizes : CopyTensor(t, n)

Spec == Init /\ [][Next]_vars

\* Drop glue is not the program's to skip: a guard whose block is left is
\* dropped.  Nothing else is promised, a program may stop anywhere.
FairSpec == Spec /\ WF_vars(status # "running" /\ Leave)

-------------------------------------------------------------------------------
(* Properties.                                                              *)

Freed == ToSet(budgetFree)
LiveSlots == (0..(size - 1)) \ Freed

Tags == [slot : 0..(size - 1), gen : 0..(GenMod - 1)]

\* The table is what its fields are declared to be: indices below the length
\* of the Vec, a u32 generation, and a register that indexes an entry.
TableTypeOK ==
    /\ size \in 1..MaxSlots
    /\ parent \in [Slots -> Slots]
    /\ extent \in [Slots -> Nat \cup {Unbounded}]
    /\ used \in [Slots -> Nat]
    /\ free \in [Slots -> Nat \cup {Unbounded}]
    /\ children \in [Slots -> Int]
    /\ reserved \in [Slots -> Int]
    /\ gen \in [Slots -> 0..(GenMod - 1)]
    /\ tenant \in [Slots -> Handles]

TypeOK ==
    /\ TableTypeOK
    /\ budgetFree \in Seq(1..(size - 1))
    /\ minted \in Seq({d \in Tags : d.slot # 0})
    /\ reaped \subseteq 1..Len(minted)
    /\ cur \in 0..(size - 1)
    /\ tag \in Tags
    /\ guards \in Seq([index : 0..(size - 1), tag : Tags, budget : Handles])
    /\ vaultUsed \in Nat
    /\ tensors \subseteq [tag : Tags, paid : Handles, late : BOOLEAN]
    /\ status \in {"running", "budget-stale", "negative", "budget-carve",
                   "budget-reap", "table-full", "exhausted"}

\* A handle is refused exactly when the budget it was returned for has been
\* reaped, however often its slot was reused since (open_budget, budget_carve,
\* budget_reap: index bound and generation compare).  Rests on the generation
\* not having wrapped, NoWrap below.
StaleExact == \A h \in Handles : Current(Descriptor(h)) <=> h \notin reaped

\* No slot sees as many reaps as a u32 can count.
NoWrap == MaxReaps < GenMod

\* A tensor becomes unreadable exactly when the budget that PAID for it is
\* reaped: the register the meter reads and the stamp the constructor reads
\* never name different budgets, through nesting, vault constructors, private
\* copies and the unwinding of errors (charge_budget against TensorVal::new).
\* The exception is a private copy made inside an extent after its budget was
\* reaped (restamp_current_budget): it is stamped with the dead budget and so
\* never readable, though whoever holds the slot by then, perhaps a live budget,
\* has paid.  No tensor is ever readable after its payer was reaped.
StampMatchesCharge ==
    \A t \in tensors : IF t.late THEN Stale(t) ELSE Stale(t) <=> t.paid \in reaped

\* (LOC): in every live bounded budget, what is free, what was charged to it
\* and what it carved out for others add up to its extent, so neither an
\* allocation nor a carve can spend a byte twice.  The one exception is the
\* program already ended by a full table, whose parent was debited for nothing.
Loc ==
    status # "table-full" =>
        \A s \in LiveSlots :
            extent[s] # Unbounded => free[s] + used[s] + reserved[s] = extent[s]

\* The register follows the guards: with none open it names the root, and it
\* names the budget the innermost guard was opened on for as long as that
\* budget is not reaped, whatever was entered and left in between
\* (BudgetGuard::drop restores the outer budget, not the root).
RegisterFollowsGuards ==
    IF guards = <<>>
    THEN cur = 0 /\ tag = RootTag
    ELSE LET b == Last(guards).budget IN
         b \notin reaped => tenant[cur] = b /\ tag = Stamp(cur)

\* A runtime error raised under any nesting of enter leaves the register at
\* the root once the Rust stack has unwound.
ErrorRestoresRegister == status # "running" ~> (cur = 0 /\ tag = RootTag)

LiveBudgets == Handles \ reaped
SlotOf(b) == Descriptor(b).slot

Tree == INSTANCE BudgetTree WITH
    born <- Len(minted),
    live <- LiveBudgets,
    parent <- [b \in LiveBudgets |-> tenant[parent[SlotOf(b)]]],
    extent <- [b \in LiveBudgets |-> extent[SlotOf(b)]],
    used <- [b \in LiveBudgets |-> used[SlotOf(b)]],
    Amounts <- Sizes \cup (Requests \cap Nat)

\* The table of reused slots behaves as a tree of budgets that are never
\* reused: every carve, reap and charge the interpreter lets through is one
\* the tree allows, on the budget the handle was returned for.
ImplementsTree == Tree!TreeSpec
===============================================================================
