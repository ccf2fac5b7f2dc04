--------------------------- MODULE JitBudgets_proofs ---------------------------
(***************************************************************************)
(* Theorems about JitBudgets, for every limit, every set of request and    *)
(* value sizes and every length of the table: the types; stale handles are *)
(* refused exactly; the register follows the extents on every edge that    *)
(* leaves one; a @grad call ends under the budget it began under; the      *)
(* books of every live budget balance, or are short in the forge's favour; *)
(* --forge is one ceiling; and the table implements BudgetTree.            *)
(*                                                                         *)
(* TypeInv is inductive on its own: that the counts of an entry stay       *)
(* unsigned rests on what they count, the live children of the entry and   *)
(* the bytes carved out for them, as sums over the slots (FamilyOK).  The  *)
(* other invariants are inductive relative to it: HandleInv ties handles   *)
(* to generations, RegisterInv extents and windows to each other, BooksInv *)
(* is the balance, CeilingInv the total of the extents, Tenancy the budget *)
(* that holds each live slot.                                              *)
(***************************************************************************)
EXTENDS JitBudgets, StacksAndSums, FiniteSetTheorems

(* Sums over the slots.                                                     *)

TotalOf(w, t) == SumOf(w, Slots) = t

LEMMA Bounds ==
    /\ MaxSlots \in Nat \ {0} /\ 0 \in Slots
    /\ \A i \in Slots : i \in Nat
    /\ IsFiniteSet(Slots)
BY JitAssumption, FS_Interval DEF Slots

\* Nothing adds up to nothing.
LEMMA TotalOfNone == TotalOf([s \in Slots |-> 0], 0)
<1> DEFINE w == [s \in Slots |-> 0]
<1>1. {} \in SUBSET Slots /\ \A s \in Slots : w[s] \in Int /\ w[s] = 0
  OBVIOUS
<1> HIDE DEF w
<1>2. SumOf(w, Slots) = SumOf(w, {})
  BY <1>1, Bounds, SumOfSupport
<1> QED BY <1>2, SumEmpty DEF TotalOf, w

\* No term exceeds the sum, and the sum of zeros is zero.
LEMMA TotalCovers ==
    ASSUME NEW w \in [Slots -> Nat], NEW t, TotalOf(w, t)
    PROVE  /\ t \in Nat
           /\ \A s \in Slots : w[s] <= t
           /\ (\A s \in Slots : w[s] = 0) => t = 0
<1>1. t \in Nat /\ \A s \in Slots : w[s] <= t
  BY Bounds, SumOfNats DEF TotalOf
<1>2. ASSUME \A s \in Slots : w[s] = 0
      PROVE  t = 0
  <2>1. {} \in SUBSET Slots /\ \A s \in Slots : w[s] \in Int
    OBVIOUS
  <2>2. SumOf(w, Slots) = SumOf(w, {})
    BY <1>2, <2>1, Bounds, SumOfSupport
  <2> QED BY <2>2, SumEmpty DEF TotalOf
<1> QED BY <1>1, <1>2

\* One term changed from a to b.
LEMMA TotalChanged ==
    ASSUME NEW v \in [Slots -> Nat], NEW w \in [Slots -> Nat], NEW t, TotalOf(v, t), NEW s \in Slots,
           \A k \in Slots : k # s => w[k] = v[k]
    PROVE  TotalOf(w, t - v[s] + w[s])
<1>1. /\ \A k \in Slots : v[k] \in Int /\ w[k] \in Int
      /\ \A k \in Slots \ {s} : w[k] = v[k]
  OBVIOUS
<1> QED BY <1>1, Bounds, SumUpdate DEF TotalOf

-------------------------------------------------------------------------------
(* The inductive invariant.                                                 *)

TableOK ==
    /\ size \in 1..MaxSlots
    /\ parent \in [Slots -> Slots]
    /\ extent \in [Slots -> Nat] /\ used \in [Slots -> Nat] /\ free \in [Slots -> Nat]
    /\ metered \in [Slots -> Nat] /\ reserved \in [Slots -> Nat] /\ children \in [Slots -> Nat]
    /\ gen \in [Slots -> 0..(GenMod - 1)]
    /\ live \in [Slots -> BOOLEAN] /\ live[0]

StackOK ==
    /\ budgetFree \in Seq(1..(size - 1)) /\ NoDuplicates(budgetFree)
    /\ \A x : x \in ToSet(budgetFree) <=> x \in 0..(size - 1) /\ ~live[x]

HandlesOK ==
    /\ minted \in Seq([slot : 1..(size - 1), gen : 0..(GenMod - 1)])
    /\ tenant \in [Slots -> Handles]
    /\ reaped \subseteq 1..Len(minted)

ControlOK ==
    /\ cur \in 0..(size - 1)
    /\ extents \in Seq([prev : 0..(size - 1), slot : 0..(size - 1)])
    /\ frames \in Seq([kind : {"fn", "loop"}, depth : Nat])
    /\ windows \in Seq([kind : {"forward", "pass"}, slot : 0..(size - 1), mark : Nat, level : Nat])
    /\ exhausted \in BOOLEAN

\* s is a live budget carved out of p, and what p's counts owe to it.
HeirOf(s, p) == s # 0 /\ live[s] /\ parent[s] = p
Heirs(p) == [s \in Slots |-> IF HeirOf(s, p) THEN 1 ELSE 0]
Shares(p) == [s \in Slots |-> IF HeirOf(s, p) THEN extent[s] ELSE 0]

\* Live budgets lie in the table and hang from live ones; every entry counts its
\* children and the bytes carved out for them.
FamilyOK ==
    /\ \A s \in Slots : live[s] => s \in 0..(size - 1)
    /\ \A s \in 1..(size - 1) : tenant[s] # 0
    /\ \A s \in Slots : s # 0 /\ live[s] => live[parent[s]] /\ parent[s] # s
    /\ \A p \in Slots : TotalOf(Heirs(p), children[p]) /\ TotalOf(Shares(p), reserved[p])

\* Every frame has a call around it, the program's own if no other, and was
\* opened under no more extents than those inside it, or than are open now.
FramesOK ==
    /\ Len(frames) >= 1 /\ frames[1].kind = "fn"
    /\ \A i \in 1..Len(frames) :
          \E k \in 1..i : frames[k].kind = "fn" /\ \A j \in (k + 1)..i : frames[j].kind = "loop"
    /\ \A i \in 1..Len(frames) : frames[i].depth <= Len(extents)
    /\ \A i, j \in 1..Len(frames) : i <= j => frames[i].depth <= frames[j].depth

TypeInv == TableOK /\ StackOK /\ HandlesOK /\ ControlOK /\ FamilyOK /\ FramesOK

\* The strengthened invariant gives the type invariant.
LEMMA TypeInvOK == TypeInv => TypeOK
<1> SUFFICES ASSUME TypeInv
             PROVE  TypeOK
  OBVIOUS
<1>1. IsInjective(budgetFree)
  BY LenProperties DEF TypeInv, StackOK, NoDuplicates, IsInjective
<1>2. ToSet(budgetFree) = {s \in 0..(size - 1) : ~live[s]}
  BY DEF TypeInv, StackOK
<1> QED BY <1>1, <1>2 DEF TypeInv, TypeOK, TableOK, StackOK, HandlesOK, ControlOK

LEMMA Ranges ==
    ASSUME NEW a \in Nat, NEW b \in Nat, a <= b
    PROVE  0..(a - 1) \subseteq 0..(b - 1) /\ 1..(a - 1) \subseteq 1..(b - 1)
OBVIOUS

LEMMA SlotsBelow ==
    ASSUME TableOK
    PROVE  /\ size \in Nat \ {0} /\ size <= MaxSlots
           /\ \A s \in 0..(size - 1) : s \in Slots
           /\ \A s \in 1..(size - 1) : s \in 0..(size - 1) /\ s \in Slots /\ s # 0
           /\ 0 \in 0..(size - 1)
<1>1. size \in 1..MaxSlots /\ MaxSlots \in Nat \ {0}
  BY JitAssumption DEF TableOK
<1> QED BY <1>1 DEF Slots

LEMMA DescriptorType ==
    ASSUME TypeInv, NEW h \in Handles
    PROVE  /\ Descriptor(h).slot \in 0..(size - 1) /\ Descriptor(h).slot \in Slots
           /\ Descriptor(h).gen \in 0..(GenMod - 1)
           /\ h # 0 => h \in 1..Len(minted) /\ Descriptor(h).slot \in 1..(size - 1)
           /\ Len(minted) \in Nat
<1>1. TableOK /\ minted \in Seq([slot : 1..(size - 1), gen : 0..(GenMod - 1)]) /\ Len(minted) \in Nat
  BY LenProperties DEF TypeInv, HandlesOK
<1>2. CASE h = 0
  BY <1>1, <1>2, SlotsBelow, JitAssumption DEF Descriptor, RootHandle
<1>3. CASE h # 0
  <2>1. h \in 1..Len(minted) /\ Descriptor(h) = minted[h]
    BY <1>1, <1>3 DEF Handles, Descriptor
  <2>2. minted[h] \in [slot : 1..(size - 1), gen : 0..(GenMod - 1)]
    BY <1>1, <2>1, ElementOfSeq
  <2> QED BY <1>1, <2>1, <2>2, SlotsBelow
<1> QED BY <1>2, <1>3

\* The state an empty table starts in, at the beginning and at every test.
Fresh ==
    /\ size = 1 /\ live = RootAlone(TRUE, FALSE) /\ gen = Zero
    /\ parent = Zero /\ extent = RootAlone(Limit, 0) /\ free = extent
    /\ used = Zero /\ metered = Zero /\ children = Zero
    /\ budgetFree = <<>> /\ cur = 0
    /\ minted = <<>> /\ tenant = Zero /\ reaped = {} /\ reserved = Zero
    /\ extents = <<>> /\ windows = <<>> /\ exhausted = FALSE /\ frames = <<Main>>

\* The table of a test that starts is well typed.
LEMMA FreshTypeInv == Fresh => TypeInv
<1> SUFFICES ASSUME Fresh
             PROVE  TypeInv
  OBVIOUS
<1>1. 0 \in Slots /\ MaxSlots \in Nat \ {0} /\ 0 \in 0..(GenMod - 1) /\ Limit \in Nat
  BY Bounds, JitAssumption
<1>2. TableOK
  BY <1>1 DEF Fresh, TableOK, RootAlone, Zero
<1>3. StackOK
  <2>1. budgetFree = <<>> /\ Len(budgetFree) = 0 /\ budgetFree \in Seq(1..(size - 1))
    BY EmptySeq DEF Fresh
  <2>2. \A x : x \notin ToSet(budgetFree)
    <3>1. \A x : x \in ToSet(budgetFree) <=> \E i \in 1..Len(budgetFree) : budgetFree[i] = x
      <4>1. budgetFree \in Seq(1..(size - 1))
        BY <2>1
      <4> QED BY <4>1, InStack
    <3>2. ~\E i \in 1..Len(budgetFree) : TRUE
      BY <2>1
    <3> QED BY <3>1, <3>2
  <2>3. \A x : x \in 0..(size - 1) => live[x]
    BY <1>1 DEF Fresh, RootAlone
  <2> QED BY <2>1, <2>2, <2>3 DEF StackOK, NoDuplicates
<1>4. HandlesOK
  BY <1>1, EmptySeq DEF Fresh, HandlesOK, Handles, Zero
<1>5. ControlOK
  <2>1. Main \in [kind : {"fn", "loop"}, depth : Nat]
    BY DEF Main
  <2>2. frames \in Seq([kind : {"fn", "loop"}, depth : Nat])
    BY <2>1 DEF Fresh
  <2>3. extents = <<>> /\ windows = <<>> /\ exhausted = FALSE /\ cur = 0 /\ size = 1
    BY DEF Fresh
  <2>4. /\ extents \in Seq([prev : 0..(size - 1), slot : 0..(size - 1)])
        /\ windows \in Seq([kind : {"forward", "pass"}, slot : 0..(size - 1), mark : Nat, level : Nat])
    BY <2>3, EmptySeq
  <2>5. cur \in 0..(size - 1)
    BY <2>3
  <2>6. exhausted \in BOOLEAN
    BY <2>3, Zenon
  <2> QED BY <2>2, <2>4, <2>5, <2>6 DEF ControlOK
<1>6. FamilyOK
  <2>1. \A s \in Slots : live[s] => s = 0
    BY DEF Fresh, RootAlone
  <2>2. ASSUME NEW p \in Slots
        PROVE  TotalOf(Heirs(p), children[p]) /\ TotalOf(Shares(p), reserved[p])
    <3>1. Heirs(p) = [s \in Slots |-> 0] /\ Shares(p) = [s \in Slots |-> 0]
      BY <2>1 DEF Heirs, Shares, HeirOf
    <3>2. children[p] = 0 /\ reserved[p] = 0
      BY DEF Fresh, Zero
    <3> QED BY <3>1, <3>2, TotalOfNone
  <2>3. \A s \in 1..(size - 1) : FALSE
    BY DEF Fresh
  <2>4. 0 \in 0..(size - 1)
    BY DEF Fresh
  <2> QED BY <2>1, <2>2, <2>3, <2>4 DEF FamilyOK
<1>7. FramesOK
  <2>1. frames = <<Main>> /\ extents = <<>>
    BY DEF Fresh
  <2>2. Len(frames) = 1 /\ frames[1] = Main /\ Len(extents) = 0 /\ Main.kind = "fn" /\ Main.depth = 0
    BY <2>1 DEF Main
  <2>3. \A i \in 1..Len(frames) : i = 1
    BY <2>2
  <2>4. \A i \in 1..Len(frames) :
           \E k \in 1..i : frames[k].kind = "fn" /\ \A j \in (k + 1)..i : frames[j].kind = "loop"
    <3>1. 1 \in 1..1 /\ \A j \in (1 + 1)..1 : FALSE
      OBVIOUS
    <3> QED BY <2>2, <2>3, <3>1
  <2>5. /\ \A i \in 1..Len(frames) : frames[i].depth <= Len(extents)
        /\ \A i, j \in 1..Len(frames) : i <= j => frames[i].depth <= frames[j].depth
    BY <2>2, <2>3
  <2> QED BY <2>2, <2>4, <2>5 DEF FramesOK
<1> QED BY <1>2, <1>3, <1>4, <1>5, <1>6, <1>7 DEF TypeInv

LEMMA InitTypeInv == Init => TypeInv
<1>1. Init => Fresh
  BY DEF Init, Fresh
<1> QED BY <1>1, FreshTypeInv

\* The reset between two tests establishes the invariant anew.
LEMMA NextTestTypeInv == NextTest => TypeInv'
<1>1. NextTest => Fresh'
  BY DEF NextTest, ClearTable, Fresh, Inside
<1> QED BY <1>1, FreshTypeInv, PTL

-------------------------------------------------------------------------------
(* A carve.                                                                 *)

\* A carve of m units out of slot p into slot c.
CarveStep(p, c, m) ==
    /\ p \in 0..(size - 1) /\ live[p] /\ m <= free[p]
    /\ c \in 1..(size' - 1) /\ c # 0 /\ c # p /\ ~live[c]
    /\ size' \in 1..MaxSlots /\ size' \in Nat /\ size \in Nat /\ size <= size'
    /\ \A r \in 0..(size' - 1) : r \in 0..(size - 1) \/ r = c
    /\ \A r \in 1..(size' - 1) : r \in 1..(size - 1) \/ r = c
    /\ budgetFree' \in Seq(1..(size - 1)) /\ NoDuplicates(budgetFree')
    /\ \A x : x \in ToSet(budgetFree') <=> x \in ToSet(budgetFree) /\ x # c
    /\ parent' = [parent EXCEPT ![c] = p]
    /\ extent' = [extent EXCEPT ![c] = m]
    /\ used' = [used EXCEPT ![c] = 0]
    /\ metered' = [metered EXCEPT ![c] = 0]
    /\ free' = [free EXCEPT ![p] = @ - m, ![c] = m]
    /\ children' = [children EXCEPT ![p] = @ + 1, ![c] = 0]
    /\ reserved' = [reserved EXCEPT ![p] = @ + m, ![c] = 0]
    /\ live' = [live EXCEPT ![c] = TRUE]
    /\ minted' = Append(minted, [slot |-> c, gen |-> gen[c]])
    /\ tenant' = [tenant EXCEPT ![c] = Len(minted) + 1]
    /\ UNCHANGED <<gen, reaped, cur, extents, frames, windows, status, records, exhausted>>

\* What one carve does, on a new slot or a reused one.
LEMMA CarveShape ==
    ASSUME TypeInv, NEW h \in Handles, NEW n \in Requests, Carve(h, n)
    PROVE  \E p \in Slots, c \in Slots, m \in Nat :
               /\ p = Descriptor(h).slot /\ c = CarveSlot /\ CarveStep(p, c, m)
<1>1. /\ TableOK /\ budgetFree \in Seq(1..(size - 1)) /\ NoDuplicates(budgetFree)
      /\ \A x : x \in ToSet(budgetFree) <=> x \in 0..(size - 1) /\ ~live[x]
      /\ size \in Nat \ {0} /\ size <= MaxSlots /\ MaxSlots \in Nat
  BY SlotsBelow, JitAssumption DEF TypeInv, StackOK
<1>2. PICK p \in Slots, c \in Slots, m \in Nat :
          p = Descriptor(h).slot /\ c = CarveSlot /\ m = Need(n)
  BY DescriptorType, JitAssumption DEF Carve, Need
<1>3. /\ p \in 0..(size - 1) /\ live[p] /\ m <= free[p]
      /\ parent' = [parent EXCEPT ![c] = p]
      /\ extent' = [extent EXCEPT ![c] = m]
      /\ used' = [used EXCEPT ![c] = 0]
      /\ metered' = [metered EXCEPT ![c] = 0]
      /\ free' = [free EXCEPT ![p] = @ - m, ![c] = m]
      /\ children' = [children EXCEPT ![p] = @ + 1, ![c] = 0]
      /\ reserved' = [reserved EXCEPT ![p] = @ + m, ![c] = 0]
      /\ live' = [live EXCEPT ![c] = TRUE]
      /\ minted' = Append(minted, [slot |-> c, gen |-> gen[c]])
      /\ tenant' = [tenant EXCEPT ![c] = Len(minted) + 1]
      /\ UNCHANGED <<gen, reaped, cur, extents, frames, windows, status, records, exhausted>>
  BY <1>2, DescriptorType DEF Carve, Resolves, CarveFits, control, policy
<1>4. /\ c \in 1..(size' - 1) /\ c # 0 /\ c # p /\ ~live[c]
      /\ size' \in 1..MaxSlots /\ size' \in Nat /\ size <= size'
      /\ \A r \in 0..(size' - 1) : r \in 0..(size - 1) \/ r = c
      /\ \A r \in 1..(size' - 1) : r \in 1..(size - 1) \/ r = c
      /\ budgetFree' \in Seq(1..(size - 1)) /\ NoDuplicates(budgetFree')
      /\ \A x : x \in ToSet(budgetFree') <=> x \in ToSet(budgetFree) /\ x # c
  <2>1. CASE budgetFree = <<>>
    <3>1. c = size /\ size' = size + 1 /\ budgetFree' = budgetFree
      BY <1>2, <2>1 DEF Carve, CarveSlot
    <3>2. ~live[c] /\ \A x : x \in ToSet(budgetFree) => x # c
      BY <1>1, <3>1 DEF TypeInv, FamilyOK
    <3>3. size' \in 1..MaxSlots
      BY <1>1, <3>1 DEF Slots
    <3>4. /\ c \in 1..(size' - 1) /\ c # 0 /\ c # p /\ size <= size' /\ size' \in Nat
          /\ \A r \in 0..(size' - 1) : r \in 0..(size - 1) \/ r = c
          /\ \A r \in 1..(size' - 1) : r \in 1..(size - 1) \/ r = c
      BY <1>1, <1>3, <3>1
    <3> QED BY <1>1, <3>1, <3>2, <3>3, <3>4
  <2>2. CASE budgetFree # <<>>
    <3>1. c = Last(budgetFree) /\ size' = size /\ budgetFree' = Front(budgetFree)
      BY <1>2, <2>2 DEF Carve, CarveSlot
    <3>2. /\ c \in 1..(size - 1) /\ budgetFree' \in Seq(1..(size - 1))
          /\ Len(budgetFree) \in Nat \ {0} /\ c = budgetFree[Len(budgetFree)]
          /\ Len(budgetFree') = Len(budgetFree) - 1
          /\ \A i \in 1..(Len(budgetFree) - 1) : budgetFree'[i] = budgetFree[i]
      BY <1>1, <2>2, <3>1, StackPop
    <3>3. /\ NoDuplicates(budgetFree') /\ c \in ToSet(budgetFree) /\ c \notin ToSet(budgetFree')
          /\ ToSet(budgetFree') \subseteq ToSet(budgetFree)
      BY <1>1, <2>2, <3>1, PopNoDuplicates
    <3>4. \A x : x \in ToSet(budgetFree) /\ x # c => x \in ToSet(budgetFree')
      <4>1. /\ \A x : x \in ToSet(budgetFree) <=> \E i \in 1..Len(budgetFree) : budgetFree[i] = x
            /\ \A x : x \in ToSet(budgetFree') <=> \E i \in 1..Len(budgetFree') : budgetFree'[i] = x
        BY <1>1, <3>2, InStack
      <4> QED BY <3>2, <4>1
    <3>5. ~live[c] /\ c # p
      BY <1>1, <1>3, <3>3
    <3>6. c \in 1..(size' - 1) /\ c # 0 /\ size <= size' /\ size' \in 1..MaxSlots /\ size' \in Nat
      BY <1>1, <3>1, <3>2
    <3> QED BY <3>1, <3>2, <3>3, <3>4, <3>5, <3>6
  <2> QED BY <2>1, <2>2
<1>5. CarveStep(p, c, m)
  BY <1>1, <1>3, <1>4 DEF CarveStep
<1> QED BY <1>2, <1>5

\* What a carve writes, slot by slot.
CarveWritten(p, c, m) ==
    \A r \in Slots :
        /\ parent'[r] = IF r = c THEN p ELSE parent[r]
        /\ extent'[r] = IF r = c THEN m ELSE extent[r]
        /\ used'[r] = IF r = c THEN 0 ELSE used[r]
        /\ metered'[r] = IF r = c THEN 0 ELSE metered[r]
        /\ free'[r] = IF r = c THEN m ELSE IF r = p THEN free[r] - m ELSE free[r]
        /\ children'[r] = IF r = c THEN 0 ELSE IF r = p THEN children[r] + 1 ELSE children[r]
        /\ reserved'[r] = IF r = c THEN 0 ELSE IF r = p THEN reserved[r] + m ELSE reserved[r]
        /\ live'[r] = IF r = c THEN TRUE ELSE live[r]
        /\ tenant'[r] = IF r = c THEN Len(minted) + 1 ELSE tenant[r]

LEMMA CarveWrites ==
    ASSUME TypeInv, NEW p \in Slots, NEW c \in Slots, NEW m \in Nat, CarveStep(p, c, m)
    PROVE  CarveWritten(p, c, m)
<1>1. /\ parent \in [Slots -> Slots] /\ extent \in [Slots -> Nat] /\ used \in [Slots -> Nat]
      /\ free \in [Slots -> Nat] /\ metered \in [Slots -> Nat] /\ reserved \in [Slots -> Nat]
      /\ children \in [Slots -> Nat] /\ live \in [Slots -> BOOLEAN] /\ tenant \in [Slots -> Handles]
      /\ c # p
  BY DEF CarveStep, TypeInv, TableOK, HandlesOK
<1>2. /\ parent' = [parent EXCEPT ![c] = p]
      /\ extent' = [extent EXCEPT ![c] = m]
      /\ used' = [used EXCEPT ![c] = 0]
      /\ metered' = [metered EXCEPT ![c] = 0]
      /\ free' = [free EXCEPT ![p] = @ - m, ![c] = m]
      /\ children' = [children EXCEPT ![p] = @ + 1, ![c] = 0]
      /\ reserved' = [reserved EXCEPT ![p] = @ + m, ![c] = 0]
      /\ live' = [live EXCEPT ![c] = TRUE]
      /\ tenant' = [tenant EXCEPT ![c] = Len(minted) + 1]
  BY DEF CarveStep
<1> SUFFICES ASSUME NEW r \in Slots
             PROVE  /\ parent'[r] = IF r = c THEN p ELSE parent[r]
                    /\ extent'[r] = IF r = c THEN m ELSE extent[r]
                    /\ used'[r] = IF r = c THEN 0 ELSE used[r]
                    /\ metered'[r] = IF r = c THEN 0 ELSE metered[r]
                    /\ free'[r] = IF r = c THEN m ELSE IF r = p THEN free[r] - m ELSE free[r]
                    /\ children'[r] = IF r = c THEN 0 ELSE IF r = p THEN children[r] + 1 ELSE children[r]
                    /\ reserved'[r] = IF r = c THEN 0 ELSE IF r = p THEN reserved[r] + m ELSE reserved[r]
                    /\ live'[r] = IF r = c THEN TRUE ELSE live[r]
                    /\ tenant'[r] = IF r = c THEN Len(minted) + 1 ELSE tenant[r]
  BY DEF CarveWritten
<1>3. CASE r = c
  BY <1>1, <1>2, <1>3
<1>4. CASE r # c /\ r = p
  BY <1>1, <1>2, <1>4
<1>5. CASE r # c /\ r # p
  BY <1>1, <1>2, <1>5
<1> QED BY <1>3, <1>4, <1>5

\* A carve keeps children the exact count of live children, and parents older or
\* reused.
LEMMA CarveFamily ==
    ASSUME TypeInv, NEW p \in Slots, NEW c \in Slots, NEW m \in Nat, CarveStep(p, c, m)
    PROVE  FamilyOK'
<1>1. /\ p \in 0..(size - 1) /\ live[p]
      /\ c \in 1..(size' - 1) /\ c # 0 /\ c # p /\ ~live[c]
      /\ size \in Nat /\ size' \in Nat /\ size <= size'
      /\ \A r \in 1..(size' - 1) : r \in 1..(size - 1) \/ r = c
  BY DEF CarveStep
<1>2. \A r \in Slots :
          /\ parent'[r] = IF r = c THEN p ELSE parent[r]
          /\ extent'[r] = IF r = c THEN m ELSE extent[r]
          /\ children'[r] = IF r = c THEN 0 ELSE IF r = p THEN children[r] + 1 ELSE children[r]
          /\ reserved'[r] = IF r = c THEN 0 ELSE IF r = p THEN reserved[r] + m ELSE reserved[r]
          /\ live'[r] = IF r = c THEN TRUE ELSE live[r]
          /\ tenant'[r] = IF r = c THEN Len(minted) + 1 ELSE tenant[r]
  <2>1. CarveWritten(p, c, m)
    BY CarveWrites
  <2> QED BY <2>1 DEF CarveWritten
<1>3. /\ parent \in [Slots -> Slots] /\ extent \in [Slots -> Nat] /\ live \in [Slots -> BOOLEAN]
      /\ children \in [Slots -> Nat] /\ reserved \in [Slots -> Nat]
      /\ \A s \in Slots : live[s] => s \in 0..(size - 1)
      /\ \A s \in 1..(size - 1) : tenant[s] # 0
      /\ \A s \in Slots : s # 0 /\ live[s] => live[parent[s]] /\ parent[s] # s
      /\ \A q \in Slots : TotalOf(Heirs(q), children[q]) /\ TotalOf(Shares(q), reserved[q])
      /\ Len(minted) \in Nat
  BY LenProperties DEF TypeInv, TableOK, HandlesOK, FamilyOK
<1>4. \A s \in Slots : live'[s] => s \in 0..(size' - 1)
  <2>1. c \in 0..(size' - 1)
    <3>1. c \in 1..(size' - 1)
      BY <1>1
    <3>2. size' \in Nat
      BY <1>1
    <3>3. \A n \in Nat : \A s \in 1..(n - 1) : s \in 0..(n - 1)
      OBVIOUS
    <3> QED BY <3>1, <3>2, <3>3
  <2>2. 0..(size - 1) \subseteq 0..(size' - 1)
    BY <1>1, Ranges
  <2> QED BY <1>2, <1>3, <2>1, <2>2
<1>5. \A s \in 1..(size' - 1) : tenant'[s] # 0
  <2>1. \A s \in 1..(size - 1) : s \in Slots
    BY SlotsBelow DEF TypeInv
  <2>2. tenant'[c] # 0
    <3>1. tenant'[c] = Len(minted) + 1
      BY <1>2
    <3> QED BY <1>3, <3>1
  <2>3. \A s \in 1..(size - 1) : tenant'[s] # 0
    BY <1>2, <1>3, <2>1, <2>2
  <2> QED BY <1>1, <2>2, <2>3
<1>6. \A s \in Slots : s # 0 /\ live'[s] => live'[parent'[s]] /\ parent'[s] # s
  <2> SUFFICES ASSUME NEW s \in Slots, s # 0, live'[s]
               PROVE  live'[parent'[s]] /\ parent'[s] # s
    OBVIOUS
  <2>1. CASE s = c
    BY <1>1, <1>2, <2>1
  <2>2. CASE s # c
    <3>1. live[s] /\ parent'[s] = parent[s]
      BY <1>2, <2>2
    <3>2. live[parent[s]] /\ parent[s] # s /\ parent[s] \in Slots
      BY <1>3, <3>1
    <3> QED BY <1>2, <3>1, <3>2
  <2> QED BY <2>1, <2>2
<1>7. \A s, q \in Slots : s # c => HeirOf(s, q)' = (HeirOf(s, q) /\ q # c)
  <2> SUFFICES ASSUME NEW s \in Slots, NEW q \in Slots, s # c
               PROVE  HeirOf(s, q)' = (HeirOf(s, q) /\ q # c)
    OBVIOUS
  <2>1. HeirOf(s, q)' <=> s # 0 /\ live[s] /\ parent[s] = q
    BY <1>2 DEF HeirOf
  <2>2. s # 0 /\ live[s] /\ parent[s] = q => q # c
    BY <1>1, <1>3
  <2> QED BY <2>1, <2>2 DEF HeirOf
<1>8. \A q \in Slots : ~HeirOf(c, q) /\ (HeirOf(c, q)' <=> q = p)
  BY <1>1, <1>2 DEF HeirOf
<1>9. ASSUME NEW q \in Slots
      PROVE  TotalOf(Heirs(q)', children'[q]) /\ TotalOf(Shares(q)', reserved'[q])
  <2>1. CASE q = c
    <3>1. \A s \in Slots : ~HeirOf(s, q)'
      BY <1>1, <1>7, <1>8, <2>1
    <3>2. Heirs(q)' = [s \in Slots |-> 0] /\ Shares(q)' = [s \in Slots |-> 0]
      BY <3>1 DEF Heirs, Shares
    <3>3. children'[q] = 0 /\ reserved'[q] = 0
      BY <1>2, <2>1
    <3> QED BY <3>2, <3>3, TotalOfNone
  <2>2. CASE q # c
    <3>1. Heirs(q) \in [Slots -> Nat] /\ Shares(q) \in [Slots -> Nat]
      BY <1>3 DEF Heirs, Shares
    <3>2. Heirs(q)' \in [Slots -> Nat] /\ Shares(q)' \in [Slots -> Nat]
      <4>1. \A s \in Slots : extent'[s] \in Nat
        BY <1>1, <1>2, <1>3
      <4> QED BY <4>1 DEF Heirs, Shares
    <3>3. \A k \in Slots : k # c => Heirs(q)'[k] = Heirs(q)[k] /\ Shares(q)'[k] = Shares(q)[k]
      <4> SUFFICES ASSUME NEW k \in Slots, k # c
                   PROVE  Heirs(q)'[k] = Heirs(q)[k] /\ Shares(q)'[k] = Shares(q)[k]
        OBVIOUS
      <4>1. (HeirOf(k, q)' <=> HeirOf(k, q)) /\ extent'[k] = extent[k]
        BY <1>2, <1>7, <2>2
      <4> QED BY <4>1 DEF Heirs, Shares
    <3>4. /\ Heirs(q)[c] = 0 /\ Heirs(q)'[c] = IF q = p THEN 1 ELSE 0
          /\ Shares(q)[c] = 0 /\ Shares(q)'[c] = IF q = p THEN m ELSE 0
      BY <1>1, <1>2, <1>8 DEF Heirs, Shares
    <3>5. TotalOf(Heirs(q)', children[q] - Heirs(q)[c] + Heirs(q)'[c])
      BY <1>1, <1>3, <3>1, <3>2, <3>3, TotalChanged
    <3>6. TotalOf(Shares(q)', reserved[q] - Shares(q)[c] + Shares(q)'[c])
      BY <1>1, <1>3, <3>1, <3>2, <3>3, TotalChanged
    <3>7. /\ children[q] - Heirs(q)[c] + Heirs(q)'[c] = children'[q]
          /\ reserved[q] - Shares(q)[c] + Shares(q)'[c] = reserved'[q]
      <4>1. children[q] \in Nat /\ reserved[q] \in Nat
        BY <1>3
      <4>2. /\ children'[q] = IF q = p THEN children[q] + 1 ELSE children[q]
            /\ reserved'[q] = IF q = p THEN reserved[q] + m ELSE reserved[q]
        BY <1>2, <2>2
      <4> QED BY <3>4, <4>1, <4>2
    <3> QED BY <3>5, <3>6, <3>7
  <2> QED BY <2>1, <2>2
<1> QED BY <1>4, <1>5, <1>6, <1>9 DEF FamilyOK

\* What only looks at the control state survives a table that has grown.
LEMMA ControlWidens ==
    ASSUME ControlOK, FramesOK, size \in Nat, size' \in Nat, size <= size',
           UNCHANGED <<cur, extents, frames, windows, exhausted>>
    PROVE  ControlOK' /\ FramesOK'
<1>1. 0..(size - 1) \subseteq 0..(size' - 1)
  BY Ranges
<1>2. /\ [prev : 0..(size - 1), slot : 0..(size - 1)] \subseteq [prev : 0..(size' - 1), slot : 0..(size' - 1)]
      /\ [kind : {"forward", "pass"}, slot : 0..(size - 1), mark : Nat, level : Nat]
            \subseteq [kind : {"forward", "pass"}, slot : 0..(size' - 1), mark : Nat, level : Nat]
  BY <1>1
<1>3. extents \in Seq([prev : 0..(size' - 1), slot : 0..(size' - 1)])
  BY <1>2, StackWiden DEF ControlOK
<1>4. windows \in Seq([kind : {"forward", "pass"}, slot : 0..(size' - 1), mark : Nat, level : Nat])
  BY <1>2, StackWiden DEF ControlOK
<1>5. cur \in 0..(size' - 1) /\ frames \in Seq([kind : {"fn", "loop"}, depth : Nat]) /\ exhausted \in BOOLEAN
  BY <1>1 DEF ControlOK
<1>6. ControlOK'
  BY <1>3, <1>4, <1>5 DEF ControlOK
<1>7. FramesOK'
  BY DEF FramesOK
<1> QED BY <1>6, <1>7

LEMMA CarveTable ==
    ASSUME TypeInv, NEW p \in Slots, NEW c \in Slots, NEW m \in Nat, CarveStep(p, c, m)
    PROVE  TableOK'
<1>1. /\ m <= free[p] /\ c # 0 /\ c # p /\ size' \in 1..MaxSlots
      /\ parent' = [parent EXCEPT ![c] = p]
      /\ extent' = [extent EXCEPT ![c] = m]
      /\ used' = [used EXCEPT ![c] = 0]
      /\ metered' = [metered EXCEPT ![c] = 0]
      /\ free' = [free EXCEPT ![p] = @ - m, ![c] = m]
      /\ children' = [children EXCEPT ![p] = @ + 1, ![c] = 0]
      /\ reserved' = [reserved EXCEPT ![p] = @ + m, ![c] = 0]
      /\ live' = [live EXCEPT ![c] = TRUE]
      /\ gen' = gen
  BY DEF CarveStep
<1>2. /\ parent \in [Slots -> Slots] /\ extent \in [Slots -> Nat] /\ used \in [Slots -> Nat]
      /\ free \in [Slots -> Nat] /\ metered \in [Slots -> Nat] /\ reserved \in [Slots -> Nat]
      /\ children \in [Slots -> Nat] /\ live \in [Slots -> BOOLEAN] /\ live[0]
      /\ gen \in [Slots -> 0..(GenMod - 1)]
  BY DEF TypeInv, TableOK
<1>3. parent' \in [Slots -> Slots] /\ extent' \in [Slots -> Nat] /\ used' \in [Slots -> Nat]
  BY <1>1, <1>2
<1>4. metered' \in [Slots -> Nat]
  BY <1>1, <1>2
<1>5. free' \in [Slots -> Nat]
  <2>1. free[p] - m \in Nat
    BY <1>1, <1>2
  <2> QED BY <1>1, <1>2, <2>1
<1>6. reserved' \in [Slots -> Nat] /\ children' \in [Slots -> Nat]
  BY <1>1, <1>2
<1>7. live' \in [Slots -> BOOLEAN]
  <2>1. TRUE \in BOOLEAN
    BY Zenon
  <2> QED BY <1>1, <1>2, <2>1, Zenon
<1>8. live'[0]
  BY <1>1, <1>2, Bounds
<1> QED BY <1>1, <1>2, <1>3, <1>4, <1>5, <1>6, <1>7, <1>8 DEF TableOK

LEMMA CarveStack ==
    ASSUME TypeInv, NEW p \in Slots, NEW c \in Slots, NEW m \in Nat, CarveStep(p, c, m)
    PROVE  StackOK'
<1>1. /\ size \in Nat /\ size' \in Nat /\ size <= size'
      /\ \A r \in 0..(size' - 1) : r \in 0..(size - 1) \/ r = c
      /\ budgetFree' \in Seq(1..(size - 1)) /\ NoDuplicates(budgetFree')
      /\ \A x : x \in ToSet(budgetFree') <=> x \in ToSet(budgetFree) /\ x # c
  BY DEF CarveStep
<1>2. 0..(size - 1) \subseteq 0..(size' - 1) /\ 1..(size - 1) \subseteq 1..(size' - 1)
  BY <1>1, Ranges
<1>3. budgetFree' \in Seq(1..(size' - 1))
  BY <1>1, <1>2, StackWiden
<1>4. \A x : x \in ToSet(budgetFree) <=> x \in 0..(size - 1) /\ ~live[x]
  BY DEF TypeInv, StackOK
<1>5. /\ \A r \in Slots : live'[r] = IF r = c THEN TRUE ELSE live[r]
      /\ \A r \in 0..(size - 1) : r \in Slots
  <2>1. CarveWritten(p, c, m)
    BY CarveWrites
  <2> QED BY <2>1, SlotsBelow DEF CarveWritten, TypeInv
<1>6. \A x : x \in ToSet(budgetFree') <=> x \in 0..(size' - 1) /\ ~live'[x]
  <2> SUFFICES ASSUME NEW x
               PROVE  x \in ToSet(budgetFree') <=> x \in 0..(size' - 1) /\ ~live'[x]
    OBVIOUS
  <2>1. CASE x \in 0..(size - 1)
    BY <1>1, <1>2, <1>4, <1>5, <2>1
  <2>2. CASE x \notin 0..(size - 1)
    BY <1>1, <1>4, <1>5, <2>2
  <2> QED BY <2>1, <2>2
<1> QED BY <1>1, <1>3, <1>6 DEF StackOK

LEMMA CarveHandles ==
    ASSUME TypeInv, NEW p \in Slots, NEW c \in Slots, NEW m \in Nat, CarveStep(p, c, m)
    PROVE  HandlesOK'
<1>1. /\ size \in Nat /\ size' \in Nat /\ size <= size' /\ c \in 1..(size' - 1)
      /\ minted' = Append(minted, [slot |-> c, gen |-> gen[c]])
      /\ tenant' = [tenant EXCEPT ![c] = Len(minted) + 1] /\ reaped' = reaped
  BY DEF CarveStep
<1>2. /\ minted \in Seq([slot : 1..(size - 1), gen : 0..(GenMod - 1)])
      /\ tenant \in [Slots -> Handles] /\ reaped \subseteq 1..Len(minted)
      /\ gen[c] \in 0..(GenMod - 1)
  BY DEF TypeInv, HandlesOK, TableOK
<1>3. 1..(size - 1) \subseteq 1..(size' - 1)
  BY <1>1, Ranges
<1>4. [slot : 1..(size - 1), gen : 0..(GenMod - 1)] \subseteq [slot : 1..(size' - 1), gen : 0..(GenMod - 1)]
  BY <1>3
<1>5. minted \in Seq([slot : 1..(size' - 1), gen : 0..(GenMod - 1)])
  BY <1>2, <1>4, StackWiden
<1>6. [slot |-> c, gen |-> gen[c]] \in [slot : 1..(size' - 1), gen : 0..(GenMod - 1)]
  BY <1>1, <1>2
<1>7. minted' \in Seq([slot : 1..(size' - 1), gen : 0..(GenMod - 1)]) /\ Len(minted') = Len(minted) + 1
      /\ Len(minted) \in Nat
  BY <1>1, <1>5, <1>6, StackPush
<1>8. Handles' = 0..(Len(minted) + 1) /\ Handles = 0..Len(minted)
  BY <1>7 DEF Handles
<1>9. tenant' \in [Slots -> Handles']
  <2>1. Handles \subseteq Handles' /\ Len(minted) + 1 \in Handles'
    BY <1>7, <1>8
  <2> QED BY <1>1, <1>2, <2>1
<1>10. reaped' \subseteq 1..Len(minted')
  BY <1>1, <1>2, <1>7
<1> QED BY <1>7, <1>9, <1>10 DEF HandlesOK

\* A carve keeps the invariant.
LEMMA CarveTypeInv ==
    ASSUME TypeInv, NEW h \in Handles, NEW n \in Requests, Carve(h, n)
    PROVE  TypeInv'
<1>1. PICK p \in Slots, c \in Slots, m \in Nat : CarveStep(p, c, m)
  BY CarveShape
<1>2. TableOK' /\ StackOK' /\ HandlesOK' /\ FamilyOK'
  BY <1>1, CarveTable, CarveStack, CarveHandles, CarveFamily
<1>3. ControlOK' /\ FramesOK'
  BY <1>1, ControlWidens DEF CarveStep, TypeInv
<1> QED BY <1>2, <1>3 DEF TypeInv

-------------------------------------------------------------------------------
(* A reap.                                                                  *)

\* A reap of slot c, carved out of slot p.
ReapStep(p, c) ==
    /\ c \in 1..(size - 1) /\ c # 0 /\ live[c] /\ children[c] = 0
    /\ p = parent[c] /\ p # c /\ live[p]
    /\ free' = [Emptied(free, c) EXCEPT ![p] = @ + extent[c]]
    /\ children' = [Emptied(children, c) EXCEPT ![p] = @ - 1]
    /\ reserved' = [reserved EXCEPT ![p] = @ - extent[c]]
    /\ extent' = Emptied(extent, c)
    /\ used' = Emptied(used, c)
    /\ metered' = Emptied(metered, c)
    /\ gen' = [gen EXCEPT ![c] = NextGeneration(@)]
    /\ live' = [live EXCEPT ![c] = FALSE]
    /\ budgetFree' = Append(budgetFree, c)
    /\ reaped' = reaped \cup {tenant[c]}
    /\ UNCHANGED <<parent, size, minted, tenant, cur, extents, frames, windows, status, records, exhausted>>

\* What one reap does.
LEMMA ReapShape ==
    ASSUME TypeInv, NEW h \in Handles, Reap(h)
    PROVE  \E p \in Slots, c \in Slots : c = Descriptor(h).slot /\ ReapStep(p, c)
<1>1. PICK c \in Slots : c = Descriptor(h).slot
  BY DescriptorType
<1>2. c \in 0..(size - 1) /\ size \in Nat
  BY <1>1, DescriptorType, SlotsBelow DEF TypeInv
<1>3. c # 0 /\ live[c] /\ children[c] = 0
  BY <1>1 DEF Reap, Reapable, Resolves
<1>4. c \in 1..(size - 1)
  BY <1>2, <1>3
<1>5. PICK p \in Slots : p = parent[c]
  BY DEF TypeInv, TableOK
<1>6. p # c /\ live[p]
  BY <1>3, <1>5 DEF TypeInv, FamilyOK
<1>7. ReapStep(p, c)
  BY <1>1, <1>3, <1>4, <1>5, <1>6 DEF Reap, ReapStep, CreditOf, control, policy
<1> QED BY <1>1, <1>7

ReapWritten(p, c) ==
    \A r \in Slots :
        /\ extent'[r] = IF r = c THEN 0 ELSE extent[r]
        /\ used'[r] = IF r = c THEN 0 ELSE used[r]
        /\ metered'[r] = IF r = c THEN 0 ELSE metered[r]
        /\ free'[r] = IF r = c THEN 0 ELSE IF r = p THEN free[r] + extent[c] ELSE free[r]
        /\ children'[r] = IF r = c THEN 0 ELSE IF r = p THEN children[r] - 1 ELSE children[r]
        /\ reserved'[r] = IF r = p THEN reserved[r] - extent[c] ELSE reserved[r]
        /\ live'[r] = IF r = c THEN FALSE ELSE live[r]
        /\ gen'[r] = IF r = c THEN NextGeneration(gen[r]) ELSE gen[r]

LEMMA ReapWrites ==
    ASSUME TypeInv, NEW p \in Slots, NEW c \in Slots, ReapStep(p, c)
    PROVE  ReapWritten(p, c)
<1>1. /\ extent \in [Slots -> Nat] /\ used \in [Slots -> Nat]
      /\ free \in [Slots -> Nat] /\ metered \in [Slots -> Nat] /\ reserved \in [Slots -> Nat]
      /\ children \in [Slots -> Nat] /\ live \in [Slots -> BOOLEAN]
      /\ gen \in [Slots -> 0..(GenMod - 1)] /\ c # p
  BY DEF ReapStep, TypeInv, TableOK
<1>2. /\ free' = [[free EXCEPT ![c] = 0] EXCEPT ![p] = @ + extent[c]]
      /\ children' = [[children EXCEPT ![c] = 0] EXCEPT ![p] = @ - 1]
      /\ reserved' = [reserved EXCEPT ![p] = @ - extent[c]]
      /\ extent' = [extent EXCEPT ![c] = 0]
      /\ used' = [used EXCEPT ![c] = 0]
      /\ metered' = [metered EXCEPT ![c] = 0]
      /\ gen' = [gen EXCEPT ![c] = NextGeneration(@)]
      /\ live' = [live EXCEPT ![c] = FALSE]
  BY DEF ReapStep, Emptied
<1> SUFFICES ASSUME NEW r \in Slots
             PROVE  /\ extent'[r] = IF r = c THEN 0 ELSE extent[r]
                    /\ used'[r] = IF r = c THEN 0 ELSE used[r]
                    /\ metered'[r] = IF r = c THEN 0 ELSE metered[r]
                    /\ free'[r] = IF r = c THEN 0 ELSE IF r = p THEN free[r] + extent[c] ELSE free[r]
                    /\ children'[r] = IF r = c THEN 0 ELSE IF r = p THEN children[r] - 1 ELSE children[r]
                    /\ reserved'[r] = IF r = p THEN reserved[r] - extent[c] ELSE reserved[r]
                    /\ live'[r] = IF r = c THEN FALSE ELSE live[r]
                    /\ gen'[r] = IF r = c THEN NextGeneration(gen[r]) ELSE gen[r]
  BY DEF ReapWritten
<1>3. CASE r = c
  BY <1>1, <1>2, <1>3
<1>4. CASE r # c /\ r = p
  BY <1>1, <1>2, <1>4
<1>5. CASE r # c /\ r # p
  BY <1>1, <1>2, <1>5
<1> QED BY <1>3, <1>4, <1>5

\* What the counts of parent and child owe to each other.
LEMMA Owed ==
    ASSUME TypeInv, NEW p \in Slots, NEW c \in Slots, c # 0, live[c], parent[c] = p
    PROVE  children[p] >= 1 /\ reserved[p] >= extent[c]
<1>1. Heirs(p) \in [Slots -> Nat] /\ Heirs(p)[c] = 1 /\ TotalOf(Heirs(p), children[p])
  BY DEF TypeInv, FamilyOK, Heirs, HeirOf
<1>2. Shares(p) \in [Slots -> Nat] /\ Shares(p)[c] = extent[c] /\ TotalOf(Shares(p), reserved[p])
  BY DEF TypeInv, FamilyOK, TableOK, Shares, HeirOf
<1>3. Heirs(p)[c] <= children[p]
  BY <1>1, TotalCovers
<1>4. Shares(p)[c] <= reserved[p]
  BY <1>2, TotalCovers
<1>5. children[p] \in Nat /\ reserved[p] \in Nat /\ extent[c] \in Nat
  BY DEF TypeInv, TableOK
<1> QED BY <1>1, <1>2, <1>3, <1>4, <1>5

\* An entry that counts no child has none, and nothing carved out of it.
LEMMA Childless ==
    ASSUME TypeInv, NEW p \in Slots, children[p] = 0
    PROVE  /\ \A s \in Slots : ~HeirOf(s, p)
           /\ reserved[p] = 0
<1>1. ASSUME NEW s \in Slots
      PROVE  ~HeirOf(s, p)
  <2>1. HeirOf(s, p) => children[p] >= 1
    BY Owed DEF HeirOf
  <2> QED BY <2>1
<1>2. reserved[p] = 0
  <2>1. Shares(p) \in [Slots -> Nat] /\ TotalOf(Shares(p), reserved[p])
    BY DEF TypeInv, FamilyOK, TableOK, Shares
  <2>2. \A s \in Slots : Shares(p)[s] = 0
    BY <1>1 DEF Shares
  <2> QED BY <2>1, <2>2, TotalCovers
<1> QED BY <1>1, <1>2

LEMMA ReapTable ==
    ASSUME TypeInv, NEW p \in Slots, NEW c \in Slots, ReapStep(p, c)
    PROVE  TableOK'
<1>1. /\ c # 0 /\ c # p /\ live[c] /\ parent[c] = p /\ size' = size /\ parent' = parent
      /\ free' = [[free EXCEPT ![c] = 0] EXCEPT ![p] = @ + extent[c]]
      /\ children' = [[children EXCEPT ![c] = 0] EXCEPT ![p] = @ - 1]
      /\ reserved' = [reserved EXCEPT ![p] = @ - extent[c]]
      /\ extent' = [extent EXCEPT ![c] = 0]
      /\ used' = [used EXCEPT ![c] = 0]
      /\ metered' = [metered EXCEPT ![c] = 0]
      /\ gen' = [gen EXCEPT ![c] = NextGeneration(@)]
      /\ live' = [live EXCEPT ![c] = FALSE]
  BY DEF ReapStep, Emptied
<1>2. /\ parent \in [Slots -> Slots] /\ extent \in [Slots -> Nat] /\ used \in [Slots -> Nat]
      /\ free \in [Slots -> Nat] /\ metered \in [Slots -> Nat] /\ reserved \in [Slots -> Nat]
      /\ children \in [Slots -> Nat] /\ live \in [Slots -> BOOLEAN] /\ live[0]
      /\ gen \in [Slots -> 0..(GenMod - 1)] /\ size \in 1..MaxSlots
  BY DEF TypeInv, TableOK
<1>3. extent' \in [Slots -> Nat] /\ used' \in [Slots -> Nat] /\ metered' \in [Slots -> Nat]
  BY <1>1, <1>2
<1>4. free' \in [Slots -> Nat]
  BY <1>1, <1>2
<1>5. children' \in [Slots -> Nat] /\ reserved' \in [Slots -> Nat]
  <2>1. children[p] >= 1 /\ reserved[p] >= extent[c]
    BY <1>1, Owed
  <2>2. children[p] - 1 \in Nat /\ reserved[p] - extent[c] \in Nat
    BY <1>2, <2>1
  <2> QED BY <1>1, <1>2, <2>2
<1>6. gen' \in [Slots -> 0..(GenMod - 1)]
  <2>1. \A g \in 0..(GenMod - 1) : NextGeneration(g) \in 0..(GenMod - 1)
    BY JitAssumption DEF NextGeneration
  <2> QED BY <1>1, <1>2, <2>1
<1>7. live' \in [Slots -> BOOLEAN]
  <2>1. FALSE \in BOOLEAN
    BY Zenon
  <2> QED BY <1>1, <1>2, <2>1, Zenon
<1>8. live'[0]
  BY <1>1, <1>2, Bounds
<1> QED BY <1>1, <1>2, <1>3, <1>4, <1>5, <1>6, <1>7, <1>8 DEF TableOK

LEMMA ReapStack ==
    ASSUME TypeInv, NEW p \in Slots, NEW c \in Slots, ReapStep(p, c)
    PROVE  StackOK'
<1>1. c \in 1..(size - 1) /\ live[c] /\ budgetFree' = Append(budgetFree, c) /\ size' = size
  BY DEF ReapStep
<1>2. /\ budgetFree \in Seq(1..(size - 1)) /\ NoDuplicates(budgetFree)
      /\ \A x : x \in ToSet(budgetFree) <=> x \in 0..(size - 1) /\ ~live[x]
  BY DEF TypeInv, StackOK
<1>3. budgetFree' \in Seq(1..(size - 1))
  BY <1>1, <1>2, StackPush
<1>4. c \notin ToSet(budgetFree)
  BY <1>1, <1>2
<1>5. /\ NoDuplicates(budgetFree')
      /\ \A x : x \in ToSet(budgetFree') <=> x \in ToSet(budgetFree) \/ x = c
  <2>1. /\ NoDuplicates(Append(budgetFree, c))
        /\ \A y : y \in ToSet(Append(budgetFree, c)) <=> y \in ToSet(budgetFree) \/ y = c
    <3> DEFINE S == 1..(size - 1)
    <3>1. budgetFree \in Seq(S) /\ c \in S
      BY <1>1, <1>2
    <3> HIDE DEF S
    <3> QED BY <1>2, <1>4, <3>1, PushNoDuplicates
  <2> QED BY <1>1, <2>1, Zenon
<1>6. /\ \A r \in Slots : live'[r] = IF r = c THEN FALSE ELSE live[r]
      /\ \A r \in 0..(size - 1) : r \in Slots
      /\ c \in 0..(size - 1)
  <2>1. ReapWritten(p, c)
    BY ReapWrites
  <2> QED BY <1>1, <2>1, SlotsBelow DEF ReapWritten, TypeInv
<1>7. \A x : x \in ToSet(budgetFree') <=> x \in 0..(size' - 1) /\ ~live'[x]
  <2> SUFFICES ASSUME NEW x
               PROVE  x \in ToSet(budgetFree') <=> x \in 0..(size - 1) /\ ~live'[x]
    BY <1>1
  <2>1. CASE x = c
    BY <1>5, <1>6, <2>1
  <2>2. CASE x # c
    BY <1>2, <1>5, <1>6, <2>2
  <2> QED BY <2>1, <2>2
<1> QED BY <1>1, <1>3, <1>5, <1>7 DEF StackOK

\* A reap takes one child from its parent and nothing from the others.
LEMMA ReapFamily ==
    ASSUME TypeInv, NEW p \in Slots, NEW c \in Slots, ReapStep(p, c)
    PROVE  FamilyOK'
<1>1. /\ c # 0 /\ c # p /\ live[c] /\ parent[c] = p /\ children[c] = 0 /\ live[p]
      /\ size' = size /\ parent' = parent /\ tenant' = tenant
  BY DEF ReapStep
<1>2. \A r \in Slots :
          /\ extent'[r] = IF r = c THEN 0 ELSE extent[r]
          /\ children'[r] = IF r = c THEN 0 ELSE IF r = p THEN children[r] - 1 ELSE children[r]
          /\ reserved'[r] = IF r = p THEN reserved[r] - extent[c] ELSE reserved[r]
          /\ live'[r] = IF r = c THEN FALSE ELSE live[r]
  <2>1. ReapWritten(p, c)
    BY ReapWrites
  <2> QED BY <2>1 DEF ReapWritten
<1>3. /\ parent \in [Slots -> Slots] /\ extent \in [Slots -> Nat]
      /\ children \in [Slots -> Nat] /\ reserved \in [Slots -> Nat]
      /\ \A s \in Slots : live[s] => s \in 0..(size - 1)
      /\ \A s \in 1..(size - 1) : tenant[s] # 0
      /\ \A s \in Slots : s # 0 /\ live[s] => live[parent[s]] /\ parent[s] # s
      /\ \A q \in Slots : TotalOf(Heirs(q), children[q]) /\ TotalOf(Shares(q), reserved[q])
  BY DEF TypeInv, TableOK, FamilyOK
<1>4. \A s \in Slots : ~HeirOf(s, c)
  BY <1>1, Childless
<1>5. \A s \in Slots : live'[s] => s \in 0..(size' - 1)
  BY <1>1, <1>2, <1>3
<1>6. \A s \in 1..(size' - 1) : tenant'[s] # 0
  BY <1>1, <1>3
<1>7. \A s \in Slots : s # 0 /\ live'[s] => live'[parent'[s]] /\ parent'[s] # s
  <2> SUFFICES ASSUME NEW s \in Slots, s # 0, live'[s]
               PROVE  live'[parent[s]] /\ parent[s] # s
    BY <1>1
  <2>1. s # c /\ live[s]
    BY <1>2
  <2>2. live[parent[s]] /\ parent[s] # s /\ parent[s] \in Slots
    BY <1>3, <2>1
  <2>3. parent[s] # c
    BY <1>4, <2>1 DEF HeirOf
  <2> QED BY <1>2, <2>2, <2>3
<1>8. \A s, q \in Slots : HeirOf(s, q)' <=> HeirOf(s, q) /\ s # c
  BY <1>1, <1>2 DEF HeirOf
<1>9. \A q \in Slots : HeirOf(c, q) <=> q = p
  BY <1>1 DEF HeirOf
<1>10. ASSUME NEW q \in Slots
       PROVE  TotalOf(Heirs(q)', children'[q]) /\ TotalOf(Shares(q)', reserved'[q])
  <2>1. Heirs(q) \in [Slots -> Nat] /\ Shares(q) \in [Slots -> Nat]
    BY <1>3 DEF Heirs, Shares
  <2>2. Heirs(q)' \in [Slots -> Nat] /\ Shares(q)' \in [Slots -> Nat]
    <3>1. extent' \in [Slots -> Nat]
      BY ReapTable DEF TableOK
    <3> QED BY <3>1 DEF Heirs, Shares
  <2>3. \A k \in Slots : k # c => Heirs(q)'[k] = Heirs(q)[k] /\ Shares(q)'[k] = Shares(q)[k]
    <3> SUFFICES ASSUME NEW k \in Slots, k # c
                 PROVE  Heirs(q)'[k] = Heirs(q)[k] /\ Shares(q)'[k] = Shares(q)[k]
      OBVIOUS
    <3>1. (HeirOf(k, q)' <=> HeirOf(k, q)) /\ extent'[k] = extent[k]
      BY <1>2, <1>8
    <3> QED BY <3>1 DEF Heirs, Shares
  <2>4. /\ Heirs(q)'[c] = 0 /\ Heirs(q)[c] = IF q = p THEN 1 ELSE 0
        /\ Shares(q)'[c] = 0 /\ Shares(q)[c] = IF q = p THEN extent[c] ELSE 0
    BY <1>8, <1>9 DEF Heirs, Shares
  <2>5. TotalOf(Heirs(q)', children[q] - Heirs(q)[c] + Heirs(q)'[c])
    BY <1>3, <2>1, <2>2, <2>3, TotalChanged
  <2>6. TotalOf(Shares(q)', reserved[q] - Shares(q)[c] + Shares(q)'[c])
    BY <1>3, <2>1, <2>2, <2>3, TotalChanged
  <2>7. /\ children[q] - Heirs(q)[c] + Heirs(q)'[c] = children'[q]
        /\ reserved[q] - Shares(q)[c] + Shares(q)'[c] = reserved'[q]
    <3>1. children[q] \in Nat /\ reserved[q] \in Nat /\ extent[c] \in Nat
      BY <1>3
    <3>2. /\ children'[q] = IF q = p THEN children[q] - 1 ELSE children[q]
          /\ reserved'[q] = IF q = p THEN reserved[q] - extent[c] ELSE reserved[q]
      BY <1>1, <1>2
    <3> QED BY <2>4, <3>1, <3>2
  <2> QED BY <2>5, <2>6, <2>7
<1> QED BY <1>5, <1>6, <1>7, <1>10 DEF FamilyOK

\* A reap keeps the invariant.
LEMMA ReapTypeInv ==
    ASSUME TypeInv, NEW h \in Handles, Reap(h)
    PROVE  TypeInv'
<1>1. PICK p \in Slots, c \in Slots : ReapStep(p, c)
  BY ReapShape
<1>2. TableOK' /\ StackOK' /\ FamilyOK'
  BY <1>1, ReapTable, ReapStack, ReapFamily
<1>3. ControlOK' /\ FramesOK'
  BY <1>1, SlotsBelow, ControlWidens DEF ReapStep, TypeInv
<1>4. HandlesOK'
  <2>1. /\ c \in 1..(size - 1) /\ reaped' = reaped \cup {tenant[c]}
        /\ UNCHANGED <<size, minted, tenant>>
    BY <1>1 DEF ReapStep
  <2>2. tenant[c] # 0 /\ tenant[c] \in 0..Len(minted) /\ Len(minted) \in Nat /\ reaped \subseteq 1..Len(minted)
    BY <2>1, LenProperties DEF TypeInv, FamilyOK, HandlesOK, Handles
  <2>3. reaped' \subseteq 1..Len(minted')
    <3>1. tenant[c] \in 1..Len(minted)
      BY <2>2
    <3>2. reaped' \subseteq 1..Len(minted)
      BY <2>1, <2>2, <3>1
    <3> QED BY <2>1, <3>2
  <2> QED BY <2>1, <2>3 DEF TypeInv, HandlesOK, Handles
<1> QED BY <1>2, <1>3, <1>4 DEF TypeInv

-------------------------------------------------------------------------------
(* Allocation.                                                              *)

LEMMA FamilyFrame ==
    ASSUME FamilyOK, UNCHANGED <<size, live, parent, extent, children, reserved, tenant>>
    PROVE  FamilyOK'
<1>1. \A q \in Slots : Heirs(q)' = Heirs(q) /\ Shares(q)' = Shares(q)
  BY DEF Heirs, Shares, HeirOf
<1> QED BY <1>1 DEF FamilyOK

\* The rest of the state, when the table and the handles stand still.
LEMMA TableFrame ==
    ASSUME TypeInv, UNCHANGED <<books, names>>
    PROVE  TableOK' /\ StackOK' /\ HandlesOK' /\ FamilyOK'
<1>1. TableOK'
  BY DEF TypeInv, TableOK, books, names
<1>2. StackOK'
  BY DEF TypeInv, StackOK, books, names
<1>3. HandlesOK'
  BY DEF TypeInv, HandlesOK, Handles, books, names
<1>4. FamilyOK'
  BY FamilyFrame DEF TypeInv, books, names
<1> QED BY <1>1, <1>2, <1>3, <1>4

\* A charge keeps the counters natural, under either policy.
LEMMA AllocateTypes ==
    ASSUME TypeInv, NEW s \in Slots, NEW m \in Nat, NEW n \in Nat, Allocate(s, m, n)
    PROVE  /\ TableOK' /\ StackOK' /\ HandlesOK' /\ FamilyOK'
           /\ exhausted' \in BOOLEAN
<1>1. exhausted' \in BOOLEAN
  <2>1. exhausted' = (exhausted \/ (records /\ ~PreA(s, m, n)))
    BY DEF Allocate
  <2> QED BY <2>1, Zenon
<1>2. UNCHANGED names
  BY DEF Allocate
<1>3. CASE UNCHANGED books
  BY <1>1, <1>2, <1>3, TableFrame
<1>4. CASE Served(s, m, n)
  <2>1. /\ metered' = [metered EXCEPT ![s] = m + n]
        /\ used' = [used EXCEPT ![s] = @ + n]
        /\ free' = [free EXCEPT ![s] = SaturatingSub(@, n)]
        /\ UNCHANGED <<parent, extent, children, reserved, size, gen, live, budgetFree, minted, tenant, reaped>>
    BY <1>2, <1>4 DEF Served, names
  <2>2. metered \in [Slots -> Nat] /\ used \in [Slots -> Nat] /\ free \in [Slots -> Nat]
    BY DEF TypeInv, TableOK
  <2>3. metered' \in [Slots -> Nat] /\ used' \in [Slots -> Nat]
    BY <2>1, <2>2
  <2>4. free' \in [Slots -> Nat]
    <3>1. SaturatingSub(free[s], n) \in Nat
      BY <2>2 DEF SaturatingSub
    <3> QED BY <2>1, <2>2, <3>1
  <2>5. TableOK'
    BY <2>1, <2>3, <2>4 DEF TypeInv, TableOK
  <2>6. StackOK'
    BY <2>1 DEF TypeInv, StackOK
  <2>7. HandlesOK'
    BY <2>1 DEF TypeInv, HandlesOK, Handles
  <2>8. FamilyOK'
    BY <2>1, FamilyFrame DEF TypeInv
  <2> QED BY <1>1, <2>5, <2>6, <2>7, <2>8
<1> QED BY <1>3, <1>4 DEF Allocate

LEMMA AllocInTypeInv ==
    ASSUME TypeInv, NEW s \in Slots, NEW n \in Nat, AllocIn(s, n)
    PROVE  TypeInv'
<1>1. metered[s] \in Nat
  BY DEF TypeInv, TableOK
<1>2. Allocate(s, metered[s], n) /\ UNCHANGED <<cur, extents, frames, windows, size>>
  BY DEF AllocIn, Allocate, control, names
<1>3. TableOK' /\ StackOK' /\ HandlesOK' /\ FamilyOK' /\ exhausted' \in BOOLEAN
  BY <1>1, <1>2, AllocateTypes
<1>4. ControlOK' /\ FramesOK'
  BY <1>2, <1>3 DEF TypeInv, ControlOK, FramesOK
<1> QED BY <1>3, <1>4 DEF TypeInv

LEMMA ChargeTypeInv ==
    ASSUME TypeInv, NEW n \in Sizes, Alloc(n) \/ AllocVault(n)
    PROVE  TypeInv'
<1>1. n \in Nat /\ cur \in Slots /\ 0 \in Slots
  BY JitAssumption, SlotsBelow, Bounds DEF TypeInv, ControlOK
<1> QED BY <1>1, AllocInTypeInv DEF Alloc, AllocVault

-------------------------------------------------------------------------------
(* Extents, frames and windows.                                             *)

LEMMA FatalTypeInv ==
    ASSUME TypeInv, NEW refusal, Fatal(refusal)
    PROVE  TypeInv'
<1>1. UNCHANGED <<books, names, cur, extents, frames, windows, exhausted>>
  BY DEF Fatal, control, policy
<1>2. size' = size
  BY <1>1 DEF names
<1>3. TableOK' /\ StackOK' /\ HandlesOK' /\ FamilyOK'
  BY <1>1, TableFrame
<1>4. ControlOK' /\ FramesOK'
  BY <1>1, <1>2 DEF TypeInv, ControlOK, FramesOK
<1> QED BY <1>3, <1>4 DEF TypeInv

LEMMA FrameTyped ==
    ASSUME TypeInv, NEW i \in 1..Len(frames)
    PROVE  frames[i].depth \in Nat /\ frames[i].kind \in {"fn", "loop"}
<1> DEFINE F == [kind : {"fn", "loop"}, depth : Nat]
<1>1. frames \in Seq(F)
  BY DEF TypeInv, ControlOK
<1>2. frames[i] \in F
  <2> HIDE DEF F
  <2> QED BY <1>1, ElementOfSeq
<1> QED BY <1>2

LEMMA EnterTypeInv ==
    ASSUME TypeInv, NEW h \in Handles, Enter(h)
    PROVE  TypeInv'
<1> DEFINE E == [prev : 0..(size - 1), slot : 0..(size - 1)]
           d == Descriptor(h).slot
           x == [prev |-> cur, slot |-> d]
<1>1. /\ extents' = Append(extents, x) /\ cur' = d
      /\ UNCHANGED <<books, names, frames, windows, exhausted>>
  BY DEF Enter, policy
<1>2. TableOK' /\ StackOK' /\ HandlesOK' /\ FamilyOK' /\ size' = size
  BY <1>1, TableFrame DEF names
<1>3. x \in E /\ d \in 0..(size - 1)
  BY DescriptorType DEF TypeInv, ControlOK
<1>4. extents \in Seq(E)
  BY DEF TypeInv, ControlOK
<1> HIDE DEF x, d
<1>5. extents' \in Seq(E) /\ Len(extents) \in Nat /\ Len(extents') = Len(extents) + 1
  BY <1>1, <1>3, <1>4, StackPush
<1>6. ControlOK'
  BY <1>1, <1>2, <1>3, <1>5 DEF TypeInv, ControlOK
<1>7. FramesOK'
  <2>1. \A i \in 1..Len(frames) : frames[i].depth \in Nat
    BY FrameTyped
  <2>2. \A i \in 1..Len(frames) : frames[i].depth <= Len(extents')
    BY <1>5, <2>1 DEF TypeInv, FramesOK
  <2> QED BY <1>1, <2>2 DEF TypeInv, FramesOK
<1> QED BY <1>2, <1>6, <1>7 DEF TypeInv

\* The innermost call, the depths of the frames.
LEMMA FramesTyped ==
    ASSUME TypeInv
    PROVE  /\ Len(frames) \in Nat \ {0} /\ Len(extents) \in Nat
           /\ \A i \in 1..Len(frames) : frames[i].depth \in Nat /\ frames[i].kind \in {"fn", "loop"}
           /\ Frame = frames[Len(frames)]
           /\ Call \in 1..Len(frames) /\ frames[Call].kind = "fn"
           /\ \A j \in (Call + 1)..Len(frames) : frames[j].kind = "loop"
<1>1. /\ frames \in Seq([kind : {"fn", "loop"}, depth : Nat])
      /\ extents \in Seq([prev : 0..(size - 1), slot : 0..(size - 1)])
      /\ Len(frames) >= 1
  BY DEF TypeInv, ControlOK, FramesOK
<1>2. Len(frames) \in Nat \ {0} /\ Len(extents) \in Nat
  BY <1>1, LenProperties
<1>3. \A i \in 1..Len(frames) : frames[i].depth \in Nat /\ frames[i].kind \in {"fn", "loop"}
  BY FrameTyped
<1>4. Frame = frames[Len(frames)]
  BY DEF Frame, Last
<1>5. \E k \in 1..Len(frames) : frames[k].kind = "fn" /\ \A j \in (k + 1)..Len(frames) : frames[j].kind = "loop"
  <2>1. Len(frames) \in 1..Len(frames)
    BY <1>2
  <2> QED BY <2>1 DEF TypeInv, FramesOK
<1>6. /\ Call \in 1..Len(frames) /\ frames[Call].kind = "fn"
      /\ \A j \in (Call + 1)..Len(frames) : frames[j].kind = "loop"
  BY <1>5 DEF Call
<1> QED BY <1>2, <1>3, <1>4, <1>6

\* Control leaves the extents above d and the frames above l: those frames were
\* opened under no more than d, and a call that is left is left by its return.
Leaves(d, l) ==
    /\ d <= Len(extents)
    /\ \A i \in 1..l : frames[i].depth <= d
    /\ \A k \in 1..Len(frames) :
          frames[k].kind = "fn" => l >= k \/ (l = k - 1 /\ d = frames[k].depth)
    /\ LeaveTo(d, l)

\* Leaving extents pops the stack down to the outermost extent left.
LEMMA Exits ==
    ASSUME TypeInv, EndExtent \/ Break \/ Continue \/ Return
    PROVE  \E d \in Nat, l \in 1..Len(frames) : Leaves(d, l)
<1> USE FramesTyped
<1>1. /\ frames[1].kind = "fn"
      /\ \A i \in 1..Len(frames) : frames[i].depth <= Len(extents)
      /\ \A i, j \in 1..Len(frames) : i <= j => frames[i].depth <= frames[j].depth
  BY DEF TypeInv, FramesOK
<1>2. ASSUME EndExtent
      PROVE  \E d \in Nat, l \in 1..Len(frames) : Leaves(d, l)
  <2>1. Len(extents) > frames[Len(frames)].depth /\ LeaveTo(Len(extents) - 1, Len(frames))
    BY <1>2 DEF EndExtent, Depth
  <2>2. Len(extents) - 1 \in Nat /\ Len(frames) \in 1..Len(frames) /\ Len(extents) - 1 <= Len(extents)
    BY <2>1
  <2>3. \A i \in 1..Len(frames) : frames[i].depth <= Len(extents) - 1
    BY <1>1, <2>1, <2>2
  <2>4. \A k \in 1..Len(frames) : Len(frames) >= k
    OBVIOUS
  <2> QED BY <2>1, <2>2, <2>3, <2>4 DEF Leaves
<1>3. ASSUME Continue
      PROVE  \E d \in Nat, l \in 1..Len(frames) : Leaves(d, l)
  <2> DEFINE d == frames[Len(frames)].depth
  <2>1. LeaveTo(d, Len(frames))
    BY <1>3 DEF Continue, LoopFloor
  <2>2. d \in Nat /\ Len(frames) \in 1..Len(frames) /\ d <= Len(extents)
    BY <1>1
  <2>3. \A i \in 1..Len(frames) : frames[i].depth <= d
    BY <1>1, <2>2
  <2>4. \A k \in 1..Len(frames) : Len(frames) >= k
    OBVIOUS
  <2> QED BY <2>1, <2>2, <2>3, <2>4 DEF Leaves
<1>4. ASSUME Break
      PROVE  \E d \in Nat, l \in 1..Len(frames) : Leaves(d, l)
  <2> DEFINE d == frames[Len(frames)].depth
             l == Len(frames) - 1
  <2>1. LeaveTo(d, l) /\ frames[Len(frames)].kind = "loop"
    BY <1>4 DEF Break, LoopFloor
  <2>2. d \in Nat /\ d <= Len(extents) /\ Len(frames) # 1
    BY <1>1, <2>1
  <2>3. l \in 1..Len(frames)
    <3>1. \A N \in Nat \ {0} : N # 1 => N - 1 \in 1..N
      OBVIOUS
    <3> QED BY <2>2, <3>1
  <2>4. \A i \in 1..l : frames[i].depth <= d
    BY <1>1, <2>2
  <2>5. \A k \in 1..Len(frames) : frames[k].kind = "fn" => l >= k
    BY <2>1
  <2> HIDE DEF d, l
  <2> QED BY <2>1, <2>2, <2>3, <2>4, <2>5 DEF Leaves
<1>5. ASSUME Return
      PROVE  \E d \in Nat, l \in 1..Len(frames) : Leaves(d, l)
  <2> DEFINE c == Call
  <2>1. c > 1 /\ LeaveTo(frames[c].depth, c - 1)
    BY <1>5 DEF Return
  <2>2. c \in 1..Len(frames) /\ \A j \in (c + 1)..Len(frames) : frames[j].kind = "loop"
    OBVIOUS
  <2> HIDE DEF c
  <2>3. frames[c].depth \in Nat /\ frames[c].depth <= Len(extents) /\ c - 1 \in 1..Len(frames)
    BY <1>1, <2>1, <2>2
  <2>4. \A i \in 1..(c - 1) : frames[i].depth <= frames[c].depth
    BY <1>1, <2>1, <2>2
  <2>5. ASSUME NEW k \in 1..Len(frames), frames[k].kind = "fn"
        PROVE  c - 1 >= k \/ (c - 1 = k - 1 /\ frames[c].depth = frames[k].depth)
    <3>1. ~(k \in (c + 1)..Len(frames))
      BY <2>2, <2>5
    <3>2. k <= c
      BY <2>2, <3>1
    <3>3. k = c \/ c - 1 >= k
      BY <2>2, <3>2
    <3> QED BY <3>3
  <2> QED BY <2>1, <2>3, <2>4, <2>5 DEF Leaves
<1> QED BY <1>2, <1>3, <1>4, <1>5

\* Every edge that leaves extents keeps the invariant.
LEMMA LeavesTypeInv ==
    ASSUME TypeInv, NEW d \in Nat, NEW l \in 1..Len(frames), Leaves(d, l)
    PROVE  TypeInv'
<1> DEFINE E == [prev : 0..(size - 1), slot : 0..(size - 1)]
           F == [kind : {"fn", "loop"}, depth : Nat]
<1>1. /\ d <= Len(extents) /\ \A i \in 1..l : frames[i].depth <= d
      /\ cur' = ExitsTo(d)
      /\ extents' = SubSeq(extents, 1, d)
      /\ frames' = SubSeq(frames, 1, l)
      /\ UNCHANGED <<books, names, windows, exhausted>>
  BY DEF Leaves, LeaveTo, policy
<1>2. TableOK' /\ StackOK' /\ HandlesOK' /\ FamilyOK' /\ size' = size
  BY <1>1, TableFrame DEF names
<1>3. extents \in Seq(E) /\ frames \in Seq(F) /\ cur \in 0..(size - 1)
  BY DEF TypeInv, ControlOK
<1>4. l \in Nat /\ l >= 1 /\ l <= Len(frames) /\ Len(extents) \in Nat
  BY FramesTyped
<1>5. /\ extents' \in Seq(E) /\ Len(extents') = d
  BY <1>1, <1>3, StackCut
<1>6. /\ frames' \in Seq(F) /\ Len(frames') = l
      /\ \A i \in 1..l : frames'[i] = frames[i]
  BY <1>1, <1>3, <1>4, StackCut
<1>7. cur' \in 0..(size - 1)
  <2>1. CASE Len(extents) <= d
    BY <1>1, <1>3, <2>1 DEF ExitsTo, Depth
  <2>2. CASE ~(Len(extents) <= d)
    <3>1. d + 1 \in 1..Len(extents) /\ cur' = extents[d + 1].prev
      BY <1>1, <1>4, <2>2 DEF ExitsTo, Depth
    <3>2. extents[d + 1] \in E
      BY <1>3, <3>1, ElementOfSeq
    <3> QED BY <3>1, <3>2
  <2> QED BY <2>1, <2>2
<1>8. ControlOK'
  BY <1>1, <1>2, <1>5, <1>6, <1>7 DEF TypeInv, ControlOK
<1>9. FramesOK'
  <2>1. /\ frames[1].kind = "fn"
        /\ \A i \in 1..Len(frames) :
              \E k \in 1..i : frames[k].kind = "fn" /\ \A j \in (k + 1)..i : frames[j].kind = "loop"
        /\ \A i, j \in 1..Len(frames) : i <= j => frames[i].depth <= frames[j].depth
    BY DEF TypeInv, FramesOK
  <2>2. Len(frames') >= 1 /\ frames'[1].kind = "fn"
    BY <1>4, <1>6, <2>1
  <2>3. ASSUME NEW i \in 1..l
        PROVE  \E k \in 1..i : frames'[k].kind = "fn" /\ \A j \in (k + 1)..i : frames'[j].kind = "loop"
    <3>1. i \in 1..Len(frames)
      BY <1>4
    <3>2. PICK k \in 1..i : frames[k].kind = "fn" /\ \A j \in (k + 1)..i : frames[j].kind = "loop"
      BY <2>1, <3>1
    <3>3. k \in 1..l /\ \A j \in (k + 1)..i : j \in 1..l
      BY <1>4
    <3> QED BY <1>6, <3>2, <3>3
  <2>4. \A i \in 1..l : frames'[i].depth <= d
    BY <1>1, <1>6
  <2>5. ASSUME NEW i \in 1..l, NEW j \in 1..l, i <= j
        PROVE  frames'[i].depth <= frames'[j].depth
    <3>1. i \in 1..Len(frames) /\ j \in 1..Len(frames)
      BY <1>4
    <3>2. frames[i].depth <= frames[j].depth
      BY <2>1, <2>5, <3>1
    <3> QED BY <1>6, <3>2
  <2> QED BY <1>5, <1>6, <2>2, <2>3, <2>4, <2>5 DEF FramesOK
<1> QED BY <1>2, <1>8, <1>9 DEF TypeInv

\* A call opens a frame above the extents it finds.
LEMMA OpenFrameTypeInv ==
    ASSUME TypeInv, NEW kind \in {"fn", "loop"}, OpenFrame(kind)
    PROVE  TypeInv'
<1> DEFINE F == [kind : {"fn", "loop"}, depth : Nat]
           x == [kind |-> kind, depth |-> Len(extents)]
           z == Len(frames) + 1
<1>1. /\ frames' = Append(frames, x)
      /\ UNCHANGED <<books, names, cur, extents, windows, exhausted>>
  BY DEF OpenFrame, Depth, policy
<1>2. TableOK' /\ StackOK' /\ HandlesOK' /\ FamilyOK' /\ size' = size
  BY <1>1, TableFrame DEF names
<1>3. x \in F /\ frames \in Seq(F) /\ x.kind = kind /\ x.depth = Len(extents)
  BY FramesTyped DEF TypeInv, ControlOK
<1> HIDE DEF x
<1>4. /\ frames' \in Seq(F) /\ Len(frames') = z /\ frames'[z] = x
      /\ \A i \in 1..Len(frames) : frames'[i] = frames[i]
  BY <1>1, <1>3, StackPush
<1>5. ControlOK'
  BY <1>1, <1>2, <1>4 DEF TypeInv, ControlOK
<1>6. FramesOK'
  <2>1. /\ frames[1].kind = "fn"
        /\ \A i \in 1..Len(frames) :
              \E k \in 1..i : frames[k].kind = "fn" /\ \A j \in (k + 1)..i : frames[j].kind = "loop"
        /\ \A i \in 1..Len(frames) : frames[i].depth <= Len(extents)
        /\ \A i, j \in 1..Len(frames) : i <= j => frames[i].depth <= frames[j].depth
    BY DEF TypeInv, FramesOK
  <2>2. /\ Len(frames) \in Nat \ {0} /\ Len(extents) \in Nat /\ z \in Nat /\ 1 \in 1..Len(frames)
        /\ \A i \in 1..z : i = z \/ i \in 1..Len(frames)
    BY FramesTyped
  <2>3. Len(frames') >= 1 /\ frames'[1].kind = "fn"
    BY <1>4, <2>1, <2>2
  <2>4. ASSUME NEW i \in 1..z
        PROVE  \E k \in 1..i : frames'[k].kind = "fn" /\ \A j \in (k + 1)..i : frames'[j].kind = "loop"
    <3>1. CASE i \in 1..Len(frames)
      <4>1. PICK k \in 1..i : frames[k].kind = "fn" /\ \A j \in (k + 1)..i : frames[j].kind = "loop"
        BY <2>1, <3>1
      <4>2. k \in 1..Len(frames) /\ \A j \in (k + 1)..i : j \in 1..Len(frames)
        BY <2>2, <3>1
      <4> QED BY <1>4, <4>1, <4>2
    <3>2. CASE i = z /\ kind = "fn"
      <4>1. z \in 1..z /\ \A j \in (z + 1)..z : FALSE
        BY <2>2
      <4> QED BY <1>3, <1>4, <3>2, <4>1
    <3>3. CASE i = z /\ kind = "loop"
      <4>1. PICK k \in 1..Len(frames) :
                frames[k].kind = "fn" /\ \A j \in (k + 1)..Len(frames) : frames[j].kind = "loop"
        BY <2>1, <2>2
      <4>2. k \in 1..z /\ \A j \in (k + 1)..z : j = z \/ (j \in (k + 1)..Len(frames) /\ j \in 1..Len(frames))
        <5>1. k \in Nat /\ k >= 1 /\ k <= Len(frames) /\ k \in 1..z
          BY <2>2
        <5>2. ASSUME NEW j \in (k + 1)..z
              PROVE  j = z \/ (j \in (k + 1)..Len(frames) /\ j \in 1..Len(frames))
          <6>1. j \in Nat /\ j >= k + 1 /\ j <= Len(frames) + 1
            BY <2>2, <5>1
          <6> QED BY <2>2, <5>1, <6>1
        <5> QED BY <5>1, <5>2
      <4>3. frames'[k].kind = "fn" /\ frames'[z].kind = "loop"
        BY <1>3, <1>4, <3>3, <4>1
      <4>4. \A j \in (k + 1)..z : frames'[j].kind = "loop"
        BY <1>4, <4>1, <4>2, <4>3
      <4> HIDE DEF z
      <4> QED BY <3>3, <4>2, <4>3, <4>4
    <3> QED BY <2>2, <3>1, <3>2, <3>3
  <2>5. ASSUME NEW i \in 1..z
        PROVE  frames'[i].depth <= Len(extents)
    <3>1. CASE i = z
      <4>1. frames'[i].depth = Len(extents)
        BY <1>3, <1>4, <3>1
      <4> QED BY <2>2, <4>1
    <3>2. CASE i \in 1..Len(frames)
      BY <1>4, <2>1, <3>2
    <3> QED BY <2>2, <3>1, <3>2
  <2>6. ASSUME NEW i \in 1..z, NEW j \in 1..z, i <= j
        PROVE  frames'[i].depth <= frames'[j].depth
    <3>1. CASE j = z
      BY <1>3, <1>4, <2>5, <3>1
    <3>2. CASE j \in 1..Len(frames)
      <4>1. i \in 1..Len(frames)
        BY <2>2, <2>6, <3>2
      <4> QED BY <1>4, <2>1, <2>6, <3>2, <4>1
    <3> QED BY <2>2, <3>1, <3>2
  <2> HIDE DEF z
  <2> QED BY <1>1, <1>4, <2>3, <2>4, <2>5, <2>6 DEF FramesOK
<1> QED BY <1>2, <1>5, <1>6 DEF TypeInv

WindowAt(top) == [kind : {"forward", "pass"}, slot : 0..top, mark : Nat, level : Nat]

\* A @grad call marks the arena of the budget entered.
LEMMA OpenWindowTypeInv ==
    ASSUME TypeInv, NEW kind \in {"forward", "pass"}, OpenWindow(kind)
    PROVE  TypeInv'
<1> DEFINE x == [kind |-> kind, slot |-> cur, mark |-> metered[cur], level |-> Len(frames)]
<1>1. windows' = Append(windows, x) /\ UNCHANGED <<books, names, cur, extents, frames, exhausted>>
  BY DEF OpenWindow, control, policy
<1>2. TableOK' /\ StackOK' /\ HandlesOK' /\ FamilyOK' /\ size' = size
  BY <1>1, TableFrame DEF names
<1>3. cur \in 0..(size - 1) /\ metered[cur] \in Nat /\ Len(frames) \in Nat
  BY SlotsBelow, FramesTyped DEF TypeInv, TableOK, ControlOK
<1>4. x \in WindowAt(size - 1)
  BY <1>3 DEF WindowAt
<1>5. windows \in Seq(WindowAt(size - 1))
  BY DEF TypeInv, ControlOK, WindowAt
<1> HIDE DEF x
<1>6. windows' \in Seq(WindowAt(size - 1))
  BY <1>1, <1>4, <1>5, StackPush
<1>7. ControlOK'
  BY <1>1, <1>2, <1>6 DEF TypeInv, ControlOK, WindowAt
<1>8. FramesOK'
  BY <1>1 DEF TypeInv, FramesOK
<1> QED BY <1>2, <1>7, <1>8 DEF TypeInv

\* The innermost window, and the windows around it.
LEMMA TopTyped ==
    ASSUME TypeInv, Inside
    PROVE  /\ Top.slot \in 0..(size - 1) /\ Top.mark \in Nat /\ Top.level \in Nat
           /\ Front(windows) \in Seq([kind : {"forward", "pass"}, slot : 0..(size - 1), mark : Nat, level : Nat])
           /\ cur \in Slots
<1>1. windows \in Seq(WindowAt(size - 1)) /\ windows # <<>>
  BY DEF TypeInv, ControlOK, WindowAt, Inside
<1>2. Last(windows) \in WindowAt(size - 1) /\ Front(windows) \in Seq(WindowAt(size - 1))
  BY <1>1, StackPop
<1>3. cur \in Slots
  BY SlotsBelow DEF TypeInv, ControlOK
<1> QED BY <1>2, <1>3 DEF WindowAt, Top

LEMMA CloseForwardTypeInv ==
    ASSUME TypeInv, CloseForward
    PROVE  TypeInv'
<1>1. /\ Inside /\ windows' = Front(windows) /\ metered' = [metered EXCEPT ![cur] = Top.mark]
      /\ UNCHANGED <<parent, extent, used, free, children, reserved, size, gen, live, budgetFree,
                      minted, tenant, reaped, cur, extents, frames, exhausted>>
  BY DEF CloseForward, CloseWindow, Bare, control, names, policy
<1>2. Top.mark \in Nat /\ cur \in Slots
      /\ Front(windows) \in Seq([kind : {"forward", "pass"}, slot : 0..(size - 1), mark : Nat, level : Nat])
  BY <1>1, TopTyped
<1>3. TableOK'
  <2>1. metered' \in [Slots -> Nat]
    BY <1>1, <1>2 DEF TypeInv, TableOK
  <2> QED BY <1>1, <2>1 DEF TypeInv, TableOK
<1>4. StackOK'
  BY <1>1 DEF TypeInv, StackOK
<1>5. HandlesOK'
  BY <1>1 DEF TypeInv, HandlesOK, Handles
<1>6. FamilyOK'
  BY <1>1, FamilyFrame DEF TypeInv
<1>7. ControlOK' /\ FramesOK'
  BY <1>1, <1>2 DEF TypeInv, ControlOK, FramesOK
<1> QED BY <1>3, <1>4, <1>5, <1>6, <1>7 DEF TypeInv

LEMMA ClosePassTypeInv ==
    ASSUME TypeInv, NEW n \in Sizes, ClosePass(n)
    PROVE  TypeInv'
<1>1. /\ Inside /\ windows' = Front(windows) /\ Allocate(cur, Top.mark, n)
      /\ UNCHANGED <<size, cur, extents, frames>>
  BY DEF ClosePass, CloseWindow, Bare, Allocate, control, names
<1>2. Top.mark \in Nat /\ cur \in Slots
      /\ Front(windows) \in Seq([kind : {"forward", "pass"}, slot : 0..(size - 1), mark : Nat, level : Nat])
  BY <1>1, TopTyped
<1>3. n \in Nat
  BY JitAssumption
<1>4. TableOK' /\ StackOK' /\ HandlesOK' /\ FamilyOK' /\ exhausted' \in BOOLEAN
  BY <1>1, <1>2, <1>3, AllocateTypes
<1>5. ControlOK' /\ FramesOK'
  BY <1>1, <1>2, <1>4 DEF TypeInv, ControlOK, FramesOK
<1> QED BY <1>4, <1>5 DEF TypeInv

-------------------------------------------------------------------------------

\* Every step keeps the invariant.
LEMMA NextTypeInv ==
    ASSUME TypeInv, [Next]_vars
    PROVE  TypeInv'
<1>1. CASE UNCHANGED vars
  <2>1. UNCHANGED <<books, names>> /\ UNCHANGED <<cur, extents, frames, windows, exhausted, size>>
    BY <1>1 DEF vars, control, policy, names
  <2>2. ControlOK' /\ FramesOK'
    BY <2>1 DEF TypeInv, ControlOK, FramesOK
  <2> QED BY <2>1, <2>2, TableFrame DEF TypeInv
<1>2. ASSUME NEW h \in Handles, NEW n \in Requests, Carve(h, n)
      PROVE  TypeInv'
  BY <1>2, CarveTypeInv
<1>3. ASSUME NEW refusal, Fatal(refusal)
      PROVE  TypeInv'
  BY <1>3, FatalTypeInv
<1>4. ASSUME NEW h \in Handles, NEW n \in Requests, CarveRefused(h, n)
      PROVE  TypeInv'
  BY <1>3, <1>4 DEF CarveRefused
<1>5. ASSUME NEW h \in Handles, Reap(h)
      PROVE  TypeInv'
  BY <1>5, ReapTypeInv
<1>6. ASSUME NEW h \in Handles, ReapRefused(h) \/ EnterRefused(h)
      PROVE  TypeInv'
  BY <1>3, <1>6 DEF ReapRefused, EnterRefused
<1>7. ASSUME NEW h \in Handles, Enter(h)
      PROVE  TypeInv'
  BY <1>7, EnterTypeInv
<1>8. ASSUME NEW n \in Sizes, Alloc(n) \/ AllocVault(n)
      PROVE  TypeInv'
  BY <1>8, ChargeTypeInv
<1>9. CASE EndExtent \/ Break \/ Continue \/ Return
  BY <1>9, Exits, LeavesTypeInv
<1>10. CASE OpenFrame("fn") \/ OpenFrame("loop")
  BY <1>10, OpenFrameTypeInv
<1>11. CASE OpenWindow("forward") \/ OpenWindow("pass")
  BY <1>11, OpenWindowTypeInv
<1>12. CASE CloseForward
  BY <1>12, CloseForwardTypeInv
<1>13. CASE CloseRefused
  BY <1>3, <1>13 DEF CloseRefused
<1>14. ASSUME NEW n \in Sizes, ClosePass(n)
       PROVE  TypeInv'
  BY <1>14, ClosePassTypeInv
<1>15. CASE NextTest
  BY <1>15, NextTestTypeInv
<1> QED BY <1>1, <1>2, <1>4, <1>5, <1>6, <1>7, <1>8, <1>9, <1>10, <1>11, <1>12, <1>13, <1>14, <1>15
        DEF Next

\* The invariant the other theorems of this component start from.
LEMMA TypeInvariant == Spec => []TypeInv
<1>1. TypeInv /\ [Next]_vars => TypeInv'
  BY NextTypeInv
<1> QED BY <1>1, InitTypeInv, PTL DEF Spec

\* Whatever a program asks of forge.carve, forge.reap, forge.enter and @grad, the
\* indices of the JIT's table stay in it, its meters and counts stay unsigned, and
\* a dead slot is on the free stack exactly once: no index, subtraction or pop of
\* jit.rs leaves its type.
THEOREM TypeCorrect == Spec => []TypeOK
BY TypeInvariant, TypeInvOK, PTL

-------------------------------------------------------------------------------
(* Handles.                                                                 *)

\* The u32 of the generation does not wrap within a test.
NoWrap == MaxReaps < GenMod

\* The handle of a budget that is not reaped has the generation of its slot, which
\* is live and that budget's; the handle of a reaped one is a generation behind.
HandleOf(h) ==
    LET d == minted[h] IN
    IF h \in reaped
    THEN d.gen < gen[d.slot]
    ELSE d.gen = gen[d.slot] /\ tenant[d.slot] = h /\ live[d.slot]

\* No generation outruns the number of reaps.
Generations ==
    /\ \A s \in Slots : gen[s] <= Cardinality(reaped)
    /\ Cardinality(reaped) <= MaxReaps

HandleInv ==
    /\ gen[0] = 0 /\ tenant[0] = 0
    /\ Generations
    /\ \A h \in 1..Len(minted) : HandleOf(h)

\* There are finitely many reaped handles.
LEMMA ReapedFinite ==
    ASSUME TypeInv
    PROVE  IsFiniteSet(reaped) /\ Cardinality(reaped) \in Nat
<1>1. Len(minted) \in Nat /\ reaped \subseteq 1..Len(minted)
  BY LenProperties DEF TypeInv, HandlesOK
<1>2. IsFiniteSet(1..Len(minted))
  BY <1>1, FS_Interval
<1>3. IsFiniteSet(reaped)
  BY <1>1, <1>2, FS_Subset
<1> QED BY <1>3, FS_CardinalityType

\* A minted handle is a slot and a generation below the bound on reaps.
LEMMA MintedTyped ==
    ASSUME TypeInv, NEW k \in 1..Len(minted)
    PROVE  /\ minted[k].slot \in 1..(size - 1) /\ minted[k].slot \in Slots
           /\ minted[k].gen \in Nat /\ gen[minted[k].slot] \in Nat
           /\ k \in Handles /\ k # 0 /\ Descriptor(k) = minted[k]
<1>1. k \in Handles /\ k # 0 /\ Descriptor(k) = minted[k]
  BY LenProperties DEF TypeInv, HandlesOK, Handles, Descriptor
<1>2. minted[k].slot \in 1..(size - 1) /\ minted[k].slot \in Slots /\ minted[k].gen \in 0..(GenMod - 1)
  BY <1>1, DescriptorType
<1>3. gen[minted[k].slot] \in 0..(GenMod - 1)
  BY <1>2 DEF TypeInv, TableOK
<1> QED BY <1>1, <1>2, <1>3, JitAssumption

LEMMA HandleFacts ==
    ASSUME TypeInv, HandleInv, NEW h \in Handles
    PROVE  /\ Resolves(Descriptor(h)) <=> h \notin reaped
           /\ h \notin reaped => tenant[Descriptor(h).slot] = h
<1>1. CASE h = 0
  <2>1. Descriptor(h) = RootHandle /\ h \notin reaped /\ live[0] /\ 0 < size
    BY <1>1, LenProperties DEF Descriptor, TypeInv, HandlesOK, TableOK
  <2> QED BY <1>1, <2>1 DEF Resolves, RootHandle, HandleInv
<1>2. CASE h # 0
  <2>1. h \in 1..Len(minted)
    BY <1>2, LenProperties DEF Handles, TypeInv, HandlesOK
  <2>2. /\ minted[h].slot \in 1..(size - 1) /\ minted[h].gen \in Nat /\ gen[minted[h].slot] \in Nat
        /\ Descriptor(h) = minted[h]
    BY <2>1, MintedTyped
  <2>3. HandleOf(h)
    BY <2>1 DEF HandleInv
  <2>4. minted[h].slot < size
    BY <2>2, SlotsBelow DEF TypeInv
  <2>5. CASE h \in reaped
    <3>1. minted[h].gen # gen[minted[h].slot]
      BY <2>2, <2>3, <2>5 DEF HandleOf
    <3> QED BY <2>2, <2>5, <3>1 DEF Resolves
  <2>6. CASE h \notin reaped
    <3>1. minted[h].gen = gen[minted[h].slot] /\ tenant[minted[h].slot] = h /\ live[minted[h].slot]
      BY <2>3, <2>6 DEF HandleOf
    <3> QED BY <2>2, <2>4, <2>6, <3>1 DEF Resolves
  <2> QED BY <2>5, <2>6
<1> QED BY <1>1, <1>2

\* A test starts with the root's handle only.
LEMMA FreshHandleInv == Fresh => HandleInv
<1> SUFFICES ASSUME Fresh
             PROVE  HandleInv
  OBVIOUS
<1>1. Cardinality(reaped) = 0
  BY FS_EmptySet DEF Fresh
<1>2. Len(minted) = 0
  BY EmptySeq DEF Fresh
<1>3. Generations
  BY <1>1, JitAssumption DEF Fresh, Zero, Generations
<1>4. gen[0] = 0 /\ tenant[0] = 0
  BY Bounds DEF Fresh, Zero
<1> QED BY <1>2, <1>3, <1>4 DEF HandleInv

\* The beginning of a test has a fresh table, and no budget entered.
LEMMA InitFresh == Init => Fresh
BY DEF Init, Fresh

LEMMA NextTestFresh == NextTest => Fresh'
BY DEF NextTest, ClearTable, Fresh, Inside

\* A carve mints a pair of slot and generation that no earlier handle bears.
LEMMA CarveHandleInv ==
    ASSUME TypeInv, HandleInv, NEW p \in Slots, NEW c \in Slots, NEW m \in Nat, CarveStep(p, c, m)
    PROVE  HandleInv'
<1> DEFINE dc == [slot |-> c, gen |-> gen[c]]
<1>0. PICK new : new = Len(minted) + 1
  OBVIOUS
<1>1. /\ c # 0 /\ ~live[c] /\ minted' = Append(minted, dc) /\ gen' = gen /\ reaped' = reaped
  BY DEF CarveStep
<1>2. CarveWritten(p, c, m)
  BY CarveWrites
<1>3. /\ \A r \in Slots : live'[r] = IF r = c THEN TRUE ELSE live[r]
      /\ \A r \in Slots : tenant'[r] = IF r = c THEN new ELSE tenant[r]
  BY <1>0, <1>2 DEF CarveWritten
<1>4. /\ Len(minted) \in Nat /\ Len(minted') = new
      /\ \A k \in 1..Len(minted) : minted'[k] = minted[k]
      /\ minted'[new] = dc
  <2>1. minted \in Seq([slot : 1..(size - 1), gen : 0..(GenMod - 1)] \cup {dc})
    BY StackWiden DEF TypeInv, HandlesOK
  <2> HIDE DEF dc
  <2> QED BY <1>0, <1>1, <2>1, StackPush
<1>5. reaped \subseteq 1..Len(minted)
  BY DEF TypeInv, HandlesOK
<1>6. ASSUME NEW k \in 1..Len(minted)
      PROVE  HandleOf(k)'
  <2>1. minted[k].slot \in Slots /\ minted'[k] = minted[k] /\ HandleOf(k)
    BY <1>4, MintedTyped DEF HandleInv
  <2> HIDE DEF dc
  <2>2. CASE k \in reaped
    BY <1>1, <2>1, <2>2 DEF HandleOf
  <2>3. CASE k \notin reaped
    <3>1. minted[k].gen = gen[minted[k].slot] /\ tenant[minted[k].slot] = k /\ live[minted[k].slot]
      BY <2>1, <2>3 DEF HandleOf
    <3>2. minted[k].slot # c
      BY <1>1, <3>1
    <3> QED BY <1>1, <1>3, <2>1, <2>3, <3>1, <3>2 DEF HandleOf
  <2> QED BY <2>2, <2>3
<1>7. HandleOf(new)'
  <2>1. new \notin reaped' /\ minted'[new].slot = c /\ minted'[new].gen = gen'[c]
    BY <1>0, <1>1, <1>4, <1>5
  <2>2. tenant'[c] = new /\ live'[c]
    BY <1>3
  <2> QED BY <2>1, <2>2 DEF HandleOf
<1>8. \A k \in 1..Len(minted') : HandleOf(k)'
  <2>1. \A k \in 1..Len(minted') : k \in 1..Len(minted) \/ k = new
    BY <1>0, <1>4
  <2> QED BY <1>6, <1>7, <2>1
<1>9. gen'[0] = 0 /\ tenant'[0] = 0 /\ Generations'
  BY <1>1, <1>3, Bounds DEF HandleInv, Generations
<1> QED BY <1>8, <1>9 DEF HandleInv

\* Within the life of the u32 a reap always moves the generation up by one.
LEMMA ReapHandleInv ==
    ASSUME NoWrap, TypeInv, HandleInv, NEW h \in Handles, Reap(h)
    PROVE  HandleInv'
<1>1. PICK p \in Slots, c \in Slots : c = Descriptor(h).slot /\ ReapStep(p, c)
  BY ReapShape
<1>2. h \notin reaped /\ tenant[c] = h
  BY <1>1, HandleFacts DEF Reap, Reapable
<1>3. /\ c # 0 /\ reaped' = reaped \cup {h} /\ Cardinality(reaped) < MaxReaps
      /\ UNCHANGED <<minted, tenant>> /\ Len(minted) \in Nat
  BY <1>1, <1>2, LenProperties DEF Reap, ReapStep, TypeInv, HandlesOK
<1>4. Cardinality(reaped) \in Nat /\ Cardinality(reaped') = Cardinality(reaped) + 1
  BY <1>2, <1>3, ReapedFinite, FS_AddElement
<1>5. \A r \in Slots : gen[r] \in Nat /\ gen[r] \in 0..(GenMod - 1) /\ gen[r] <= Cardinality(reaped)
  <2>1. \A r \in Slots : gen[r] \in 0..(GenMod - 1) /\ gen[r] <= Cardinality(reaped)
    BY DEF TypeInv, TableOK, HandleInv, Generations
  <2> QED BY <2>1, JitAssumption
<1>6. NextGeneration(gen[c]) = gen[c] + 1
  <2>1. gen[c] + 1 \in 0..(GenMod - 1)
    BY <1>3, <1>4, <1>5, JitAssumption DEF NoWrap
  <2> QED BY <2>1, JitAssumption DEF NextGeneration
<1>7. \A r \in Slots :
          /\ gen'[r] = IF r = c THEN gen[r] + 1 ELSE gen[r]
          /\ live'[r] = IF r = c THEN FALSE ELSE live[r]
  <2>1. ReapWritten(p, c)
    BY <1>1, ReapWrites
  <2> QED BY <1>6, <2>1 DEF ReapWritten
<1>8. ASSUME NEW k \in 1..Len(minted)
      PROVE  HandleOf(k)'
  <2> DEFINE r == minted[k].slot
  <2>1. HandleOf(k) /\ minted' = minted
    BY <1>3 DEF HandleInv
  <2>2. r \in Slots /\ minted[k].gen \in Nat /\ gen[r] \in Nat
    BY MintedTyped
  <2>3. gen'[r] = (IF r = c THEN gen[r] + 1 ELSE gen[r]) /\ minted'[k] = minted[k]
    BY <1>7, <2>1, <2>2
  <2>4. CASE k \in reaped
    BY <1>3, <2>1, <2>2, <2>3, <2>4 DEF HandleOf
  <2>5. CASE k \notin reaped /\ k = h
    <3>1. r = c
      BY <1>1, <2>5, MintedTyped
    <3> QED BY <1>3, <2>1, <2>2, <2>3, <2>5, <3>1 DEF HandleOf
  <2>6. CASE k \notin reaped /\ k # h
    <3>1. tenant[r] = k /\ minted[k].gen = gen[r] /\ live[r]
      BY <2>1, <2>6 DEF HandleOf
    <3>2. r # c
      BY <1>2, <2>6, <3>1
    <3>3. live'[r] /\ gen'[r] = gen[r] /\ tenant'[r] = k /\ k \notin reaped'
      BY <1>3, <1>7, <2>2, <2>6, <3>1, <3>2
    <3> QED BY <2>3, <3>1, <3>3 DEF HandleOf
  <2> QED BY <2>4, <2>5, <2>6
<1>9. gen'[0] = 0 /\ tenant'[0] = 0
  BY <1>3, <1>7, Bounds DEF HandleInv
<1>10. Generations'
  <2>1. \A r \in Slots : gen'[r] <= Cardinality(reaped')
    <3> SUFFICES ASSUME NEW r \in Slots
                 PROVE  gen'[r] <= Cardinality(reaped) + 1
      BY <1>4
    <3>1. gen'[r] = (IF r = c THEN gen[r] + 1 ELSE gen[r]) /\ gen[r] \in Nat /\ gen[r] <= Cardinality(reaped)
      BY <1>5, <1>7
    <3> QED BY <1>4, <3>1
  <2>2. Cardinality(reaped') <= MaxReaps
    BY <1>3, <1>4, JitAssumption
  <2> QED BY <2>1, <2>2 DEF Generations
<1> QED BY <1>3, <1>8, <1>9, <1>10 DEF HandleInv

\* Every other step within a test leaves the handles and the liveness alone.
LEMMA OtherSteps ==
    ASSUME [Next]_vars,
           \A h \in Handles : ~Reap(h) /\ \A n \in Requests : ~Carve(h, n)
    PROVE  NextTest \/ UNCHANGED names
<1>1. ASSUME NEW refusal, Fatal(refusal)
      PROVE  UNCHANGED names
  BY <1>1 DEF Fatal
<1>2. ASSUME NEW h \in Handles, NEW n \in Requests, CarveRefused(h, n)
      PROVE  UNCHANGED names
  BY <1>1, <1>2 DEF CarveRefused
<1>3. ASSUME NEW h \in Handles, ReapRefused(h) \/ Enter(h) \/ EnterRefused(h)
      PROVE  UNCHANGED names
  BY <1>1, <1>3 DEF ReapRefused, Enter, EnterRefused
<1>4. ASSUME NEW n \in Sizes, Alloc(n) \/ AllocVault(n) \/ ClosePass(n)
      PROVE  UNCHANGED names
  BY <1>4 DEF Alloc, AllocVault, AllocIn, ClosePass, Allocate
<1>5. CASE EndExtent \/ Break \/ Continue \/ Return
  BY <1>5 DEF EndExtent, Break, Continue, Return, LeaveTo
<1>6. CASE OpenFrame("fn") \/ OpenFrame("loop") \/ OpenWindow("forward") \/ OpenWindow("pass")
  BY <1>6 DEF OpenFrame, OpenWindow
<1>7. CASE CloseForward \/ CloseRefused
  BY <1>1, <1>7 DEF CloseForward, CloseRefused
<1>8. CASE UNCHANGED vars
  BY <1>8 DEF vars
<1> QED BY <1>2, <1>3, <1>4, <1>5, <1>6, <1>7, <1>8 DEF Next

\* Every step keeps the handle invariant.
LEMMA StepHandleInv ==
    ASSUME NoWrap, TypeInv, HandleInv, [Next]_vars
    PROVE  HandleInv'
<1>1. ASSUME NEW h \in Handles, Reap(h)
      PROVE  HandleInv'
  BY <1>1, ReapHandleInv
<1>2. ASSUME NEW h \in Handles, NEW n \in Requests, Carve(h, n)
      PROVE  HandleInv'
  BY <1>2, CarveShape, CarveHandleInv
<1>3. CASE NextTest
  <2>1. Fresh' => HandleInv'
    BY FreshHandleInv, PTL
  <2> QED BY <1>3, <2>1, NextTestFresh
<1>4. CASE UNCHANGED names
  <2>1. UNCHANGED <<size, gen, live, budgetFree, minted, tenant, reaped>>
    BY <1>4 DEF names
  <2>2. \A k \in 1..Len(minted) : HandleOf(k)'
    BY <2>1 DEF HandleInv, HandleOf
  <2> QED BY <2>1, <2>2 DEF HandleInv, Generations
<1> QED BY <1>1, <1>2, <1>3, <1>4, OtherSteps

LEMMA HandleInvariant ==
    ASSUME NoWrap
    PROVE  Spec => [](TypeInv /\ HandleInv)
<1>1. Init => TypeInv /\ HandleInv
  BY InitTypeInv, InitFresh, FreshHandleInv
<1>2. TypeInv /\ HandleInv /\ [Next]_vars => (TypeInv /\ HandleInv)'
  BY NextTypeInv, StepHandleInv
<1> QED BY <1>1, <1>2, PTL DEF Spec

\* As long as no generation wraps, the JIT refuses a budget handle exactly when its
\* budget was reaped, though a slot and its number come back: resolve_budget.
THEOREM HandlesExact ==
    ASSUME NoWrap
    PROVE  Spec => []StaleExact
<1>1. TypeInv /\ HandleInv => StaleExact
  BY HandleFacts DEF StaleExact
<1> QED BY <1>1, HandleInvariant, PTL

-------------------------------------------------------------------------------
(* The register, and the @grad calls.                                       *)

\* The budget entered when d extents are open.
SlotAt(d) == IF d = 0 THEN 0 ELSE extents[d].slot

\* Each extent saved the budget of the one around it.
Nested ==
    /\ \A i \in 1..Len(extents) : extents[i].prev = SlotAt(i - 1)
    /\ cur = SlotAt(Len(extents))

\* While the body of the w-th @grad call is what runs, its budget is entered; while
\* that body waits, it does so in a call, made under that budget.
Waits(w) ==
    IF Len(frames) = windows[w].level
    THEN cur = windows[w].slot
    ELSE LET k == windows[w].level + 1 IN
         frames[k].kind = "fn" /\ SlotAt(frames[k].depth) = windows[w].slot

WindowsNest ==
    /\ \A w \in 1..Len(windows) : windows[w].level \in 1..Len(frames)
    /\ \A v, w \in 1..Len(windows) : v <= w => windows[v].level <= windows[w].level
    /\ \A w \in 1..Len(windows) : Waits(w)

RegisterInv == Nested /\ WindowsNest

LEMMA ExtentTyped ==
    ASSUME TypeInv
    PROVE  /\ extents \in Seq([prev : 0..(size - 1), slot : 0..(size - 1)]) /\ Len(extents) \in Nat
           /\ windows \in Seq(WindowAt(size - 1)) /\ Len(windows) \in Nat
           /\ frames \in Seq([kind : {"fn", "loop"}, depth : Nat]) /\ Len(frames) \in Nat \ {0}
BY LenProperties, FramesTyped DEF TypeInv, ControlOK, WindowAt

\* A test starts at the root, in no extent.
LEMMA FreshRegisterInv == Fresh => RegisterInv
<1> SUFFICES ASSUME Fresh
             PROVE  RegisterInv
  OBVIOUS
<1>1. Len(extents) = 0 /\ Len(windows) = 0 /\ cur = 0
  BY EmptySeq DEF Fresh
<1> QED BY <1>1 DEF RegisterInv, Nested, WindowsNest, SlotAt

\* Where ordinary code runs, every @grad call waits.
LEMMA AllWait ==
    ASSUME TypeInv, WindowsNest, ~Bare, NEW w \in 1..Len(windows)
    PROVE  /\ windows[w].level \in Nat /\ windows[w].level < Len(frames)
           /\ windows[w].level + 1 \in 1..Len(frames)
           /\ frames[windows[w].level + 1].kind = "fn"
           /\ SlotAt(frames[windows[w].level + 1].depth) = windows[w].slot
<1>1. Len(windows) \in Nat \ {0} /\ w \in Nat /\ w <= Len(windows) /\ Len(frames) \in Nat
  BY ExtentTyped
<1>2. Inside /\ Top = windows[Len(windows)]
  <2>1. windows # <<>>
    BY <1>1, EmptySeq
  <2> QED BY <2>1 DEF Inside, Top, Last
<1>3. windows[Len(windows)].level # Len(frames)
  BY <1>2 DEF Bare
<1>4. /\ windows[w].level \in 1..Len(frames) /\ windows[Len(windows)].level \in 1..Len(frames)
      /\ windows[w].level <= windows[Len(windows)].level
  BY <1>1 DEF WindowsNest
<1>5. /\ windows[w].level \in Nat /\ windows[w].level < Len(frames)
      /\ windows[w].level + 1 \in 1..Len(frames) /\ Len(frames) # windows[w].level
  BY <1>1, <1>3, <1>4
<1>6. Waits(w)
  BY DEF WindowsNest
<1> QED BY <1>5, <1>6 DEF Waits

\* Steps that neither move control nor open or close a @grad call.
LEMMA FrameRegisterInv ==
    ASSUME RegisterInv, UNCHANGED <<cur, extents, frames, windows>>
    PROVE  RegisterInv'
BY DEF RegisterInv, Nested, WindowsNest, Waits, SlotAt

\* An extent saves the register and sets it.
LEMMA EnterRegisterInv ==
    ASSUME TypeInv, RegisterInv, NEW h \in Handles, Enter(h)
    PROVE  RegisterInv'
<1> DEFINE E == [prev : 0..(size - 1), slot : 0..(size - 1)]
<1>1. PICK s : s = Descriptor(h).slot
  OBVIOUS
<1> DEFINE x == [prev |-> cur, slot |-> s]
<1>2. /\ ~Bare /\ extents' = Append(extents, x) /\ cur' = s /\ UNCHANGED <<frames, windows>>
  BY <1>1 DEF Enter
<1>3. x \in E /\ extents \in Seq(E) /\ x.slot = s /\ x.prev = cur
  BY <1>1, DescriptorType DEF TypeInv, ControlOK
<1> HIDE DEF x
<1>4. PICK n \in Nat : n = Len(extents)
  BY ExtentTyped
<1>5. /\ Len(extents') = n + 1 /\ extents'[n + 1] = x
      /\ \A i \in 1..n : extents'[i] = extents[i]
  BY <1>2, <1>3, <1>4, StackPush
<1>6. ASSUME NEW d \in Nat, d <= n
      PROVE  SlotAt(d)' = SlotAt(d)
  BY <1>5, <1>6 DEF SlotAt
<1>7. Nested'
  <2>1. SlotAt(n + 1)' = s
    BY <1>3, <1>5 DEF SlotAt
  <2>2. ASSUME NEW i \in 1..(n + 1)
        PROVE  extents'[i].prev = SlotAt(i - 1)'
    <3>1. CASE i = n + 1
      <4>1. n \in Nat /\ n <= n /\ i - 1 = n
        BY <3>1
      <4>2. SlotAt(n)' = cur
        BY <1>4, <1>6, <4>1 DEF RegisterInv, Nested
      <4>3. extents'[i].prev = cur
        BY <1>3, <1>5, <3>1
      <4> QED BY <4>1, <4>2, <4>3
    <3>2. CASE i # n + 1
      <4>1. i \in 1..n /\ i - 1 \in Nat /\ i - 1 <= n
        BY <3>2
      <4> QED BY <1>4, <1>5, <1>6, <4>1 DEF RegisterInv, Nested
    <3> QED BY <3>1, <3>2
  <2>3. \A i \in 1..Len(extents') : extents'[i].prev = SlotAt(i - 1)'
    BY <1>5, <2>2
  <2>4. cur' = SlotAt(Len(extents))'
    BY <1>2, <1>5, <2>1
  <2> QED BY <2>3, <2>4 DEF Nested
<1>8. WindowsNest'
  <2>1. ASSUME NEW w \in 1..Len(windows)
        PROVE  Waits(w)'
    <3> DEFINE k == windows[w].level + 1
    <3>1. /\ windows[w].level \in Nat /\ windows[w].level < Len(frames) /\ k \in 1..Len(frames)
          /\ frames[k].kind = "fn" /\ SlotAt(frames[k].depth) = windows[w].slot
          /\ Len(frames) \in Nat
      BY <1>2, AllWait, ExtentTyped DEF RegisterInv
    <3>2. PICK d : d = frames[k].depth
      OBVIOUS
    <3>3. d \in Nat /\ d <= n
      BY <1>4, <3>1, <3>2, FrameTyped DEF TypeInv, FramesOK
    <3>4. SlotAt(d)' = windows[w].slot
      BY <1>6, <3>1, <3>2, <3>3
    <3>5. Len(frames) # windows[w].level
      BY <3>1
    <3>6. SlotAt(frames[k].depth)' = SlotAt(d)'
      BY <1>2, <3>2 DEF SlotAt
    <3> QED BY <1>2, <3>1, <3>4, <3>5, <3>6 DEF Waits
  <2> QED BY <1>2, <2>1 DEF RegisterInv, WindowsNest
<1> QED BY <1>7, <1>8 DEF RegisterInv

\* The exits emitted for the outermost extent left restore the register of all of
\* them.
LEMMA LeavesRegisterInv ==
    ASSUME TypeInv, RegisterInv, NEW d \in Nat, NEW l \in 1..Len(frames), Leaves(d, l)
    PROVE  RegisterInv'
<1>1. /\ ~Bare /\ d <= Len(extents) /\ cur' = ExitsTo(d)
      /\ extents' = SubSeq(extents, 1, d) /\ frames' = SubSeq(frames, 1, l)
      /\ windows' = windows
      /\ \A i \in 1..l : frames[i].depth <= d
      /\ \A k \in 1..Len(frames) :
            frames[k].kind = "fn" => l >= k \/ (l = k - 1 /\ d = frames[k].depth)
  BY DEF Leaves, LeaveTo
<1>2. l \in Nat /\ l >= 1 /\ l <= Len(frames) /\ Len(frames) \in Nat /\ Len(extents) \in Nat
  BY ExtentTyped
<1>3. Len(extents') = d /\ \A i \in 1..d : extents'[i] = extents[i]
  BY <1>1, ExtentTyped, StackCut
<1>4. Len(frames') = l /\ \A i \in 1..l : frames'[i] = frames[i]
  BY <1>1, <1>2, ExtentTyped, StackCut
<1>5. ASSUME NEW e \in Nat, e <= d
      PROVE  SlotAt(e)' = SlotAt(e)
  BY <1>3, <1>5 DEF SlotAt
<1>6. cur' = SlotAt(d)
  <2>1. CASE Len(extents) <= d
    BY <1>1, <1>2, <2>1 DEF ExitsTo, Depth, RegisterInv, Nested
  <2>2. CASE ~(Len(extents) <= d)
    <3>1. d + 1 \in 1..Len(extents) /\ d + 1 - 1 = d /\ cur' = extents[d + 1].prev
      BY <1>1, <1>2, <2>2 DEF ExitsTo, Depth
    <3>2. extents[d + 1].prev = SlotAt(d + 1 - 1)
      BY <3>1 DEF RegisterInv, Nested
    <3> QED BY <3>1, <3>2
  <2> QED BY <2>1, <2>2
<1>7. Nested'
  <2>1. ASSUME NEW i \in 1..d
        PROVE  extents'[i].prev = SlotAt(i - 1)'
    <3>1. i \in 1..Len(extents) /\ i - 1 \in Nat /\ i - 1 <= d
      BY <1>1, <1>2
    <3> QED BY <1>3, <1>5, <3>1 DEF RegisterInv, Nested
  <2>2. \A i \in 1..Len(extents') : extents'[i].prev = SlotAt(i - 1)'
    BY <1>3, <2>1
  <2>3. SlotAt(d)' = SlotAt(d)
    BY <1>5
  <2>4. cur' = SlotAt(Len(extents))'
    <3>1. SlotAt(Len(extents))' = SlotAt(d)'
      BY <1>3 DEF SlotAt
    <3> QED BY <1>6, <2>3, <3>1
  <2> QED BY <2>2, <2>4 DEF Nested
<1>8. ASSUME NEW w \in 1..Len(windows)
      PROVE  windows[w].level \in 1..l /\ Waits(w)'
  <2>1. PICK k : k = windows[w].level + 1
    OBVIOUS
  <2>2. /\ windows[w].level \in 1..Len(frames) /\ windows[w].level = k - 1 /\ k \in 1..Len(frames)
        /\ frames[k].kind = "fn" /\ SlotAt(frames[k].depth) = windows[w].slot
    <3>1. windows[w].level \in 1..Len(frames)
      BY DEF RegisterInv, WindowsNest
    <3>2. /\ windows[w].level \in Nat /\ k \in 1..Len(frames)
          /\ frames[k].kind = "fn" /\ SlotAt(frames[k].depth) = windows[w].slot
      BY <1>1, <2>1, AllWait DEF RegisterInv
    <3> QED BY <2>1, <3>1, <3>2
  <2>3. PICK e \in Nat : e = frames[k].depth
    BY <2>2, FrameTyped
  <2>4. CASE l >= k
    <3>1. k \in 1..l /\ windows[w].level \in 1..l /\ l # windows[w].level
      BY <1>2, <2>2, <2>4
    <3>2. frames'[k] = frames[k] /\ e <= d
      BY <1>1, <1>4, <2>3, <3>1
    <3>3. SlotAt(e)' = windows[w].slot
      BY <1>5, <2>2, <2>3, <3>2
    <3>4. SlotAt(frames[k].depth)' = SlotAt(e)'
      BY <2>3, <3>2 DEF SlotAt
    <3> QED BY <1>1, <1>4, <2>1, <2>2, <3>1, <3>2, <3>3, <3>4 DEF Waits
  <2>5. CASE l = k - 1 /\ d = e
    <3>1. windows[w].level \in 1..l /\ l = windows[w].level
      BY <1>2, <2>2, <2>5
    <3>2. cur' = windows[w].slot
      BY <1>6, <2>2, <2>3, <2>5
    <3> QED BY <1>1, <1>4, <3>1, <3>2 DEF Waits
  <2> QED BY <1>1, <2>2, <2>3, <2>4, <2>5
<1>9. WindowsNest'
  BY <1>1, <1>4, <1>8 DEF RegisterInv, WindowsNest
<1> QED BY <1>7, <1>9 DEF RegisterInv

\* A call leaves the register alone.
LEMMA OpenFrameRegisterInv ==
    ASSUME TypeInv, RegisterInv, NEW kind \in {"fn", "loop"}, OpenFrame(kind)
    PROVE  RegisterInv'
<1> DEFINE F == [kind : {"fn", "loop"}, depth : Nat]
<1>1. PICK n \in Nat \ {0} : n = Len(frames)
  BY ExtentTyped
<1>2. PICK d \in Nat : d = Len(extents)
  BY ExtentTyped
<1> DEFINE x == [kind |-> kind, depth |-> d]
<1>3. frames' = Append(frames, x) /\ UNCHANGED <<cur, extents, windows>> /\ (Bare => kind = "fn")
  BY <1>2 DEF OpenFrame, Depth
<1>4. x \in F /\ frames \in Seq(F) /\ x.kind = kind /\ x.depth = d
  BY ExtentTyped
<1> HIDE DEF x
<1>5. Len(frames') = n + 1 /\ frames'[n + 1] = x /\ \A i \in 1..n : frames'[i] = frames[i]
  BY <1>1, <1>3, <1>4, StackPush
<1>6. Nested'
  BY <1>3 DEF RegisterInv, Nested, SlotAt
<1>7. ASSUME NEW w \in 1..Len(windows)
      PROVE  windows[w].level \in 1..(n + 1) /\ Waits(w)'
  <2>1. PICK v : v = windows[w].level
    OBVIOUS
  <2>2. v \in 1..n /\ v \in 1..(n + 1) /\ v # n + 1 /\ windows'[w].level = v /\ windows'[w].slot = windows[w].slot
    BY <1>1, <1>3, <2>1 DEF RegisterInv, WindowsNest
  <2>3. Waits(w)
    BY DEF RegisterInv, WindowsNest
  <2>4. CASE v = n
    <3>1. Bare
      <4>1. ASSUME ~Bare
            PROVE  FALSE
        <5>1. windows[w].level < Len(frames)
          BY <4>1, AllWait DEF RegisterInv
        <5> QED BY <1>1, <2>1, <2>2, <2>4, <5>1
      <4> QED BY <4>1
    <3>2. frames'[v + 1].kind = "fn" /\ frames'[v + 1].depth = d
      BY <1>3, <1>4, <1>5, <2>4, <3>1
    <3>3. cur = windows[w].slot /\ cur = SlotAt(d)
      BY <1>1, <1>2, <2>1, <2>3, <2>4 DEF Waits, RegisterInv, Nested
    <3>4. SlotAt(frames[v + 1].depth)' = windows'[w].slot
      BY <1>3, <2>2, <3>2, <3>3 DEF SlotAt
    <3> QED BY <1>5, <2>1, <2>2, <3>2, <3>4 DEF Waits
  <2>5. CASE v # n
    <3>1. v + 1 \in 1..n
      BY <2>2, <2>5
    <3>2. frames[v + 1].kind = "fn" /\ SlotAt(frames[v + 1].depth) = windows[w].slot
      BY <1>1, <2>1, <2>3, <2>5 DEF Waits
    <3>3. frames'[v + 1] = frames[v + 1]
      BY <1>5, <3>1
    <3>4. SlotAt(frames[v + 1].depth)' = windows'[w].slot
      BY <1>3, <2>2, <3>2, <3>3 DEF SlotAt
    <3> QED BY <1>5, <2>1, <2>2, <3>2, <3>3, <3>4 DEF Waits
  <2> QED BY <2>1, <2>2, <2>4, <2>5
<1>8. WindowsNest'
  BY <1>3, <1>5, <1>7 DEF RegisterInv, WindowsNest
<1> QED BY <1>6, <1>8 DEF RegisterInv

\* A @grad call remembers the budget it begins under.
LEMMA OpenWindowRegisterInv ==
    ASSUME TypeInv, RegisterInv, NEW kind \in {"forward", "pass"}, OpenWindow(kind)
    PROVE  RegisterInv'
<1> DEFINE x == [kind |-> kind, slot |-> cur, mark |-> metered[cur], level |-> Len(frames)]
<1>1. windows' = Append(windows, x) /\ UNCHANGED <<cur, extents, frames>>
  BY DEF OpenWindow, control
<1>2. x \in WindowAt(size - 1) /\ x.slot = cur /\ x.level = Len(frames)
  <2>1. cur \in 0..(size - 1) /\ metered[cur] \in Nat /\ Len(frames) \in Nat
    BY SlotsBelow, ExtentTyped DEF TypeInv, TableOK, ControlOK
  <2> QED BY <2>1 DEF WindowAt
<1> HIDE DEF x
<1>3. PICK n \in Nat : n = Len(windows)
  BY ExtentTyped
<1>4. Len(windows') = n + 1 /\ windows'[n + 1] = x /\ \A w \in 1..n : windows'[w] = windows[w]
  BY <1>1, <1>2, <1>3, ExtentTyped, StackPush
<1>5. /\ Len(frames) \in Nat \ {0}
      /\ \A w \in 1..n : windows[w].level \in 1..Len(frames) /\ Waits(w)
      /\ \A v, w \in 1..n : v <= w => windows[v].level <= windows[w].level
  BY <1>3, ExtentTyped DEF RegisterInv, WindowsNest
<1>6. Nested'
  BY <1>1 DEF RegisterInv, Nested, SlotAt
<1>7. \A w \in 1..(n + 1) : w = n + 1 \/ w \in 1..n
  OBVIOUS
<1>8. \A w \in 1..(n + 1) : windows'[w].level \in 1..Len(frames')
  BY <1>1, <1>2, <1>4, <1>5, <1>7
<1>9. ASSUME NEW v \in 1..(n + 1), NEW w \in 1..(n + 1), v <= w
      PROVE  windows'[v].level <= windows'[w].level
  <2>1. CASE w = n + 1
    <3>1. windows'[w].level = Len(frames) /\ windows'[v].level \in 1..Len(frames)
      BY <1>1, <1>2, <1>4, <1>8, <2>1
    <3> QED BY <1>5, <3>1
  <2>2. CASE w \in 1..n
    <3>1. v \in 1..n
      BY <1>9, <2>2
    <3> QED BY <1>4, <1>5, <1>9, <2>2, <3>1
  <2> QED BY <1>7, <2>1, <2>2
<1>10. ASSUME NEW w \in 1..(n + 1)
       PROVE  Waits(w)'
  <2>1. CASE w = n + 1
    BY <1>1, <1>2, <1>4, <2>1 DEF Waits
  <2>2. CASE w \in 1..n
    BY <1>1, <1>4, <1>5, <2>2 DEF Waits, SlotAt
  <2> QED BY <1>7, <2>1, <2>2
<1>11. WindowsNest'
  BY <1>4, <1>8, <1>9, <1>10 DEF WindowsNest
<1> QED BY <1>6, <1>11 DEF RegisterInv

\* The end of a @grad call leaves the register alone.
LEMMA CloseRegisterInv ==
    ASSUME TypeInv, RegisterInv, NEW kind, CloseWindow(kind)
    PROVE  RegisterInv'
<1>1. windows # <<>> /\ windows' = Front(windows) /\ UNCHANGED <<cur, extents, frames>>
  BY DEF CloseWindow, Bare, Inside, control
<1>2. /\ Len(windows) \in Nat \ {0} /\ Len(windows') = Len(windows) - 1
      /\ \A w \in 1..(Len(windows) - 1) : windows'[w] = windows[w]
  BY <1>1, ExtentTyped, StackPop
<1>3. \A w \in 1..Len(windows') : w \in 1..Len(windows) /\ windows'[w] = windows[w]
  BY <1>2
<1>4. Nested'
  BY <1>1 DEF RegisterInv, Nested, SlotAt
<1>5. WindowsNest'
  BY <1>1, <1>3 DEF RegisterInv, WindowsNest, Waits, SlotAt
<1> QED BY <1>4, <1>5 DEF RegisterInv

\* Every step keeps the register invariant.
LEMMA StepRegisterInv ==
    ASSUME TypeInv, RegisterInv, [Next]_vars
    PROVE  RegisterInv'
<1>1. ASSUME NEW refusal, Fatal(refusal)
      PROVE  RegisterInv'
  BY <1>1, FrameRegisterInv DEF Fatal, control
<1>2. ASSUME NEW h \in Handles, NEW n \in Requests, Carve(h, n)
      PROVE  RegisterInv'
  BY <1>2, FrameRegisterInv DEF Carve, control
<1>3. ASSUME NEW h \in Handles, NEW n \in Requests, CarveRefused(h, n)
      PROVE  RegisterInv'
  BY <1>1, <1>3 DEF CarveRefused
<1>4. ASSUME NEW h \in Handles, Reap(h)
      PROVE  RegisterInv'
  BY <1>4, FrameRegisterInv DEF Reap, control
<1>5. ASSUME NEW h \in Handles, ReapRefused(h) \/ EnterRefused(h)
      PROVE  RegisterInv'
  BY <1>1, <1>5 DEF ReapRefused, EnterRefused
<1>6. ASSUME NEW h \in Handles, Enter(h)
      PROVE  RegisterInv'
  BY <1>6, EnterRegisterInv
<1>7. ASSUME NEW n \in Sizes, Alloc(n) \/ AllocVault(n)
      PROVE  RegisterInv'
  BY <1>7, FrameRegisterInv DEF Alloc, AllocVault, AllocIn, control
<1>8. CASE EndExtent \/ Break \/ Continue \/ Return
  BY <1>8, Exits, LeavesRegisterInv
<1>9. CASE OpenFrame("fn") \/ OpenFrame("loop")
  BY <1>9, OpenFrameRegisterInv
<1>10. CASE OpenWindow("forward") \/ OpenWindow("pass")
  BY <1>10, OpenWindowRegisterInv
<1>11. CASE CloseForward
  BY <1>11, CloseRegisterInv DEF CloseForward
<1>12. CASE CloseRefused
  BY <1>1, <1>12 DEF CloseRefused
<1>13. ASSUME NEW n \in Sizes, ClosePass(n)
       PROVE  RegisterInv'
  BY <1>13, CloseRegisterInv DEF ClosePass
<1>14. CASE NextTest
  <2>1. Fresh' => RegisterInv'
    BY FreshRegisterInv, PTL
  <2> QED BY <1>14, <2>1, NextTestFresh
<1>15. CASE UNCHANGED vars
  BY <1>15, FrameRegisterInv DEF vars, control
<1> QED BY <1>2, <1>3, <1>4, <1>5, <1>6, <1>7, <1>8, <1>9, <1>10, <1>11, <1>12, <1>13, <1>14, <1>15
        DEF Next

LEMMA RegisterInvariant == Spec => [](TypeInv /\ RegisterInv)
<1>1. Init => TypeInv /\ RegisterInv
  BY InitTypeInv, InitFresh, FreshRegisterInv
<1>2. TypeInv /\ RegisterInv /\ [Next]_vars => (TypeInv /\ RegisterInv)'
  BY NextTypeInv, StepRegisterInv
<1> QED BY <1>1, <1>2, PTL DEF Spec

\* By whatever edges a program left the extents it was in (end, break, continue,
\* return, `?`), however many at once and through however many loops and calls,
\* the register is the budget of the innermost extent it is still in: the exits
\* emitted for the outermost extent left are enough.
THEOREM RegisterRestored == Spec => []RegisterFollowsExtents
<1>1. TypeInv /\ RegisterInv => RegisterFollowsExtents
  <2> SUFFICES ASSUME TypeInv, RegisterInv
               PROVE  RegisterFollowsExtents
    OBVIOUS
  <2>1. cur = SlotAt(Len(extents)) /\ extents \in Seq([prev : 0..(size - 1), slot : 0..(size - 1)])
    BY ExtentTyped DEF RegisterInv, Nested
  <2>2. CASE extents = <<>>
    BY <2>1, <2>2 DEF SlotAt, RegisterFollowsExtents
  <2>3. CASE extents # <<>>
    <3>1. Len(extents) # 0
      BY <2>1, <2>3, EmptySeq
    <3> QED BY <2>1, <2>3, <3>1 DEF SlotAt, RegisterFollowsExtents, Last
  <2> QED BY <2>2, <2>3
<1> QED BY <1>1, RegisterInvariant, PTL

\* A @grad call ends under the budget it began under, whatever code the arguments
\* and literals of its body ran: the budget assertion of restore_internal is never
\* what ends a program.
THEOREM GradReturnsHome == Spec => []MarkComesHome
<1>1. TypeInv /\ RegisterInv => MarkComesHome
  <2> SUFFICES ASSUME TypeInv, RegisterInv, Bare
               PROVE  cur = Top.slot
    BY DEF MarkComesHome
  <2>1. windows # <<>> /\ Len(frames) = Top.level
    BY DEF Bare, Inside
  <2>2. Len(windows) \in 1..Len(windows) /\ Top = windows[Len(windows)]
    BY <2>1, EmptySeq, ExtentTyped DEF Top, Last
  <2>3. Waits(Len(windows))
    BY <2>2 DEF RegisterInv, WindowsNest
  <2> QED BY <2>1, <2>2, <2>3 DEF Waits
<1> QED BY <1>1, RegisterInvariant, PTL

-------------------------------------------------------------------------------
(* The books.                                                               *)

\* Arena and table part at the end of a @grad call only, where the arena's meter
\* goes back and the table's does not.
Balanced(s) ==
    /\ metered[s] <= used[s]
    /\ metered[s] + reserved[s] + free[s] <= extent[s]
    /\ used[s] = metered[s] => free[s] + used[s] + reserved[s] = extent[s]

Dead(s) == metered[s] = 0 /\ free[s] = 0

BooksInv ==
    /\ extent[0] = Limit
    /\ exhausted \/ \A s \in 0..(size - 1) : IF live[s] THEN Balanced(s) ELSE Dead(s)

LEMMA MeterTyped ==
    ASSUME TypeInv, NEW s \in Slots
    PROVE  /\ metered[s] \in Nat /\ used[s] \in Nat /\ free[s] \in Nat
           /\ reserved[s] \in Nat /\ extent[s] \in Nat /\ children[s] \in Nat
BY DEF TypeInv, TableOK

\* The table of a test that starts balances.
LEMMA FreshBooksInv == Fresh => BooksInv
<1> SUFFICES ASSUME Fresh
             PROVE  BooksInv
  OBVIOUS
<1>1. 0 \in Slots /\ Limit \in Nat /\ \A s \in 0..(size - 1) : s = 0
  BY Bounds, JitAssumption DEF Fresh
<1>2. extent[0] = Limit /\ free[0] = Limit /\ used[0] = 0 /\ metered[0] = 0 /\ reserved[0] = 0 /\ live[0]
  BY <1>1 DEF Fresh, RootAlone, Zero
<1> QED BY <1>1, <1>2 DEF BooksInv, Balanced

\* A carve moves its extent from the parent's offer to the child.
LEMMA CarveBooksInv ==
    ASSUME TypeInv, BooksInv, NEW p \in Slots, NEW c \in Slots, NEW m \in Nat, CarveStep(p, c, m)
    PROVE  BooksInv'
<1>1. /\ p \in 0..(size - 1) /\ live[p] /\ m <= free[p] /\ c # 0 /\ c # p /\ exhausted' = exhausted
      /\ \A r \in 0..(size' - 1) : r \in 0..(size - 1) \/ r = c
  BY DEF CarveStep
<1>2. CarveWritten(p, c, m)
  BY CarveWrites
<1>3. extent'[0] = Limit
  BY <1>1, <1>2, Bounds DEF CarveWritten, BooksInv
<1>4. ASSUME ~exhausted, NEW r \in 0..(size' - 1)
      PROVE  IF live'[r] THEN Balanced(r)' ELSE Dead(r)'
  <2>1. r \in Slots /\ (r # c => r \in 0..(size - 1))
    BY <1>1, SlotsBelow DEF TypeInv
  <2>2. /\ extent'[r] = IF r = c THEN m ELSE extent[r]
        /\ used'[r] = IF r = c THEN 0 ELSE used[r]
        /\ metered'[r] = IF r = c THEN 0 ELSE metered[r]
        /\ free'[r] = IF r = c THEN m ELSE IF r = p THEN free[r] - m ELSE free[r]
        /\ reserved'[r] = IF r = c THEN 0 ELSE IF r = p THEN reserved[r] + m ELSE reserved[r]
        /\ live'[r] = IF r = c THEN TRUE ELSE live[r]
    BY <1>2, <2>1 DEF CarveWritten
  <2>3. CASE r = c
    <3>1. Balanced(r)'
      BY <2>2, <2>3 DEF Balanced
    <3> QED BY <2>2, <2>3, <3>1
  <2>4. CASE r # c /\ r = p
    <3>1. Balanced(r)
      BY <1>1, <1>4, <2>4 DEF BooksInv
    <3>2. /\ extent'[r] = extent[r] /\ used'[r] = used[r] /\ metered'[r] = metered[r]
          /\ free'[r] = free[r] - m /\ reserved'[r] = reserved[r] + m
      BY <2>2, <2>4
    <3>3. Balanced(r)'
      BY <2>1, <3>1, <3>2, MeterTyped DEF Balanced
    <3> QED BY <1>1, <2>2, <2>4, <3>3
  <2>5. CASE r # c /\ r # p
    <3>1. IF live[r] THEN Balanced(r) ELSE Dead(r)
      BY <1>4, <2>1, <2>5 DEF BooksInv
    <3> QED BY <2>2, <2>5, <3>1 DEF Balanced, Dead
  <2> QED BY <2>3, <2>4, <2>5
<1> QED BY <1>1, <1>3, <1>4 DEF BooksInv

\* A reap returns to the parent what it lent.
LEMMA ReapBooksInv ==
    ASSUME TypeInv, BooksInv, NEW p \in Slots, NEW c \in Slots, ReapStep(p, c)
    PROVE  BooksInv'
<1>1. /\ c # 0 /\ c # p /\ live[c] /\ live[p] /\ p = parent[c] /\ size' = size /\ exhausted' = exhausted
  BY DEF ReapStep
<1>2. ReapWritten(p, c)
  BY ReapWrites
<1>3. extent'[0] = Limit
  BY <1>1, <1>2, Bounds DEF ReapWritten, BooksInv
<1>4. reserved[p] >= extent[c]
  BY <1>1, Owed
<1>5. ASSUME ~exhausted, NEW r \in 0..(size - 1)
      PROVE  IF live'[r] THEN Balanced(r)' ELSE Dead(r)'
  <2>1. r \in Slots /\ IF live[r] THEN Balanced(r) ELSE Dead(r)
    BY <1>5, SlotsBelow DEF TypeInv, BooksInv
  <2>2. /\ extent'[r] = IF r = c THEN 0 ELSE extent[r]
        /\ used'[r] = IF r = c THEN 0 ELSE used[r]
        /\ metered'[r] = IF r = c THEN 0 ELSE metered[r]
        /\ free'[r] = IF r = c THEN 0 ELSE IF r = p THEN free[r] + extent[c] ELSE free[r]
        /\ reserved'[r] = IF r = p THEN reserved[r] - extent[c] ELSE reserved[r]
        /\ live'[r] = IF r = c THEN FALSE ELSE live[r]
    BY <1>2, <2>1 DEF ReapWritten
  <2>3. CASE r = c
    BY <2>2, <2>3 DEF Dead
  <2>4. CASE r # c /\ r = p
    <3>1. Balanced(r)
      BY <1>1, <2>1, <2>4
    <3>2. /\ extent'[r] = extent[r] /\ used'[r] = used[r] /\ metered'[r] = metered[r]
          /\ free'[r] = free[r] + extent[c] /\ reserved'[r] = reserved[r] - extent[c]
      BY <2>2, <2>4
    <3>3. Balanced(r)'
      BY <1>4, <2>1, <2>4, <3>1, <3>2, MeterTyped DEF Balanced
    <3> QED BY <1>1, <2>2, <2>4, <3>3
  <2>5. CASE r # c /\ r # p
    BY <2>1, <2>2, <2>5 DEF Balanced, Dead
  <2> QED BY <2>3, <2>4, <2>5
<1> QED BY <1>1, <1>3, <1>5 DEF BooksInv

\* What PRE-A lets through without a record has room: for the root without
\* children nothing is carved out, and without --forge its meter is below MaxUsed.
LEMMA PreAHasRoom ==
    ASSUME TypeInv, BooksInv, ~exhausted, NEW s \in 0..(size - 1), live[s],
           NEW m \in Nat, NEW n \in Nat, m <= metered[s], PreA(s, m, n), used[s] + n <= MaxUsed
    PROVE  \/ n <= free[s]
           \/ reserved[s] = 0 /\ m + n <= extent[s]
<1>1. s \in Slots /\ Balanced(s)
  BY SlotsBelow DEF TypeInv, BooksInv
<1>2. CASE ~(s = 0 /\ children[0] = 0)
  BY <1>2 DEF PreA
<1>3. CASE s = 0 /\ children[0] = 0
  <2>1. reserved[s] = 0
    BY <1>1, <1>3, Childless
  <2>2. CASE m + n <= extent[s]
    BY <2>1, <2>2
  <2>3. CASE ~Bounded
    <3>1. MaxUsed <= Limit /\ extent[s] = Limit /\ MaxUsed \in Nat /\ Limit \in Nat
      BY <1>3, <2>3, JitAssumption DEF BooksInv
    <3>2. m + n <= extent[s]
      BY <1>1, <3>1, MeterTyped DEF Balanced
    <3> QED BY <2>1, <3>2
  <2> QED BY <1>3, <2>2, <2>3 DEF PreA, ArenaFits
<1> QED BY <1>2, <1>3

\* A charge that PRE-A let pass keeps the books; one that only the recording
\* policy served leaves a record.
LEMMA AllocateBooksInv ==
    ASSUME TypeInv, BooksInv, NEW s \in 0..(size - 1), NEW m \in Nat, NEW n \in Nat,
           m <= metered[s], Allocate(s, m, n)
    PROVE  BooksInv'
<1>1. /\ UNCHANGED <<size, live>> /\ s \in Slots
      /\ exhausted' = (exhausted \/ (records /\ ~PreA(s, m, n)))
  BY SlotsBelow DEF Allocate, names, TypeInv
<1>2. CASE UNCHANGED books
  BY <1>1, <1>2 DEF books, BooksInv, Balanced, Dead
<1>3. CASE Served(s, m, n) /\ (PreA(s, m, n) \/ records)
  <2>1. UNCHANGED <<extent, reserved>> /\ used[s] + n <= MaxUsed
    BY <1>3 DEF Served
  <2>2. \A r \in Slots :
            /\ metered'[r] = IF r = s THEN m + n ELSE metered[r]
            /\ used'[r] = IF r = s THEN used[r] + n ELSE used[r]
            /\ free'[r] = IF r = s THEN SaturatingSub(free[r], n) ELSE free[r]
    <3>1. /\ metered' = [metered EXCEPT ![s] = m + n]
          /\ used' = [used EXCEPT ![s] = @ + n]
          /\ free' = [free EXCEPT ![s] = SaturatingSub(@, n)]
      BY <1>3 DEF Served
    <3>2. metered \in [Slots -> Nat] /\ used \in [Slots -> Nat] /\ free \in [Slots -> Nat]
      BY DEF TypeInv, TableOK
    <3> QED BY <3>1, <3>2
  <2>3. ASSUME ~exhausted', NEW r \in 0..(size - 1)
        PROVE  IF live[r] THEN Balanced(r)' ELSE Dead(r)'
    <3>1. ~exhausted /\ PreA(s, m, n)
      BY <1>1, <1>3, <2>3
    <3>2. r \in Slots /\ IF live[r] THEN Balanced(r) ELSE Dead(r)
      BY <3>1, SlotsBelow DEF TypeInv, BooksInv
    <3>3. CASE r # s
      BY <1>1, <2>1, <2>2, <3>2, <3>3 DEF Balanced, Dead
    <3>4. CASE r = s /\ live[s]
      <4>1. Balanced(s)
        BY <3>2, <3>4
      <4>2. \/ n <= free[s]
            \/ reserved[s] = 0 /\ m + n <= extent[s]
        BY <2>1, <3>1, <3>4, PreAHasRoom
      <4>3. /\ metered'[s] = m + n /\ used'[s] = used[s] + n /\ free'[s] = SaturatingSub(free[s], n)
            /\ reserved'[s] = reserved[s] /\ extent'[s] = extent[s]
        BY <1>1, <2>1, <2>2
      <4>4. /\ m + n <= used[s] + n
            /\ m + n + reserved[s] + SaturatingSub(free[s], n) <= extent[s]
            /\ used[s] + n = m + n => SaturatingSub(free[s], n) + (used[s] + n) + reserved[s] = extent[s]
        <5>1. /\ metered[s] \in Nat /\ used[s] \in Nat /\ free[s] \in Nat
              /\ reserved[s] \in Nat /\ extent[s] \in Nat
          BY <1>1, MeterTyped
        <5>2. /\ metered[s] <= used[s] /\ metered[s] + reserved[s] + free[s] <= extent[s]
              /\ used[s] = metered[s] => free[s] + used[s] + reserved[s] = extent[s]
          BY <4>1 DEF Balanced
        <5>3. PICK M, U, F, R, E \in Nat :
                  /\ M = metered[s] /\ U = used[s] /\ F = free[s]
                  /\ R = reserved[s] /\ E = extent[s]
          BY <5>1
        <5>4. PICK G \in Nat : G = SaturatingSub(F, n)
          <6>1. CASE n > F
            <7>1. SaturatingSub(F, n) = 0
              BY <6>1 DEF SaturatingSub
            <7> QED BY <7>1
          <6>2. CASE n <= F
            <7>1. SaturatingSub(F, n) = F - n /\ F - n \in Nat
              BY <5>3, <6>2 DEF SaturatingSub
            <7> QED BY <7>1
          <6> QED BY <5>3, <6>1, <6>2
        <5>5. /\ m <= M /\ M <= U /\ M + R + F <= E
              /\ U = M => F + U + R = E
              /\ n <= F \/ (R = 0 /\ m + n <= E)
          BY <4>2, <5>2, <5>3
        <5>6. /\ m + n <= U + n
              /\ m + n + R + G <= E
              /\ U + n = m + n => G + (U + n) + R = E
          <6>1. CASE n <= F
            <7>1. G = F - n
              BY <5>4, <6>1 DEF SaturatingSub
            <7> QED BY <5>3, <5>4, <5>5, <6>1, <7>1
          <6>2. CASE n > F
            <7>1. G = 0 /\ R = 0 /\ m + n <= E
              BY <5>3, <5>4, <5>5, <6>2 DEF SaturatingSub
            <7> QED BY <5>3, <5>4, <5>5, <6>2, <7>1
          <6> QED BY <5>3, <6>1, <6>2
        <5>7. G = SaturatingSub(free[s], n)
          BY <5>3, <5>4
        <5> QED BY <5>3, <5>6, <5>7
      <4>5. Balanced(s)'
        BY <4>3, <4>4 DEF Balanced
      <4> QED BY <3>4, <4>5
    <3>5. CASE r = s /\ ~live[s]
      <4>1. s # 0 /\ metered[s] = 0 /\ free[s] = 0
        BY <3>2, <3>5 DEF Dead, TypeInv, TableOK
      <4>2. n <= 0 /\ m <= 0
        BY <3>1, <4>1 DEF PreA
      <4>3. metered'[s] = 0 /\ free'[s] = 0
        BY <1>1, <2>2, <4>1, <4>2 DEF SaturatingSub
      <4> QED BY <3>5, <4>3 DEF Dead
    <3> QED BY <3>3, <3>4, <3>5
  <2> QED BY <1>1, <2>1, <2>3 DEF BooksInv
<1> QED BY <1>2, <1>3 DEF Allocate

LEMMA ChargeBooksInv ==
    ASSUME TypeInv, BooksInv, NEW n \in Sizes, Alloc(n) \/ AllocVault(n) \/ ClosePass(n)
    PROVE  BooksInv'
<1>1. n \in Nat /\ cur \in 0..(size - 1) /\ 0 \in 0..(size - 1)
  BY JitAssumption, SlotsBelow DEF TypeInv, ControlOK
<1>2. ASSUME NEW s \in 0..(size - 1), AllocIn(s, n)
      PROVE  BooksInv'
  <2>1. metered[s] \in Nat /\ metered[s] <= metered[s]
    BY SlotsBelow, MeterTyped DEF TypeInv
  <2> QED BY <1>1, <1>2, <2>1, AllocateBooksInv DEF AllocIn
<1>3. CASE ClosePass(n)
  <2>1. Inside /\ Top.mark <= metered[cur] /\ Allocate(cur, Top.mark, n)
    BY <1>3 DEF ClosePass, CloseWindow, MarkHolds, Bare
  <2>2. Top.mark \in Nat
    BY <2>1, TopTyped
  <2> QED BY <1>1, <2>1, <2>2, AllocateBooksInv
<1> QED BY <1>1, <1>2, <1>3 DEF Alloc, AllocVault

\* A rewind lowers what the arena holds, never what the table counts.
LEMMA RewindBooksInv ==
    ASSUME TypeInv, BooksInv, CloseForward
    PROVE  BooksInv'
<1>1. /\ Inside /\ Top.mark <= metered[cur] /\ metered' = [metered EXCEPT ![cur] = Top.mark]
      /\ UNCHANGED <<size, live, extent, used, free, reserved, exhausted>>
  BY DEF CloseForward, CloseWindow, MarkHolds, Bare, names, policy
<1>2. Top.mark \in Nat /\ cur \in Slots
  BY <1>1, TopTyped
<1>3. ASSUME NEW r \in Slots
      PROVE  metered'[r] \in Nat /\ metered'[r] <= metered[r] /\ metered[r] \in Nat
  <2>1. metered \in [Slots -> Nat]
    BY DEF TypeInv, TableOK
  <2> QED BY <1>1, <1>2, <2>1
<1>4. ASSUME ~exhausted, NEW r \in 0..(size - 1)
      PROVE  IF live[r] THEN Balanced(r)' ELSE Dead(r)'
  <2>1. r \in Slots /\ IF live[r] THEN Balanced(r) ELSE Dead(r)
    BY <1>4, SlotsBelow DEF TypeInv, BooksInv
  <2>2. metered'[r] \in Nat /\ metered'[r] <= metered[r] /\ metered[r] \in Nat
    BY <1>3, <2>1
  <2>3. CASE live[r]
    <3>1. Balanced(r)
      BY <2>1, <2>3
    <3>2. Balanced(r)'
      BY <1>1, <2>1, <2>2, <3>1, MeterTyped DEF Balanced
    <3> QED BY <2>3, <3>2
  <2>4. CASE ~live[r]
    <3>1. Dead(r)'
      BY <1>1, <2>1, <2>2, <2>4 DEF Dead
    <3> QED BY <2>4, <3>1
  <2> QED BY <2>3, <2>4
<1> QED BY <1>1, <1>4 DEF BooksInv

\* What leaves the books alone keeps them.
LEMMA QuietBooksInv ==
    ASSUME BooksInv, UNCHANGED <<books, names, exhausted>>
    PROVE  BooksInv'
BY DEF BooksInv, Balanced, Dead, books, names

\* Every step keeps the books.
LEMMA StepBooksInv ==
    ASSUME TypeInv, BooksInv, [Next]_vars
    PROVE  BooksInv'
<1>1. ASSUME NEW refusal, Fatal(refusal)
      PROVE  BooksInv'
  BY <1>1, QuietBooksInv DEF Fatal, policy
<1>2. ASSUME NEW h \in Handles, NEW n \in Requests, Carve(h, n)
      PROVE  BooksInv'
  BY <1>2, CarveShape, CarveBooksInv
<1>3. ASSUME NEW h \in Handles, NEW n \in Requests, CarveRefused(h, n)
      PROVE  BooksInv'
  BY <1>1, <1>3 DEF CarveRefused
<1>4. ASSUME NEW h \in Handles, Reap(h)
      PROVE  BooksInv'
  BY <1>4, ReapShape, ReapBooksInv
<1>5. ASSUME NEW h \in Handles, ReapRefused(h) \/ EnterRefused(h)
      PROVE  BooksInv'
  BY <1>1, <1>5 DEF ReapRefused, EnterRefused
<1>6. ASSUME NEW h \in Handles, Enter(h)
      PROVE  BooksInv'
  BY <1>6, QuietBooksInv DEF Enter, policy
<1>7. ASSUME NEW n \in Sizes, Alloc(n) \/ AllocVault(n) \/ ClosePass(n)
      PROVE  BooksInv'
  BY <1>7, ChargeBooksInv
<1>8. CASE EndExtent \/ Break \/ Continue \/ Return
  BY <1>8, QuietBooksInv DEF EndExtent, Break, Continue, Return, LeaveTo, policy
<1>9. CASE OpenFrame("fn") \/ OpenFrame("loop") \/ OpenWindow("forward") \/ OpenWindow("pass")
  BY <1>9, QuietBooksInv DEF OpenFrame, OpenWindow, policy
<1>10. CASE CloseForward
  BY <1>10, RewindBooksInv
<1>11. CASE CloseRefused
  BY <1>1, <1>11 DEF CloseRefused
<1>12. CASE NextTest
  <2>1. Fresh' => BooksInv'
    BY FreshBooksInv, PTL
  <2> QED BY <1>12, <2>1, NextTestFresh
<1>13. CASE UNCHANGED vars
  BY <1>13, QuietBooksInv DEF vars, policy
<1> QED BY <1>2, <1>3, <1>4, <1>5, <1>6, <1>7, <1>8, <1>9, <1>10, <1>11, <1>12, <1>13 DEF Next

LEMMA BooksInvariant == Spec => [](TypeInv /\ BooksInv)
<1>1. Init => TypeInv /\ BooksInv
  BY InitTypeInv, InitFresh, FreshBooksInv
<1>2. TypeInv /\ BooksInv /\ [Next]_vars => (TypeInv /\ BooksInv)'
  BY NextTypeInv, StepBooksInv
<1> QED BY <1>1, <1>2, PTL DEF Spec

\* (LOC) of the JIT's table: until a @grad call rewinds the arena and not the table,
\* or an exhaustion is on record, free, charged and carved-out bytes of a live
\* budget are its extent.
THEOREM BooksBalance == Spec => []Loc
<1>1. TypeInv /\ BooksInv => Loc
  <2> SUFFICES ASSUME TypeInv, BooksInv, ~exhausted, NEW s \in LiveSlots, used[s] = metered[s]
               PROVE  free[s] + used[s] + reserved[s] = extent[s]
    BY DEF Loc
  <2>1. s \in 0..(size - 1) /\ live[s]
    BY DEF LiveSlots
  <2> QED BY <2>1 DEF BooksInv, Balanced
<1> QED BY <1>1, BooksInvariant, PTL

\* The two counters part in the forge's favour only: what an arena holds, what was
\* carved out and what is still on offer fit in the extent, through rewinds, the
\* root's own rule in PRE-A, saturation, and one test after another.
THEOREM NothingSpentTwice == Spec => []Solvent
<1>1. TypeInv /\ BooksInv => Solvent
  <2> SUFFICES ASSUME TypeInv, BooksInv, ~exhausted, NEW s \in LiveSlots
               PROVE  metered[s] + reserved[s] + free[s] <= extent[s]
    BY DEF Solvent
  <2>1. s \in 0..(size - 1) /\ live[s]
    BY DEF LiveSlots
  <2> QED BY <2>1 DEF BooksInv, Balanced
<1> QED BY <1>1, BooksInvariant, PTL

\* A reaped slot takes no more bytes, even while its extent is still entered, and
\* even at the end of a @grad call that began before the reap.
THEOREM ReapedStaysEmpty == Spec => []NothingInReaped
<1>1. TypeInv /\ BooksInv => NothingInReaped
  <2> SUFFICES ASSUME TypeInv, BooksInv, ~exhausted, NEW s \in (0..(size - 1)) \ LiveSlots
               PROVE  metered[s] = 0 /\ free[s] = 0
    BY DEF NothingInReaped
  <2>1. s \in 0..(size - 1) /\ ~live[s]
    BY DEF LiveSlots
  <2> QED BY <2>1 DEF BooksInv, Dead
<1> QED BY <1>1, BooksInvariant, PTL

-------------------------------------------------------------------------------
(* One ceiling over all the arenas.                                         *)

\* The bytes of each slot's extent that were not carved out of it again.
Own == [s \in Slots |-> extent[s] - reserved[s]]

\* A carve and a reap move bytes between slots: all of them together own the
\* extent of the root, and the dead ones own nothing.
CeilingInv ==
    /\ SumOf(Own, Slots) = Limit
    /\ \A s \in Slots : ~live[s] => extent[s] = 0 /\ reserved[s] = 0

\* Two slots changed by opposite amounts: the sum stands.
LEMMA Moved ==
    ASSUME NEW d, NEW e, \A r \in Slots : d[r] \in Int /\ e[r] \in Int,
           NEW a \in Slots, NEW b \in Slots, a # b, NEW m \in Int,
           e[a] = d[a] + m, e[b] = d[b] - m,
           \A r \in Slots : r # a /\ r # b => e[r] = d[r]
    PROVE  SumOf(e, Slots) = SumOf(d, Slots)
<1> DEFINE f == [r \in Slots |-> IF r = a THEN e[a] ELSE d[r]]
<1>1. /\ \A r \in Slots : f[r] \in Int
      /\ \A r \in Slots \ {a} : f[r] = d[r]
      /\ \A r \in Slots \ {b} : e[r] = f[r]
      /\ f[a] = e[a] /\ f[b] = d[b]
  OBVIOUS
<1> HIDE DEF f
<1>2. SumOf(f, Slots) = SumOf(d, Slots) - d[a] + f[a]
  BY <1>1, Bounds, SumUpdate
<1>3. SumOf(e, Slots) = SumOf(f, Slots) - f[b] + e[b]
  <2>1. \A r \in Slots : f[r] \in Int /\ e[r] \in Int
    BY <1>1
  <2>2. \A r \in Slots \ {b} : e[r] = f[r]
    BY <1>1
  <2> QED BY <2>1, <2>2, Bounds, SumUpdate
<1>4. SumOf(d, Slots) \in Int /\ SumOf(f, Slots) \in Int
  BY <1>1, Bounds, SumType
<1> QED BY <1>1, <1>2, <1>3, <1>4

\* What a slot owns is an integer.
LEMMA OwnType ==
    ASSUME TypeInv
    PROVE  \A s \in Slots : Own[s] = extent[s] - reserved[s] /\ Own[s] \in Int
BY MeterTyped DEF Own

\* The root owns all of it in a test that starts.
LEMMA FreshCeilingInv == Fresh => CeilingInv
<1> SUFFICES ASSUME Fresh
             PROVE  CeilingInv
  OBVIOUS
<1>1. /\ \A s \in Slots : Own[s] = IF s = 0 THEN Limit ELSE 0
      /\ \A s \in Slots : ~live[s] => extent[s] = 0 /\ reserved[s] = 0
  BY JitAssumption DEF Fresh, RootAlone, Zero, Own
<1>2. Limit \in Int /\ 0 \in Slots /\ {} \in SUBSET Slots
  BY Bounds, JitAssumption
<1>3. SumOf(Own, Slots) = SumOf(Own, {0})
  BY <1>1, <1>2, Bounds, SumOfSupport
<1>4. SumOf(Own, {0}) = Limit
  <2>1. {0} = {} \cup {0} /\ IsFiniteSet({}) /\ 0 \notin {}
    BY FS_EmptySet
  <2>2. \A s \in {} \cup {0} : Own[s] \in Int
    BY <1>1, <1>2
  <2>3. SumOf(Own, {} \cup {0}) = SumOf(Own, {}) + Own[0]
    BY <2>1, <2>2, SumAdd
  <2> QED BY <1>1, <1>2, <2>1, <2>3, SumEmpty
<1> QED BY <1>1, <1>3, <1>4 DEF CeilingInv

\* A carve moves its extent from the parent to the child.
LEMMA CarveCeilingInv ==
    ASSUME TypeInv, CeilingInv, NEW p \in Slots, NEW c \in Slots, NEW m \in Nat,
           CarveStep(p, c, m), TypeInv'
    PROVE  CeilingInv'
<1>1. live[p] /\ c # p /\ ~live[c] /\ m \in Int
  BY DEF CarveStep
<1>2. \A r \in Slots :
          /\ extent'[r] = IF r = c THEN m ELSE extent[r]
          /\ reserved'[r] = IF r = c THEN 0 ELSE IF r = p THEN reserved[r] + m ELSE reserved[r]
          /\ live'[r] = IF r = c THEN TRUE ELSE live[r]
  <2>1. CarveWritten(p, c, m)
    BY CarveWrites
  <2> QED BY <2>1 DEF CarveWritten
<1>3. \A r \in Slots : Own[r] = extent[r] - reserved[r] /\ Own[r] \in Int
  BY OwnType
<1>4. \A r \in Slots : Own'[r] = extent'[r] - reserved'[r]
  BY DEF Own
<1>5. \A r \in Slots : extent[r] \in Int /\ reserved[r] \in Int
  BY MeterTyped
<1>6. Own[c] = 0
  BY <1>1, <1>3 DEF CeilingInv
<1>7. /\ Own'[c] = Own[c] + m /\ Own'[p] = Own[p] - m
      /\ \A r \in Slots : r # c /\ r # p => Own'[r] = Own[r]
  <2>1. extent'[c] = m /\ reserved'[c] = 0
    BY <1>2
  <2>2. extent'[p] = extent[p] /\ reserved'[p] = reserved[p] + m
    BY <1>1, <1>2
  <2>3. Own'[c] = Own[c] + m
    BY <1>1, <1>4, <1>6, <2>1
  <2>4. Own'[p] = Own[p] - m
    BY <1>1, <1>3, <1>4, <1>5, <2>2
  <2>5. \A r \in Slots : r # c /\ r # p => Own'[r] = Own[r]
    BY <1>2, <1>3, <1>4
  <2> QED BY <2>3, <2>4, <2>5
<1>8. \A r \in Slots : Own'[r] \in Int
  BY <1>1, <1>3, <1>7
<1>9. SumOf(Own', Slots) = SumOf(Own, Slots)
  BY <1>1, <1>3, <1>7, <1>8, Moved
<1>10. \A r \in Slots : ~live'[r] => extent'[r] = 0 /\ reserved'[r] = 0
  BY <1>1, <1>2 DEF CeilingInv
<1> QED BY <1>9, <1>10 DEF CeilingInv

\* A reap moves it back: what has no children has carved out nothing.
LEMMA ReapCeilingInv ==
    ASSUME TypeInv, CeilingInv, NEW p \in Slots, NEW c \in Slots, ReapStep(p, c)
    PROVE  CeilingInv'
<1>1. c # p /\ live[c] /\ live[p] /\ reserved[c] = 0
  BY Childless DEF ReapStep
<1>2. \A r \in Slots :
          /\ extent'[r] = IF r = c THEN 0 ELSE extent[r]
          /\ reserved'[r] = IF r = p THEN reserved[r] - extent[c] ELSE reserved[r]
          /\ live'[r] = IF r = c THEN FALSE ELSE live[r]
  <2>1. ReapWritten(p, c)
    BY ReapWrites
  <2> QED BY <2>1 DEF ReapWritten
<1>3. \A r \in Slots : Own[r] = extent[r] - reserved[r] /\ Own[r] \in Int
  BY OwnType
<1>4. \A r \in Slots : Own'[r] = extent'[r] - reserved'[r]
  BY DEF Own
<1>5. \A r \in Slots : extent[r] \in Int /\ reserved[r] \in Int
  BY MeterTyped
<1>6. /\ Own'[p] = Own[p] + extent[c] /\ Own'[c] = Own[c] - extent[c]
      /\ \A r \in Slots : r # p /\ r # c => Own'[r] = Own[r]
  <2>1. extent'[c] = 0 /\ reserved'[c] = 0
    BY <1>1, <1>2
  <2>2. extent'[p] = extent[p] /\ reserved'[p] = reserved[p] - extent[c]
    BY <1>1, <1>2
  <2>3. Own'[c] = Own[c] - extent[c]
    BY <1>1, <1>3, <1>4, <1>5, <2>1
  <2>4. Own'[p] = Own[p] + extent[c]
    BY <1>3, <1>4, <1>5, <2>2
  <2>5. \A r \in Slots : r # p /\ r # c => Own'[r] = Own[r]
    BY <1>2, <1>3, <1>4
  <2> QED BY <2>3, <2>4, <2>5
<1>7. \A r \in Slots : Own'[r] \in Int
  BY <1>3, <1>5, <1>6
<1>8. SumOf(Own', Slots) = SumOf(Own, Slots)
  BY <1>1, <1>3, <1>5, <1>6, <1>7, Moved
<1>9. \A r \in Slots : ~live'[r] => extent'[r] = 0 /\ reserved'[r] = 0
  BY <1>1, <1>2 DEF CeilingInv
<1> QED BY <1>8, <1>9 DEF CeilingInv

\* Every other step within a test leaves extents and reserved bytes alone.
LEMMA OtherStepsOwn ==
    ASSUME [Next]_vars,
           \A h \in Handles : ~Reap(h) /\ \A n \in Requests : ~Carve(h, n)
    PROVE  NextTest \/ UNCHANGED <<extent, reserved, live, parent>>
<1>1. ASSUME NEW refusal, Fatal(refusal)
      PROVE  UNCHANGED <<extent, reserved, live, parent>>
  BY <1>1 DEF Fatal, books, names
<1>2. ASSUME NEW h \in Handles, NEW n \in Requests, CarveRefused(h, n)
      PROVE  UNCHANGED <<extent, reserved, live, parent>>
  BY <1>1, <1>2 DEF CarveRefused
<1>3. ASSUME NEW h \in Handles, ReapRefused(h) \/ Enter(h) \/ EnterRefused(h)
      PROVE  UNCHANGED <<extent, reserved, live, parent>>
  BY <1>1, <1>3 DEF ReapRefused, Enter, EnterRefused, books, names
<1>4. ASSUME NEW n \in Sizes, Alloc(n) \/ AllocVault(n) \/ ClosePass(n)
      PROVE  UNCHANGED <<extent, reserved, live, parent>>
  BY <1>4 DEF Alloc, AllocVault, AllocIn, ClosePass, Allocate, Served, books, names
<1>5. CASE EndExtent \/ Break \/ Continue \/ Return
  BY <1>5 DEF EndExtent, Break, Continue, Return, LeaveTo, books, names
<1>6. CASE OpenFrame("fn") \/ OpenFrame("loop") \/ OpenWindow("forward") \/ OpenWindow("pass")
  BY <1>6 DEF OpenFrame, OpenWindow, books, names
<1>7. CASE CloseForward \/ CloseRefused
  BY <1>1, <1>7 DEF CloseForward, CloseRefused, books, names
<1>8. CASE UNCHANGED vars
  BY <1>8 DEF vars, books, names
<1> QED BY <1>2, <1>3, <1>4, <1>5, <1>6, <1>7, <1>8 DEF Next

\* Every step keeps the total.
LEMMA StepCeilingInv ==
    ASSUME TypeInv, CeilingInv, [Next]_vars
    PROVE  CeilingInv'
<1>1. ASSUME NEW h \in Handles, Reap(h)
      PROVE  CeilingInv'
  BY <1>1, ReapShape, ReapCeilingInv
<1>2. ASSUME NEW h \in Handles, NEW n \in Requests, Carve(h, n)
      PROVE  CeilingInv'
  BY <1>2, CarveShape, CarveCeilingInv, NextTypeInv
<1>3. CASE NextTest
  <2>1. Fresh' => CeilingInv'
    BY FreshCeilingInv, PTL
  <2> QED BY <1>3, <2>1, NextTestFresh
<1>4. CASE UNCHANGED <<extent, reserved, live, parent>>
  <2>1. Own' = Own
    BY <1>4 DEF Own
  <2> QED BY <1>4, <2>1 DEF CeilingInv
<1> QED BY <1>1, <1>2, <1>3, <1>4, OtherStepsOwn

\* The bytes all arenas hold together never exceed --forge, however the budgets
\* were carved, reaped, entered and rewound, unless an exhaustion is on record
\* (ForgeArena::exceeds_budget and the table's own counts).
THEOREM OneCeiling == Spec => []ForgeIsACeiling
<1>1. TypeInv /\ BooksInv /\ CeilingInv => ForgeIsACeiling
  <2> SUFFICES ASSUME TypeInv, BooksInv, CeilingInv, ~exhausted
               PROVE  Sum(metered, LiveSlots) <= Limit
    BY DEF ForgeIsACeiling
  <2>1. LiveSlots \in SUBSET Slots /\ IsFiniteSet(LiveSlots)
    <3>1. LiveSlots \subseteq Slots
      BY SlotsBelow DEF LiveSlots, TypeInv
    <3> QED BY <3>1, Bounds, FS_Subset
  <2>2. \A s \in Slots : Own[s] = extent[s] - reserved[s] /\ Own[s] \in Int
    BY OwnType
  <2>3. \A s \in LiveSlots : /\ metered[s] \in Int /\ Own[s] \in Int
                             /\ metered[s] <= Own[s]
    <3> TAKE s \in LiveSlots
    <3>1. s \in 0..(size - 1) /\ live[s] /\ s \in Slots
      BY <2>1 DEF LiveSlots
    <3>2. metered[s] + reserved[s] + free[s] <= extent[s]
      BY <3>1 DEF BooksInv, Balanced
    <3> QED BY <2>2, <3>1, <3>2, MeterTyped
  <2>4. \A s \in Slots \ LiveSlots : Own[s] = 0
    <3> TAKE s \in Slots \ LiveSlots
    <3>1. ~live[s]
      BY DEF TypeInv, FamilyOK, LiveSlots
    <3> QED BY <2>2, <3>1 DEF CeilingInv
  <2>5. SumOf(Own, LiveSlots) = Limit
    BY <2>1, <2>2, <2>4, Bounds, SumOfSupport DEF CeilingInv
  <2>6. SumOf(metered, LiveSlots) <= SumOf(Own, LiveSlots)
    BY <2>1, <2>3, SumMonotone
  <2>7. Sum(metered, LiveSlots) = SumOf(metered, LiveSlots)
    BY DEF Sum, SumOf
  <2> QED BY <2>5, <2>6, <2>7
<1>2. Init => CeilingInv
  BY InitFresh, FreshCeilingInv
<1>3. TypeInv /\ CeilingInv /\ [Next]_vars => CeilingInv'
  BY StepCeilingInv
<1> QED BY <1>1, <1>2, <1>3, BooksInvariant, PTL DEF Spec

-------------------------------------------------------------------------------
(* The tree of budgets.                                                     *)

\* A live slot is held by a budget that is not reaped and was carved into it.
\* The root, which nothing was carved from, says it is its own parent.
Tenancy ==
    /\ \A s \in Slots : live[s] => /\ tenant[s] \in LiveBudgets
                                   /\ SlotOf(tenant[s]) = s
    /\ parent[0] = 0

ParentOf(c) == tenant[parent[SlotOf(c)]]
Kids(b) == {c \in LiveBudgets \ {0} : ParentOf(c) = b}
Parents == [b \in LiveBudgets |-> ParentOf(b)]
Extents == [b \in LiveBudgets |-> extent[SlotOf(b)]]
Uses == [b \in LiveBudgets |-> used[SlotOf(b)]]

\* A test starts with the root in slot 0.
LEMMA FreshTenancy == Fresh => Tenancy
<1> SUFFICES ASSUME Fresh, NEW s \in Slots, live[s]
             PROVE  tenant[s] \in LiveBudgets /\ SlotOf(tenant[s]) = s
  BY Bounds DEF Tenancy, Fresh, Zero
<1>1. s = 0 /\ tenant[s] = 0
  BY DEF Fresh, RootAlone, Zero
<1>2. 0 \in LiveBudgets /\ SlotOf(0) = 0
  BY EmptySeq DEF Fresh, LiveBudgets, Handles, SlotOf, Descriptor, RootHandle
<1> QED BY <1>1, <1>2

\* The slot of a handle that was already minted does not change with a carve.
LEMMA CarveKeepsSlots ==
    ASSUME TypeInv, NEW p \in Slots, NEW c \in Slots, NEW m \in Nat, CarveStep(p, c, m),
           NEW new, new = Len(minted) + 1
    PROVE  /\ Handles' = Handles \cup {new} /\ new \notin Handles /\ new # 0
           /\ new \notin reaped
           /\ \A h \in Handles : SlotOf(h)' = SlotOf(h)
           /\ SlotOf(new)' = c
           /\ LiveBudgets' = LiveBudgets \cup {new}
           /\ Len(minted') = new
<1>1. /\ minted' = Append(minted, [slot |-> c, gen |-> gen[c]]) /\ reaped' = reaped
      /\ Len(minted) \in Nat /\ reaped \subseteq 1..Len(minted)
      /\ minted \in Seq([slot : 1..(size - 1), gen : 0..(GenMod - 1)])
  BY LenProperties DEF CarveStep, TypeInv, HandlesOK
<1>2. /\ Len(minted') = new /\ minted'[new] = [slot |-> c, gen |-> gen[c]]
      /\ \A h \in 1..Len(minted) : minted'[h] = minted[h]
  BY <1>1, AppendProperties
<1>3. Handles' = Handles \cup {new} /\ new \notin Handles /\ new # 0 /\ new \notin reaped
  BY <1>1, <1>2 DEF Handles
<1>4. \A h \in Handles : SlotOf(h)' = SlotOf(h)
  <2> TAKE h \in Handles
  <2>1. h = 0 \/ h \in 1..Len(minted)
    BY <1>1 DEF Handles
  <2>2. CASE h = 0
    BY <2>2 DEF SlotOf, Descriptor
  <2>3. CASE h \in 1..Len(minted)
    BY <1>2, <2>3 DEF SlotOf, Descriptor
  <2> QED BY <2>1, <2>2, <2>3
<1>5. SlotOf(new)' = c
  <2>1. SlotOf(new)' = minted'[new].slot
    BY <1>3 DEF SlotOf, Descriptor
  <2> QED BY <1>2, <2>1
<1>6. LiveBudgets' = LiveBudgets \cup {new}
  BY <1>1, <1>3 DEF LiveBudgets
<1> QED BY <1>2, <1>3, <1>4, <1>5, <1>6

\* A carve puts its budget into its slot.
LEMMA CarveTenancy ==
    ASSUME TypeInv, Tenancy, NEW p \in Slots, NEW c \in Slots, NEW m \in Nat, CarveStep(p, c, m)
    PROVE  Tenancy'
<1>1. PICK new : new = Len(minted) + 1
  OBVIOUS
<1>2. /\ \A h \in Handles : SlotOf(h)' = SlotOf(h)
      /\ SlotOf(new)' = c /\ LiveBudgets' = LiveBudgets \cup {new}
  BY <1>1, CarveKeepsSlots
<1>3. \A r \in Slots : /\ live'[r] = IF r = c THEN TRUE ELSE live[r]
                       /\ parent'[r] = IF r = c THEN p ELSE parent[r]
                       /\ tenant'[r] = IF r = c THEN new ELSE tenant[r]
  <2>1. CarveWritten(p, c, m)
    BY CarveWrites
  <2> QED BY <1>1, <2>1 DEF CarveWritten
<1> SUFFICES ASSUME NEW s \in Slots, live'[s]
             PROVE  tenant'[s] \in LiveBudgets' /\ SlotOf(tenant[s])' = s
  <2>1. parent'[0] = 0
    BY <1>3, Bounds DEF Tenancy, CarveStep
  <2> QED BY <2>1 DEF Tenancy
<1>4. PICK t : t = tenant'[s]
  OBVIOUS
<1>5. t \in LiveBudgets' /\ SlotOf(t)' = s
  <2>1. CASE s = c
    BY <1>2, <1>3, <1>4, <2>1
  <2>2. CASE s # c
    <3>1. t = tenant[s] /\ live[s]
      BY <1>3, <1>4, <2>2
    <3>2. t \in LiveBudgets /\ SlotOf(t) = s
      BY <3>1 DEF Tenancy
    <3> QED BY <1>2, <3>2 DEF LiveBudgets
  <2> QED BY <2>1, <2>2
<1> QED BY <1>4, <1>5 DEF SlotOf, Descriptor

\* A reap takes away the budget of its slot and no other.
LEMMA ReapTenancy ==
    ASSUME TypeInv, Tenancy, NEW p \in Slots, NEW c \in Slots, ReapStep(p, c)
    PROVE  Tenancy'
<1>1. /\ live[c] /\ reaped' = reaped \cup {tenant[c]}
      /\ UNCHANGED <<minted, tenant, parent>>
  BY DEF ReapStep
<1>2. \A r \in Slots : live'[r] = IF r = c THEN FALSE ELSE live[r]
  <2>1. ReapWritten(p, c)
    BY ReapWrites
  <2> QED BY <2>1 DEF ReapWritten
<1>3. LiveBudgets' = LiveBudgets \ {tenant[c]}
  BY <1>1 DEF LiveBudgets, Handles
<1>4. \A h : SlotOf(h)' = SlotOf(h)
  BY <1>1 DEF SlotOf, Descriptor
<1>5. ASSUME NEW s \in Slots, live'[s]
      PROVE  tenant[s] \in LiveBudgets' /\ SlotOf(tenant[s]) = s
  <2>1. s # c /\ live[s]
    BY <1>2, <1>5
  <2>2. tenant[s] \in LiveBudgets /\ SlotOf(tenant[s]) = s /\ SlotOf(tenant[c]) = c
    BY <1>1, <2>1 DEF Tenancy
  <2> QED BY <1>3, <2>1, <2>2
<1> QED BY <1>1, <1>4, <1>5 DEF Tenancy, SlotOf, Descriptor

\* Every step keeps the tenancy.
LEMMA StepTenancy ==
    ASSUME TypeInv, Tenancy, [Next]_vars
    PROVE  Tenancy'
<1>1. ASSUME NEW h \in Handles, Reap(h)
      PROVE  Tenancy'
  BY <1>1, ReapShape, ReapTenancy
<1>2. ASSUME NEW h \in Handles, NEW n \in Requests, Carve(h, n)
      PROVE  Tenancy'
  BY <1>2, CarveShape, CarveTenancy
<1>3. CASE NextTest
  <2>1. Fresh' => Tenancy'
    BY FreshTenancy, PTL
  <2> QED BY <1>3, <2>1, NextTestFresh
<1>4. CASE UNCHANGED names /\ UNCHANGED parent
  BY <1>4 DEF names, Tenancy, LiveBudgets, Handles, SlotOf, Descriptor
<1> QED BY <1>1, <1>2, <1>3, <1>4, OtherSteps, OtherStepsOwn

\* A live budget sits in a live slot of its own, and hangs from a live budget.
LEMMA LiveFacts ==
    ASSUME TypeInv, HandleInv, Tenancy
    PROVE  /\ 0 \in LiveBudgets /\ Len(minted) \in Nat /\ SlotOf(0) = 0
           /\ \A b \in LiveBudgets : /\ b \in Handles /\ b \notin reaped
                                     /\ SlotOf(b) \in 0..(size - 1) /\ SlotOf(b) \in Slots
                                     /\ live[SlotOf(b)] /\ tenant[SlotOf(b)] = b
                                     /\ SlotOf(b) = 0 <=> b = 0
           /\ \A a, b \in LiveBudgets : SlotOf(a) = SlotOf(b) => a = b
           /\ \A c \in LiveBudgets \ {0} : /\ ParentOf(c) \in LiveBudgets
                                           /\ SlotOf(ParentOf(c)) = parent[SlotOf(c)]
<1>1. Len(minted) \in Nat /\ reaped \subseteq 1..Len(minted)
  BY LenProperties DEF TypeInv, HandlesOK
<1>2. 0 \in LiveBudgets /\ SlotOf(0) = 0
  BY <1>1 DEF LiveBudgets, Handles, SlotOf, Descriptor, RootHandle
<1>3. ASSUME NEW b \in LiveBudgets
      PROVE  /\ b \in Handles /\ b \notin reaped
             /\ SlotOf(b) \in 0..(size - 1) /\ SlotOf(b) \in Slots
             /\ live[SlotOf(b)] /\ tenant[SlotOf(b)] = b
  <2>1. b \in Handles /\ b \notin reaped
    BY DEF LiveBudgets
  <2> QED BY <2>1, HandleFacts, DescriptorType DEF SlotOf, Resolves
<1>4. \A a, b \in LiveBudgets : SlotOf(a) = SlotOf(b) => a = b
  BY <1>3
<1>5. ASSUME NEW c \in LiveBudgets \ {0}
      PROVE  ParentOf(c) \in LiveBudgets /\ SlotOf(ParentOf(c)) = parent[SlotOf(c)]
  <2>1. SlotOf(c) \in Slots /\ live[SlotOf(c)] /\ SlotOf(c) # 0
    BY <1>2, <1>3, <1>4
  <2>2. parent[SlotOf(c)] \in Slots /\ live[parent[SlotOf(c)]]
    BY <2>1 DEF TypeInv, TableOK, FamilyOK
  <2> QED BY <2>2 DEF Tenancy, ParentOf
<1> QED BY <1>1, <1>2, <1>3, <1>4, <1>5

\* The children of a budget are the heirs of its slot: the bytes reserved in a slot
\* are what they were carved with, and a slot that counts none has none.
LEMMA Inherited ==
    ASSUME TypeInv, HandleInv, Tenancy, NEW b \in LiveBudgets
    PROVE  /\ reserved[SlotOf(b)] = SumOf(Extents, Kids(b))
           /\ children[SlotOf(b)] = 0 => Kids(b) = {}
<1> DEFINE p == SlotOf(b)
           T == {s \in Slots : HeirOf(s, p)}
           r == [s \in T |-> tenant[s]]
<1>1. p \in Slots /\ tenant[p] = b /\ b \in LiveBudgets
  BY LiveFacts
<1>2. ASSUME NEW s \in T
      PROVE  /\ s \in Slots /\ s # 0 /\ live[s] /\ parent[s] = p
             /\ r[s] = tenant[s] /\ tenant[s] \in Kids(b) /\ SlotOf(tenant[s]) = s
             /\ Extents[tenant[s]] = extent[s]
  <2>1. s \in Slots /\ s # 0 /\ live[s] /\ parent[s] = p /\ r[s] = tenant[s]
    BY DEF HeirOf
  <2>2. tenant[s] \in LiveBudgets /\ SlotOf(tenant[s]) = s
    BY <2>1 DEF Tenancy
  <2>3. tenant[s] # 0
    BY <2>1, <2>2, LiveFacts
  <2>4. ParentOf(tenant[s]) = b
    BY <1>1, <2>1, <2>2 DEF ParentOf
  <2> QED BY <2>1, <2>2, <2>3, <2>4 DEF Kids, Extents
<1>3. ASSUME NEW c \in Kids(b)
      PROVE  SlotOf(c) \in T /\ tenant[SlotOf(c)] = c
  <2>1. c \in LiveBudgets \ {0} /\ ParentOf(c) = b
    BY DEF Kids
  <2>2. parent[SlotOf(c)] = p
    BY <2>1, LiveFacts
  <2> QED BY <2>1, <2>2, LiveFacts DEF HeirOf
<1>4. T \in SUBSET Slots /\ IsFiniteSet(T)
  <2>1. T \subseteq Slots
    OBVIOUS
  <2> QED BY <2>1, Bounds, FS_Subset
<1>5. reserved[p] = SumOf(Shares(p), Slots)
  BY <1>1 DEF TypeInv, FamilyOK, TotalOf
<1>6. /\ \A s \in Slots : Shares(p)[s] \in Int
      /\ \A s \in Slots \ T : Shares(p)[s] = 0
      /\ \A s \in T : Shares(p)[s] = extent[s]
  BY MeterTyped DEF Shares
<1>7. children[p] = 0 => Kids(b) = {}
  BY <1>1, <1>3, Childless
<1>8. r \in [T -> Kids(b)]
  BY <1>2
<1>9. /\ \A x, y \in T : r[x] = r[y] => x = y
      /\ \A y \in Kids(b) : \E x \in T : r[x] = y
      /\ \A x \in T : Extents[r[x]] = Shares(p)[x] /\ Shares(p)[x] \in Int
  BY <1>2, <1>3, <1>4, <1>6
<1> HIDE DEF p, T, r
<1>10. SumOf(Shares(p), Slots) = SumOf(Shares(p), T)
  BY <1>4, <1>6, Bounds, SumOfSupport
<1>11. SumOf(Extents, Kids(b)) = SumOf(Shares(p), T)
  BY <1>4, <1>8, <1>9, SumRenamed
<1> QED BY <1>5, <1>7, <1>10, <1>11 DEF p

\* The tree reads the children and the reserved bytes of a budget off the table.
LEMMA TreeReads ==
    ASSUME NEW b
    PROVE  /\ Tree!Children(b) = Kids(b)
           /\ Tree!Reserved(b) = SumOf(Extents, Kids(b))
<1>1. Tree!Children(b) = Kids(b)
  BY DEF Tree!Children, Tree!Root, Kids, ParentOf
<1>2. Tree!Reserved(b) = SumOf(Extents, Tree!Children(b))
  BY DEF Tree!Reserved, Tree!MapThenSumSet, Tree!MapThenFoldSet, SumOf, MapThenSumSet,
         MapThenFoldSet, Extents
<1> QED BY <1>1, <1>2

\* What the slot has room for, the tree's budget has.
LEMMA TreeFits ==
    ASSUME TypeInv, HandleInv, Tenancy, NEW b \in LiveBudgets, NEW n \in Nat,
           used[SlotOf(b)] + reserved[SlotOf(b)] + n <= extent[SlotOf(b)]
    PROVE  Tree!Fits(b, n)
<1>1. Uses[b] = used[SlotOf(b)] /\ Extents[b] = extent[SlotOf(b)]
  BY DEF Uses, Extents
<1>2. Tree!Reserved(b) = reserved[SlotOf(b)]
  BY Inherited, TreeReads
<1>3. Tree!Fits(b, n) <=> (Extents[b] # -1 => Uses[b] + Tree!Reserved(b) + n <= Extents[b])
  BY DEF Tree!Fits, Extents, Uses
<1> QED BY <1>1, <1>2, <1>3

\* An empty table is the tree with the root alone.
LEMMA FreshTree == Fresh => Tree!TreeInit
<1> SUFFICES ASSUME Fresh
             PROVE  Tree!TreeInit
  OBVIOUS
<1>1. Len(minted) = 0 /\ LiveBudgets = {0}
  BY EmptySeq DEF Fresh, LiveBudgets, Handles
<1>2. SlotOf(0) = 0 /\ 0 \in Slots
  BY Bounds DEF SlotOf, Descriptor, RootHandle
<1>3. extent[0] = Limit /\ used[0] = 0 /\ tenant[parent[0]] = 0
  BY <1>2 DEF Fresh, RootAlone, Zero
<1> QED BY <1>1, <1>2, <1>3 DEF Tree!TreeInit, Tree!Root

\* The table's invariants, together.
TableInv == TypeInv /\ HandleInv /\ Tenancy /\ BooksInv

\* A carve of the table is a carve of the tree.
LEMMA CarveTree ==
    ASSUME TableInv, ~exhausted, used' = metered',
           NEW h \in Handles, NEW n \in Requests, Carve(h, n)
    PROVE  h \in LiveBudgets /\ Tree!Carve(h, Need(n))
<1>1. PICK p \in Slots, c \in Slots, m \in Nat :
          p = Descriptor(h).slot /\ c = CarveSlot /\ CarveStep(p, c, m)
  BY CarveShape DEF TableInv
<1>2. PICK new : new = Len(minted) + 1
  OBVIOUS
<1>3. p = SlotOf(h) /\ h \in LiveBudgets
  BY <1>1, HandleFacts DEF Carve, SlotOf, LiveBudgets, TableInv
<1>4. /\ \A k \in Handles : SlotOf(k)' = SlotOf(k)
      /\ SlotOf(new)' = c /\ Len(minted') = new /\ new \notin Handles
      /\ LiveBudgets' = LiveBudgets \cup {new}
  BY <1>1, <1>2, CarveKeepsSlots DEF TableInv
<1>5. \A r \in Slots :
          /\ parent'[r] = IF r = c THEN p ELSE parent[r]
          /\ extent'[r] = IF r = c THEN m ELSE extent[r]
          /\ used'[r] = IF r = c THEN 0 ELSE used[r]
          /\ metered'[r] = IF r = c THEN 0 ELSE metered[r]
          /\ tenant'[r] = IF r = c THEN new ELSE tenant[r]
  <2>1. CarveWritten(p, c, m)
    BY <1>1, CarveWrites DEF TableInv
  <2> QED BY <1>2, <2>1 DEF CarveWritten
<1>6. p \in 0..(size - 1) /\ live[p] /\ ~live[c] /\ m <= free[p] /\ p # c
  BY <1>1 DEF CarveStep
<1>7. m = Need(n)
  <2>1. extent' = [extent EXCEPT ![c] = Need(n)] /\ extent \in [Slots -> Nat]
    BY <1>1 DEF Carve, TableInv, TypeInv, TableOK
  <2> QED BY <1>5, <2>1
<1>8. Tree!Fits(h, m)
  <2>1. used[p] = metered[p]
    BY <1>5, <1>6
  <2>2. free[p] + used[p] + reserved[p] = extent[p]
    BY <1>6, <2>1 DEF TableInv, BooksInv, Balanced
  <2>3. used[p] + reserved[p] + m <= extent[p]
    BY <1>6, <2>2, MeterTyped DEF TableInv
  <2> QED BY <1>3, <2>3, TreeFits DEF TableInv
<1>9. \A k \in LiveBudgets : SlotOf(k) \in Slots /\ SlotOf(k) # c /\ k # new /\ k \in Handles
  BY <1>4, <1>6, LiveFacts DEF TableInv
<1>10. \A k \in LiveBudgets : parent[SlotOf(k)] \in Slots /\ parent[SlotOf(k)] # c
  <2> TAKE k \in LiveBudgets
  <2>1. CASE k = 0
    BY <2>1, <1>9, LiveFacts, Bounds DEF TableInv, Tenancy
  <2>2. CASE k # 0
    <3>1. ParentOf(k) \in LiveBudgets /\ SlotOf(ParentOf(k)) = parent[SlotOf(k)]
      BY <2>2, LiveFacts DEF TableInv
    <3> QED BY <1>9, <3>1
  <2> QED BY <2>1, <2>2
<1>11. \A k \in LiveBudgets' : /\ Parents'[k] = IF k = new THEN h ELSE Parents[k]
                               /\ Extents'[k] = IF k = new THEN m ELSE Extents[k]
                               /\ Uses'[k] = IF k = new THEN 0 ELSE Uses[k]
  <2> TAKE k \in LiveBudgets'
  <2>1. /\ Parents'[k] = ParentOf(k)' /\ ParentOf(k)' = tenant'[parent'[SlotOf(k)']]
        /\ Extents'[k] = extent'[SlotOf(k)'] /\ Uses'[k] = used'[SlotOf(k)']
    BY DEF Parents, ParentOf, Extents, Uses
  <2>2. CASE k = new
    <3>1. tenant[p] = h
      BY <1>3, LiveFacts DEF TableInv
    <3> QED BY <1>4, <1>5, <1>6, <2>1, <2>2, <3>1
  <2>3. CASE k # new
    <3>1. k \in LiveBudgets /\ SlotOf(k)' = SlotOf(k)
      BY <1>4, <1>9, <2>3
    <3>2. /\ Parents[k] = tenant[parent[SlotOf(k)]]
          /\ Extents[k] = extent[SlotOf(k)] /\ Uses[k] = used[SlotOf(k)]
      BY <3>1 DEF Parents, ParentOf, Extents, Uses
    <3> QED BY <1>5, <1>9, <1>10, <2>1, <2>3, <3>1, <3>2
  <2> QED BY <2>2, <2>3
<1>12. /\ Len(minted') = Len(minted) + 1
       /\ LiveBudgets' = LiveBudgets \cup {Len(minted')}
       /\ Parents' = [k \in LiveBudgets' |-> IF k = Len(minted') THEN h ELSE Parents[k]]
       /\ Extents' = [k \in LiveBudgets' |-> IF k = Len(minted') THEN m ELSE Extents[k]]
       /\ Uses' = [k \in LiveBudgets' |-> IF k = Len(minted') THEN 0 ELSE Uses[k]]
  <2>1. /\ Parents' = [k \in LiveBudgets' |-> IF k = new THEN h ELSE Parents[k]]
        /\ Extents' = [k \in LiveBudgets' |-> IF k = new THEN m ELSE Extents[k]]
        /\ Uses' = [k \in LiveBudgets' |-> IF k = new THEN 0 ELSE Uses[k]]
    BY <1>11 DEF Parents, Extents, Uses
  <2> QED BY <1>2, <1>4, <2>1
<1>13. Tree!Carve(h, m)
  BY <1>3, <1>8, <1>12 DEF Tree!Carve, Parents, Extents, Uses, ParentOf
<1> QED BY <1>3, <1>7, <1>13

\* A reap of the table is a reap of the tree.
LEMMA ReapTree ==
    ASSUME TableInv, NEW h \in Handles, Reap(h)
    PROVE  h \in LiveBudgets /\ Tree!Reap(h)
<1>1. PICK p \in Slots, c \in Slots : c = Descriptor(h).slot /\ ReapStep(p, c)
  BY ReapShape DEF TableInv
<1>2. c = SlotOf(h) /\ h \in LiveBudgets /\ tenant[c] = h
  BY <1>1, HandleFacts DEF Reap, Reapable, SlotOf, LiveBudgets, TableInv
<1>3. c # 0 /\ children[c] = 0 /\ reaped' = reaped \cup {h} /\ UNCHANGED <<minted, tenant, parent>>
  BY <1>1, <1>2 DEF ReapStep
<1>4. h # 0 /\ Kids(h) = {}
  BY <1>2, <1>3, LiveFacts, Inherited DEF TableInv
<1>5. LiveBudgets' = LiveBudgets \ {h}
  BY <1>3 DEF LiveBudgets, Handles
<1>6. \A k : SlotOf(k)' = SlotOf(k) /\ ParentOf(k)' = ParentOf(k)
  BY <1>3 DEF SlotOf, Descriptor, ParentOf
<1>7. \A r \in Slots : /\ extent'[r] = IF r = c THEN 0 ELSE extent[r]
                       /\ used'[r] = IF r = c THEN 0 ELSE used[r]
  <2>1. ReapWritten(p, c)
    BY <1>1, ReapWrites DEF TableInv
  <2> QED BY <2>1 DEF ReapWritten
<1>8. \A k \in LiveBudgets' : k \in LiveBudgets /\ SlotOf(k) \in Slots /\ SlotOf(k) # c
  BY <1>2, <1>5, LiveFacts DEF TableInv
<1>9. /\ Parents' = [k \in LiveBudgets' |-> Parents[k]]
      /\ Extents' = [k \in LiveBudgets' |-> Extents[k]]
      /\ Uses' = [k \in LiveBudgets' |-> Uses[k]]
  BY <1>6, <1>7, <1>8 DEF Parents, Extents, Uses
<1>10. Tree!Children(h) = {}
  BY <1>4, TreeReads
<1> QED BY <1>2, <1>3, <1>4, <1>5, <1>9, <1>10
        DEF Tree!Reap, Tree!Root, Parents, Extents, Uses, ParentOf

\* A step that leaves handles and extents alone moves the tree only by what it
\* charges to one slot.
LEMMA ChargeTree ==
    ASSUME TableInv, NEW s \in 0..(size - 1), NEW m \in Nat, NEW n \in Nat, m <= metered[s],
           Allocate(s, m, n), ~exhausted', used' = metered'
    PROVE  \/ \E b \in LiveBudgets : Tree!Charge(b, n)
           \/ UNCHANGED Tree!treeVars
<1>1. s \in Slots
  BY SlotsBelow DEF TableInv, TypeInv
<1>2. UNCHANGED <<minted, tenant, reaped, parent, extent>>
  BY DEF Allocate, Served, names, books
<1>3. /\ LiveBudgets' = LiveBudgets
      /\ \A k : SlotOf(k)' = SlotOf(k) /\ ParentOf(k)' = ParentOf(k)
  BY <1>2 DEF LiveBudgets, Handles, SlotOf, Descriptor, ParentOf
<1>4. Len(minted') = Len(minted) /\ Parents' = Parents /\ Extents' = Extents
  BY <1>2, <1>3 DEF Parents, Extents
<1>5. CASE UNCHANGED books
  <2>1. Uses' = Uses
    BY <1>3, <1>5 DEF Uses, books
  <2> QED BY <1>3, <1>4, <2>1 DEF Tree!treeVars, Parents, Extents, Uses, ParentOf
<1>6. CASE ~UNCHANGED books
  <2>1. Served(s, m, n) /\ PreA(s, m, n) /\ ~exhausted
    BY <1>6 DEF Allocate
  <2>2. /\ used[s] + n <= MaxUsed
        /\ metered' = [metered EXCEPT ![s] = m + n]
        /\ used' = [used EXCEPT ![s] = @ + n]
    BY <2>1 DEF Served
  <2>3. /\ metered \in [Slots -> Nat] /\ used \in [Slots -> Nat]
        /\ free[s] \in Nat /\ reserved[s] \in Nat /\ extent[s] \in Nat
    BY <1>1 DEF TableInv, TypeInv, TableOK
  <2>4. \A k \in LiveBudgets : Uses'[k] = IF SlotOf(k) = s THEN Uses[k] + n ELSE Uses[k]
    <3> TAKE k \in LiveBudgets
    <3>1. SlotOf(k) \in Slots /\ SlotOf(k)' = SlotOf(k)
      BY <1>3, LiveFacts DEF TableInv
    <3>2. Uses'[k] = used'[SlotOf(k)] /\ Uses[k] = used[SlotOf(k)]
      BY <1>3, <3>1 DEF Uses
    <3> QED BY <2>2, <2>3, <3>1, <3>2
  <2>5. CASE live[s]
    <3>1. PICK b : b = tenant[s]
      OBVIOUS
    <3>2. b \in LiveBudgets /\ SlotOf(b) = s
      BY <1>1, <2>5, <3>1 DEF TableInv, Tenancy
    <3>3. \A k \in LiveBudgets : SlotOf(k) = s <=> k = b
      BY <3>2, LiveFacts DEF TableInv
    <3>4. used[s] + reserved[s] + n <= extent[s]
      <4>1. used'[s] = used[s] + n /\ metered'[s] = m + n
        BY <1>1, <2>2, <2>3
      <4>2. used[s] = m
        BY <1>1, <2>3, <4>1
      <4>3. Balanced(s)
        BY <2>1, <2>5 DEF TableInv, BooksInv
      <4>4. metered[s] = m
        BY <1>1, <2>3, <4>2, <4>3 DEF Balanced
      <4>5. free[s] + used[s] + reserved[s] = extent[s]
        BY <4>2, <4>3, <4>4 DEF Balanced
      <4>6. \/ n <= free[s]
            \/ reserved[s] = 0 /\ m + n <= extent[s]
        BY <2>1, <2>2, <2>5, PreAHasRoom DEF TableInv
      <4> QED BY <2>3, <4>2, <4>5, <4>6
    <3>5. Tree!Fits(b, n)
      BY <3>2, <3>4, TreeFits DEF TableInv
    <3>6. Uses' = [Uses EXCEPT ![b] = @ + n]
      BY <1>3, <2>4, <3>2, <3>3 DEF Uses
    <3>7. Tree!Charge(b, n)
      BY <1>3, <1>4, <3>2, <3>5, <3>6 DEF Tree!Charge, Parents, Extents, Uses, ParentOf
    <3> QED BY <3>2, <3>7
  <2>6. CASE ~live[s]
    <3>1. \A k \in LiveBudgets : SlotOf(k) # s
      BY <2>6, LiveFacts DEF TableInv
    <3>2. Uses' = Uses
      BY <1>3, <2>4, <3>1 DEF Uses
    <3> QED BY <1>3, <1>4, <3>2 DEF Tree!treeVars, Parents, Extents, Uses, ParentOf
  <2> QED BY <2>5, <2>6
<1> QED BY <1>5, <1>6

\* A step that neither carves, reaps nor charges does not touch the tree.
LEMMA QuietTree ==
    ASSUME UNCHANGED <<minted, tenant, reaped, parent, extent, used>>
    PROVE  UNCHANGED Tree!treeVars
<1>1. /\ LiveBudgets' = LiveBudgets
      /\ \A k : SlotOf(k)' = SlotOf(k) /\ ParentOf(k)' = ParentOf(k)
  BY DEF LiveBudgets, Handles, SlotOf, Descriptor, ParentOf
<1>2. Parents' = Parents /\ Extents' = Extents /\ Uses' = Uses
  BY <1>1 DEF Parents, Extents, Uses
<1> QED BY <1>1, <1>2 DEF Tree!treeVars, Parents, Extents, Uses, ParentOf

\* What a step of the JIT may do to the tree.
TreeStep ==
    \/ Tree!TreeNext
    \/ exhausted' \/ used' # metered'
    \/ Tree!TreeInit'

\* Every step is one of the tree, excused, or none.
LEMMA StepTree ==
    ASSUME TableInv, [Next]_vars
    PROVE  [TreeStep]_(Tree!treeVars)
<1> SUFFICES ASSUME ~exhausted', used' = metered'
             PROVE  TreeStep \/ UNCHANGED Tree!treeVars
  BY DEF TreeStep
<1>1. ASSUME NEW refusal, Fatal(refusal)
      PROVE  UNCHANGED Tree!treeVars
  BY <1>1, QuietTree DEF Fatal, books, names
<1>2. ASSUME NEW h \in Handles, NEW n \in Requests, Carve(h, n)
      PROVE  TreeStep
  <2>1. ~exhausted
    BY <1>2 DEF Carve, policy
  <2> QED BY <1>2, <2>1, CarveTree DEF Tree!TreeNext, TreeStep
<1>3. ASSUME NEW h \in Handles, NEW n \in Requests, CarveRefused(h, n)
      PROVE  UNCHANGED Tree!treeVars
  BY <1>1, <1>3 DEF CarveRefused
<1>4. ASSUME NEW h \in Handles, Reap(h)
      PROVE  TreeStep
  BY <1>4, ReapTree DEF Tree!TreeNext, TreeStep
<1>5. ASSUME NEW h \in Handles, ReapRefused(h) \/ Enter(h) \/ EnterRefused(h)
      PROVE  UNCHANGED Tree!treeVars
  BY <1>1, <1>5, QuietTree DEF ReapRefused, Enter, EnterRefused, books, names
<1>6. ASSUME NEW n \in Sizes, NEW s \in 0..(size - 1), NEW m \in Nat, m <= metered[s], Allocate(s, m, n)
      PROVE  TreeStep \/ UNCHANGED Tree!treeVars
  <2>1. n \in Nat
    BY JitAssumption
  <2> QED BY <1>6, <2>1, ChargeTree DEF Tree!TreeNext, TreeStep
<1>7. cur \in 0..(size - 1) /\ 0 \in 0..(size - 1)
  BY SlotsBelow DEF TableInv, TypeInv, ControlOK
<1>8. ASSUME NEW n \in Sizes, NEW s \in 0..(size - 1), AllocIn(s, n)
      PROVE  TreeStep \/ UNCHANGED Tree!treeVars
  <2>1. metered[s] \in Nat /\ metered[s] <= metered[s]
    BY SlotsBelow, MeterTyped DEF TableInv, TypeInv
  <2> QED BY <1>6, <1>8, <2>1 DEF AllocIn
<1>9. ASSUME NEW n \in Sizes, ClosePass(n)
      PROVE  TreeStep \/ UNCHANGED Tree!treeVars
  <2>1. Inside /\ Top.mark <= metered[cur] /\ Allocate(cur, Top.mark, n)
    BY <1>9 DEF ClosePass, CloseWindow, MarkHolds, Bare
  <2>2. Top.mark \in Nat
    BY <2>1, TopTyped DEF TableInv
  <2> QED BY <1>6, <1>7, <2>1, <2>2
<1>10. CASE EndExtent \/ Break \/ Continue \/ Return
  BY <1>10, QuietTree DEF EndExtent, Break, Continue, Return, LeaveTo, books, names
<1>11. CASE OpenFrame("fn") \/ OpenFrame("loop") \/ OpenWindow("forward") \/ OpenWindow("pass")
  BY <1>11, QuietTree DEF OpenFrame, OpenWindow, books, names
<1>12. CASE CloseForward
  BY <1>12, QuietTree DEF CloseForward, names
<1>13. CASE CloseRefused
  BY <1>1, <1>13 DEF CloseRefused
<1>14. CASE NextTest
  <2>1. Fresh' => Tree!TreeInit'
    BY FreshTree, PTL
  <2> QED BY <1>14, <2>1, NextTestFresh DEF TreeStep
<1>15. CASE UNCHANGED vars
  BY <1>15, QuietTree DEF vars, books, names
<1>16. ASSUME NEW n \in Sizes, Alloc(n) \/ AllocVault(n)
       PROVE  TreeStep \/ UNCHANGED Tree!treeVars
  BY <1>7, <1>8, <1>16 DEF Alloc, AllocVault
<1> QED BY <1>2, <1>3, <1>4, <1>5, <1>9, <1>10, <1>11, <1>12, <1>13, <1>14, <1>15, <1>16 DEF Next

\* The JIT's table of reused slots implements the tree of budgets both backends
\* promise, one tree for each test, until an exhaustion is on record or a @grad
\* call has parted the two counters.
THEOREM TableIsATree ==
    ASSUME NoWrap
    PROVE  Spec => ImplementsTree
<1>1. Init => Tree!TreeInit /\ Tenancy
  BY InitFresh, FreshTree, FreshTenancy
<1>2. TypeInv /\ Tenancy /\ [Next]_vars => Tenancy'
  BY StepTenancy
<1>3. TypeInv /\ HandleInv /\ Tenancy /\ BooksInv /\ [Next]_vars => [TreeStep]_(Tree!treeVars)
  BY StepTree DEF TableInv
<1> QED BY <1>1, <1>2, <1>3, HandleInvariant, BooksInvariant, PTL
        DEF Spec, ImplementsTree, TreeStep
===============================================================================
