------------------------- MODULE InterpBudgets_proofs -------------------------
(***************************************************************************)
(* Theorems about the interpreter's budget table, for every limit, every   *)
(* set of request and value sizes, every length of the table and every     *)
(* number of carves.                                                       *)
(*                                                                         *)
(* The first part is about InterpBudgets: the types; stale handles are     *)
(* refused exactly; the register follows its guards; a tensor carries the  *)
(* stamp of the budget that paid for it; every live budget balances; and   *)
(* the table implements BudgetTree.  The inductive invariant is TypeInv    *)
(* with HandleInv, which ties each handle ever minted to the generation    *)
(* and the tenant of its slot, and says that a slot is on the free stack   *)
(* once, and only when nobody holds a live handle on it; with FamilyInv,   *)
(* which ties what a slot reserved to the extents of the budgets carved    *)
(* from it; and, for one theorem each, with StampInv and BooksInv.         *)
(*                                                                         *)
(* The second part adds GradWindows, with any nesting of @grad calls: no   *)
(* rewind hands back what a constructor may still hold; and as long as no  *)
(* window was crossed, rewinds keep the books and a pass can pay for what  *)
(* it publishes.  Core ties each window still open to the extent it was    *)
(* opened in, and its mark to the bytes named since.  Covered says the     *)
(* budget holds what every open window will land on, the outer ones after  *)
(* the inner ones.                                                         *)
(***************************************************************************)
EXTENDS GradWindows, StacksAndSums, FiniteSetTheorems

(* Type correctness.                                                        *)

\* A slot of the table below its length has had a tenant and, the root apart,
\* a bounded extent.
Born == \A s \in 1..(size - 1) : tenant[s] # 0 /\ extent[s] # Unbounded

TypeInv == TypeOK /\ Born

\* Slot numbers below size are slots.
LEMMA SlotsBelow ==
    ASSUME TableTypeOK
    PROVE  /\ size \in Nat \ {0} /\ size <= MaxSlots
           /\ \A s \in 0..(size - 1) : s \in Slots
           /\ \A s \in 1..(size - 1) : s \in 0..(size - 1) /\ s \in Slots /\ s # 0
           /\ 0 \in 0..(size - 1)
<1>1. size \in 1..MaxSlots /\ MaxSlots \in Nat \ {0}
  BY InterpAssumption DEF TableTypeOK
<1> QED BY <1>1 DEF Slots

LEMMA Ranges ==
    ASSUME NEW a \in Nat, NEW b \in Nat, a <= b
    PROVE  /\ 0..(a - 1) \subseteq 0..(b - 1)
           /\ 1..(a - 1) \subseteq 1..(b - 1)
OBVIOUS

\* What may be reaped is a carved, live budget.
LEMMA NotTheRoot ==
    ASSUME NEW b \in Nat, NEW r \in 1..(b - 1)
    PROVE  r \in 0..(b - 1) /\ r # 0
OBVIOUS

LEMMA RootOrCarved ==
    ASSUME NEW b \in Nat, NEW r \in 0..(b - 1)
    PROVE  r = 0 \/ r \in 1..(b - 1)
OBVIOUS

LEMMA MinusType ==
    ASSUME NEW f \in Nat \cup {Unbounded}, NEW n \in Nat, f # Unbounded => n <= f
    PROVE  Minus(f, n) \in Nat \cup {Unbounded}
BY InterpAssumption DEF Minus

LEMMA PlusType ==
    ASSUME NEW f \in Nat \cup {Unbounded}, NEW n \in Nat
    PROVE  Plus(f, n) \in Nat \cup {Unbounded}
BY InterpAssumption DEF Plus

LEMMA DescriptorType ==
    ASSUME TypeOK, NEW h \in Handles
    PROVE  /\ Descriptor(h) \in Tags
           /\ Descriptor(h).slot \in 0..(size - 1)
           /\ Descriptor(h).slot \in Slots
           /\ h # 0 => Descriptor(h).slot # 0
<1>1. TableTypeOK /\ minted \in Seq({d \in Tags : d.slot # 0})
  BY DEF TypeOK
<1>2. h # 0 => Descriptor(h) \in {d \in Tags : d.slot # 0}
  <2>1. h # 0 => h \in 1..Len(minted)
    BY <1>1, LenProperties DEF Handles
  <2> QED BY <1>1, <2>1, ElementOfSeq DEF Descriptor
<1>3. h = 0 => Descriptor(h) \in Tags
  BY <1>1, SlotsBelow, InterpAssumption DEF Descriptor, RootTag, Tags
<1>4. Descriptor(h) \in Tags /\ (h # 0 => Descriptor(h).slot # 0)
  BY <1>2, <1>3
<1> QED BY <1>1, <1>4, SlotsBelow DEF Tags

LEMMA StampType ==
    ASSUME TableTypeOK, NEW s \in 0..(size - 1)
    PROVE  Stamp(s) \in Tags
<1>1. s \in Slots /\ 0 \in 0..(size - 1)
  BY SlotsBelow
<1>2. gen[s] \in 0..(GenMod - 1)
  BY <1>1 DEF TableTypeOK
<1> QED BY <1>1, <1>2, InterpAssumption DEF Stamp, RootTag, Tags

\* The empty table is well typed.
LEMMA InitTypeInv == Init => TypeInv
<1> SUFFICES ASSUME Init
             PROVE  TypeInv
  OBVIOUS
<1>1. /\ size \in 1..MaxSlots /\ size = 1
      /\ parent \in [Slots -> Slots]
      /\ used \in [Slots -> Nat]
      /\ children \in [Slots -> Int]
      /\ reserved \in [Slots -> Int]
      /\ gen \in [Slots -> 0..(GenMod - 1)]
      /\ tenant \in [Slots -> Handles]
  BY InterpAssumption DEF Init, Slots, Handles
<1>2. /\ extent \in [Slots -> Nat \cup {Unbounded}]
      /\ free \in [Slots -> Nat \cup {Unbounded}]
  BY InterpAssumption DEF Init
<1>3. tag \in Tags /\ cur \in 0..(size - 1)
  BY InterpAssumption DEF Init, RootTag, Tags
<1>4. /\ budgetFree \in Seq(1..(size - 1))
      /\ guards \in Seq([index : 0..(size - 1), tag : Tags, budget : Handles])
      /\ minted \in Seq({d \in Tags : d.slot # 0})
  BY EmptySeq DEF Init
<1>5. TableTypeOK
  BY <1>1, <1>2 DEF TableTypeOK
<1> QED BY <1>1, <1>3, <1>4, <1>5 DEF Init, TypeInv, TypeOK, Born

\* A carve moves bytes between two slots of the table.
LEMMA GrantType ==
    ASSUME TableTypeOK, NEW p \in Slots, NEW s \in Slots, NEW n \in Nat,
           Fits(p, n), Grant(p, s, n)
    PROVE  /\ parent' \in [Slots -> Slots]
           /\ extent' \in [Slots -> Nat \cup {Unbounded}]
           /\ used' \in [Slots -> Nat]
           /\ free' \in [Slots -> Nat \cup {Unbounded}]
           /\ children' \in [Slots -> Int]
           /\ reserved' \in [Slots -> Int]
           /\ \A r \in Slots : extent'[r] = IF r = s THEN n ELSE extent[r]
<1>1. Minus(free[p], n) \in Nat \cup {Unbounded}
  BY MinusType DEF TableTypeOK, Fits
<1> QED BY <1>1 DEF TableTypeOK, Grant

LEMMA CarveSlotType ==
    ASSUME TableTypeOK, budgetFree \in Seq(1..(size - 1)), CarveSlot \in Slots
    PROVE  /\ CarveSlot \in 1..size
           /\ budgetFree = <<>> => CarveSlot = size
           /\ budgetFree # <<>> => CarveSlot \in 1..(size - 1)
<1>1. size \in Nat \ {0}
  BY SlotsBelow
<1>2. budgetFree # <<>> => Last(budgetFree) \in 1..(size - 1)
  BY StackPop
<1> QED BY <1>1, <1>2 DEF CarveSlot

\* What a carve does to the length of the table and the slot it takes.
LEMMA CarveShape ==
    ASSUME TypeInv, NEW h \in Handles, NEW n \in Requests, Carve(h, n)
    PROVE  /\ n \in Nat
           /\ Descriptor(h).slot \in 0..(size - 1) /\ Descriptor(h).slot \in Slots
           /\ CarveSlot \in Slots /\ CarveSlot \in 1..size
           /\ size' \in Nat /\ size' \in {size, size + 1} /\ size' <= MaxSlots
           /\ \A r \in 1..(size' - 1) : r \in 1..(size - 1) \/ r = CarveSlot
           /\ CarveSlot \in 1..(size' - 1)
           /\ budgetFree = <<>> => budgetFree' = <<>>
           /\ budgetFree # <<>> => budgetFree' = Front(budgetFree) /\ size' = size
<1>1. TypeOK /\ TableTypeOK /\ budgetFree \in Seq(1..(size - 1))
  BY DEF TypeInv, TypeOK
<1>2. n \in Nat
  BY InterpAssumption DEF Carve
<1>3. CarveSlot \in Slots
  BY DEF Carve
<1>4. /\ budgetFree = <<>> => size' = size + 1 /\ budgetFree' = budgetFree
      /\ budgetFree # <<>> => size' = size /\ budgetFree' = Front(budgetFree)
  BY DEF Carve
<1>5. size \in Nat \ {0} /\ size <= MaxSlots
  BY <1>1, SlotsBelow
<1>6. size' \in Nat /\ size' \in {size, size + 1} /\ size' <= MaxSlots
  <2>1. CASE budgetFree = <<>>
    BY <1>1, <1>3, <1>4, <1>5, <2>1, CarveSlotType, InterpAssumption DEF Slots
  <2>2. CASE budgetFree # <<>>
    BY <1>4, <1>5, <2>2
  <2> QED BY <2>1, <2>2
<1>7. /\ \A r \in 1..(size' - 1) : r \in 1..(size - 1) \/ r = CarveSlot
      /\ CarveSlot \in 1..(size' - 1)
  BY <1>1, <1>3, <1>4, <1>5, CarveSlotType
<1> QED BY <1>1, <1>2, <1>3, <1>4, <1>6, <1>7, CarveSlotType, DescriptorType

\* A carve keeps the table well typed, on a new slot or a reused one.
LEMMA CarveTypeInv ==
    ASSUME TypeInv, NEW h \in Handles, NEW n \in Requests, Carve(h, n)
    PROVE  TypeInv'
<1> DEFINE c == CarveSlot
           dc == [slot |-> c, gen |-> gen[c]]
<1>1. /\ TableTypeOK /\ Born
      /\ size \in Nat \ {0} /\ \A r \in 1..(size - 1) : r \in Slots
      /\ minted \in Seq({t \in Tags : t.slot # 0})
      /\ guards \in Seq([index : 0..(size - 1), tag : Tags, budget : Handles])
  BY SlotsBelow DEF TypeInv, TypeOK
<1>2. /\ n \in Nat /\ Descriptor(h).slot \in Slots
      /\ c \in Slots /\ c \in 1..(size' - 1)
      /\ size' \in Nat /\ size' \in {size, size + 1} /\ size' <= MaxSlots
      /\ \A r \in 1..(size' - 1) : r \in 1..(size - 1) \/ r = c
  BY CarveShape
<1>3. /\ Fits(Descriptor(h).slot, n) /\ Grant(Descriptor(h).slot, c, n)
      /\ minted' = Append(minted, dc)
      /\ tenant' = [tenant EXCEPT ![c] = Len(minted) + 1]
      /\ UNCHANGED <<gen, reaped, cur, tag, guards, vaultUsed, tensors, status>>
  BY DEF Carve, register
<1>4. /\ Tags \subseteq Tags'
      /\ 0..(size - 1) \subseteq 0..(size' - 1)
      /\ 1..(size - 1) \subseteq 1..(size' - 1)
  <2>1. size \in Nat /\ size' \in Nat /\ size <= size'
    BY <1>1, <1>2
  <2>2. /\ 0..(size - 1) \subseteq 0..(size' - 1)
        /\ 1..(size - 1) \subseteq 1..(size' - 1)
    BY <2>1, Ranges
  <2> QED BY <2>2 DEF Tags
<1>5. dc \in {t \in Tags' : t.slot # 0}
  <2>1. gen[c] \in 0..(GenMod - 1)
    BY <1>1, <1>2 DEF TableTypeOK
  <2>2. c \in 0..(size' - 1) /\ c # 0
    <3>1. size' \in Nat /\ c \in 1..(size' - 1)
      BY <1>2
    <3> HIDE DEF c
    <3> QED BY <3>1, NotTheRoot
  <2> QED BY <2>1, <2>2 DEF Tags
<1>6. /\ minted' \in Seq({t \in Tags' : t.slot # 0})
      /\ Len(minted) \in Nat /\ Len(minted') = Len(minted) + 1
  <2>1. minted \in Seq({t \in Tags' : t.slot # 0})
    BY <1>1, <1>4, StackWiden
  <2> HIDE DEF dc
  <2> QED BY <1>3, <1>5, <2>1, StackPush
<1>7. Handles \subseteq Handles' /\ Len(minted) + 1 \in Handles'
  BY <1>6 DEF Handles
<1>8. guards' \in Seq([index : 0..(size' - 1), tag : Tags', budget : Handles'])
  <2>1. [index : 0..(size - 1), tag : Tags, budget : Handles]
            \subseteq [index : 0..(size' - 1), tag : Tags', budget : Handles']
    BY <1>4, <1>7
  <2> QED BY <1>1, <1>3, <2>1, StackWiden
<1>9. tensors' \subseteq [tag : Tags', paid : Handles', late : BOOLEAN]
  <2>1. tensors \subseteq [tag : Tags, paid : Handles, late : BOOLEAN]
    BY DEF TypeInv, TypeOK
  <2> QED BY <1>3, <1>4, <1>7, <2>1
<1>10. budgetFree' \in Seq(1..(size' - 1))
  <2>1. budgetFree \in Seq(1..(size - 1))
    BY DEF TypeInv, TypeOK
  <2>2. budgetFree \in Seq(1..(size' - 1))
    BY <1>4, <2>1, StackWiden
  <2> QED BY <2>2, StackPop, EmptySeq, CarveShape
<1>11. reaped' \subseteq 1..Len(minted')
  BY <1>3, <1>6 DEF TypeInv, TypeOK
<1>12. TableTypeOK'
  <2>1. tenant' \in [Slots -> Handles']
    BY <1>1, <1>2, <1>3, <1>7 DEF TableTypeOK
  <2>2. gen' \in [Slots -> 0..(GenMod - 1)] /\ size' \in 1..MaxSlots
    BY <1>1, <1>2, <1>3 DEF TableTypeOK
  <2> QED BY <1>1, <1>2, <1>3, <2>1, <2>2, GrantType DEF TableTypeOK
<1>13. Born'
  <2>1. \A r \in 1..(size' - 1) : tenant'[r] # 0
    <3>1. \A r \in Slots : tenant'[r] = IF r = c THEN Len(minted) + 1 ELSE tenant[r]
      BY <1>2, <1>3 DEF TypeInv, TypeOK, TableTypeOK
    <3>2. \A r \in 1..(size' - 1) : r \in Slots /\ (r # c => tenant[r] # 0)
      BY <1>1, <1>2 DEF Born
    <3> QED BY <1>6, <3>1, <3>2
  <2>2. \A r \in 1..(size' - 1) : extent'[r] # Unbounded
    <3>1. \A r \in Slots : extent'[r] = IF r = c THEN n ELSE extent[r]
      <4> DEFINE q == Descriptor(h).slot
      <4>1. /\ TableTypeOK /\ q \in Slots /\ c \in Slots /\ n \in Nat
            /\ Fits(q, n) /\ Grant(q, c, n)
        BY <1>1, <1>2, <1>3
      <4> HIDE DEF c, q
      <4> QED BY <4>1, GrantType
    <3>2. \A r \in 1..(size' - 1) : r \in Slots /\ (r # c => extent[r] # Unbounded)
      BY <1>1, <1>2 DEF Born
    <3>3. n # Unbounded
      BY InterpAssumption
    <3> QED BY <3>1, <3>2, <3>3
  <2> QED BY <2>1, <2>2 DEF Born
<1>14. cur' \in 0..(size' - 1) /\ tag' \in Tags' /\ vaultUsed' \in Nat
  BY <1>3, <1>4 DEF TypeInv, TypeOK
<1> QED BY <1>3, <1>6, <1>8, <1>9, <1>10, <1>11, <1>12, <1>13, <1>14 DEF TypeInv, TypeOK

-------------------------------------------------------------------------------

\* The actions that carve nothing leave the length of the table and the
\* handles handed out alone, so only the fields they write are at stake.
Frame == UNCHANGED <<size, parent, extent, gen, budgetFree, minted, tenant, reaped>>

LEMMA FrameType ==
    ASSUME TypeInv, Frame,
           used' \in [Slots -> Nat], free' \in [Slots -> Nat \cup {Unbounded}],
           children' \in [Slots -> Int], reserved' \in [Slots -> Int],
           cur' \in 0..(size - 1), tag' \in Tags,
           guards' \in Seq([index : 0..(size - 1), tag : Tags, budget : Handles]),
           vaultUsed' \in Nat,
           tensors' \subseteq [tag : Tags, paid : Handles, late : BOOLEAN],
           status' \in {"running", "budget-stale", "negative", "budget-carve",
                        "budget-reap", "table-full", "exhausted"}
    PROVE  TypeInv'
<1>1. Handles' = Handles /\ Tags' = Tags /\ Born' /\ size' = size
  BY DEF TypeInv, Frame, Born, Tags, Handles
<1>2. TableTypeOK'
  BY <1>1 DEF TypeInv, TypeOK, TableTypeOK, Frame
<1>3. /\ budgetFree' \in Seq(1..(size - 1))
      /\ minted' \in Seq({d \in Tags : d.slot # 0})
      /\ reaped' \subseteq 1..Len(minted')
  BY DEF TypeInv, TypeOK, Frame
<1> QED BY <1>1, <1>2, <1>3 DEF TypeInv, TypeOK

\* The typing a frame step inherits for what it does not write.
LEMMA Typed ==
    ASSUME TypeInv
    PROVE  /\ used \in [Slots -> Nat] /\ free \in [Slots -> Nat \cup {Unbounded}]
           /\ children \in [Slots -> Int] /\ reserved \in [Slots -> Int]
           /\ cur \in 0..(size - 1) /\ cur \in Slots /\ tag \in Tags
           /\ guards \in Seq([index : 0..(size - 1), tag : Tags, budget : Handles])
           /\ vaultUsed \in Nat
           /\ tensors \subseteq [tag : Tags, paid : Handles, late : BOOLEAN]
           /\ status \in {"running", "budget-stale", "negative", "budget-carve",
                          "budget-reap", "table-full", "exhausted"}
BY SlotsBelow DEF TypeInv, TypeOK, TableTypeOK

Errors == {"budget-stale", "negative", "budget-carve", "budget-reap", "exhausted"}

LEMMA RaiseTypeInv ==
    ASSUME TypeInv, NEW e \in Errors, Raise(e)
    PROVE  TypeInv'
<1>1. /\ Frame
      /\ UNCHANGED <<used, free, children, reserved, cur, tag, guards, vaultUsed, tensors>>
      /\ status' = e
  BY DEF Raise, table, meters, register, Frame
<1> QED BY <1>1, FrameType, Typed DEF Errors

\* A carve refused for want of a slot has taken its bytes and counted its child.
LEMMA TableFullTypeInv ==
    ASSUME TypeInv, NEW h \in Handles, NEW n \in Requests, CarveTableFull(h, n)
    PROVE  TypeInv'
<1> DEFINE p == Descriptor(h).slot
<1>1. /\ Frame
      /\ UNCHANGED <<used, reserved, cur, tag, guards, vaultUsed, tensors>>
      /\ status' = "table-full"
      /\ free' = [free EXCEPT ![p] = Minus(@, n)]
      /\ children' = [children EXCEPT ![p] = @ + 1]
      /\ Fits(p, n) /\ n \in Nat
  BY InterpAssumption DEF CarveTableFull, register, Frame
<1>2. p \in Slots
  BY DescriptorType DEF TypeInv
<1>3. Minus(free[p], n) \in Nat \cup {Unbounded}
  BY <1>1, <1>2, Typed, MinusType DEF Fits
<1>4. /\ free' \in [Slots -> Nat \cup {Unbounded}]
      /\ children' \in [Slots -> Int]
  BY <1>1, <1>2, <1>3, Typed
<1> QED BY <1>1, <1>4, FrameType, Typed

\* What a reap reads: a slot of the table that is not the root, and its parent.
LEMMA ReapShape ==
    ASSUME TypeInv, NEW h \in Handles, Reap(h)
    PROVE  /\ Descriptor(h).slot \in Slots /\ Descriptor(h).slot \in 1..(size - 1)
           /\ parent[Descriptor(h).slot] \in Slots
           /\ extent[Descriptor(h).slot] \in Nat
           /\ gen[Descriptor(h).slot] \in 0..(GenMod - 1)
           /\ tenant[Descriptor(h).slot] \in 1..Len(minted)
<1> DEFINE s == Descriptor(h).slot
<1>1. s \in Slots /\ s \in 1..(size - 1)
  BY SlotsBelow, DescriptorType DEF TypeInv, TypeOK, Reap, Reapable
<1>2. tenant[s] # 0 /\ extent[s] # Unbounded
  BY <1>1 DEF TypeInv, Born
<1>3. Len(minted) \in Nat
  BY LenProperties DEF TypeInv, TypeOK
<1> HIDE DEF s
<1>4. /\ parent[s] \in Slots /\ extent[s] \in Nat \cup {Unbounded}
      /\ gen[s] \in 0..(GenMod - 1) /\ tenant[s] \in Handles
  BY <1>1 DEF TypeInv, TypeOK, TableTypeOK
<1> QED BY <1>1, <1>2, <1>3, <1>4 DEF s, Handles

\* A reap keeps the table well typed.
LEMMA ReapTypeInv ==
    ASSUME TypeInv, NEW h \in Handles, Reap(h)
    PROVE  TypeInv'
<1> DEFINE s == Descriptor(h).slot
           p == parent[s]
<1>1. /\ s \in Slots /\ s \in 1..(size - 1) /\ p \in Slots /\ extent[s] \in Nat
      /\ gen[s] \in 0..(GenMod - 1) /\ tenant[s] \in 1..Len(minted)
  BY ReapShape
<1>2. /\ free' = [free EXCEPT ![p] = Plus(@, extent[s])]
      /\ children' = [children EXCEPT ![p] = @ - 1]
      /\ reserved' = [reserved EXCEPT ![p] = @ - extent[s]]
      /\ UNCHANGED <<parent, extent, used>>
      /\ gen' = [gen EXCEPT ![s] = NextGeneration(@)]
      /\ budgetFree' = Append(budgetFree, s)
      /\ reaped' = reaped \cup {tenant[s]}
      /\ UNCHANGED <<size, minted, tenant, cur, tag, guards, vaultUsed, tensors, status>>
  BY DEF Reap, Credit, register
<1> HIDE DEF s, p
<1>3. /\ free' \in [Slots -> Nat \cup {Unbounded}]
      /\ children' \in [Slots -> Int]
      /\ reserved' \in [Slots -> Int]
  <2>1. Plus(free[p], extent[s]) \in Nat \cup {Unbounded}
    BY <1>1, Typed, PlusType
  <2>2. /\ p \in Slots /\ extent[s] \in Nat
        /\ free' = [free EXCEPT ![p] = Plus(@, extent[s])]
        /\ children' = [children EXCEPT ![p] = @ - 1]
        /\ reserved' = [reserved EXCEPT ![p] = @ - extent[s]]
    BY <1>1, <1>2
  <2> QED BY <2>1, <2>2, Typed
<1>4. gen' \in [Slots -> 0..(GenMod - 1)]
  <2>1. NextGeneration(gen[s]) \in 0..(GenMod - 1)
    BY <1>1, InterpAssumption DEF NextGeneration
  <2> QED BY <1>1, <1>2, <2>1 DEF TypeInv, TypeOK, TableTypeOK
<1>5. budgetFree' \in Seq(1..(size - 1))
  <2>1. budgetFree \in Seq(1..(size - 1))
    BY DEF TypeInv, TypeOK
  <2> QED BY <1>1, <1>2, <2>1, StackPush
<1>6. reaped' \subseteq 1..Len(minted)
  BY <1>1, <1>2 DEF TypeInv, TypeOK
<1>7. Handles' = Handles /\ Tags' = Tags /\ Born'
  BY <1>2 DEF Handles, Tags, Born, TypeInv
<1>8. TableTypeOK'
  BY <1>2, <1>3, <1>4, <1>7 DEF TypeInv, TypeOK, TableTypeOK
<1> QED BY <1>2, <1>5, <1>6, <1>7, <1>8 DEF TypeInv, TypeOK

\* Entering an extent pushes one guard.
LEMMA EnterTypeInv ==
    ASSUME TypeInv, NEW h \in Handles, Enter(h)
    PROVE  TypeInv'
<1> DEFINE s == Descriptor(h).slot
           g == [index |-> cur, tag |-> tag, budget |-> tenant[s]]
<1>1. /\ Frame /\ UNCHANGED <<used, free, children, reserved, vaultUsed, tensors, status>>
      /\ cur' = s /\ tag' = Stamp(s) /\ guards' = Append(guards, g)
  BY DEF Enter, table, meters, Frame
<1>2. s \in 0..(size - 1) /\ s \in Slots
  BY DescriptorType DEF TypeInv
<1>3. Stamp(s) \in Tags /\ tenant[s] \in Handles
  BY <1>2, StampType DEF TypeInv, TypeOK, TableTypeOK
<1>4. g \in [index : 0..(size - 1), tag : Tags, budget : Handles]
  BY <1>3, Typed
<1>5. guards' \in Seq([index : 0..(size - 1), tag : Tags, budget : Handles])
  <2> HIDE DEF g
  <2> QED BY <1>1, <1>4, StackPush, Typed
<1> QED BY <1>1, <1>2, <1>3, <1>5, FrameType, Typed

\* Leaving pops it.
LEMMA LeaveTypeInv ==
    ASSUME TypeInv, Leave
    PROVE  TypeInv'
<1>1. /\ Frame /\ UNCHANGED <<used, free, children, reserved, vaultUsed, tensors, status>>
      /\ guards # <<>> /\ guards' = Front(guards)
      /\ cur' = Last(guards).index /\ tag' = Last(guards).tag
  BY DEF Leave, table, meters, Frame
<1>2. /\ Last(guards) \in [index : 0..(size - 1), tag : Tags, budget : Handles]
      /\ Front(guards) \in Seq([index : 0..(size - 1), tag : Tags, budget : Handles])
  BY <1>1, StackPop, Typed
<1> QED BY <1>1, <1>2, FrameType, Typed

LEMMA ChargeType ==
    ASSUME TypeInv, NEW s \in Slots, NEW n \in Sizes, ChargeBudget(s, n)
    PROVE  /\ Frame /\ UNCHANGED <<children, reserved>>
           /\ free' \in [Slots -> Nat \cup {Unbounded}]
           /\ used' \in [Slots -> Nat]
<1>1. Minus(free[s], n) \in Nat \cup {Unbounded} /\ n \in Nat
  BY Typed, MinusType, InterpAssumption DEF ChargeBudget, Fits
<1> QED BY <1>1, Typed DEF ChargeBudget, Frame

LEMMA TensorType ==
    ASSUME NEW g \in Tags, NEW b \in Handles, NEW l \in BOOLEAN
    PROVE  [tag |-> g, paid |-> b, late |-> l] \in [tag : Tags, paid : Handles, late : BOOLEAN]
BY Zenon

\* What is bound has a stamp and a payer.
LEMMA BindType ==
    ASSUME TypeInv, Bind(tag)
    PROVE  tensors' \subseteq [tag : Tags, paid : Handles, late : BOOLEAN]
<1>1. tenant[cur] \in Handles
  BY Typed DEF TypeInv, TypeOK, TableTypeOK
<1> DEFINE l == ~Current(tag)
<1>2. l \in BOOLEAN
  BY Zenon DEF Current
<1>3. tensors' = tensors \cup {[tag |-> tag, paid |-> tenant[cur], late |-> l]}
  BY DEF Bind
<1> HIDE DEF l
<1>4. tag \in Tags /\ tensors \subseteq [tag : Tags, paid : Handles, late : BOOLEAN]
  BY Typed
<1>5. [tag |-> tag, paid |-> tenant[cur], late |-> l] \in [tag : Tags, paid : Handles, late : BOOLEAN]
  BY <1>1, <1>2, <1>4, TensorType
<1> QED BY <1>3, <1>4, <1>5, Zenon

LEMMA TensorTypeInv ==
    ASSUME TypeInv, NEW n \in Sizes,
           AllocTensor(n) \/ \E t \in tensors : CopyTensor(t, n)
    PROVE  TypeInv'
<1>1. ChargeBudget(cur, n) /\ UNCHANGED <<cur, tag, guards, vaultUsed>>
  BY DEF AllocTensor, CopyTensor, register
<1>2. /\ Frame /\ UNCHANGED <<children, reserved>>
      /\ free' \in [Slots -> Nat \cup {Unbounded}]
      /\ used' \in [Slots -> Nat]
  BY <1>1, ChargeType, Typed
<1>3. /\ Bind(tag) \/ UNCHANGED tensors
      /\ status' \in {"running", "budget-stale"}
  BY DEF AllocTensor, CopyTensor
<1>4. tensors' \subseteq [tag : Tags, paid : Handles, late : BOOLEAN]
  BY <1>3, BindType, Typed
<1> QED BY <1>1, <1>2, <1>3, <1>4, FrameType, Typed

LEMMA StringTypeInv ==
    ASSUME TypeInv, NEW n \in Sizes, AllocString(n)
    PROVE  TypeInv'
<1>1. /\ Frame /\ UNCHANGED <<children, reserved>>
      /\ free' \in [Slots -> Nat \cup {Unbounded}]
      /\ used' \in [Slots -> Nat]
  BY ChargeType, Typed DEF AllocString
<1>2. UNCHANGED <<cur, tag, guards, vaultUsed, tensors, status>>
  BY DEF AllocString, register
<1> QED BY <1>1, <1>2, FrameType, Typed

LEMMA VaultTypeInv ==
    ASSUME TypeInv, NEW n \in Sizes, AllocVault(n)
    PROVE  TypeInv'
<1>1. CASE Raise("exhausted")
  BY <1>1, RaiseTypeInv DEF Errors
<1>2. CASE ~Raise("exhausted")
  <2>1. /\ vaultUsed' = vaultUsed + n
        /\ tensors' = tensors \cup {[tag |-> RootTag, paid |-> 0, late |-> FALSE]}
        /\ Frame /\ UNCHANGED <<used, free, children, reserved, cur, tag, guards, status>>
    BY <1>2 DEF AllocVault, table, meters, Frame, register
  <2>2. RootTag \in Tags /\ 0 \in Handles
    <3>1. 0 \in 0..(size - 1) /\ Len(minted) \in Nat
      BY SlotsBelow, LenProperties DEF TypeInv, TypeOK
    <3> QED BY <3>1, InterpAssumption DEF RootTag, Tags, Handles
  <2>3. vaultUsed' \in Nat
    BY <2>1, Typed, InterpAssumption
  <2>4. tensors' \subseteq [tag : Tags, paid : Handles, late : BOOLEAN]
    <3>1. [tag |-> RootTag, paid |-> 0, late |-> FALSE]
              \in [tag : Tags, paid : Handles, late : BOOLEAN]
      BY <2>2, TensorType, Zenon
    <3> QED BY <2>1, <3>1, Typed, Zenon
  <2> QED BY <2>1, <2>3, <2>4, FrameType, Typed
<1> QED BY <1>1, <1>2

\* Every step keeps the types.
LEMMA StepTypeInv == TypeInv /\ [Next]_vars => TypeInv'
<1> SUFFICES ASSUME TypeInv, [Next]_vars
             PROVE  TypeInv'
  OBVIOUS
<1>1. ASSUME NEW h \in Handles, NEW n \in Requests,
             Carve(h, n) \/ CarveRefused(h, n) \/ CarveTableFull(h, n)
      PROVE  TypeInv'
  BY <1>1, CarveTypeInv, TableFullTypeInv, RaiseTypeInv DEF CarveRefused, Errors
<1>2. ASSUME NEW h \in Handles, Reap(h) \/ ReapRefused(h) \/ Enter(h) \/ EnterRefused(h)
      PROVE  TypeInv'
  BY <1>2, ReapTypeInv, EnterTypeInv, RaiseTypeInv DEF ReapRefused, EnterRefused, Errors
<1>3. CASE Leave
  BY <1>3, LeaveTypeInv
<1>4. ASSUME NEW n \in Sizes,
             AllocTensor(n) \/ AllocString(n) \/ AllocVault(n) \/ Exhausted(n)
      PROVE  TypeInv'
  BY <1>4, TensorTypeInv, StringTypeInv, VaultTypeInv, RaiseTypeInv
     DEF Exhausted, Errors
<1>5. ASSUME NEW t \in tensors, ReadStale(t) \/ \E n \in Sizes : CopyTensor(t, n)
      PROVE  TypeInv'
  BY <1>5, TensorTypeInv, RaiseTypeInv DEF ReadStale, Errors
<1>6. CASE UNCHANGED vars
  <2>1. Frame /\ UNCHANGED <<used, free, children, reserved, cur, tag, guards,
                            vaultUsed, tensors, status>>
    BY <1>6 DEF vars, table, meters, register, Frame
  <2> QED BY <2>1, FrameType, Typed
<1> QED BY <1>1, <1>2, <1>3, <1>4, <1>5, <1>6 DEF Next

\* The invariant the other theorems of this component start from.
LEMMA TypeInvariant == Spec => []TypeInv
<1> QED BY InitTypeInv, StepTypeInv, PTL DEF Spec

\* Every behaviour keeps the table, the register and the stamps within what
\* BudgetEntry and the descriptor declare, whatever the limits and sizes.
THEOREM TypeCorrect == Spec => []TypeOK
<1>1. TypeInv => TypeOK
  BY DEF TypeInv
<1> QED BY <1>1, TypeInvariant, PTL

-------------------------------------------------------------------------------
(* Handles.                                                                 *)

\* The handle of a budget that is not reaped is current, its slot is still
\* that budget's and is not free; the handle of a reaped one is a generation
\* behind.
HandleOf(h) ==
    LET d == minted[h] IN
    IF h \in reaped
    THEN d.gen < gen[d.slot]
    ELSE d.gen = gen[d.slot] /\ tenant[d.slot] = h /\ d.slot \notin Freed

\* No generation outruns the number of reaps.
Generations ==
    /\ \A s \in Slots : gen[s] <= Cardinality(reaped)
    /\ Cardinality(reaped) <= MaxReaps

HandleInv ==
    /\ NoDuplicates(budgetFree)
    /\ gen[0] = 0 /\ tenant[0] = 0
    /\ Generations
    /\ \A h \in 1..Len(minted) : HandleOf(h)

\* There are finitely many reaped handles, so their number is at most MaxReaps.
LEMMA ReapedFinite ==
    ASSUME TypeInv
    PROVE  IsFiniteSet(reaped) /\ Cardinality(reaped) \in Nat
<1>1. Len(minted) \in Nat /\ reaped \subseteq 1..Len(minted)
  BY LenProperties DEF TypeInv, TypeOK
<1>2. IsFiniteSet(1..Len(minted))
  BY <1>1, FS_Interval
<1>3. IsFiniteSet(reaped)
  BY <1>1, <1>2, FS_Subset
<1> QED BY <1>3, FS_CardinalityType

\* What holds of one handle, written for its descriptor.
LEMMA HandleFacts ==
    ASSUME TypeInv, HandleInv, NEW h \in Handles
    PROVE  /\ Current(Descriptor(h)) <=> h \notin reaped
           /\ h \notin reaped => /\ tenant[Descriptor(h).slot] = h
                                 /\ Descriptor(h).slot \notin Freed
                                 /\ Stamp(Descriptor(h).slot) = Descriptor(h)
<1> DEFINE d == Descriptor(h)
<1>1. /\ d \in Tags /\ d.slot \in 0..(size - 1) /\ d.slot \in Slots
      /\ h # 0 => d.slot # 0
      /\ size \in Nat
  BY DescriptorType, SlotsBelow DEF TypeInv, TypeOK
<1>2. CASE h = 0
  <2>1. d = RootTag /\ h \notin reaped
    BY <1>2 DEF Descriptor, TypeInv, TypeOK
  <2>2. 0 \notin Freed
    <3>1. budgetFree \in Seq(1..(size - 1))
      BY DEF TypeInv, TypeOK
    <3>2. \A i \in 1..Len(budgetFree) : budgetFree[i] # 0
      BY <3>1, <1>1, ElementOfSeq
    <3> QED BY <3>1, <3>2, InStack DEF Freed
  <2> QED BY <1>1, <1>2, <2>1, <2>2 DEF Current, RootTag, HandleInv, Stamp
<1>3. CASE h # 0
  <2>1. h \in 1..Len(minted) /\ d = minted[h]
    BY <1>3, LenProperties DEF Handles, Descriptor, TypeInv, TypeOK
  <2>2. HandleOf(h)
    BY <2>1 DEF HandleInv
  <2>3. d.gen \in Nat /\ gen[d.slot] \in Nat
    BY <1>1, InterpAssumption DEF Tags, TypeInv, TypeOK, TableTypeOK
  <2>4. d.slot < size
    BY <1>1
  <2>5. Current(d) <=> h \notin reaped
    BY <2>1, <2>2, <2>3, <2>4 DEF Current, HandleOf
  <2>6. h \notin reaped => /\ tenant[d.slot] = h /\ d.slot \notin Freed
                           /\ d.gen = gen[d.slot]
    BY <2>1, <2>2 DEF HandleOf
  <2>7. d = [slot |-> d.slot, gen |-> d.gen]
    BY <1>1 DEF Tags
  <2>8. h \notin reaped => Stamp(d.slot) = d
    BY <1>1, <1>3, <2>6, <2>7 DEF Stamp
  <2> QED BY <2>5, <2>6, <2>8
<1> QED BY <1>2, <1>3

\* No handle has been minted at the start but the root's.
LEMMA InitHandleInv == Init => HandleInv
<1> SUFFICES ASSUME Init
             PROVE  HandleInv
  OBVIOUS
<1>1. Cardinality(reaped) = 0
  BY FS_EmptySet DEF Init
<1>2. Len(budgetFree) = 0 /\ Len(minted) = 0
  BY EmptySeq DEF Init
<1>3. Generations
  BY <1>1, InterpAssumption DEF Init, Generations
<1>4. gen[0] = 0 /\ tenant[0] = 0
  BY InterpAssumption DEF Init, Slots
<1> QED BY <1>2, <1>3, <1>4 DEF HandleInv, NoDuplicates

\* The slot a carve takes is nobody's, and is off the free stack afterwards.
LEMMA CarveSlotFree ==
    ASSUME TypeInv, HandleInv, NEW h \in Handles, NEW n \in Requests, Carve(h, n)
    PROVE  /\ NoDuplicates(budgetFree')
           /\ Freed' \subseteq Freed /\ CarveSlot \notin Freed'
           /\ \A k \in Handles \ reaped : Descriptor(k).slot # CarveSlot
<1>1. budgetFree \in Seq(1..(size - 1)) /\ NoDuplicates(budgetFree) /\ TypeOK /\ size \in Nat
  BY SlotsBelow DEF TypeInv, TypeOK, HandleInv
<1>2. CASE budgetFree = <<>>
  <2>1. budgetFree' = budgetFree /\ CarveSlot = size
    BY <1>2 DEF Carve, CarveSlot
  <2>2. CarveSlot \notin Freed
    BY <1>1, <2>1, InStack DEF Freed
  <2>3. \A k \in Handles : Descriptor(k).slot # CarveSlot
    BY <1>1, <2>1, DescriptorType
  <2> QED BY <1>1, <2>1, <2>2, <2>3 DEF Freed
<1>3. CASE budgetFree # <<>>
  <2>1. budgetFree' = Front(budgetFree) /\ CarveSlot = Last(budgetFree)
    BY <1>3 DEF Carve, CarveSlot
  <2>2. /\ NoDuplicates(budgetFree') /\ CarveSlot \in Freed
        /\ CarveSlot \notin Freed' /\ Freed' \subseteq Freed
    BY <1>1, <1>3, <2>1, PopNoDuplicates DEF Freed
  <2>3. \A k \in Handles \ reaped : Descriptor(k).slot # CarveSlot
    BY <2>2, HandleFacts
  <2> QED BY <2>2, <2>3
<1> QED BY <1>2, <1>3

\* The carve pops one slot off the free stack.
LEMMA CarveFreed ==
    ASSUME TypeInv, NEW h \in Handles, NEW n \in Requests, Carve(h, n), budgetFree # <<>>
    PROVE  \A x \in Freed : x \in Freed' \/ x = CarveSlot
<1>1. /\ budgetFree \in Seq(1..(size - 1)) /\ budgetFree' = Front(budgetFree)
      /\ CarveSlot = Last(budgetFree)
  BY DEF TypeInv, TypeOK, Carve, CarveSlot
<1>2. /\ Len(budgetFree) \in Nat \ {0} /\ CarveSlot = budgetFree[Len(budgetFree)]
      /\ budgetFree' \in Seq(1..(size - 1)) /\ Len(budgetFree') = Len(budgetFree) - 1
      /\ \A i \in 1..(Len(budgetFree) - 1) : budgetFree'[i] = budgetFree[i]
  BY <1>1, StackPop
<1>3. /\ \A x : x \in Freed <=> \E i \in 1..Len(budgetFree) : budgetFree[i] = x
      /\ \A x : x \in Freed' <=> \E i \in 1..Len(budgetFree') : budgetFree'[i] = x
  BY <1>1, <1>2, InStack DEF Freed
<1> QED BY <1>2, <1>3

\* The handles handed out keep their descriptors.
LEMMA CarveKeepsHandles ==
    ASSUME TypeInv, NEW h \in Handles, NEW n \in Requests, Carve(h, n)
    PROVE  /\ Len(minted) \in Nat /\ Len(minted') = Len(minted) + 1
           /\ \A k \in 1..Len(minted) : minted'[k] = minted[k]
           /\ minted'[Len(minted) + 1] = [slot |-> CarveSlot, gen |-> gen[CarveSlot]]
           /\ \A k \in Handles : k \in Handles' /\ Descriptor(k)' = Descriptor(k)
<1> DEFINE dc == [slot |-> CarveSlot, gen |-> gen[CarveSlot]]
<1>1. minted' = Append(minted, dc)
  BY DEF Carve
<1>2. minted \in Seq({d \in Tags : d.slot # 0} \cup {dc})
  BY StackWiden DEF TypeInv, TypeOK
<1> HIDE DEF dc
<1>3. /\ Len(minted) \in Nat /\ Len(minted') = Len(minted) + 1
      /\ \A k \in 1..Len(minted) : minted'[k] = minted[k]
      /\ minted'[Len(minted) + 1] = dc
  BY <1>1, <1>2, StackPush
<1>4. \A k \in Handles : k \in Handles' /\ Descriptor(k)' = Descriptor(k)
  BY <1>3 DEF Handles, Descriptor
<1> QED BY <1>3, <1>4 DEF dc

\* A carve mints a pair of slot and generation that no earlier handle bears.
LEMMA CarveHandleInv ==
    ASSUME TypeInv, HandleInv, NEW h \in Handles, NEW n \in Requests, Carve(h, n)
    PROVE  HandleInv'
<1> DEFINE c == CarveSlot
           new == Len(minted) + 1
<1>1. /\ tenant' = [tenant EXCEPT ![c] = new] /\ UNCHANGED <<gen, reaped>>
      /\ c \in Slots /\ c # 0 /\ 0 \in Slots
      /\ tenant \in [Slots -> Handles]
      /\ reaped \subseteq 1..Len(minted)
  <2>1. c \in 1..size /\ c \in Slots /\ size \in Nat
    BY CarveShape, SlotsBelow DEF TypeInv, TypeOK
  <2>2. c # 0 /\ 0 \in Slots
    BY <2>1, SlotsBelow DEF TypeInv, TypeOK
  <2> QED BY <2>1, <2>2 DEF Carve, TypeInv, TypeOK, TableTypeOK
<1>2. /\ Len(minted) \in Nat /\ Len(minted') = new
      /\ \A k \in 1..Len(minted) : minted'[k] = minted[k]
      /\ minted'[new] = [slot |-> c, gen |-> gen[c]]
  BY CarveKeepsHandles
<1>3. /\ NoDuplicates(budgetFree') /\ Freed' \subseteq Freed /\ c \notin Freed'
      /\ \A k \in Handles \ reaped : Descriptor(k).slot # c
  BY CarveSlotFree
<1>4. \A k \in 1..Len(minted) : HandleOf(k)'
  <2> TAKE k \in 1..Len(minted)
  <2>1. minted[k].slot \in Slots /\ Descriptor(k) = minted[k] /\ k \in Handles
    <3>1. k \in Handles /\ k # 0
      BY <1>2 DEF Handles
    <3> QED BY <3>1, DescriptorType DEF TypeInv, Descriptor
  <2>2. HandleOf(k) /\ minted'[k] = minted[k]
    BY <1>2 DEF HandleInv
  <2>3. k \notin reaped => minted[k].slot # c
    BY <1>3, <2>1
  <2> HIDE DEF c
  <2>4. CASE k \in reaped
    BY <1>1, <2>2, <2>4 DEF HandleOf
  <2>5. CASE k \notin reaped
    BY <1>1, <1>3, <2>1, <2>2, <2>3, <2>5 DEF HandleOf
  <2> QED BY <2>4, <2>5
<1>5. \A k \in 1..Len(minted') : HandleOf(k)'
  <2> TAKE k \in 1..Len(minted')
  <2>1. k \in 1..Len(minted) \/ k = new
    BY <1>2
  <2>2. CASE k \in 1..Len(minted)
    BY <1>4, <2>2
  <2>3. CASE k = new
    <3>1. k \notin reaped
      BY <1>1, <1>2, <2>3
    <3>2. minted'[k].slot = c /\ minted'[k].gen = gen'[c] /\ tenant'[c] = k
      BY <1>1, <1>2, <2>3
    <3> HIDE DEF c, new
    <3> QED BY <1>1, <1>3, <3>1, <3>2 DEF HandleOf
  <2> QED BY <2>1, <2>2, <2>3
<1>6. gen'[0] = 0 /\ tenant'[0] = 0 /\ Generations'
  BY <1>1 DEF HandleInv, Generations
<1> QED BY <1>3, <1>5, <1>6 DEF HandleInv

\* Within the life of the u32 a reap always moves the generation up by one.
LEMMA ReapHandleInv ==
    ASSUME NoWrap, TypeInv, HandleInv, NEW h \in Handles, Reap(h)
    PROVE  HandleInv'
<1> DEFINE s == Descriptor(h).slot
<1>1. /\ s \in Slots /\ s # 0 /\ gen[s] \in 0..(GenMod - 1) /\ s \in 1..(size - 1)
      /\ budgetFree \in Seq(1..(size - 1))
  <2>1. s # 0
    BY DEF Reap, Reapable
  <2> QED BY <2>1, ReapShape DEF TypeInv, TypeOK
<1>2. h \notin reaped /\ tenant[s] = h /\ s \notin Freed
  BY HandleFacts DEF Reap, Reapable
<1>3. /\ gen' = [gen EXCEPT ![s] = NextGeneration(@)]
      /\ budgetFree' = Append(budgetFree, s) /\ reaped' = reaped \cup {h}
      /\ UNCHANGED <<minted, tenant>> /\ Cardinality(reaped) < MaxReaps
  BY <1>2 DEF Reap
<1>4. /\ Cardinality(reaped) \in Nat
      /\ Cardinality(reaped') = Cardinality(reaped) + 1
  BY <1>2, <1>3, ReapedFinite, FS_AddElement
<1> HIDE DEF s
<1>5. NextGeneration(gen[s]) = gen[s] + 1
  <2>1. gen[s] <= Cardinality(reaped)
    BY <1>1 DEF HandleInv, Generations
  <2>2. gen[s] + 1 \in 0..(GenMod - 1)
    BY <1>1, <1>3, <1>4, <2>1, InterpAssumption DEF NoWrap
  <2> QED BY <2>2, InterpAssumption DEF NextGeneration
<1>6. \A r \in Slots : gen'[r] = IF r = s THEN gen[r] + 1 ELSE gen[r]
  BY <1>1, <1>3, <1>5 DEF TypeInv, TypeOK, TableTypeOK
<1>7. /\ NoDuplicates(budgetFree')
      /\ \A r : r \in Freed' <=> r \in Freed \/ r = s
  <2>1. NoDuplicates(budgetFree) /\ s \notin ToSet(budgetFree)
    BY <1>2 DEF HandleInv, Freed
  <2>2. /\ NoDuplicates(Append(budgetFree, s))
        /\ \A y : y \in ToSet(Append(budgetFree, s)) <=> y \in ToSet(budgetFree) \/ y = s
    <3> DEFINE S == 1..(size - 1)
    <3>1. budgetFree \in Seq(S) /\ s \in S
      BY <1>1
    <3> HIDE DEF S
    <3> QED BY <2>1, <3>1, PushNoDuplicates
  <2> QED BY <1>3, <2>2 DEF Freed
<1>8. \A k \in 1..Len(minted) : HandleOf(k)'
  <2> TAKE k \in 1..Len(minted)
  <2> DEFINE r == minted[k].slot
  <2>1. HandleOf(k)
    BY DEF HandleInv
  <2>2. r \in Slots /\ minted[k].gen \in Nat /\ gen[r] \in Nat
    <3>1. minted[k] \in Tags
      BY ElementOfSeq DEF TypeInv, TypeOK
    <3>2. r \in Slots
      BY <3>1, SlotsBelow DEF Tags, TypeInv, TypeOK
    <3> QED BY <3>1, <3>2, InterpAssumption DEF Tags, TypeInv, TypeOK, TableTypeOK
  <2>3. gen'[r] = (IF r = s THEN gen[r] + 1 ELSE gen[r]) /\ minted'[k] = minted[k]
    BY <1>3, <1>6, <2>2
  <2>4. CASE k \in reaped
    BY <1>3, <2>1, <2>2, <2>3, <2>4 DEF HandleOf
  <2>5. CASE k \notin reaped /\ k = h
    <3>1. r = s
      <4>1. Descriptor(k) = minted[k]
        BY <1>1, <2>5, DescriptorType DEF s, Descriptor, RootTag
      <4> QED BY <4>1, <2>5 DEF s
    <3> QED BY <1>3, <2>1, <2>2, <2>3, <2>5, <3>1 DEF HandleOf
  <2>6. CASE k \notin reaped /\ k # h
    <3>1. tenant[r] = k /\ minted[k].gen = gen[r] /\ r \notin Freed
      BY <2>1, <2>6 DEF HandleOf
    <3>2. r # s
      BY <1>2, <2>6, <3>1
    <3> QED BY <1>3, <1>7, <2>3, <2>6, <3>1, <3>2 DEF HandleOf
  <2> QED BY <2>4, <2>5, <2>6
<1>9. gen'[0] = 0 /\ tenant'[0] = 0
  BY <1>1, <1>3, <1>6, SlotsBelow DEF HandleInv, TypeInv, TypeOK
<1>10. Generations'
  <2>1. \A r \in Slots : gen[r] \in Nat
    BY InterpAssumption DEF TypeInv, TypeOK, TableTypeOK
  <2> QED BY <1>3, <1>4, <1>6, <2>1, InterpAssumption DEF HandleInv, Generations
<1> QED BY <1>3, <1>7, <1>8, <1>9, <1>10 DEF HandleInv

\* Every other step leaves the handles and the free stack as they are.
HandleFrame == UNCHANGED <<size, gen, budgetFree, minted, tenant, reaped>>

\* What leaves the table alone keeps the handle invariant.
LEMMA FrameHandleInv ==
    ASSUME HandleInv, HandleFrame
    PROVE  HandleInv'
<1>1. Freed' = Freed
  BY DEF HandleFrame, Freed
<1>2. \A k \in 1..Len(minted) : HandleOf(k)'
  BY <1>1 DEF HandleInv, HandleFrame, HandleOf
<1> QED BY <1>2 DEF HandleInv, HandleFrame, Generations

LEMMA OtherSteps ==
    ASSUME [Next]_vars,
           \A h \in Handles : ~Reap(h) /\ \A n \in Requests : ~Carve(h, n)
    PROVE  HandleFrame
<1>1. ASSUME NEW h \in Handles, NEW n \in Requests,
             Carve(h, n) \/ CarveRefused(h, n) \/ CarveTableFull(h, n)
      PROVE  HandleFrame
  BY <1>1 DEF CarveRefused, CarveTableFull, Raise, table, HandleFrame
<1>2. ASSUME NEW h \in Handles, Reap(h) \/ ReapRefused(h) \/ Enter(h) \/ EnterRefused(h)
      PROVE  HandleFrame
  BY <1>2 DEF ReapRefused, Enter, EnterRefused, Raise, table, HandleFrame
<1>3. CASE Leave
  BY <1>3 DEF Leave, table, HandleFrame
<1>4. ASSUME NEW n \in Sizes,
             AllocTensor(n) \/ AllocString(n) \/ AllocVault(n) \/ Exhausted(n)
      PROVE  HandleFrame
  BY <1>4 DEF AllocTensor, AllocString, AllocVault, Exhausted, ChargeBudget,
              Raise, table, HandleFrame
<1>5. ASSUME NEW t \in tensors, ReadStale(t) \/ \E n \in Sizes : CopyTensor(t, n)
      PROVE  HandleFrame
  BY <1>5 DEF ReadStale, CopyTensor, ChargeBudget, Raise, table, HandleFrame
<1>6. CASE UNCHANGED vars
  BY <1>6 DEF vars, table, HandleFrame
<1> QED BY <1>1, <1>2, <1>3, <1>4, <1>5, <1>6 DEF Next

\* Every step keeps the handle invariant.
LEMMA StepHandleInv ==
    ASSUME NoWrap, TypeInv, HandleInv, [Next]_vars
    PROVE  HandleInv'
<1>1. CASE \E h \in Handles : Reap(h)
  BY <1>1, ReapHandleInv
<1>2. CASE \E h \in Handles, n \in Requests : Carve(h, n)
  BY <1>2, CarveHandleInv
<1>3. CASE \A h \in Handles : ~Reap(h) /\ \A n \in Requests : ~Carve(h, n)
  BY <1>3, OtherSteps, FrameHandleInv
<1> QED BY <1>1, <1>2, <1>3

LEMMA HandleInvariant ==
    ASSUME NoWrap
    PROVE  Spec => [](TypeInv /\ HandleInv)
<1>1. Init => TypeInv /\ HandleInv
  BY InitTypeInv, InitHandleInv
<1>2. TypeInv /\ HandleInv /\ [Next]_vars => TypeInv' /\ HandleInv'
  BY StepTypeInv, StepHandleInv
<1> QED BY <1>1, <1>2, PTL DEF Spec

\* A handle is refused by carve, reap, enter and `in` exactly when its budget
\* was reaped, whatever slots were reused in between, as long as the program
\* reaps fewer budgets than a u32 counts.
THEOREM HandlesExact ==
    ASSUME NoWrap
    PROVE  Spec => []StaleExact
<1>1. TypeInv /\ HandleInv => StaleExact
  BY HandleFacts DEF StaleExact
<1> QED BY <1>1, HandleInvariant, PTL

-------------------------------------------------------------------------------
(* The entered-budget register and the stamps.                              *)

\* The handle of budget b among the handles m; the budget open under the first
\* i guards of g, which under none is forge.root.
HandleIn(m, b) == IF b = 0 THEN RootTag ELSE m[b]
Opened(g, i) == IF i = 0 THEN 0 ELSE g[i].budget

\* A tensor is stamped with the handle of its payer, and a late one with that of
\* a budget reaped before.
Stamped(t) ==
    IF t.late THEN \E b \in reaped : t.tag = HandleIn(minted, b)
    ELSE t.tag = HandleIn(minted, t.paid)

\* The register, and each value a guard saved, is the handle of the budget
\* opened just outside.
StampInv ==
    /\ cur = tag.slot /\ tag = HandleIn(minted, Opened(guards, Len(guards)))
    /\ \A i \in 1..Len(guards) :
          /\ guards[i].index = guards[i].tag.slot
          /\ guards[i].tag = HandleIn(minted, Opened(guards, i - 1))
    /\ \A t \in tensors : Stamped(t)

\* The typing of the guards, as the steps below use it.
LEMMA GuardType ==
    ASSUME TypeInv
    PROVE  /\ Len(guards) \in Nat /\ Len(minted) \in Nat /\ 0 \in Handles
           /\ guards \in Seq([index : 0..(size - 1), tag : Tags, budget : Handles])
           /\ \A i \in 1..Len(guards) : guards[i].budget \in Handles
           /\ \A i \in 0..Len(guards) : Opened(guards, i) \in Handles
           /\ guards = <<>> <=> Len(guards) = 0
<1>1. /\ guards \in Seq([index : 0..(size - 1), tag : Tags, budget : Handles])
      /\ Len(guards) \in Nat /\ Len(minted) \in Nat
  BY LenProperties DEF TypeInv, TypeOK
<1>2. \A i \in 1..Len(guards) : guards[i].budget \in Handles
  <2> TAKE i \in 1..Len(guards)
  <2>1. guards[i] \in [index : 0..(size - 1), tag : Tags, budget : Handles]
    BY <1>1, ElementOfSeq
  <2> QED BY <2>1
<1>3. 0 \in Handles
  BY <1>1 DEF Handles
<1>4. guards = <<>> <=> Len(guards) = 0
  BY <1>1, EmptySeq
<1>5. \A i \in 0..Len(guards) : Opened(guards, i) \in Handles
  BY <1>1, <1>2, <1>3 DEF Opened
<1> QED BY <1>1, <1>2, <1>3, <1>4, <1>5

LEMMA InitStampInv == Init => StampInv
BY EmptySeq DEF Init, StampInv, Opened, HandleIn, RootTag

\* A stamp once right stays so: handles do not change and reaps are not undone.
LEMMA StampedStays ==
    ASSUME TypeInv, NEW t \in tensors, Stamped(t), reaped \subseteq reaped',
           \A b \in Handles : HandleIn(minted', b) = HandleIn(minted, b)
    PROVE  Stamped(t)'
<1>1. t.paid \in Handles
  BY DEF TypeInv, TypeOK
<1>2. reaped \subseteq Handles
  BY DEF TypeInv, TypeOK, Handles
<1> QED BY <1>1, <1>2 DEF Stamped

\* Steps that neither enter, leave nor make a tensor.
LEMMA QuietStampInv ==
    ASSUME TypeInv, StampInv, UNCHANGED <<cur, tag, guards, tensors>>,
           reaped \subseteq reaped', \A k \in 1..Len(minted) : minted'[k] = minted[k]
    PROVE  StampInv'
<1>1. \A b \in Handles : HandleIn(minted', b) = HandleIn(minted, b)
  BY GuardType DEF HandleIn, Handles
<1>2. /\ Opened(guards, Len(guards)) \in Handles
      /\ \A i \in 1..Len(guards) : Opened(guards, i - 1) \in Handles
  BY GuardType
<1>3. \A t \in tensors' : Stamped(t)'
  BY <1>1, StampedStays DEF StampInv
<1> QED BY <1>1, <1>2, <1>3 DEF StampInv

\* Entering keeps the register on the innermost guard.
LEMMA EnterStampInv ==
    ASSUME TypeInv, HandleInv, StampInv, NEW h \in Handles, Enter(h)
    PROVE  StampInv'
<1> DEFINE s == Descriptor(h).slot
           g == [index |-> cur, tag |-> tag, budget |-> tenant[s]]
<1>1. /\ guards' = Append(guards, g) /\ cur' = s /\ tag' = Stamp(s)
      /\ UNCHANGED <<minted, reaped, tensors>>
  BY DEF Enter, table
<1>2. tenant[s] = h /\ Stamp(s) = Descriptor(h)
  BY HandleFacts DEF Enter
<1>3. /\ Len(guards') = Len(guards) + 1 /\ guards'[Len(guards) + 1] = g
      /\ \A i \in 1..Len(guards) : guards'[i] = guards[i]
  <2> DEFINE S == [index : 0..(size - 1), tag : Tags, budget : Handles] \cup {g}
  <2>1. guards \in Seq(S) /\ g \in S
    BY GuardType, StackWiden
  <2> HIDE DEF S, g
  <2> QED BY <1>1, <2>1, StackPush
<1> HIDE DEF g
<1>4. g.index = cur /\ g.tag = tag /\ g.budget = h
  BY <1>2 DEF g
<1>5. \A i \in 0..Len(guards) : Opened(guards', i) = Opened(guards, i)
  BY <1>3, GuardType DEF Opened
<1>6. tag' = HandleIn(minted', Opened(guards', Len(guards'))) /\ cur' = tag'.slot
  <2>1. Opened(guards', Len(guards')) = h
    BY <1>3, <1>4, GuardType DEF Opened
  <2>2. tag' = Descriptor(h) /\ cur' = Descriptor(h).slot
    BY <1>1, <1>2
  <2> QED BY <1>1, <2>1, <2>2 DEF HandleIn, Descriptor
<1>7. \A i \in 1..Len(guards') :
          /\ guards'[i].index = guards'[i].tag.slot
          /\ guards'[i].tag = HandleIn(minted', Opened(guards', i - 1))
  <2> TAKE i \in 1..Len(guards')
  <2>1. CASE i \in 1..Len(guards)
    <3>1. i - 1 \in 0..Len(guards) /\ guards'[i] = guards[i] /\ minted' = minted
      BY <1>1, <1>3, <2>1, GuardType
    <3>2. Opened(guards', i - 1) = Opened(guards, i - 1)
      BY <1>5, <3>1
    <3> QED BY <2>1, <3>1, <3>2 DEF StampInv
  <2>2. CASE i = Len(guards) + 1
    BY <1>1, <1>3, <1>4, <1>5, <2>2, GuardType DEF StampInv
  <2> QED BY <1>3, <2>1, <2>2, GuardType
<1> QED BY <1>1, <1>6, <1>7 DEF StampInv, Stamped

\* A guard gives back the budget saved when it was entered.
LEMMA LeaveStampInv ==
    ASSUME TypeInv, StampInv, Leave
    PROVE  StampInv'
<1>1. /\ guards' = Front(guards)
      /\ cur' = Last(guards).index /\ tag' = Last(guards).tag
      /\ UNCHANGED <<minted, reaped, tensors>>
  BY DEF Leave, table
<1>2. /\ Len(guards) \in Nat \ {0} /\ Last(guards) = guards[Len(guards)]
      /\ Len(guards') = Len(guards) - 1
      /\ \A i \in 1..(Len(guards) - 1) : guards'[i] = guards[i]
  BY <1>1, StackPop, GuardType DEF Leave
<1>3. \A i \in 0..(Len(guards) - 1) : Opened(guards', i) = Opened(guards, i)
  BY <1>2 DEF Opened
<1> QED BY <1>1, <1>2, <1>3 DEF StampInv, Stamped

\* A tensor bound while the stamp is current is paid by the budget it names; one
\* bound later is late.
LEMMA BindStampInv ==
    ASSUME TypeInv, HandleInv, StampInv, Bind(tag),
           UNCHANGED <<cur, tag, guards, minted, reaped>>
    PROVE  StampInv'
<1> DEFINE b == Opened(guards, Len(guards))
<1>1. b \in Handles /\ tag = HandleIn(minted, b) /\ tag = Descriptor(b) /\ cur = Descriptor(b).slot
  <2>1. b \in Handles
    BY GuardType
  <2> QED BY <2>1 DEF StampInv, HandleIn, Descriptor
<1>2. /\ Current(tag) => tenant[cur] = b
      /\ ~Current(tag) => b \in reaped
  <2> HIDE DEF b
  <2> QED BY <1>1, HandleFacts
<1> DEFINE new == [tag |-> tag, paid |-> tenant[cur], late |-> ~Current(tag)]
<1>3. Stamped(new)
  <2>1. new.tag = tag /\ new.paid = tenant[cur] /\ (new.late <=> ~Current(tag))
    OBVIOUS
  <2> HIDE DEF new, b
  <2> QED BY <1>1, <1>2, <2>1 DEF Stamped
<1>4. tensors' = tensors \cup {new}
  BY DEF Bind
<1> HIDE DEF new
<1>5. \A t \in tensors' : Stamped(t)
  BY <1>3, <1>4 DEF StampInv
<1> QED BY <1>5 DEF StampInv, Stamped

\* Every step keeps the stamps and the register.
LEMMA StepStampInv ==
    ASSUME TypeInv, HandleInv, StampInv, [Next]_vars
    PROVE  StampInv'
<1>1. ASSUME NEW h \in Handles, NEW n \in Requests,
             Carve(h, n) \/ CarveRefused(h, n) \/ CarveTableFull(h, n)
      PROVE  StampInv'
  <2>1. CASE Carve(h, n)
    BY <2>1, CarveKeepsHandles, QuietStampInv DEF Carve, register
  <2>2. CASE CarveRefused(h, n) \/ CarveTableFull(h, n)
    BY <2>2, QuietStampInv DEF CarveRefused, CarveTableFull, Raise, register, table
  <2> QED BY <1>1, <2>1, <2>2
<1>2. ASSUME NEW h \in Handles, Reap(h) \/ ReapRefused(h) \/ Enter(h) \/ EnterRefused(h)
      PROVE  StampInv'
  <2>1. CASE Enter(h)
    BY <2>1, EnterStampInv
  <2>2. CASE Reap(h) \/ ReapRefused(h) \/ EnterRefused(h)
    BY <2>2, QuietStampInv DEF Reap, ReapRefused, EnterRefused, Raise, register, table
  <2> QED BY <1>2, <2>1, <2>2
<1>3. CASE Leave
  BY <1>3, LeaveStampInv
<1>4. ASSUME NEW n \in Sizes,
             AllocTensor(n) \/ AllocString(n) \/ AllocVault(n) \/ Exhausted(n)
      PROVE  StampInv'
  <2>1. CASE AllocTensor(n) /\ Current(tag)
    BY <2>1, BindStampInv DEF AllocTensor, ChargeBudget, register
  <2>2. CASE AllocTensor(n) /\ ~Current(tag)
    BY <2>2, QuietStampInv DEF AllocTensor, ChargeBudget, register
  <2>3. CASE AllocVault(n) /\ ~Raise("exhausted")
    BY <2>3 DEF AllocVault, StampInv, Stamped, HandleIn, register, table
  <2>4. CASE AllocString(n) \/ Exhausted(n) \/ Raise("exhausted")
    BY <2>4, QuietStampInv DEF AllocString, ChargeBudget, Exhausted, Raise, register, table
  <2> QED BY <1>4, <2>1, <2>2, <2>3, <2>4
<1>5. ASSUME NEW t \in tensors, ReadStale(t) \/ \E n \in Sizes : CopyTensor(t, n)
      PROVE  StampInv'
  <2>1. CASE ReadStale(t)
    BY <2>1, QuietStampInv DEF ReadStale, Raise, register, table
  <2>2. CASE \E n \in Sizes : CopyTensor(t, n)
    BY <2>2, BindStampInv DEF CopyTensor, ChargeBudget, register
  <2> QED BY <1>5, <2>1, <2>2
<1>6. CASE UNCHANGED vars
  BY <1>6, QuietStampInv DEF vars, register, table
<1> QED BY <1>1, <1>2, <1>3, <1>4, <1>5, <1>6 DEF Next

LEMMA StampInvariant ==
    ASSUME NoWrap
    PROVE  Spec => [](TypeInv /\ HandleInv /\ StampInv)
<1>1. Init => TypeInv /\ HandleInv /\ StampInv
  BY InitTypeInv, InitHandleInv, InitStampInv
<1>2. TypeInv /\ HandleInv /\ StampInv /\ [Next]_vars
          => TypeInv' /\ HandleInv' /\ StampInv'
  BY StepTypeInv, StepHandleInv, StepStampInv
<1> QED BY <1>1, <1>2, PTL DEF Spec

\* A tensor is unreadable exactly when the budget that paid for it is reaped:
\* no nesting of enter, `in`, vault constructors, copies and errors makes the
\* meter and the stamp name different budgets.  A private copy made after the
\* entered budget was reaped, whoever paid, is never readable.
THEOREM StampsExact ==
    ASSUME NoWrap
    PROVE  Spec => []StampMatchesCharge
<1>1. ASSUME TypeInv, HandleInv, NEW b \in Handles, NEW t, t.tag = HandleIn(minted, b)
      PROVE  Stale(t) <=> b \in reaped
  <2>1. t.tag = Descriptor(b)
    BY <1>1 DEF HandleIn, Descriptor
  <2>2. t.tag.slot \in 0..(size - 1) /\ size \in Nat
    BY <1>1, <2>1, DescriptorType, SlotsBelow DEF TypeInv, TypeOK
  <2>3. Current(t.tag) <=> b \notin reaped
    BY <1>1, <2>1, HandleFacts
  <2> QED BY <2>2, <2>3 DEF Stale, Current
<1>2. ASSUME TypeInv, HandleInv, StampInv, NEW t \in tensors
      PROVE  IF t.late THEN Stale(t) ELSE Stale(t) <=> t.paid \in reaped
  <2>1. Stamped(t) /\ t.paid \in Handles /\ reaped \subseteq Handles
    BY <1>2 DEF StampInv, TypeInv, TypeOK, Handles
  <2>2. CASE t.late
    BY <1>1, <1>2, <2>1, <2>2 DEF Stamped
  <2>3. CASE ~t.late
    BY <1>1, <1>2, <2>1, <2>3 DEF Stamped
  <2> QED BY <2>2, <2>3
<1>3. TypeInv /\ HandleInv /\ StampInv => StampMatchesCharge
  BY <1>2 DEF StampMatchesCharge
<1> QED BY <1>3, StampInvariant, PTL

\* BudgetGuard restores the outer budget: the register names the root when no
\* extent is open, else the budget of the innermost extent until it is reaped.
THEOREM RegisterRestored ==
    ASSUME NoWrap
    PROVE  Spec => []RegisterFollowsGuards
<1>1. TypeInv /\ HandleInv /\ StampInv => RegisterFollowsGuards
  <2> SUFFICES ASSUME TypeInv, HandleInv, StampInv
               PROVE  RegisterFollowsGuards
    OBVIOUS
  <2>1. CASE guards = <<>>
    BY <2>1, GuardType DEF RegisterFollowsGuards, StampInv, Opened, HandleIn, RootTag
  <2>2. CASE guards # <<>>
    <3> DEFINE b == Last(guards).budget
    <3>1. b \in Handles /\ b = Opened(guards, Len(guards))
      <4>1. Len(guards) \in Nat \ {0} /\ Last(guards) = guards[Len(guards)]
        BY <2>2, GuardType, StackPop
      <4> QED BY <4>1, GuardType DEF Opened
    <3>2. tag = Descriptor(b) /\ cur = Descriptor(b).slot
      BY <3>1 DEF StampInv, HandleIn, Descriptor
    <3>3. b \notin reaped => tenant[cur] = b /\ tag = Stamp(cur)
      <4> HIDE DEF b
      <4> QED BY <3>1, <3>2, HandleFacts
    <3> QED BY <2>2, <3>3 DEF RegisterFollowsGuards
  <2> QED BY <2>1, <2>2
<1> QED BY <1>1, StampInvariant, PTL

-------------------------------------------------------------------------------
(* The books of a budget.                                                   *)

Balanced(s) == extent[s] # Unbounded => free[s] + used[s] + reserved[s] = extent[s]

\* Free and extent are unbounded together, on live and reaped slots alike.
BooksInv ==
    /\ \A s \in Slots : extent[s] = Unbounded <=> free[s] = Unbounded
    /\ status # "table-full" => \A s \in LiveSlots : Balanced(s)

\* The meters of one slot, as the steps below use them.
LEMMA MeterType ==
    ASSUME TypeInv, NEW s \in Slots
    PROVE  /\ extent[s] \in Nat \cup {Unbounded} /\ free[s] \in Nat \cup {Unbounded}
           /\ used[s] \in Nat /\ reserved[s] \in Int
BY DEF TypeInv, TypeOK, TableTypeOK

LEMMA LiveSlot ==
    ASSUME TypeInv, NEW s
    PROVE  s \in LiveSlots <=> s \in 0..(size - 1) /\ s \in Slots /\ s \notin Freed
BY SlotsBelow DEF TypeInv, TypeOK, LiveSlots

LEMMA InitBooksInv == Init => BooksInv
<1> SUFFICES ASSUME Init
             PROVE  BooksInv
  OBVIOUS
<1>1. \A s \in Slots : /\ free[s] = extent[s] /\ used[s] = 0 /\ reserved[s] = 0
                      /\ extent[s] \in Nat \cup {Unbounded}
  BY InterpAssumption DEF Init
<1>2. \A s \in LiveSlots : s \in Slots
  BY InitTypeInv, LiveSlot
<1> QED BY <1>1, <1>2, InterpAssumption DEF BooksInv, Balanced

\* Steps that touch no meter and no slot.
LEMMA QuietBooksInv ==
    ASSUME BooksInv, UNCHANGED <<size, budgetFree, extent, free, used, reserved>>,
           status' # "table-full" => status # "table-full"
    PROVE  BooksInv'
BY DEF BooksInv, Balanced, LiveSlots, Freed

\* A charge moves bytes from free to used.
LEMMA ChargeBooksInv ==
    ASSUME TypeInv, BooksInv, NEW s \in Slots, NEW n \in Sizes, ChargeBudget(s, n),
           status = "running"
    PROVE  BooksInv'
<1>1. /\ free' = [free EXCEPT ![s] = Minus(@, n)] /\ used' = [used EXCEPT ![s] = @ + n]
      /\ UNCHANGED <<extent, reserved, size, budgetFree>> /\ Fits(s, n) /\ n \in Nat
  BY InterpAssumption DEF ChargeBudget
<1>2. \A r \in Slots : /\ free'[r] = IF r = s THEN Minus(free[r], n) ELSE free[r]
                      /\ used'[r] = IF r = s THEN used[r] + n ELSE used[r]
  BY <1>1 DEF TypeInv, TypeOK, TableTypeOK
<1>3. \A r \in Slots : extent'[r] = Unbounded <=> free'[r] = Unbounded
  <2> TAKE r \in Slots
  <2>1. extent[r] = Unbounded <=> free[r] = Unbounded
    BY DEF BooksInv
  <2>2. free[r] - n # Unbounded \/ free[r] = Unbounded
    BY <1>1, MeterType, InterpAssumption
  <2> QED BY <1>1, <1>2, <2>1, <2>2 DEF Minus
<1>4. \A r \in LiveSlots : Balanced(r)'
  <2> TAKE r \in LiveSlots
  <2>1. r \in Slots /\ Balanced(r) /\ (extent[r] = Unbounded <=> free[r] = Unbounded)
    BY LiveSlot DEF BooksInv
  <2> QED BY <1>1, <1>2, <2>1, MeterType DEF Balanced, Minus
<1>5. LiveSlots' = LiveSlots
  BY <1>1 DEF LiveSlots, Freed
<1> QED BY <1>3, <1>4, <1>5 DEF BooksInv

\* A carve takes n from the free bytes of the parent and reserves them there.
LEMMA CarveBooksInv ==
    ASSUME TypeInv, HandleInv, BooksInv, NEW h \in Handles, NEW n \in Requests, Carve(h, n)
    PROVE  BooksInv'
<1> DEFINE p == Descriptor(h).slot
           c == CarveSlot
<1>1. /\ p \in Slots /\ c \in Slots /\ n \in Nat /\ n # Unbounded
      /\ size' \in Nat /\ size \in Nat
      /\ \A r \in 1..(size' - 1) : r \in 1..(size - 1) \/ r = c
  BY CarveShape, SlotsBelow, InterpAssumption DEF TypeInv, TypeOK
<1>2. p # c
  <2>1. h \notin reaped
    BY HandleFacts DEF Carve
  <2> QED BY <2>1, CarveSlotFree
<1>3. /\ extent' = [extent EXCEPT ![c] = n]
      /\ used' = [used EXCEPT ![c] = 0]
      /\ free' = [free EXCEPT ![p] = Minus(@, n), ![c] = n]
      /\ reserved' = [reserved EXCEPT ![p] = @ + n, ![c] = 0]
      /\ status = "running" /\ status' = status
  BY DEF Carve, Grant
<1> HIDE DEF p, c
<1>4. \A r \in Slots :
          /\ extent'[r] = IF r = c THEN n ELSE extent[r]
          /\ used'[r] = IF r = c THEN 0 ELSE used[r]
          /\ free'[r] = IF r = c THEN n ELSE IF r = p THEN Minus(free[r], n) ELSE free[r]
          /\ reserved'[r] = IF r = c THEN 0 ELSE IF r = p THEN reserved[r] + n
                                             ELSE reserved[r]
  BY <1>1, <1>2, <1>3 DEF TypeInv, TypeOK, TableTypeOK
<1>5. \A r \in Slots : extent'[r] = Unbounded <=> free'[r] = Unbounded
  <2> TAKE r \in Slots
  <2>1. extent[r] = Unbounded <=> free[r] = Unbounded
    BY DEF BooksInv
  <2>2. free[r] - n # Unbounded \/ free[r] = Unbounded
    BY <1>1, MeterType, InterpAssumption
  <2> QED BY <1>1, <1>4, <2>1, <2>2 DEF Minus
<1>6. \A r \in LiveSlots' : r \in Slots /\ (r = c \/ r \in LiveSlots)
  <2> TAKE r \in LiveSlots'
  <2>1. r \in 0..(size' - 1) /\ r \notin Freed'
    BY DEF LiveSlots
  <2>2. r = c \/ r \in 0..(size - 1)
    <3>1. r = 0 \/ r \in 1..(size' - 1)
      BY <1>1, <2>1, RootOrCarved
    <3>2. 0 \in 0..(size - 1) /\ \A x \in 1..(size - 1) : x \in 0..(size - 1)
      BY SlotsBelow DEF TypeInv, TypeOK
    <3> QED BY <1>1, <3>1, <3>2
  <2>3. r # c => r \notin Freed
    <3>1. budgetFree = <<>> => Freed' = Freed
      BY DEF Carve, Freed
    <3>2. budgetFree # <<>> => (\A x \in Freed : x \in Freed' \/ x = c)
      BY CarveFreed DEF c
    <3> QED BY <2>1, <3>1, <3>2
  <2> QED BY <1>1, <2>1, <2>2, <2>3, LiveSlot, SlotsBelow DEF TypeInv, TypeOK
<1>7. \A r \in LiveSlots' : Balanced(r)'
  <2> TAKE r \in LiveSlots'
  <2>1. r \in Slots /\ (r = c \/ r \in LiveSlots)
    BY <1>6
  <2>2. CASE r = c
    BY <1>1, <1>4, <2>1, <2>2 DEF Balanced
  <2>3. CASE r # c
    <3>1. Balanced(r) /\ (extent[r] = Unbounded <=> free[r] = Unbounded)
      BY <1>3, <2>1, <2>3 DEF BooksInv
    <3> QED BY <1>1, <1>4, <2>1, <2>3, <3>1, MeterType DEF Balanced, Minus
  <2> QED BY <2>2, <2>3
<1> QED BY <1>5, <1>7 DEF BooksInv

\* A reap gives the parent the whole extent back and reserves it no longer.
LEMMA ReapBooksInv ==
    ASSUME TypeInv, BooksInv, NEW h \in Handles, Reap(h)
    PROVE  BooksInv'
<1> DEFINE s == Descriptor(h).slot
           p == parent[s]
<1>1. /\ s \in Slots /\ p \in Slots /\ extent[s] \in Nat /\ s \in 1..(size - 1)
      /\ budgetFree \in Seq(1..(size - 1))
  BY ReapShape DEF TypeInv, TypeOK
<1>2. /\ free' = [free EXCEPT ![p] = Plus(@, extent[s])]
      /\ reserved' = [reserved EXCEPT ![p] = @ - extent[s]]
      /\ budgetFree' = Append(budgetFree, s)
      /\ UNCHANGED <<extent, used, size>> /\ status = "running" /\ status' = status
  BY DEF Reap, Credit
<1> HIDE DEF s, p
<1>3. \A r \in Slots :
          /\ free'[r] = IF r = p THEN Plus(free[r], extent[s]) ELSE free[r]
          /\ reserved'[r] = IF r = p THEN reserved[r] - extent[s] ELSE reserved[r]
  BY <1>1, <1>2 DEF TypeInv, TypeOK, TableTypeOK
<1>4. \A r \in Slots : extent'[r] = Unbounded <=> free'[r] = Unbounded
  <2> TAKE r \in Slots
  <2>1. extent[r] = Unbounded <=> free[r] = Unbounded
    BY DEF BooksInv
  <2>2. free[r] + extent[s] # Unbounded \/ free[r] = Unbounded
    BY <1>1, MeterType, InterpAssumption
  <2> QED BY <1>2, <1>3, <2>1, <2>2 DEF Plus
<1>5. LiveSlots' \subseteq LiveSlots
  <2>1. Freed \subseteq Freed'
    <3>1. \A i \in 1..Len(budgetFree) : /\ i \in 1..Len(budgetFree')
                                       /\ budgetFree'[i] = budgetFree[i]
      BY <1>1, <1>2, StackPush
    <3>2. /\ \A x : x \in Freed <=> \E i \in 1..Len(budgetFree) : budgetFree[i] = x
          /\ \A x : x \in Freed' <=> \E i \in 1..Len(budgetFree') : budgetFree'[i] = x
      <4>1. budgetFree' \in Seq(1..(size - 1))
        BY <1>1, <1>2, StackPush
      <4> QED BY <1>1, <4>1, InStack DEF Freed
    <3> QED BY <3>1, <3>2
  <2> QED BY <1>2, <2>1 DEF LiveSlots
<1>6. \A r \in LiveSlots' : Balanced(r)'
  <2> TAKE r \in LiveSlots'
  <2>1. r \in Slots /\ Balanced(r) /\ (extent[r] = Unbounded <=> free[r] = Unbounded)
    BY <1>2, <1>5, LiveSlot DEF BooksInv
  <2> QED BY <1>1, <1>2, <1>3, <2>1, MeterType DEF Balanced, Plus
<1> QED BY <1>4, <1>6 DEF BooksInv

\* A carve refused for want of a slot has taken its bytes: the books of that
\* table are excused, its run has ended.
LEMMA TableFullBooksInv ==
    ASSUME TypeInv, BooksInv, NEW h \in Handles, NEW n \in Requests, CarveTableFull(h, n)
    PROVE  BooksInv'
<1> DEFINE p == Descriptor(h).slot
<1>1. /\ free' = [free EXCEPT ![p] = Minus(@, n)] /\ extent' = extent
      /\ status' = "table-full"
  BY DEF CarveTableFull
<1>2. p \in Slots /\ n \in Nat
  BY DescriptorType, InterpAssumption DEF TypeInv, CarveTableFull
<1> HIDE DEF p
<1>3. \A r \in Slots : free'[r] = IF r = p THEN Minus(free[r], n) ELSE free[r]
  BY <1>1, <1>2 DEF TypeInv, TypeOK, TableTypeOK
<1>4. \A r \in Slots : extent'[r] = Unbounded <=> free'[r] = Unbounded
  <2> TAKE r \in Slots
  <2>1. extent[r] = Unbounded <=> free[r] = Unbounded
    BY DEF BooksInv
  <2>2. free[r] - n # Unbounded \/ free[r] = Unbounded
    BY <1>2, MeterType, InterpAssumption
  <2> QED BY <1>1, <1>3, <2>1, <2>2 DEF Minus
<1> QED BY <1>1, <1>4 DEF BooksInv

\* Every step keeps the books.
LEMMA StepBooksInv ==
    ASSUME TypeInv, HandleInv, BooksInv, [Next]_vars
    PROVE  BooksInv'
<1>1. ASSUME NEW h \in Handles, NEW n \in Requests,
             Carve(h, n) \/ CarveRefused(h, n) \/ CarveTableFull(h, n)
      PROVE  BooksInv'
  <2>1. CASE CarveRefused(h, n)
    BY <2>1, QuietBooksInv DEF CarveRefused, Raise, table, meters
  <2> QED BY <1>1, <2>1, CarveBooksInv, TableFullBooksInv
<1>2. ASSUME NEW h \in Handles, Reap(h) \/ ReapRefused(h) \/ Enter(h) \/ EnterRefused(h)
      PROVE  BooksInv'
  <2>1. CASE ReapRefused(h) \/ Enter(h) \/ EnterRefused(h)
    BY <2>1, QuietBooksInv DEF ReapRefused, Enter, EnterRefused, Raise, table, meters
  <2> QED BY <1>2, <2>1, ReapBooksInv
<1>3. CASE Leave
  BY <1>3, QuietBooksInv DEF Leave, table, meters
<1>4. cur \in Slots
  BY Typed
<1>5. ASSUME NEW n \in Sizes,
             AllocTensor(n) \/ AllocString(n) \/ AllocVault(n) \/ Exhausted(n)
      PROVE  BooksInv'
  <2>1. CASE AllocTensor(n) \/ AllocString(n)
    BY <1>4, <2>1, ChargeBooksInv DEF AllocTensor, AllocString
  <2>2. CASE AllocVault(n) \/ Exhausted(n)
    BY <2>2, QuietBooksInv DEF AllocVault, Exhausted, Raise, table, meters
  <2> QED BY <1>5, <2>1, <2>2
<1>6. ASSUME NEW t \in tensors, ReadStale(t) \/ \E n \in Sizes : CopyTensor(t, n)
      PROVE  BooksInv'
  <2>1. CASE ReadStale(t)
    BY <2>1, QuietBooksInv DEF ReadStale, Raise, table, meters
  <2>2. CASE \E n \in Sizes : CopyTensor(t, n)
    BY <1>4, <2>2, ChargeBooksInv DEF CopyTensor
  <2> QED BY <1>6, <2>1, <2>2
<1>7. CASE UNCHANGED vars
  BY <1>7, QuietBooksInv DEF vars, table, meters
<1> QED BY <1>1, <1>2, <1>3, <1>5, <1>6, <1>7 DEF Next

\* (LOC): in every live bounded budget the free bytes, the bytes charged and
\* the bytes carved out for others add up to the extent, whatever the program
\* does, a table found full apart.
THEOREM BooksBalance ==
    ASSUME NoWrap
    PROVE  Spec => []Loc
<1>1. Init => TypeInv /\ HandleInv /\ BooksInv
  BY InitTypeInv, InitHandleInv, InitBooksInv
<1>2. TypeInv /\ HandleInv /\ BooksInv /\ [Next]_vars
          => TypeInv' /\ HandleInv' /\ BooksInv'
  BY StepTypeInv, StepHandleInv, StepBooksInv
<1>3. BooksInv => Loc
  BY DEF BooksInv, Balanced, Loc
<1> QED BY <1>1, <1>2, <1>3, PTL DEF Spec

-------------------------------------------------------------------------------
(* The tree of budgets.                                                     *)

\* The budget a live budget was carved from, its children, and the three
\* functions the refinement mapping of Tree reads off the table.
ParentOf(c) == tenant[parent[SlotOf(c)]]
Kids(b) == {c \in LiveBudgets \ {0} : ParentOf(c) = b}
Parents == [b \in LiveBudgets |-> ParentOf(b)]
Extents == [b \in LiveBudgets |-> extent[SlotOf(b)]]
Uses == [b \in LiveBudgets |-> used[SlotOf(b)]]

\* The parent of a live budget is live and still in its slot; a slot has
\* reserved what the children of its budget were carved with, and counts them.
FamilyInv ==
    /\ \A c \in LiveBudgets \ {0} : /\ ParentOf(c) \in LiveBudgets
                                    /\ SlotOf(ParentOf(c)) = parent[SlotOf(c)]
    /\ \A b \in LiveBudgets : reserved[SlotOf(b)] = SumOf(Extents, Kids(b))
    /\ status # "table-full" =>
           \A b \in LiveBudgets : children[SlotOf(b)] = Cardinality(Kids(b))
    /\ parent[0] = 0

\* The root sits in slot 0.
LEMMA RootSlot == SlotOf(0) = 0
BY DEF SlotOf, Descriptor, RootTag

\* A live budget sits in a slot of its own.
LEMMA LiveFacts ==
    ASSUME TypeInv, HandleInv
    PROVE  /\ IsFiniteSet(LiveBudgets) /\ 0 \in LiveBudgets /\ Len(minted) \in Nat
           /\ \A b \in LiveBudgets : /\ b \in Handles /\ b \notin reaped /\ b \in Nat
                                     /\ b <= Len(minted)
                                     /\ SlotOf(b) \in Slots /\ SlotOf(b) \in LiveSlots
                                     /\ tenant[SlotOf(b)] = b
                                     /\ extent[SlotOf(b)] \in Nat \cup {Unbounded}
                                     /\ b # 0 => extent[SlotOf(b)] \in Nat
           /\ \A a, b \in LiveBudgets : SlotOf(a) = SlotOf(b) => a = b
<1>1. Len(minted) \in Nat /\ reaped \subseteq 1..Len(minted)
  BY LenProperties DEF TypeInv, TypeOK
<1>2. IsFiniteSet(Handles) /\ LiveBudgets \subseteq Handles
  BY <1>1, FS_Interval DEF Handles, LiveBudgets
<1>3. IsFiniteSet(LiveBudgets)
  BY <1>2, FS_Subset
<1>4. 0 \in LiveBudgets
  BY <1>1 DEF LiveBudgets, Handles
<1>5. ASSUME NEW b \in LiveBudgets
      PROVE  /\ b \in Handles /\ b \notin reaped /\ b \in Nat /\ b <= Len(minted)
             /\ SlotOf(b) \in Slots /\ SlotOf(b) \in LiveSlots
             /\ tenant[SlotOf(b)] = b
             /\ extent[SlotOf(b)] \in Nat \cup {Unbounded}
             /\ b # 0 => extent[SlotOf(b)] \in Nat
  <2>1. b \in Handles /\ b \notin reaped /\ b \in Nat /\ b <= Len(minted)
    BY <1>1 DEF LiveBudgets, Handles
  <2>2. /\ SlotOf(b) \in 0..(size - 1) /\ SlotOf(b) \in Slots
        /\ b # 0 => SlotOf(b) # 0
    BY <2>1, DescriptorType DEF SlotOf, TypeInv
  <2>3. tenant[SlotOf(b)] = b /\ SlotOf(b) \notin Freed
    BY <2>1, HandleFacts DEF SlotOf
  <2>4. extent[SlotOf(b)] \in Nat \cup {Unbounded}
    BY <2>2, MeterType
  <2>5. b # 0 => extent[SlotOf(b)] # Unbounded
    <3>1. size \in Nat
      BY SlotsBelow DEF TypeInv, TypeOK
    <3>2. b # 0 => SlotOf(b) \in 1..(size - 1)
      BY <2>2, <3>1
    <3> QED BY <3>2 DEF TypeInv, Born
  <2> QED BY <2>1, <2>2, <2>3, <2>4, <2>5, LiveSlot
<1> QED BY <1>1, <1>3, <1>4, <1>5

\* The children of a budget are finitely many, with bounded extents.
LEMMA KidsFacts ==
    ASSUME TypeInv, HandleInv, NEW b
    PROVE  /\ IsFiniteSet(Kids(b)) /\ Kids(b) \subseteq LiveBudgets \ {0}
           /\ \A c \in Kids(b) : Extents[c] \in Int /\ Extents[c] = extent[SlotOf(c)]
<1>1. Kids(b) \subseteq LiveBudgets \ {0} /\ IsFiniteSet(LiveBudgets)
  BY LiveFacts DEF Kids
<1>2. IsFiniteSet(Kids(b))
  BY <1>1, FS_Subset
<1>3. \A c \in Kids(b) : Extents[c] \in Int /\ Extents[c] = extent[SlotOf(c)]
  BY <1>1, LiveFacts DEF Extents
<1> QED BY <1>1, <1>2, <1>3

\* Nothing is carved yet.
LEMMA InitFamilyInv == Init => FamilyInv
<1> SUFFICES ASSUME Init
             PROVE  FamilyInv
  OBVIOUS
<1>1. TypeInv /\ HandleInv
  BY InitTypeInv, InitHandleInv
<1>2. LiveBudgets = {0}
  BY EmptySeq DEF Init, LiveBudgets, Handles
<1>3. \A b : Kids(b) = {}
  BY <1>2 DEF Kids
<1>4. reserved[SlotOf(0)] = 0 /\ children[SlotOf(0)] = 0
  BY <1>1, LiveFacts DEF Init
<1>5. parent[0] = 0
  BY InterpAssumption DEF Init, Slots
<1> QED BY <1>2, <1>3, <1>4, <1>5, SumEmpty, FS_EmptySet DEF FamilyInv

\* What a carve does to the family: one more child of h.
LEMMA CarveFamily ==
    ASSUME TypeInv, HandleInv, FamilyInv, NEW h \in Handles, NEW n \in Requests, Carve(h, n),
           NEW new, new = Len(minted) + 1
    PROVE  /\ h \in LiveBudgets /\ new \notin LiveBudgets /\ n \in Nat
           /\ LiveBudgets' = LiveBudgets \cup {new} /\ Len(minted') = new
           /\ \A k \in LiveBudgets : SlotOf(k)' = SlotOf(k) /\ SlotOf(k) # CarveSlot
           /\ SlotOf(new)' = CarveSlot
           /\ \A k \in LiveBudgets \ {0} : ParentOf(k)' = ParentOf(k)
           /\ ParentOf(new)' = h
           /\ parent'[CarveSlot] = SlotOf(h)
           /\ \A k \in LiveBudgets :
                 /\ extent'[SlotOf(k)] = extent[SlotOf(k)]
                 /\ used'[SlotOf(k)] = used[SlotOf(k)]
                 /\ parent'[SlotOf(k)] = parent[SlotOf(k)]
                 /\ reserved'[SlotOf(k)] = reserved[SlotOf(k)] + IF k = h THEN n ELSE 0
                 /\ children'[SlotOf(k)] = children[SlotOf(k)] + IF k = h THEN 1 ELSE 0
           /\ extent'[CarveSlot] = n /\ used'[CarveSlot] = 0
           /\ reserved'[CarveSlot] = 0 /\ children'[CarveSlot] = 0
<1> DEFINE c == CarveSlot
           p == SlotOf(h)
<1>1. h \notin reaped /\ h \in LiveBudgets
  BY HandleFacts DEF Carve, LiveBudgets
<1>2. /\ c \in Slots /\ c # 0 /\ p \in Slots /\ n \in Nat
  BY CarveShape DEF SlotOf
<1>3. /\ Len(minted) \in Nat /\ Len(minted') = new
      /\ minted'[new] = [slot |-> c, gen |-> gen[c]]
      /\ \A k \in Handles : k \in Handles' /\ Descriptor(k)' = Descriptor(k)
  BY CarveKeepsHandles
<1>4. reaped' = reaped /\ reaped \subseteq 1..Len(minted)
  BY DEF Carve, TypeInv, TypeOK
<1>5. new \notin LiveBudgets /\ LiveBudgets' = LiveBudgets \cup {new}
  <2>1. Handles' = Handles \cup {new} /\ new \notin Handles /\ new \notin reaped
    BY <1>3, <1>4 DEF Handles
  <2> QED BY <1>4, <2>1 DEF LiveBudgets
<1>6. \A k \in LiveBudgets : SlotOf(k)' = SlotOf(k) /\ SlotOf(k) # c /\ SlotOf(k) \in Slots
  BY <1>3, CarveSlotFree, LiveFacts DEF LiveBudgets, SlotOf
<1>7. SlotOf(new)' = c
  <2>1. new # 0
    BY <1>3
  <2>2. SlotOf(new)' = minted'[new].slot
    BY <2>1 DEF SlotOf, Descriptor
  <2> QED BY <1>3, <2>2
<1>8. /\ tenant' = [tenant EXCEPT ![c] = new]
      /\ parent' = [parent EXCEPT ![c] = p]
      /\ extent' = [extent EXCEPT ![c] = n]
      /\ used' = [used EXCEPT ![c] = 0]
      /\ children' = [children EXCEPT ![p] = @ + 1, ![c] = 0]
      /\ reserved' = [reserved EXCEPT ![p] = @ + n, ![c] = 0]
  BY DEF Carve, Grant, SlotOf
<1> HIDE DEF c, p
<1>9. p # c
  BY <1>1, <1>6 DEF p
<1>10. \A r \in Slots :
          /\ tenant'[r] = IF r = c THEN new ELSE tenant[r]
          /\ parent'[r] = IF r = c THEN p ELSE parent[r]
          /\ extent'[r] = IF r = c THEN n ELSE extent[r]
          /\ used'[r] = IF r = c THEN 0 ELSE used[r]
          /\ children'[r] = IF r = c THEN 0 ELSE IF r = p THEN children[r] + 1 ELSE children[r]
          /\ reserved'[r] = IF r = c THEN 0 ELSE IF r = p THEN reserved[r] + n ELSE reserved[r]
          /\ children[r] \in Int /\ reserved[r] \in Int
  BY <1>2, <1>8, <1>9 DEF TypeInv, TypeOK, TableTypeOK
<1>11. \A k \in LiveBudgets :
          /\ extent'[SlotOf(k)] = extent[SlotOf(k)]
          /\ used'[SlotOf(k)] = used[SlotOf(k)]
          /\ parent'[SlotOf(k)] = parent[SlotOf(k)]
          /\ reserved'[SlotOf(k)] = reserved[SlotOf(k)] + IF k = h THEN n ELSE 0
          /\ children'[SlotOf(k)] = children[SlotOf(k)] + IF k = h THEN 1 ELSE 0
  <2> TAKE k \in LiveBudgets
  <2>1. SlotOf(k) # c /\ SlotOf(k) \in Slots
    BY <1>6
  <2>2. SlotOf(k) = p <=> k = h
    BY <1>1, LiveFacts DEF p
  <2> QED BY <1>2, <1>10, <2>1, <2>2
<1>12. \A k \in LiveBudgets \ {0} : ParentOf(k)' = ParentOf(k)
  <2> TAKE k \in LiveBudgets \ {0}
  <2>1. ParentOf(k) \in LiveBudgets /\ SlotOf(ParentOf(k)) = parent[SlotOf(k)]
    BY DEF FamilyInv
  <2>2. parent[SlotOf(k)] \in Slots /\ parent[SlotOf(k)] # c
    BY <1>6, <2>1
  <2>3. SlotOf(k)' = SlotOf(k) /\ parent'[SlotOf(k)] = parent[SlotOf(k)]
    BY <1>6, <1>11
  <2> QED BY <1>10, <2>2, <2>3 DEF ParentOf
<1>13. ParentOf(new)' = h
  <2>1. tenant[p] = h
    BY <1>1, LiveFacts DEF p
  <2> QED BY <1>2, <1>7, <1>9, <1>10, <2>1 DEF ParentOf
<1>14. /\ parent'[c] = p /\ extent'[c] = n /\ used'[c] = 0
       /\ reserved'[c] = 0 /\ children'[c] = 0
  BY <1>2, <1>10
<1> QED BY <1>1, <1>2, <1>3, <1>5, <1>6, <1>7, <1>11, <1>12, <1>13, <1>14 DEF c, p

\* A carve gives h one child and the new budget none.
LEMMA CarveKids ==
    ASSUME TypeInv, HandleInv, FamilyInv, NEW h \in Handles, NEW n \in Requests, Carve(h, n),
           NEW new, new = Len(minted) + 1
    PROVE  /\ \A b \in LiveBudgets : Kids(b)' = IF b = h THEN Kids(b) \cup {new} ELSE Kids(b)
           /\ Kids(new)' = {}
           /\ new \notin Kids(h)
<1>1. /\ h \in LiveBudgets /\ new \notin LiveBudgets
      /\ LiveBudgets' = LiveBudgets \cup {new}
      /\ \A k \in LiveBudgets \ {0} : ParentOf(k)' = ParentOf(k)
      /\ ParentOf(new)' = h
  BY CarveFamily
<1>2. new # 0 /\ h # new
  BY <1>1, LiveFacts
<1>3. \A k \in LiveBudgets \ {0} : ParentOf(k) \in LiveBudgets
  BY DEF FamilyInv
<1>4. ASSUME NEW b \in LiveBudgets
      PROVE  Kids(b)' = IF b = h THEN Kids(b) \cup {new} ELSE Kids(b)
  <2>1. ASSUME NEW k
        PROVE  k \in Kids(b)' <=> k \in Kids(b) \/ (b = h /\ k = new)
    <3>1. k \in Kids(b)' <=> k \in LiveBudgets' \ {0} /\ ParentOf(k)' = b
      BY DEF Kids
    <3>2. k \in Kids(b) <=> k \in LiveBudgets \ {0} /\ ParentOf(k) = b
      BY DEF Kids
    <3> QED BY <1>1, <1>2, <3>1, <3>2
  <2> QED BY <2>1
<1>5. Kids(new)' = {}
  <2>1. ASSUME NEW k \in Kids(new)'
        PROVE  FALSE
    <3>1. k \in LiveBudgets' \ {0} /\ ParentOf(k)' = new
      BY <2>1 DEF Kids
    <3> QED BY <1>1, <1>2, <1>3, <3>1
  <2> QED BY <2>1
<1>6. new \notin Kids(h)
  BY <1>1, KidsFacts
<1> QED BY <1>4, <1>5, <1>6

\* A carve keeps the family in order.
LEMMA CarveFamilyInv ==
    ASSUME TypeInv, HandleInv, FamilyInv, NEW h \in Handles, NEW n \in Requests, Carve(h, n)
    PROVE  FamilyInv'
<1>1. PICK new : new = Len(minted) + 1
  OBVIOUS
<1> DEFINE c == CarveSlot
<1>2. /\ h \in LiveBudgets /\ new \notin LiveBudgets /\ n \in Nat
      /\ LiveBudgets' = LiveBudgets \cup {new}
      /\ \A k \in LiveBudgets : SlotOf(k)' = SlotOf(k) /\ SlotOf(k) # c
      /\ SlotOf(new)' = c
      /\ \A k \in LiveBudgets \ {0} : ParentOf(k)' = ParentOf(k)
      /\ ParentOf(new)' = h
      /\ parent'[c] = SlotOf(h)
      /\ \A k \in LiveBudgets :
            /\ extent'[SlotOf(k)] = extent[SlotOf(k)]
            /\ parent'[SlotOf(k)] = parent[SlotOf(k)]
            /\ reserved'[SlotOf(k)] = reserved[SlotOf(k)] + IF k = h THEN n ELSE 0
            /\ children'[SlotOf(k)] = children[SlotOf(k)] + IF k = h THEN 1 ELSE 0
      /\ extent'[c] = n /\ reserved'[c] = 0 /\ children'[c] = 0
  BY <1>1, CarveFamily
<1>3. /\ \A b \in LiveBudgets : Kids(b)' = IF b = h THEN Kids(b) \cup {new} ELSE Kids(b)
      /\ Kids(new)' = {} /\ new \notin Kids(h)
  BY <1>1, CarveKids
<1> HIDE DEF c
<1>4. ASSUME NEW k \in LiveBudgets' \ {0}
      PROVE  /\ ParentOf(k)' \in LiveBudgets'
             /\ SlotOf(ParentOf(k))' = parent'[SlotOf(k)']
  <2>1. CASE k = new
    BY <1>2, <2>1
  <2>2. CASE k # new
    <3>1. k \in LiveBudgets \ {0}
      BY <1>2, <2>2
    <3>2. ParentOf(k) \in LiveBudgets /\ SlotOf(ParentOf(k)) = parent[SlotOf(k)]
      BY <3>1 DEF FamilyInv
    <3> QED BY <1>2, <3>1, <3>2
  <2> QED BY <2>1, <2>2
<1>5. \A k \in LiveBudgets : Extents'[k] = Extents[k]
  BY <1>2 DEF Extents
<1>6. Extents'[new] = n
  BY <1>2 DEF Extents
<1>7. ASSUME NEW b \in LiveBudgets
      PROVE  /\ reserved'[SlotOf(b)] = SumOf(Extents', Kids(b)')
             /\ status # "table-full" => children'[SlotOf(b)] = Cardinality(Kids(b)')
  <2>1. /\ IsFiniteSet(Kids(b)) /\ \A k \in Kids(b) : Extents[k] \in Int /\ Extents'[k] = Extents[k]
    BY <1>5, KidsFacts
  <2>2. SumOf(Extents', Kids(b)) = SumOf(Extents, Kids(b))
    BY <2>1, SumSame
  <2>3. /\ reserved[SlotOf(b)] = SumOf(Extents, Kids(b))
        /\ status # "table-full" => children[SlotOf(b)] = Cardinality(Kids(b))
    BY DEF FamilyInv
  <2>4. /\ SumOf(Extents, Kids(b)) \in Int
        /\ Cardinality(Kids(b)) \in Int
    BY <2>1, SumType, FS_CardinalityType
  <2>5. CASE b = h
    <3>1. /\ SumOf(Extents', Kids(b) \cup {new}) = SumOf(Extents', Kids(b)) + Extents'[new]
          /\ Cardinality(Kids(b) \cup {new}) = Cardinality(Kids(b)) + 1
      <4>1. new \notin Kids(b) /\ \A k \in Kids(b) \cup {new} : Extents'[k] \in Int
        BY <1>2, <1>3, <1>6, <2>1, <2>5
      <4>2. SumOf(Extents', Kids(b) \cup {new}) = SumOf(Extents', Kids(b)) + Extents'[new]
        <5> DEFINE e == Extents'
                   K == Kids(b)
        <5>1. IsFiniteSet(K) /\ new \notin K /\ \A k \in K \cup {new} : e[k] \in Int
          BY <2>1, <4>1
        <5> HIDE DEF e, K
        <5>2. SumOf(e, K \cup {new}) = SumOf(e, K) + e[new]
          BY <5>1, SumAdd
        <5> QED BY <5>2 DEF e, K
      <4>3. Cardinality(Kids(b) \cup {new}) = Cardinality(Kids(b)) + 1
        BY <2>1, <4>1, FS_AddElement
      <4> QED BY <4>2, <4>3
    <3> QED BY <1>2, <1>3, <1>6, <2>2, <2>3, <2>5, <3>1
  <2>6. CASE b # h
    BY <1>2, <1>3, <2>2, <2>3, <2>4, <2>6
  <2> QED BY <2>5, <2>6
<1>8. SumOf(Extents', {}) = 0 /\ Cardinality({}) = 0
  BY SumEmpty, FS_EmptySet
<1>9. status = "running" /\ status' = status
  BY DEF Carve
<1>10. ASSUME NEW b \in LiveBudgets'
       PROVE  /\ reserved'[SlotOf(b)'] = SumOf(Extents', Kids(b)')
              /\ children'[SlotOf(b)'] = Cardinality(Kids(b)')
  <2>1. CASE b = new
    BY <1>2, <1>3, <1>8, <2>1
  <2>2. CASE b # new
    <3>1. b \in LiveBudgets
      BY <1>2, <2>2
    <3> QED BY <1>2, <1>7, <1>9, <3>1
  <2> QED BY <2>1, <2>2
<1>11. parent'[0] = 0
  BY <1>2, LiveFacts, RootSlot DEF FamilyInv
<1> QED BY <1>4, <1>10, <1>11 DEF FamilyInv

\* What a reap does to the family: h is gone, and was nobody's parent.
LEMMA ReapFamily ==
    ASSUME TypeInv, HandleInv, FamilyInv, NEW h \in Handles, Reap(h)
    PROVE  /\ h \in LiveBudgets \ {0} /\ LiveBudgets' = LiveBudgets \ {h}
           /\ UNCHANGED <<minted, tenant, parent, extent, used>>
           /\ \A k : Descriptor(k)' = Descriptor(k) /\ SlotOf(k)' = SlotOf(k)
                     /\ ParentOf(k)' = ParentOf(k)
           /\ Kids(h) = {}
           /\ \A b : Kids(b)' = Kids(b) \ {h}
           /\ status = "running" /\ status' = status
<1> DEFINE s == Descriptor(h).slot
<1>1. h \notin reaped /\ h \in LiveBudgets /\ tenant[s] = h /\ s # 0
  BY HandleFacts DEF Reap, Reapable, LiveBudgets
<1>2. h # 0
  BY <1>1 DEF Descriptor, RootTag
<1>3. /\ UNCHANGED <<minted, tenant, parent, extent, used>> /\ reaped' = reaped \cup {h}
      /\ status = "running" /\ status' = status
  BY <1>1 DEF Reap, Credit
<1>4. LiveBudgets' = LiveBudgets \ {h}
  BY <1>3 DEF LiveBudgets, Handles
<1>5. \A k : Descriptor(k)' = Descriptor(k) /\ SlotOf(k)' = SlotOf(k)
             /\ ParentOf(k)' = ParentOf(k)
  BY <1>3 DEF Descriptor, SlotOf, ParentOf
<1>6. Kids(h) = {}
  <2>1. children[SlotOf(h)] = 0
    BY DEF Reap, Reapable, SlotOf
  <2>2. Cardinality(Kids(h)) = 0
    BY <1>1, <1>3, <2>1 DEF FamilyInv
  <2> QED BY <2>2, KidsFacts, FS_EmptySet
<1>7. ASSUME NEW b
      PROVE  Kids(b)' = Kids(b) \ {h}
  BY <1>4, <1>5 DEF Kids
<1> QED BY <1>1, <1>2, <1>3, <1>4, <1>5, <1>6, <1>7

\* A reap keeps the family in order.
LEMMA ReapFamilyInv ==
    ASSUME TypeInv, HandleInv, FamilyInv, NEW h \in Handles, Reap(h)
    PROVE  FamilyInv'
<1>1. /\ h \in LiveBudgets \ {0} /\ LiveBudgets' = LiveBudgets \ {h}
      /\ UNCHANGED <<minted, tenant, parent, extent, used>>
      /\ \A k : SlotOf(k)' = SlotOf(k) /\ ParentOf(k)' = ParentOf(k)
      /\ Kids(h) = {} /\ \A b : Kids(b)' = Kids(b) \ {h}
      /\ status = "running" /\ status' = status
  BY ReapFamily
<1> DEFINE s == SlotOf(h)
           p == parent[s]
           q == ParentOf(h)
<1>2. /\ children' = [children EXCEPT ![p] = @ - 1]
      /\ reserved' = [reserved EXCEPT ![p] = @ - extent[s]]
  BY DEF Reap, Credit, SlotOf
<1>3. q \in LiveBudgets /\ SlotOf(q) = p /\ h \in Kids(q) /\ s \in Slots
  BY <1>1, LiveFacts DEF FamilyInv, Kids
<1>4. \A k \in LiveBudgets' \ {0} : /\ ParentOf(k)' \in LiveBudgets'
                                    /\ SlotOf(ParentOf(k))' = parent'[SlotOf(k)']
  <2> TAKE k \in LiveBudgets' \ {0}
  <2>1. k \in LiveBudgets \ {0} /\ k \notin Kids(h)
    BY <1>1
  <2>2. ParentOf(k) \in LiveBudgets /\ SlotOf(ParentOf(k)) = parent[SlotOf(k)]
    BY <2>1 DEF FamilyInv
  <2>3. ParentOf(k) # h
    BY <2>1 DEF Kids
  <2>4. ParentOf(k)' = ParentOf(k) /\ SlotOf(ParentOf(k))' = SlotOf(ParentOf(k))
    BY <1>1 DEF SlotOf, Descriptor, ParentOf
  <2> QED BY <1>1, <2>2, <2>3, <2>4
<1>5. \A k \in LiveBudgets' : Extents'[k] = Extents[k] /\ k \in LiveBudgets
  BY <1>1 DEF Extents
<1> HIDE DEF p, s
<1>6. \A r \in Slots : /\ reserved'[r] = IF r = p THEN reserved[r] - extent[s] ELSE reserved[r]
                       /\ children'[r] = IF r = p THEN children[r] - 1 ELSE children[r]
                       /\ reserved[r] \in Int /\ children[r] \in Int
  BY <1>2 DEF TypeInv, TypeOK, TableTypeOK
<1> HIDE DEF q
<1>7. ASSUME NEW b \in LiveBudgets'
      PROVE  /\ reserved'[SlotOf(b)'] = SumOf(Extents', Kids(b)')
             /\ children'[SlotOf(b)'] = Cardinality(Kids(b)')
  <2>1. b \in LiveBudgets /\ SlotOf(b) \in Slots /\ (SlotOf(b) = p <=> b = q)
    BY <1>3, <1>5, LiveFacts
  <2>2. /\ reserved[SlotOf(b)] = SumOf(Extents, Kids(b))
        /\ children[SlotOf(b)] = Cardinality(Kids(b))
    BY <1>1, <2>1 DEF FamilyInv
  <2>3. /\ IsFiniteSet(Kids(b)) /\ Kids(b) \subseteq LiveBudgets \ {0}
        /\ \A k \in Kids(b) : Extents[k] \in Int /\ Extents[k] = extent[SlotOf(k)]
    BY KidsFacts
  <2>4. IsFiniteSet(Kids(b) \ {h}) /\ \A k \in Kids(b) \ {h} : Extents[k] \in Int /\ Extents'[k] = Extents[k]
    BY <1>1, <1>5, <2>3, FS_Subset
  <2>5. SumOf(Extents', Kids(b) \ {h}) = SumOf(Extents, Kids(b) \ {h})
    BY <2>4, SumSame
  <2>6. CASE b = q
    <3>1. /\ SumOf(Extents, Kids(b) \ {h}) \in Int
          /\ SumOf(Extents, Kids(b)) = SumOf(Extents, Kids(b) \ {h}) + Extents[h]
      BY <1>3, <2>3, <2>6, SumRemove
    <3>2. Cardinality(Kids(b) \ {h}) = Cardinality(Kids(b)) - 1
      BY <1>3, <2>3, <2>6, FS_RemoveElement
    <3>3. Extents[h] = extent[s] /\ Extents[h] \in Int
      BY <1>3, <2>3, <2>6 DEF s
    <3>4. SumOf(Extents', Kids(b)') = SumOf(Extents, Kids(b) \ {h})
      BY <1>1, <2>5
    <3>5. Cardinality(Kids(b)') = Cardinality(Kids(b)) - 1
      BY <1>1, <3>2
    <3>6. SlotOf(b)' = SlotOf(b) /\ SlotOf(b) = p
      BY <1>1, <2>1, <2>6
    <3>7. /\ reserved'[SlotOf(b)] = reserved[SlotOf(b)] - extent[s]
          /\ children'[SlotOf(b)] = children[SlotOf(b)] - 1
      BY <1>6, <2>1, <3>6
    <3>8. reserved'[SlotOf(b)] = SumOf(Extents, Kids(b) \ {h})
      BY <2>2, <3>1, <3>3, <3>7
    <3> QED BY <2>2, <3>4, <3>5, <3>6, <3>7, <3>8
  <2>7. CASE b # q
    <3>1. h \notin Kids(b)
      BY <2>7 DEF Kids, q
    <3>2. Kids(b) \ {h} = Kids(b)
      BY <3>1
    <3> QED BY <1>1, <1>6, <2>1, <2>2, <2>5, <2>7, <3>2
  <2> QED BY <2>6, <2>7
<1> QED BY <1>1, <1>4, <1>7 DEF FamilyInv

\* What neither carves nor reaps leaves the family alone, a count taken for a
\* carve that then found the table full apart.
LEMMA OtherStepsFamily ==
    ASSUME [Next]_vars,
           \A h \in Handles : ~Reap(h) /\ \A n \in Requests : ~Carve(h, n)
    PROVE  /\ UNCHANGED <<minted, tenant, reaped, parent, extent, reserved>>
           /\ status' # "table-full" => status # "table-full" /\ UNCHANGED children
<1>1. ASSUME NEW h \in Handles, NEW n \in Requests,
             CarveRefused(h, n) \/ CarveTableFull(h, n)
      PROVE  /\ UNCHANGED <<minted, tenant, reaped, parent, extent, reserved>>
             /\ status' # "table-full" => status # "table-full" /\ UNCHANGED children
  BY <1>1 DEF CarveRefused, CarveTableFull, Raise, table, meters
<1>2. ASSUME NEW h \in Handles, ReapRefused(h) \/ Enter(h) \/ EnterRefused(h)
      PROVE  /\ UNCHANGED <<minted, tenant, reaped, parent, extent, reserved>>
             /\ status' # "table-full" => status # "table-full" /\ UNCHANGED children
  BY <1>2 DEF ReapRefused, Enter, EnterRefused, Raise, table, meters
<1>3. ASSUME Leave
      PROVE  /\ UNCHANGED <<minted, tenant, reaped, parent, extent, reserved>>
             /\ status' # "table-full" => status # "table-full" /\ UNCHANGED children
  BY <1>3 DEF Leave, table, meters
<1>4. ASSUME NEW n \in Sizes,
             AllocTensor(n) \/ AllocString(n) \/ AllocVault(n) \/ Exhausted(n)
      PROVE  /\ UNCHANGED <<minted, tenant, reaped, parent, extent, reserved>>
             /\ status' # "table-full" => status # "table-full" /\ UNCHANGED children
  BY <1>4 DEF AllocTensor, AllocString, AllocVault, Exhausted, ChargeBudget,
              Raise, table, meters
<1>5. ASSUME NEW t \in tensors, ReadStale(t) \/ \E n \in Sizes : CopyTensor(t, n)
      PROVE  /\ UNCHANGED <<minted, tenant, reaped, parent, extent, reserved>>
             /\ status' # "table-full" => status # "table-full" /\ UNCHANGED children
  BY <1>5 DEF ReadStale, CopyTensor, ChargeBudget, Raise, table, meters
<1>6. ASSUME UNCHANGED vars
      PROVE  /\ UNCHANGED <<minted, tenant, reaped, parent, extent, reserved>>
             /\ status' # "table-full" => status # "table-full" /\ UNCHANGED children
  BY <1>6 DEF vars, table, meters
<1> QED BY <1>1, <1>2, <1>3, <1>4, <1>5, <1>6 DEF Next

\* Every step keeps the family in order.
LEMMA StepFamilyInv ==
    ASSUME TypeInv, HandleInv, FamilyInv, [Next]_vars
    PROVE  FamilyInv'
<1>1. CASE \E h \in Handles : Reap(h)
  BY <1>1, ReapFamilyInv
<1>2. CASE \E h \in Handles, n \in Requests : Carve(h, n)
  BY <1>2, CarveFamilyInv
<1>3. CASE \A h \in Handles : ~Reap(h) /\ \A n \in Requests : ~Carve(h, n)
  <2>1. /\ UNCHANGED <<minted, tenant, reaped, parent, extent, reserved>>
        /\ status' # "table-full" => status # "table-full" /\ UNCHANGED children
    BY <1>3, OtherStepsFamily
  <2>2. LiveBudgets' = LiveBudgets
    BY <2>1 DEF LiveBudgets, Handles
  <2>3. \A b : SlotOf(b)' = SlotOf(b) /\ ParentOf(b)' = ParentOf(b)
    BY <2>1 DEF SlotOf, Descriptor, ParentOf
  <2>4. \A b : Kids(b)' = Kids(b)
    BY <2>2, <2>3 DEF Kids
  <2>5. Extents' = Extents
    BY <2>1, <2>2, <2>3 DEF Extents
  <2>6. \A c \in LiveBudgets \ {0} : SlotOf(ParentOf(c))' = SlotOf(ParentOf(c))
    BY <2>1 DEF SlotOf, Descriptor, ParentOf
  <2> QED BY <2>1, <2>2, <2>3, <2>4, <2>5, <2>6 DEF FamilyInv
<1> QED BY <1>1, <1>2, <1>3

\* All of it together.
LEMMA TableInvariant ==
    ASSUME NoWrap
    PROVE  Spec => [](TypeInv /\ HandleInv /\ BooksInv /\ FamilyInv)
<1>1. Init => TypeInv /\ HandleInv /\ BooksInv /\ FamilyInv
  BY InitTypeInv, InitHandleInv, InitBooksInv, InitFamilyInv
<1>2. TypeInv /\ HandleInv /\ BooksInv /\ FamilyInv /\ [Next]_vars
          => TypeInv' /\ HandleInv' /\ BooksInv' /\ FamilyInv'
  BY StepTypeInv, StepHandleInv, StepBooksInv, StepFamilyInv
<1> QED BY <1>1, <1>2, PTL DEF Spec

\* The tree reads the children and the reserved bytes of a budget as the
\* invariants do.
LEMMA TreeReads ==
    ASSUME NEW b
    PROVE  /\ Tree!Children(b) = Kids(b)
           /\ Tree!Reserved(b) = SumOf(Extents, Kids(b))
<1>1. Tree!Children(b) = Kids(b)
  BY DEF Tree!Children, Tree!Root, Kids, ParentOf
<1>2. Tree!Reserved(b) = SumOf(Extents, Tree!Children(b))
  BY DEF Tree!Reserved, Tree!MapThenSumSet, Tree!MapThenFoldSet, SumOf, MapThenSumSet, MapThenFoldSet, Extents
<1> QED BY <1>1, <1>2

\* What the free bytes of a slot allow, the tree allows its budget.
LEMMA TreeFits ==
    ASSUME TypeInv, HandleInv, BooksInv, FamilyInv, status # "table-full",
           NEW b \in LiveBudgets, NEW n \in Nat, Fits(SlotOf(b), n)
    PROVE  Tree!Fits(b, n)
<1> DEFINE s == SlotOf(b)
<1>1. /\ s \in Slots /\ s \in LiveSlots /\ reserved[s] = SumOf(Extents, Kids(b))
  BY LiveFacts DEF FamilyInv
<1>2. /\ extent[s] \in Nat \cup {Unbounded} /\ free[s] \in Nat \cup {Unbounded}
      /\ used[s] \in Nat /\ reserved[s] \in Int
      /\ extent[s] = Unbounded <=> free[s] = Unbounded
      /\ extent[s] # Unbounded => free[s] + used[s] + reserved[s] = extent[s]
  BY <1>1, MeterType DEF BooksInv, Balanced
<1>3. free[s] # Unbounded => n <= free[s]
  BY DEF Fits
<1> HIDE DEF s
<1>4. extent[s] # Unbounded => used[s] + reserved[s] + n <= extent[s]
  BY <1>2, <1>3
<1>5. Extents[b] = extent[s] /\ Uses[b] = used[s]
  BY DEF Extents, Uses, s
<1>6. Tree!Fits(b, n) <=> (Extents[b] # Unbounded => Uses[b] + Tree!Reserved(b) + n <= Extents[b])
  BY DEF Tree!Fits, Extents, Uses
<1> QED BY <1>1, <1>4, <1>5, <1>6, TreeReads

\* Until the first carve the table is the tree with the root alone.
LEMMA InitTree == Init => Tree!TreeInit
<1> SUFFICES ASSUME Init
             PROVE  Tree!TreeInit
  OBVIOUS
<1>1. Len(minted) = 0 /\ LiveBudgets = {0}
  BY EmptySeq DEF Init, LiveBudgets, Handles
<1>2. SlotOf(0) = 0 /\ 0 \in Slots
  BY InterpAssumption DEF SlotOf, Descriptor, RootTag, Slots
<1>3. extent[0] = Limit /\ used[0] = 0 /\ tenant[parent[0]] = 0
  BY <1>2 DEF Init
<1> QED BY <1>1, <1>2, <1>3 DEF Tree!TreeInit, Tree!Root

\* A carve of the table is a carve of the tree.
LEMMA CarveTree ==
    ASSUME TypeInv, HandleInv, BooksInv, FamilyInv,
           NEW h \in Handles, NEW n \in Requests, Carve(h, n)
    PROVE  h \in LiveBudgets /\ n \in Requests \cap Nat /\ Tree!Carve(h, n)
<1>1. PICK new : new = Len(minted) + 1
  OBVIOUS
<1>2. /\ h \in LiveBudgets /\ new \notin LiveBudgets /\ n \in Nat
      /\ LiveBudgets' = LiveBudgets \cup {new} /\ Len(minted') = new
      /\ \A k \in LiveBudgets : SlotOf(k)' = SlotOf(k) /\ SlotOf(k) # CarveSlot
      /\ SlotOf(new)' = CarveSlot
      /\ \A k \in LiveBudgets \ {0} : ParentOf(k)' = ParentOf(k)
      /\ ParentOf(new)' = h
      /\ \A k \in LiveBudgets : /\ extent'[SlotOf(k)] = extent[SlotOf(k)]
                                /\ used'[SlotOf(k)] = used[SlotOf(k)]
                                /\ parent'[SlotOf(k)] = parent[SlotOf(k)]
      /\ extent'[CarveSlot] = n /\ used'[CarveSlot] = 0
  BY <1>1, CarveFamily
<1>3. ParentOf(0)' = ParentOf(0) /\ ParentOf(0) = 0
  <2>1. parent[0] = 0 /\ parent'[0] = 0
    BY CarveFamilyInv DEF FamilyInv
  <2>2. SlotOf(0) = 0 /\ SlotOf(0)' = 0
    BY RootSlot, <1>2, LiveFacts
  <2>3. tenant[0] = 0 /\ tenant'[0] = tenant[0]
    <3>1. CarveSlot # 0 /\ tenant' = [tenant EXCEPT ![CarveSlot] = Len(minted) + 1]
      BY CarveShape DEF Carve
    <3> QED BY <2>2, <3>1, LiveFacts DEF TypeInv, TypeOK, TableTypeOK
  <2> QED BY <2>1, <2>2, <2>3 DEF ParentOf
<1>4. Tree!Fits(h, n)
  <2>1. Fits(SlotOf(h), n) /\ status # "table-full"
    BY DEF Carve, SlotOf
  <2> QED BY <1>2, <2>1, TreeFits
<1>5. \A k \in LiveBudgets : k # new
  BY <1>2
<1>6. \A k \in LiveBudgets' : /\ Parents'[k] = IF k = new THEN h ELSE Parents[k]
                              /\ Extents'[k] = IF k = new THEN n ELSE Extents[k]
                              /\ Uses'[k] = IF k = new THEN 0 ELSE Uses[k]
  <2> TAKE k \in LiveBudgets'
  <2>1. CASE k = new
    BY <1>2, <2>1 DEF Parents, Extents, Uses
  <2>2. CASE k # new
    <3>1. k \in LiveBudgets
      BY <1>2, <2>2
    <3>2. ParentOf(k)' = ParentOf(k)
      BY <1>2, <1>3, <3>1
    <3> QED BY <1>2, <2>2, <3>1, <3>2 DEF Parents, Extents, Uses
  <2> QED BY <2>1, <2>2
<1>7. /\ Parents' = [k \in LiveBudgets' |-> IF k = new THEN h ELSE Parents[k]]
      /\ Extents' = [k \in LiveBudgets' |-> IF k = new THEN n ELSE Extents[k]]
      /\ Uses' = [k \in LiveBudgets' |-> IF k = new THEN 0 ELSE Uses[k]]
  BY <1>6 DEF Parents, Extents, Uses
<1>8. /\ Len(minted') = Len(minted) + 1
      /\ LiveBudgets' = LiveBudgets \cup {Len(minted')}
      /\ Parents' = [k \in LiveBudgets' |-> IF k = Len(minted') THEN h ELSE Parents[k]]
      /\ Extents' = [k \in LiveBudgets' |-> IF k = Len(minted') THEN n ELSE Extents[k]]
      /\ Uses' = [k \in LiveBudgets' |-> IF k = Len(minted') THEN 0 ELSE Uses[k]]
  BY <1>1, <1>2, <1>7
<1>9. Tree!Carve(h, n)
  BY <1>2, <1>4, <1>8 DEF Tree!Carve, Parents, Extents, Uses, ParentOf
<1> QED BY <1>2, <1>9

\* A reap of the table is a reap of the tree.
LEMMA ReapTree ==
    ASSUME TypeInv, HandleInv, FamilyInv, NEW h \in Handles, Reap(h)
    PROVE  h \in LiveBudgets /\ Tree!Reap(h)
<1>1. /\ h \in LiveBudgets \ {0} /\ LiveBudgets' = LiveBudgets \ {h}
      /\ UNCHANGED <<minted, extent, used>>
      /\ \A k : SlotOf(k)' = SlotOf(k) /\ ParentOf(k)' = ParentOf(k)
      /\ Kids(h) = {}
  BY ReapFamily
<1>2. /\ Parents' = [k \in LiveBudgets' |-> Parents[k]]
      /\ Extents' = [k \in LiveBudgets' |-> Extents[k]]
      /\ Uses' = [k \in LiveBudgets' |-> Uses[k]]
  <2>1. /\ \A k \in LiveBudgets' : k \in LiveBudgets /\ SlotOf(k)' = SlotOf(k)
                                   /\ ParentOf(k)' = ParentOf(k)
        /\ extent' = extent /\ used' = used
    BY <1>1
  <2> QED BY <2>1 DEF Parents, Extents, Uses
<1>3. Tree!Children(h) = {}
  BY <1>1, TreeReads
<1> QED BY <1>1, <1>2, <1>3 DEF Tree!Reap, Tree!Root, Parents, Extents, Uses, ParentOf

\* Bytes charged to the entered slot are charged to the budget living there, if
\* one still does.
LEMMA ChargeTree ==
    ASSUME TypeInv, HandleInv, BooksInv, FamilyInv, status = "running",
           NEW n \in Sizes, ChargeBudget(cur, n)
    PROVE  \/ \E b \in LiveBudgets : Tree!Charge(b, n)
           \/ UNCHANGED Tree!treeVars
<1>1. /\ UNCHANGED <<minted, tenant, reaped, parent, extent>>
      /\ used' = [used EXCEPT ![cur] = @ + n]
      /\ Fits(cur, n) /\ n \in Nat
  BY InterpAssumption DEF ChargeBudget
<1>2. /\ LiveBudgets' = LiveBudgets
      /\ \A k : SlotOf(k)' = SlotOf(k) /\ ParentOf(k)' = ParentOf(k)
  BY <1>1 DEF LiveBudgets, Handles, SlotOf, Descriptor, ParentOf
<1>3. Len(minted') = Len(minted) /\ Parents' = Parents /\ Extents' = Extents
  BY <1>1, <1>2 DEF Parents, Extents
<1>4. \A k \in LiveBudgets :
          Uses'[k] = IF SlotOf(k) = cur THEN Uses[k] + n ELSE Uses[k]
  <2> TAKE k \in LiveBudgets
  <2>1. SlotOf(k) \in Slots /\ SlotOf(k)' = SlotOf(k)
    BY <1>2, LiveFacts
  <2>2. Uses'[k] = used'[SlotOf(k)] /\ Uses[k] = used[SlotOf(k)]
    BY <1>2, <2>1 DEF Uses
  <2> QED BY <1>1, <2>1, <2>2 DEF TypeInv, TypeOK, TableTypeOK
<1>5. CASE \E b \in LiveBudgets : SlotOf(b) = cur
  <2>1. PICK b \in LiveBudgets : SlotOf(b) = cur
    BY <1>5
  <2>2. \A k \in LiveBudgets : SlotOf(k) = cur <=> k = b
    BY <2>1, LiveFacts
  <2>3. Tree!Fits(b, n)
    BY <1>1, <2>1, TreeFits
  <2>4. Uses' = [Uses EXCEPT ![b] = @ + n]
    BY <1>2, <1>4, <2>1, <2>2 DEF Uses
  <2>5. Tree!Charge(b, n)
    BY <1>2, <1>3, <2>1, <2>3, <2>4 DEF Tree!Charge, Parents, Extents, Uses, ParentOf
  <2> QED BY <2>5
<1>6. CASE \A b \in LiveBudgets : SlotOf(b) # cur
  <2>1. Uses' = Uses
    BY <1>2, <1>4, <1>6 DEF Uses
  <2> QED BY <1>2, <1>3, <2>1 DEF Tree!treeVars, Parents, Extents, Uses, ParentOf
<1> QED BY <1>5, <1>6

\* A step that neither carves, reaps nor charges does not touch the tree.
LEMMA QuietTree ==
    ASSUME UNCHANGED <<minted, tenant, reaped, parent, extent, used>>
    PROVE  UNCHANGED Tree!treeVars
<1>1. /\ LiveBudgets' = LiveBudgets
      /\ \A k : SlotOf(k)' = SlotOf(k) /\ ParentOf(k)' = ParentOf(k)
  BY DEF LiveBudgets, Handles, SlotOf, Descriptor, ParentOf
<1>2. Parents' = Parents /\ Extents' = Extents /\ Uses' = Uses
  BY <1>1 DEF Parents, Extents, Uses
<1> QED BY <1>1, <1>2 DEF Tree!treeVars, Parents, Extents, Uses, ParentOf

\* Every step of the interpreter is one of the tree, or none.
LEMMA StepTree ==
    ASSUME TypeInv, HandleInv, BooksInv, FamilyInv, [Next]_vars
    PROVE  [Tree!TreeNext]_(Tree!treeVars)
<1>1. ASSUME NEW h \in Handles, NEW n \in Requests, Carve(h, n)
      PROVE  Tree!TreeNext
  BY <1>1, CarveTree DEF Tree!TreeNext
<1>2. ASSUME NEW h \in Handles, Reap(h)
      PROVE  Tree!TreeNext
  BY <1>2, ReapTree DEF Tree!TreeNext
<1>3. ASSUME NEW n \in Sizes, status = "running", ChargeBudget(cur, n)
      PROVE  Tree!TreeNext \/ UNCHANGED Tree!treeVars
  BY <1>3, ChargeTree DEF Tree!TreeNext
<1>4. ASSUME NEW h \in Handles, NEW n \in Requests,
             CarveRefused(h, n) \/ CarveTableFull(h, n)
      PROVE  UNCHANGED Tree!treeVars
  BY <1>4, QuietTree DEF CarveRefused, CarveTableFull, Raise, table, meters
<1>5. ASSUME NEW h \in Handles, ReapRefused(h) \/ Enter(h) \/ EnterRefused(h)
      PROVE  UNCHANGED Tree!treeVars
  BY <1>5, QuietTree DEF ReapRefused, Enter, EnterRefused, Raise, table, meters
<1>6. ASSUME Leave
      PROVE  UNCHANGED Tree!treeVars
  BY <1>6, QuietTree DEF Leave, table, meters
<1>7. ASSUME NEW n \in Sizes, AllocVault(n) \/ Exhausted(n)
      PROVE  UNCHANGED Tree!treeVars
  BY <1>7, QuietTree DEF AllocVault, Exhausted, Raise, table, meters
<1>8. ASSUME NEW n \in Sizes, AllocTensor(n) \/ AllocString(n)
      PROVE  Tree!TreeNext \/ UNCHANGED Tree!treeVars
  BY <1>3, <1>8 DEF AllocTensor, AllocString
<1>9. ASSUME NEW t \in tensors, ReadStale(t)
      PROVE  UNCHANGED Tree!treeVars
  BY <1>9, QuietTree DEF ReadStale, Raise, table, meters
<1>10. ASSUME NEW t \in tensors, NEW n \in Sizes, CopyTensor(t, n)
       PROVE  Tree!TreeNext \/ UNCHANGED Tree!treeVars
  BY <1>3, <1>10 DEF CopyTensor
<1>11. ASSUME UNCHANGED vars
       PROVE  UNCHANGED Tree!treeVars
  BY <1>11, QuietTree DEF vars, table, meters
<1> QED BY <1>1, <1>2, <1>4, <1>5, <1>6, <1>7, <1>8, <1>9, <1>10, <1>11 DEF Next

\* The interpreter's table of reused slots implements the tree of budgets that
\* are never reused (forge.carve, forge.reap and every charge).
THEOREM TableIsATree ==
    ASSUME NoWrap
    PROVE  Spec => ImplementsTree
<1>1. Init => Tree!TreeInit
  BY InitTree
<1>2. TypeInv /\ HandleInv /\ BooksInv /\ FamilyInv /\ [Next]_vars
          => [Tree!TreeNext]_(Tree!treeVars)
  BY StepTree
<1> QED BY <1>1, <1>2, TableInvariant, PTL DEF Spec, ImplementsTree, Tree!TreeSpec

-------------------------------------------------------------------------------
(* The @grad windows over the table.                                        *)

Windows == [kind : {"forward", "pass"}, depth : Nat, slot : Slots, mark : Nat,
            ctor : Nat, adjoints : Nat]

GradTypes ==
    /\ windows \in Seq(Windows)
    /\ ctorBytes \in Nat
    /\ named \in [Slots -> Nat]
    /\ crossed \in BOOLEAN

\* The slot entered where d guards are open, g being the guards and c the register.
EnteredAt(g, c, d) == IF d = Len(g) THEN c ELSE g[d + 1].index

\* Windows and extents nest, and a window finds its budget entered again when
\* the extents opened in its body are left.
Places ==
    /\ \A i, j \in 1..Len(windows) : i <= j => windows[i].depth <= windows[j].depth
    /\ \A i \in 1..Len(windows) :
          /\ windows[i].depth <= Len(guards)
          /\ windows[i].slot = EnteredAt(guards, cur, windows[i].depth)

\* Where a window lands covers what is named in its budget.
Marks ==
    \A i \in 1..Len(windows) :
        /\ windows[i].ctor <= ctorBytes
        /\ named[windows[i].slot] <= windows[i].mark + (ctorBytes - windows[i].ctor)

Core == TypeInv /\ GradTypes /\ Places /\ Marks

NamedKept == size \in 1..MaxSlots /\ \A s \in Slots : used[s] >= named[s]

\* An error ends the program, and with it everything but what is charged.
GradInv == NamedKept /\ (status = "running" => Core)

-------------------------------------------------------------------------------

\* The fields of an open window.
LEMMA WindowAt ==
    ASSUME GradTypes, NEW i \in 1..Len(windows)
    PROVE  /\ windows[i] \in Windows
           /\ windows[i].depth \in Nat /\ windows[i].slot \in Slots
           /\ windows[i].mark \in Nat /\ windows[i].ctor \in Nat
           /\ windows[i].adjoints \in Nat
<1>1. windows[i] \in Windows
  BY ElementOfSeq DEF GradTypes
<1> QED BY <1>1 DEF Windows

\* The guards are a sequence.
LEMMA GuardLength ==
    ASSUME TypeInv
    PROVE  Len(guards) \in Nat
BY Typed, LenProperties

\* The innermost window, when the extents opened in it are left.
LEMMA TopFacts ==
    ASSUME Core, Inside
    PROVE  /\ Len(windows) \in Nat \ {0} /\ Len(windows) \in 1..Len(windows)
           /\ Top = windows[Len(windows)] /\ Top \in Windows
           /\ Top.slot \in Slots /\ Top.mark \in Nat /\ Top.ctor \in Nat
           /\ Top.adjoints \in Nat /\ Top.ctor <= ctorBytes
           /\ named[Top.slot] <= Top.mark + (ctorBytes - Top.ctor)
           /\ Len(guards) = Top.depth => cur = Top.slot
<1>1. /\ windows \in Seq(Windows) /\ windows # <<>>
  BY DEF Core, GradTypes, Inside
<1>2. /\ Len(windows) \in Nat \ {0} /\ Top = windows[Len(windows)] /\ Top \in Windows
  BY <1>1, StackPop DEF Top
<1>3. Len(windows) \in 1..Len(windows)
  BY <1>2
<1>4. Len(guards) = Top.depth => cur = Top.slot
  BY <1>2, <1>3 DEF Core, Places, EnteredAt
<1>5. Top.ctor <= ctorBytes /\ named[Top.slot] <= Top.mark + (ctorBytes - Top.ctor)
  BY <1>2, <1>3 DEF Core, Marks
<1>6. /\ Top.slot \in Slots /\ Top.mark \in Nat /\ Top.ctor \in Nat /\ Top.adjoints \in Nat
  BY <1>2 DEF Windows
<1> QED BY <1>2, <1>3, <1>4, <1>5, <1>6

\* It lands on its mark and what was named since.
LEMMA LandingFacts ==
    ASSUME Core, Inside
    PROVE  /\ Landing(Top) = Top.mark + (ctorBytes - Top.ctor)
           /\ Landing(Top) \in Nat
           /\ named[Top.slot] <= Landing(Top)
BY TopFacts DEF Landing, SaturatingSub, Core, GradTypes

\* No window is open at the start.
LEMMA InitGradInv == GradInit => GradInv
<1> SUFFICES ASSUME GradInit
             PROVE  GradInv
  OBVIOUS
<1>1. TypeInv /\ status = "running"
  BY InitTypeInv DEF GradInit, Init
<1>2. Len(windows) = 0 /\ windows \in Seq(Windows)
  BY EmptySeq DEF GradInit
<1>3. GradTypes
  BY <1>2 DEF GradInit, GradTypes
<1>4. Places /\ Marks
  BY <1>2 DEF Places, Marks
<1>5. NamedKept
  BY InterpAssumption DEF GradInit, Init, NamedKept
<1> QED BY <1>1, <1>3, <1>4, <1>5 DEF GradInv, Core

\* Steps that leave windows, register and guards alone and only charge.
LEMMA ChargingGradInv ==
    ASSUME Core, NamedKept, TypeInv', UNCHANGED <<size, cur, guards, ad>>,
           \A s \in Slots : used'[s] >= used[s]
    PROVE  GradInv'
<1>1. NamedKept'
  <2>1. used \in [Slots -> Nat] /\ used' \in [Slots -> Nat]
    BY DEF Core, TypeInv, TypeOK, TableTypeOK
  <2>2. named \in [Slots -> Nat] /\ named' = named
    BY DEF Core, GradTypes, ad
  <2>3. \A s \in Slots : /\ used[s] \in Nat /\ used'[s] \in Nat /\ named[s] \in Nat
                         /\ used[s] >= named[s] /\ used'[s] >= used[s]
    BY <2>1, <2>2 DEF NamedKept
  <2>4. \A s \in Slots : used'[s] >= named[s]
    BY <2>3
  <2> QED BY <2>2, <2>4 DEF NamedKept
<1>2. GradTypes' /\ Places' /\ Marks'
  BY DEF Core, GradTypes, Places, Marks, ad
<1> QED BY <1>1, <1>2 DEF GradInv, Core

\* Entering an extent inside a window puts the window's budget under a guard.
LEMMA EnterGradInv ==
    ASSUME Core, NamedKept, NEW h \in Handles, Enter(h), UNCHANGED ad
    PROVE  GradInv'
<1>1. TypeInv'
  BY StepTypeInv DEF Core, Next
<1> DEFINE g == [index |-> cur, tag |-> tag, budget |-> tenant[Descriptor(h).slot]]
           G == [index : 0..(size - 1), tag : Tags, budget : Handles]
<1>2. UNCHANGED <<size, used>> /\ guards' = Append(guards, g)
  BY DEF Enter, table, meters
<1>3. NamedKept' /\ GradTypes' /\ Marks'
  BY <1>2 DEF NamedKept, Core, GradTypes, Marks, ad
<1>4. guards \in Seq(G) /\ g \in G /\ g.index = cur
  <2>1. Descriptor(h).slot \in Slots
    BY DescriptorType DEF Core, TypeInv
  <2>2. tenant[Descriptor(h).slot] \in Handles
    BY <2>1 DEF Core, TypeInv, TypeOK, TableTypeOK
  <2> QED BY <2>2, Typed DEF Core
<1> HIDE DEF g, G
<1>5. /\ Len(guards) \in Nat /\ Len(guards') = Len(guards) + 1
      /\ \A i \in 1..Len(guards) : guards'[i] = guards[i]
      /\ guards'[Len(guards) + 1].index = cur
  BY <1>2, <1>4, StackPush
<1>6. Places'
  <2>1. windows' = windows
    BY DEF ad
  <2>2. ASSUME NEW i \in 1..Len(windows)
        PROVE  /\ windows[i].depth <= Len(guards')
               /\ windows[i].slot = EnteredAt(guards', cur', windows[i].depth)
    <3>1. /\ windows[i].depth \in Nat /\ windows[i].depth <= Len(guards)
          /\ windows[i].slot = EnteredAt(guards, cur, windows[i].depth)
      BY <2>2, WindowAt DEF Core, Places
    <3> DEFINE d == windows[i].depth
    <3> HIDE DEF d
    <3>2. d \in Nat /\ d <= Len(guards)
      BY <3>1 DEF d
    <3>3. EnteredAt(guards', cur', d) = EnteredAt(guards, cur, d)
      <4>1. CASE d = Len(guards)
        BY <1>5, <3>2, <4>1 DEF EnteredAt
      <4>2. CASE d # Len(guards)
        <5>1. d + 1 \in 1..Len(guards) /\ d # Len(guards')
          BY <1>5, <3>2, <4>2
        <5> QED BY <1>5, <4>2, <5>1 DEF EnteredAt
      <4> QED BY <4>1, <4>2
    <3> QED BY <1>5, <3>1, <3>2, <3>3 DEF d
  <2> QED BY <2>1, <2>2 DEF Core, Places
<1> QED BY <1>1, <1>3, <1>6 DEF GradInv, Core

\* Leaving one that was opened in the innermost window restores what each
\* window finds entered.
LEMMA LeaveGradInv ==
    ASSUME Core, NamedKept, LeaveExtent, status = "running"
    PROVE  GradInv'
<1>1. TypeInv'
  BY StepTypeInv DEF Core, Next, LeaveExtent
<1> DEFINE G == [index : 0..(size - 1), tag : Tags, budget : Handles]
<1>2. /\ UNCHANGED <<size, used, windows, ctorBytes, named, crossed>>
      /\ guards # <<>> /\ guards' = Front(guards) /\ cur' = Last(guards).index
      /\ Inside => Len(guards) > Top.depth
  BY DEF LeaveExtent, Leave, table, meters, ad
<1>3. NamedKept' /\ GradTypes' /\ Marks'
  BY <1>2 DEF NamedKept, Core, GradTypes, Marks
<1>4. guards \in Seq(G)
  BY Typed DEF Core
<1> HIDE DEF G
<1>5. /\ Len(guards) \in Nat \ {0} /\ Len(guards') = Len(guards) - 1
      /\ \A i \in 1..(Len(guards) - 1) : guards'[i] = guards[i]
      /\ cur' = guards[Len(guards)].index
  BY <1>2, <1>4, StackPop
<1>6. Places'
  <2>1. ASSUME NEW i \in 1..Len(windows)
        PROVE  /\ windows[i].depth <= Len(guards')
               /\ windows[i].slot = EnteredAt(guards', cur', windows[i].depth)
    <3>1. /\ windows[i].depth \in Nat
          /\ windows[i].slot = EnteredAt(guards, cur, windows[i].depth)
      BY <2>1, WindowAt DEF Core, Places
    <3>2. windows[i].depth < Len(guards)
      <4>1. Inside
        BY <2>1, EmptySeq DEF Inside
      <4>2. /\ Top = windows[Len(windows)] /\ Len(windows) \in 1..Len(windows)
            /\ windows[Len(windows)].depth \in Nat /\ i <= Len(windows)
        BY <2>1, <4>1, TopFacts, WindowAt DEF Core
      <4>3. windows[i].depth <= Top.depth
        BY <2>1, <4>2 DEF Core, Places
      <4>4. Len(guards) > Top.depth /\ Top.depth \in Nat
        BY <1>2, <4>1, <4>2
      <4> QED BY <1>5, <3>1, <4>3, <4>4
    <3> DEFINE d == windows[i].depth
    <3> HIDE DEF d
    <3>3. d \in Nat /\ d < Len(guards)
      BY <3>1, <3>2 DEF d
    <3>4. EnteredAt(guards', cur', d) = EnteredAt(guards, cur, d)
      <4>1. CASE d = Len(guards')
        <5>1. d + 1 = Len(guards) /\ d # Len(guards)
          BY <1>5, <3>3, <4>1
        <5> QED BY <1>5, <4>1, <5>1 DEF EnteredAt
      <4>2. CASE d # Len(guards')
        <5>1. d + 1 \in 1..(Len(guards) - 1) /\ d # Len(guards)
          BY <1>5, <3>3, <4>2
        <5> QED BY <1>5, <4>2, <5>1 DEF EnteredAt
      <4> QED BY <4>1, <4>2
    <3> QED BY <1>5, <3>1, <3>3, <3>4 DEF d
  <2> QED BY <1>2, <2>1 DEF Core, Places
<1> QED BY <1>1, <1>3, <1>6 DEF GradInv, Core

\* A constructor charges its own budget what its window will keep.
LEMMA ConstructorGradInv ==
    ASSUME Core, NamedKept, NEW n \in Sizes, Constructor(n)
    PROVE  GradInv'
<1>1. TypeInv'
  BY StepTypeInv DEF Core, Next, Constructor
<1>2. /\ used' = [used EXCEPT ![cur] = @ + n]
      /\ ctorBytes' = ctorBytes + n /\ named' = [named EXCEPT ![cur] = @ + n]
      /\ crossed' \in BOOLEAN
      /\ UNCHANGED <<size, cur, guards, windows>>
  BY DEF Constructor, AllocTensor, ChargeBudget, register, Core, GradTypes
<1>3. /\ n \in Nat /\ cur \in Slots /\ used \in [Slots -> Nat]
      /\ ctorBytes \in Nat /\ named \in [Slots -> Nat]
  BY Typed, InterpAssumption DEF Core, GradTypes
<1>4. /\ \A s \in Slots : used'[s] = IF s = cur THEN used[s] + n ELSE used[s]
      /\ \A s \in Slots : named'[s] = IF s = cur THEN named[s] + n ELSE named[s]
      /\ \A s \in Slots : used[s] \in Nat /\ named[s] \in Nat
  <2>1. \A s \in Slots : used'[s] = IF s = cur THEN used[s] + n ELSE used[s]
    BY <1>2, <1>3
  <2>2. \A s \in Slots : named'[s] = IF s = cur THEN named[s] + n ELSE named[s]
    BY <1>2, <1>3
  <2>3. \A s \in Slots : used[s] \in Nat /\ named[s] \in Nat
    BY <1>3
  <2> QED BY <2>1, <2>2, <2>3
<1>5. NamedKept'
  BY <1>2, <1>3, <1>4 DEF NamedKept
<1>6. GradTypes' /\ Places'
  BY <1>2, <1>3 DEF Core, GradTypes, Places
<1>7. Marks'
  <2>1. ASSUME NEW i \in 1..Len(windows)
        PROVE  /\ windows[i].ctor <= ctorBytes'
               /\ named'[windows[i].slot] <= windows[i].mark + (ctorBytes' - windows[i].ctor)
    <3>1. /\ windows[i].slot \in Slots /\ windows[i].mark \in Nat
          /\ windows[i].ctor \in Nat
      BY <2>1, WindowAt DEF Core
    <3>2. /\ windows[i].ctor <= ctorBytes
          /\ named[windows[i].slot] <= windows[i].mark + (ctorBytes - windows[i].ctor)
      BY <2>1 DEF Core, Marks
    <3> DEFINE w == windows[i]
    <3>3. windows[i] = w
      OBVIOUS
    <3> HIDE DEF w
    <3>4. /\ w.slot \in Slots /\ w.mark \in Nat /\ w.ctor \in Nat
          /\ w.ctor <= ctorBytes /\ named[w.slot] <= w.mark + (ctorBytes - w.ctor)
      BY <3>1, <3>2, <3>3
    <3>5. \/ named'[w.slot] = named[w.slot] + n
          \/ named'[w.slot] = named[w.slot]
      BY <1>4, <3>4
    <3>6. named[w.slot] \in Nat
      BY <1>4, <3>4
    <3>7. w.ctor <= ctorBytes' /\ named'[w.slot] <= w.mark + (ctorBytes' - w.ctor)
      <4>1. ctorBytes' = ctorBytes + n /\ n \in Nat /\ ctorBytes \in Nat
        BY <1>2, <1>3
      <4>2. /\ w.mark \in Nat /\ w.ctor \in Nat
            /\ w.ctor <= ctorBytes /\ named[w.slot] <= w.mark + (ctorBytes - w.ctor)
        BY <3>4
      <4> DEFINE a == named[w.slot]
                 b == named'[w.slot]
                 m == w.mark
                 c == w.ctor
      <4>3. /\ a \in Nat /\ (b = a + n \/ b = a) /\ m \in Nat /\ c \in Nat
            /\ c <= ctorBytes /\ a <= m + (ctorBytes - c)
        BY <3>5, <3>6, <4>2
      <4> HIDE DEF a, b, m, c
      <4>4. c <= ctorBytes' /\ b <= m + (ctorBytes' - c)
        BY <4>1, <4>3
      <4> QED BY <4>4 DEF b, m, c
    <3> QED BY <3>3, <3>7
  <2> QED BY <1>2, <2>1 DEF Marks
<1> QED BY <1>1, <1>5, <1>6, <1>7 DEF GradInv, Core

\* A new tenant has named nothing.
LEMMA CarveGradInv ==
    ASSUME Core, NamedKept, NEW h \in Handles, NEW n \in Requests, CarveSomewhere(h, n)
    PROVE  GradInv'
<1>1. TypeInv'
  BY StepTypeInv DEF Core, Next, CarveSomewhere
<1>2. /\ Carve(h, n) /\ used' = [used EXCEPT ![CarveSlot] = 0]
      /\ named' = [named EXCEPT ![CarveSlot] = 0]
      /\ crossed' \in BOOLEAN
      /\ UNCHANGED <<cur, guards, windows, ctorBytes>>
  BY DEF CarveSomewhere, Carve, Grant, register, Core, GradTypes
<1>3. /\ CarveSlot \in Slots /\ used \in [Slots -> Nat] /\ named \in [Slots -> Nat]
  BY <1>2, CarveShape, Typed DEF Core, GradTypes
<1>4. /\ \A s \in Slots : used'[s] = IF s = CarveSlot THEN 0 ELSE used[s]
      /\ \A s \in Slots : named'[s] = IF s = CarveSlot THEN 0 ELSE named[s]
      /\ \A s \in Slots : named[s] \in Nat
  <2>1. \A s \in Slots : used'[s] = IF s = CarveSlot THEN 0 ELSE used[s]
    BY <1>2, <1>3
  <2>2. \A s \in Slots : named'[s] = IF s = CarveSlot THEN 0 ELSE named[s]
    BY <1>2, <1>3
  <2>3. \A s \in Slots : named[s] \in Nat
    BY <1>3
  <2> QED BY <2>1, <2>2, <2>3
<1>5. NamedKept'
  <2>1. size' \in 1..MaxSlots
    BY <1>1 DEF TypeInv, TypeOK, TableTypeOK
  <2>2. \A s \in Slots : used'[s] >= named'[s]
    BY <1>4 DEF NamedKept
  <2> QED BY <2>1, <2>2 DEF NamedKept
<1>6. GradTypes' /\ Places'
  BY <1>2, <1>3 DEF Core, GradTypes, Places
<1>7. Marks'
  <2>1. ASSUME NEW i \in 1..Len(windows)
        PROVE  /\ windows[i].ctor <= ctorBytes
               /\ named'[windows[i].slot] <= windows[i].mark + (ctorBytes - windows[i].ctor)
    <3>1. /\ windows[i].slot \in Slots /\ windows[i].mark \in Nat
          /\ windows[i].ctor \in Nat /\ ctorBytes \in Nat
      BY <2>1, WindowAt DEF Core, GradTypes
    <3>2. /\ windows[i].ctor <= ctorBytes
          /\ named[windows[i].slot] <= windows[i].mark + (ctorBytes - windows[i].ctor)
      BY <2>1 DEF Core, Marks
    <3>3. named'[windows[i].slot] = named[windows[i].slot] \/ named'[windows[i].slot] = 0
      BY <1>4, <3>1
    <3>4. windows[i].mark + (ctorBytes - windows[i].ctor) >= 0
      BY <3>1, <3>2
    <3> QED BY <3>2, <3>3, <3>4
  <2> QED BY <1>2, <2>1 DEF Marks
<1> QED BY <1>1, <1>5, <1>6, <1>7 DEF GradInv, Core

\* A window opens on a mark that covers what is named so far.
LEMMA OpenGradInv ==
    ASSUME Core, NamedKept, NEW k \in {"forward", "pass"}, Open(k)
    PROVE  GradInv'
<1> DEFINE w == [kind |-> k, depth |-> Len(guards), slot |-> cur, mark |-> used[cur],
                 ctor |-> ctorBytes, adjoints |-> 0]
<1>1. /\ windows' = Append(windows, w)
      /\ UNCHANGED <<vars, size, used, cur, guards, ctorBytes, named, crossed>>
  BY DEF Open, vars, table, meters, register
<1>2. TypeInv' /\ NamedKept'
  BY <1>1, StepTypeInv DEF Core, NamedKept
<1>3. /\ Len(guards) \in Nat /\ cur \in Slots /\ used[cur] \in Nat
      /\ ctorBytes \in Nat /\ windows \in Seq(Windows) /\ named[cur] <= used[cur]
      /\ named[cur] \in Nat
  BY GuardLength, Typed DEF Core, GradTypes, NamedKept
<1>4. w \in Windows
  BY <1>3 DEF Windows
<1>5. /\ w.depth = Len(guards) /\ w.slot = cur /\ w.mark = used[cur]
      /\ w.ctor = ctorBytes
  OBVIOUS
<1> HIDE DEF w
<1>6. /\ windows' \in Seq(Windows) /\ Len(windows) \in Nat
      /\ Len(windows') = Len(windows) + 1
      /\ \A i \in 1..Len(windows) : windows'[i] = windows[i]
      /\ windows'[Len(windows) + 1] = w
  BY <1>1, <1>3, <1>4, StackPush
<1>7. \A i \in 1..Len(windows') :
          \/ i \in 1..Len(windows) /\ windows'[i] = windows[i]
          \/ i = Len(windows) + 1 /\ windows'[i] = w
  BY <1>6
<1>8. GradTypes'
  BY <1>1, <1>6 DEF Core, GradTypes
<1>9. Places'
  <2>1. \A i \in 1..Len(windows) : /\ windows[i].depth <= Len(guards)
                                  /\ windows[i].depth \in Nat
    BY WindowAt DEF Core, Places
  <2>2. ASSUME NEW i \in 1..Len(windows'), NEW j \in 1..Len(windows'), i <= j
        PROVE  windows'[i].depth <= windows'[j].depth
    <3>1. CASE j \in 1..Len(windows)
      <4>1. i \in 1..Len(windows)
        BY <1>6, <2>2, <3>1
      <4> QED BY <1>6, <2>2, <3>1, <4>1 DEF Core, Places
    <3>2. CASE windows'[j] = w
      BY <1>3, <1>5, <1>7, <2>1, <3>2
    <3> QED BY <1>7, <3>1, <3>2
  <2>3. ASSUME NEW i \in 1..Len(windows')
        PROVE  /\ windows'[i].depth <= Len(guards')
               /\ windows'[i].slot = EnteredAt(guards', cur', windows'[i].depth)
    <3>1. CASE i \in 1..Len(windows) /\ windows'[i] = windows[i]
      BY <1>1, <3>1 DEF Core, Places
    <3>2. CASE windows'[i] = w
      BY <1>1, <1>3, <1>5, <3>2 DEF EnteredAt
    <3> QED BY <1>7, <3>1, <3>2
  <2> QED BY <2>2, <2>3 DEF Places
<1>10. Marks'
  <2>1. ASSUME NEW i \in 1..Len(windows')
        PROVE  /\ windows'[i].ctor <= ctorBytes
               /\ named[windows'[i].slot] <= windows'[i].mark + (ctorBytes - windows'[i].ctor)
    <3>1. CASE i \in 1..Len(windows) /\ windows'[i] = windows[i]
      BY <3>1 DEF Core, Marks
    <3>2. CASE windows'[i] = w
      BY <1>3, <1>5, <3>2
    <3> QED BY <1>7, <3>1, <3>2
  <2> QED BY <1>1, <2>1 DEF Marks
<1> QED BY <1>2, <1>8, <1>9, <1>10 DEF GradInv, Core

\* Adjoints are recorded in the innermost window and charged to its budget.
LEMMA BackwardShape ==
    ASSUME Core, NEW n \in Sizes, Backward(n)
    PROVE  /\ n \in Nat /\ Inside /\ cur = Top.slot /\ cur \in Slots
           /\ used' = [used EXCEPT ![cur] = @ + n]
           /\ UNCHANGED <<size, cur, guards, ctorBytes, named, crossed>>
           /\ windows' \in Seq(Windows) /\ Len(windows') = Len(windows)
           /\ \A i \in 1..Len(windows) :
                 /\ windows'[i].depth = windows[i].depth
                 /\ windows'[i].slot = windows[i].slot
                 /\ windows'[i].mark = windows[i].mark
                 /\ windows'[i].ctor = windows[i].ctor
                 /\ windows'[i].adjoints = IF i = Len(windows) THEN n
                                           ELSE windows[i].adjoints
<1>1. /\ n \in Nat /\ Inside /\ Len(guards) = Top.depth /\ cur \in Slots
      /\ used' = [used EXCEPT ![cur] = @ + n]
      /\ UNCHANGED <<size, cur, guards, ctorBytes, named, crossed>>
      /\ windows' = [windows EXCEPT ![Len(windows)].adjoints = n]
  BY Typed, InterpAssumption DEF Backward, ChargeBudget, register, Core
<1>2. /\ cur = Top.slot /\ Len(windows) \in 1..Len(windows)
  BY <1>1, TopFacts
<1> DEFINE t == [windows[Len(windows)] EXCEPT !.adjoints = n]
<1>3. windows[Len(windows)] \in Windows /\ windows \in Seq(Windows)
  BY <1>2, WindowAt DEF Core, GradTypes
<1>4. /\ t \in Windows /\ t.adjoints = n
      /\ t.depth = windows[Len(windows)].depth /\ t.slot = windows[Len(windows)].slot
      /\ t.mark = windows[Len(windows)].mark /\ t.ctor = windows[Len(windows)].ctor
  BY <1>1, <1>3 DEF Windows
<1>5. windows' = [windows EXCEPT ![Len(windows)] = t]
  BY <1>1
<1> HIDE DEF t
<1>6. /\ windows' \in Seq(Windows) /\ Len(windows') = Len(windows)
      /\ \A i \in 1..Len(windows) : windows'[i] = IF i = Len(windows) THEN t ELSE windows[i]
  BY <1>2, <1>3, <1>4, <1>5, ExceptSeq
<1> QED BY <1>1, <1>2, <1>4, <1>6

\* Which moves neither a window's place nor its mark.
LEMMA BackwardGradInv ==
    ASSUME Core, NamedKept, NEW n \in Sizes, Backward(n)
    PROVE  GradInv'
<1>1. /\ Frame /\ UNCHANGED <<children, reserved>>
      /\ free' \in [Slots -> Nat \cup {Unbounded}] /\ used' \in [Slots -> Nat]
      /\ UNCHANGED <<cur, tag, guards, vaultUsed, tensors, status>>
  BY ChargeType, Typed DEF Core, Backward, register
<1>2. TypeInv'
  BY <1>1, FrameType, Typed DEF Core
<1>3. /\ n \in Nat /\ cur \in Slots /\ used' = [used EXCEPT ![cur] = @ + n]
      /\ UNCHANGED <<size, cur, guards, ctorBytes, named, crossed>>
      /\ windows' \in Seq(Windows) /\ Len(windows') = Len(windows)
      /\ \A i \in 1..Len(windows) : /\ windows'[i].depth = windows[i].depth
                                   /\ windows'[i].slot = windows[i].slot
                                   /\ windows'[i].mark = windows[i].mark
                                   /\ windows'[i].ctor = windows[i].ctor
  BY BackwardShape
<1>4. NamedKept'
  <2>1. used \in [Slots -> Nat] /\ named \in [Slots -> Nat]
    BY Typed DEF Core, GradTypes
  <2>2. \A s \in Slots : used'[s] >= used[s] /\ used'[s] \in Nat /\ used[s] \in Nat
    BY <1>3, <2>1
  <2> QED BY <1>3, <2>1, <2>2 DEF NamedKept
<1>5. GradTypes' /\ Places' /\ Marks'
  BY <1>3 DEF Core, GradTypes, Places, Marks
<1> QED BY <1>2, <1>4, <1>5 DEF GradInv, Core

-------------------------------------------------------------------------------
(* Closing.                                                                 *)

\* What is free after a rewind is a number of bytes, or still unbounded.
LEMMA RebilledType ==
    ASSUME NEW f \in Nat \cup {Unbounded}, NEW a \in Nat, NEW b \in Nat
    PROVE  Rebilled(f, a, b) \in Nat \cup {Unbounded}
BY InterpAssumption DEF Rebilled, SaturatingSub

\* The meters of one budget are set, and nothing else.
LEMMA SetUsedShape ==
    ASSUME TypeInv, NEW s \in Slots, NEW u \in Nat, NEW n \in Nat,
           LET room == Rebilled(free[s], used[s], u) IN room = Unbounded \/ n <= room,
           SetBudgetUsed(s, u, n)
    PROVE  /\ Frame
           /\ UNCHANGED <<children, reserved, cur, tag, guards, vaultUsed, tensors>>
           /\ free' \in [Slots -> Nat \cup {Unbounded}]
           /\ used' \in [Slots -> Nat]
           /\ \A r \in Slots : used'[r] = IF r = s THEN u + n ELSE used[r]
           /\ \A r \in Slots :
                 free'[r] = IF r = s THEN Minus(Rebilled(free[s], used[s], u), n) ELSE free[r]
<1> DEFINE room == Rebilled(free[s], used[s], u)
<1>1. /\ used' = [used EXCEPT ![s] = u + n]
      /\ free' = [free EXCEPT ![s] = Minus(room, n)]
      /\ Frame /\ UNCHANGED <<children, reserved, cur, tag, guards, vaultUsed, tensors>>
  BY DEF SetBudgetUsed, Frame, register
<1>2. free \in [Slots -> Nat \cup {Unbounded}] /\ used \in [Slots -> Nat]
  BY Typed
<1>3. room \in Nat \cup {Unbounded}
  BY <1>2, RebilledType
<1> HIDE DEF room
<1>4. Minus(room, n) \in Nat \cup {Unbounded}
  BY <1>3, MinusType DEF room
<1>5. /\ free' \in [Slots -> Nat \cup {Unbounded}]
      /\ \A r \in Slots : free'[r] = IF r = s THEN Minus(room, n) ELSE free[r]
  BY <1>1, <1>2, <1>4
<1>6. /\ used' \in [Slots -> Nat]
      /\ \A r \in Slots : used'[r] = IF r = s THEN u + n ELSE used[r]
  BY <1>1, <1>2
<1> QED BY <1>1, <1>5, <1>6 DEF room

\* The windows around the one that closes are as they were.
LEMMA ClosingCore ==
    ASSUME Core, NEW k \in {"forward", "pass"}, Closing(k), UNCHANGED <<cur, guards>>
    PROVE  /\ GradTypes' /\ Places' /\ Marks'
           /\ Len(windows) \in Nat \ {0} /\ Len(windows') = Len(windows) - 1
           /\ \A i \in 1..Len(windows') : i \in 1..Len(windows) /\ windows'[i] = windows[i]
<1>1. /\ windows \in Seq(Windows) /\ windows # <<>> /\ windows' = Front(windows)
      /\ UNCHANGED <<ctorBytes, named, crossed>>
  BY DEF Closing, Core, GradTypes, Inside
<1>2. /\ windows' \in Seq(Windows)
      /\ Len(windows) \in Nat \ {0} /\ Len(windows') = Len(windows) - 1
      /\ \A i \in 1..(Len(windows) - 1) : windows'[i] = windows[i]
  BY <1>1, StackPop
<1>3. \A i \in 1..Len(windows') : i \in 1..Len(windows) /\ windows'[i] = windows[i]
  BY <1>2
<1>4. GradTypes'
  BY <1>1, <1>2 DEF Core, GradTypes
<1>5. Places'
  BY <1>3 DEF Core, Places
<1>6. Marks'
  BY <1>1, <1>3 DEF Core, Marks
<1> QED BY <1>2, <1>3, <1>4, <1>5, <1>6

\* What every close does: it lands, and n more bytes are charged.
LEMMA ClosingGradInv ==
    ASSUME Core, NamedKept, NEW k \in {"forward", "pass"}, Closing(k), NEW n \in Nat,
           LET room == Rebilled(free[cur], used[cur], Landing(Top))
           IN room = Unbounded \/ n <= room,
           SetBudgetUsed(cur, Landing(Top), n),
           status' \in {status, "recharge-exhausted"}
    PROVE  GradInv'
<1>1. /\ cur \in Slots /\ cur = Top.slot
      /\ Landing(Top) \in Nat /\ named[cur] <= Landing(Top)
  BY TopFacts, LandingFacts, Typed DEF Core, Closing
<1>2. /\ Frame
      /\ UNCHANGED <<children, reserved, cur, tag, guards, vaultUsed, tensors>>
      /\ free' \in [Slots -> Nat \cup {Unbounded}]
      /\ used' \in [Slots -> Nat]
      /\ \A r \in Slots : used'[r] = IF r = cur THEN Landing(Top) + n ELSE used[r]
  <2> DEFINE u == Landing(Top)
  <2>1. TypeInv /\ u \in Nat /\ cur \in Slots
    BY <1>1 DEF Core
  <2> HIDE DEF u
  <2> QED BY <2>1, SetUsedShape DEF u
<1>3. NamedKept'
  <2>1. UNCHANGED <<size, named>> /\ named \in [Slots -> Nat]
    BY <1>2 DEF Frame, Closing, Core, GradTypes
  <2>2. \A r \in Slots : used'[r] >= named[r]
    BY <1>1, <1>2, <2>1 DEF NamedKept
  <2> QED BY <2>1, <2>2 DEF NamedKept
<1>4. GradTypes' /\ Places' /\ Marks'
  BY <1>2, ClosingCore
<1>5. status' = status => TypeInv'
  BY <1>2, FrameType, Typed DEF Core
<1>6. status' = "running" => TypeInv'
  BY <1>5 DEF Closing
<1> QED BY <1>3, <1>4, <1>6 DEF GradInv, Core

\* Both kinds of close, as the lemmas above want them.
LEMMA CloseShape ==
    ASSUME Core, CloseForward \/ \E z \in Disconnected : ClosePass(z)
    PROVE  \E k \in {"forward", "pass"}, n \in Nat :
              /\ Closing(k)
              /\ LET room == Rebilled(free[cur], used[cur], Landing(Top))
                 IN room = Unbounded \/ n <= room
              /\ SetBudgetUsed(cur, Landing(Top), n)
              /\ status' \in {status, "recharge-exhausted"}
<1> DEFINE room == Rebilled(free[cur], used[cur], Landing(Top))
<1>1. Inside /\ \E k \in {"forward", "pass"} : Closing(k)
  BY DEF CloseForward, ClosePass, Closing
<1>2. /\ cur = Top.slot /\ Landing(Top) \in Nat /\ Top.adjoints \in Nat
      /\ room \in Nat \cup {Unbounded}
  <2>1. cur \in Slots /\ free[cur] \in Nat \cup {Unbounded} /\ used[cur] \in Nat
    BY Typed DEF Core
  <2>2. /\ cur = Top.slot /\ Landing(Top) \in Nat /\ Top.adjoints \in Nat
    BY <1>1, TopFacts, LandingFacts DEF Closing
  <2> DEFINE f == free[cur]
             a == used[cur]
             b == Landing(Top)
  <2>3. f \in Nat \cup {Unbounded} /\ a \in Nat /\ b \in Nat
    BY <2>1, <2>2
  <2> HIDE DEF f, a, b
  <2>4. Rebilled(f, a, b) \in Nat \cup {Unbounded}
    BY <2>3, RebilledType
  <2> QED BY <2>2, <2>4 DEF f, a, b
<1>3. 0 \in Nat /\ (room = Unbounded \/ 0 <= room)
  BY <1>2
<1>4. CASE CloseForward
  <2>1. /\ Closing("forward") /\ SetBudgetUsed(cur, Landing(Top), 0) /\ status' = status
    BY <1>4 DEF CloseForward
  <2> HIDE DEF room
  <2> QED BY <1>3, <2>1 DEF room
<1>5. CASE \E z \in Disconnected : ClosePass(z)
  <2>1. PICK z \in Disconnected : ClosePass(z)
    BY <1>5
  <2>2. Top.adjoints + z \in Nat
    BY <1>2, GradAssumption
  <2>3. /\ Closing("pass")
        /\ \/ /\ room = Unbounded \/ Top.adjoints + z <= room
              /\ SetBudgetUsed(cur, Landing(Top), Top.adjoints + z) /\ status' = status
           \/ SetBudgetUsed(cur, Landing(Top), 0) /\ status' = "recharge-exhausted"
    BY <1>2, <2>1 DEF ClosePass
  <2> HIDE DEF room
  <2>4. CASE SetBudgetUsed(cur, Landing(Top), 0) /\ status' = "recharge-exhausted"
    BY <1>3, <2>3, <2>4 DEF room
  <2>5. CASE /\ room = Unbounded \/ Top.adjoints + z <= room
             /\ SetBudgetUsed(cur, Landing(Top), Top.adjoints + z) /\ status' = status
    BY <2>2, <2>3, <2>5 DEF room
  <2> QED BY <2>3, <2>4, <2>5
<1> QED BY <1>4, <1>5

\* Once an error has ended the program, only its extents are left.
LEMMA EndedSteps ==
    ASSUME [GradNext]_gradVars, status # "running"
    PROVE  UNCHANGED <<size, extent, used, free, reserved, budgetFree, status, ad>>
<1>1. ASSUME NEW h \in Handles
      PROVE  ~TouchBudget(h) /\ \A n \in Requests : ~CarveSomewhere(h, n)
  BY DEF TouchBudget, Reap, Enter, CarveSomewhere, Carve
<1>2. ASSUME NEW n \in Sizes
      PROVE  ~Constructor(n) /\ ~Intermediate(n) /\ ~Backward(n)
  BY DEF Constructor, Intermediate, AllocTensor, AllocString, Exhausted, Backward
<1>3. ~Open("forward") /\ ~Open("pass") /\ ~CloseForward
      /\ \A z \in Disconnected : ~ClosePass(z)
  BY DEF Open, CloseForward, ClosePass, Closing
<1>4. CASE LeaveExtent
  BY <1>4 DEF LeaveExtent, Leave, table, meters
<1>5. CASE UNCHANGED gradVars
  BY <1>5 DEF gradVars, vars, table, meters
<1> QED BY <1>1, <1>2, <1>3, <1>4, <1>5 DEF GradNext

\* Every step keeps what is named.
LEMMA StepGradInv == GradInv /\ [GradNext]_gradVars => GradInv'
<1> SUFFICES ASSUME GradInv, [GradNext]_gradVars
             PROVE  GradInv'
  OBVIOUS
<1>1. CASE status # "running"
  BY <1>1, EndedSteps DEF GradInv, NamedKept, ad
<1>2. CASE status = "running"
  <2>1. Core /\ NamedKept /\ TypeInv
    BY <1>2 DEF GradInv, Core
  <2>2. \A s \in Slots : used[s] \in Nat
    BY <2>1, Typed
  <2>3. ASSUME NEW h \in Handles, TouchBudget(h) \/ \E n \in Requests : CarveSomewhere(h, n)
        PROVE  GradInv'
    <3>1. CASE Reap(h) /\ UNCHANGED ad
      <4>1. TypeInv'
        BY <2>1, <3>1, StepTypeInv DEF Next
      <4>2. UNCHANGED <<size, cur, guards, used>>
        BY <3>1 DEF Reap, Credit, register
      <4> QED BY <2>1, <2>2, <3>1, <4>1, <4>2, ChargingGradInv
    <3> QED BY <2>1, <2>3, <3>1, EnterGradInv, CarveGradInv DEF TouchBudget
  <2>4. CASE LeaveExtent
    BY <1>2, <2>1, <2>4, LeaveGradInv
  <2>5. ASSUME NEW n \in Sizes, Constructor(n) \/ Intermediate(n) \/ Backward(n)
        PROVE  GradInv'
    <3>1. CASE Intermediate(n)
      <4>1. TypeInv' /\ UNCHANGED ad
        BY <2>1, <3>1, StepTypeInv DEF Intermediate, Next
      <4>2. UNCHANGED <<size, cur, guards>>
        BY <3>1 DEF Intermediate, AllocTensor, AllocString, Exhausted, Raise,
                    ChargeBudget, register, table
      <4>3. used' = used \/ used' = [used EXCEPT ![cur] = @ + n]
        BY <3>1 DEF Intermediate, AllocTensor, AllocString, Exhausted, Raise,
                    ChargeBudget, table, meters
      <4>4. used \in [Slots -> Nat] /\ n \in Nat
        BY <2>1, Typed, InterpAssumption
      <4>5. \A s \in Slots : used'[s] >= used[s]
        BY <2>2, <4>3, <4>4
      <4> QED BY <2>1, <4>1, <4>2, <4>5, ChargingGradInv
    <3> QED BY <2>1, <2>5, <3>1, ConstructorGradInv, BackwardGradInv
  <2>6. CASE Open("forward") \/ Open("pass")
    BY <2>1, <2>6, OpenGradInv
  <2>7. CASE CloseForward \/ \E z \in Disconnected : ClosePass(z)
    <3>1. PICK k \in {"forward", "pass"}, n \in Nat :
              /\ Closing(k)
              /\ LET room == Rebilled(free[cur], used[cur], Landing(Top))
                 IN room = Unbounded \/ n <= room
              /\ SetBudgetUsed(cur, Landing(Top), n)
              /\ status' \in {status, "recharge-exhausted"}
      BY <2>1, <2>7, CloseShape
    <3> QED BY <2>1, <3>1, ClosingGradInv
  <2>8. CASE UNCHANGED gradVars
    <3>1. TypeInv' /\ UNCHANGED <<size, cur, guards, used, ad>>
      BY <2>1, <2>8, StepTypeInv DEF gradVars, vars, table, meters, register
    <3> QED BY <2>1, <2>2, <3>1, ChargingGradInv
  <2> QED BY <2>3, <2>4, <2>5, <2>6, <2>7, <2>8 DEF GradNext
<1> QED BY <1>1, <1>2

\* The invariant the theorems of this component start from.
LEMMA GradInvariant == GradSpec => []GradInv
<1> QED BY InitGradInv, StepGradInv, PTL DEF GradSpec

\* Bytes a program asked for by name stay charged to the budget they were
\* charged to, whatever windows open and close around them.
THEOREM NamedNotRewound == GradSpec => []NamedStayCharged
<1>1. GradInv => NamedStayCharged
  <2> SUFFICES ASSUME GradInv, NEW s \in LiveSlots
               PROVE  used[s] >= named[s]
    BY DEF NamedStayCharged
  <2>1. s \in Slots
    BY InterpAssumption DEF GradInv, NamedKept, LiveSlots, Slots
  <2> QED BY <2>1 DEF GradInv, NamedKept
<1> QED BY <1>1, GradInvariant, PTL

-------------------------------------------------------------------------------
(* Windows that were not crossed.                                           *)

\* The budget of each open window holds its mark, what is named since and its
\* adjoints; and a window opened inside it on the same budget lands no lower.
Covered ==
    /\ \A i \in 1..Len(windows) :
          used[windows[i].slot] >= windows[i].mark + (ctorBytes - windows[i].ctor)
                                       + windows[i].adjoints
    /\ \A i, j \in 1..Len(windows) :
          i < j /\ windows[i].slot = windows[j].slot =>
              windows[j].mark >= windows[i].mark + (windows[j].ctor - windows[i].ctor)
                                     + windows[i].adjoints

CoverInv == status = "running" /\ ~crossed => Covered

\* Steps that leave the windows alone and take nothing from their budgets.
LEMMA ChargingCovered ==
    ASSUME Core, Covered, UNCHANGED <<windows, ctorBytes>>,
           \A s \in Slots : used[s] \in Nat /\ used'[s] \in Nat,
           \A i \in 1..Len(windows) : used'[windows[i].slot] >= used[windows[i].slot]
    PROVE  Covered'
<1>1. ASSUME NEW i \in 1..Len(windows)
      PROVE  used'[windows[i].slot] >= windows[i].mark + (ctorBytes - windows[i].ctor)
                                           + windows[i].adjoints
  <2>1. /\ windows[i].mark \in Nat /\ windows[i].ctor \in Nat /\ ctorBytes \in Nat
        /\ windows[i].adjoints \in Nat
        /\ used[windows[i].slot] \in Nat /\ used'[windows[i].slot] \in Nat
    BY <1>1, WindowAt DEF Core, GradTypes
  <2>2. used[windows[i].slot] >= windows[i].mark + (ctorBytes - windows[i].ctor)
                                     + windows[i].adjoints
    BY <1>1 DEF Covered
  <2>3. used'[windows[i].slot] >= used[windows[i].slot]
    BY <1>1
  <2> DEFINE x == windows[i].mark + (ctorBytes - windows[i].ctor) + windows[i].adjoints
             u == used[windows[i].slot]
             v == used'[windows[i].slot]
  <2>4. x \in Int /\ u \in Nat /\ v \in Nat /\ u >= x /\ v >= u
    BY <2>1, <2>2, <2>3
  <2> HIDE DEF x, u, v
  <2>5. v >= x
    BY <2>4
  <2> QED BY <2>5 DEF v, x
<1> QED BY <1>1 DEF Covered

\* A constructor in windows that are all on the budget entered.
LEMMA ConstructorCovered ==
    ASSUME Core, Covered, NEW n \in Sizes, Constructor(n), ~crossed'
    PROVE  Covered'
<1>1. /\ used' = [used EXCEPT ![cur] = @ + n] /\ ctorBytes' = ctorBytes + n
      /\ windows' = windows /\ \A w \in ToSet(windows) : w.slot = cur
  BY DEF Constructor, AllocTensor, ChargeBudget, Core, GradTypes
<1>2. /\ n \in Nat /\ cur \in Slots /\ used \in [Slots -> Nat] /\ ctorBytes \in Nat
  BY Typed, InterpAssumption DEF Core, GradTypes
<1>3. \A i \in 1..Len(windows) : windows[i].slot = cur
  <2>1. windows \in Seq(Windows)
    BY DEF Core, GradTypes
  <2>2. \A i \in 1..Len(windows) : windows[i] \in ToSet(windows)
    BY <2>1, InStack
  <2> QED BY <1>1, <2>2
<1>4. ASSUME NEW i \in 1..Len(windows)
      PROVE  used'[windows[i].slot] >= windows[i].mark + (ctorBytes' - windows[i].ctor)
                                           + windows[i].adjoints
  <2>1. /\ windows[i].mark \in Nat /\ windows[i].ctor \in Nat
        /\ windows[i].adjoints \in Nat
    BY <1>4, WindowAt DEF Core
  <2>2. used[cur] >= windows[i].mark + (ctorBytes - windows[i].ctor) + windows[i].adjoints
    BY <1>3, <1>4 DEF Covered
  <2>3. used'[cur] = used[cur] + n /\ used[cur] \in Nat
    BY <1>1, <1>2
  <2>4. used'[cur] >= windows[i].mark + (ctorBytes' - windows[i].ctor) + windows[i].adjoints
    <3> DEFINE m == windows[i].mark
               c == windows[i].ctor
               a == windows[i].adjoints
               u == used[cur]
    <3>1. /\ m \in Nat /\ c \in Nat /\ a \in Nat /\ u \in Nat
          /\ u >= m + (ctorBytes - c) + a /\ used'[cur] = u + n
      BY <2>1, <2>2, <2>3
    <3>2. ctorBytes' = ctorBytes + n /\ ctorBytes \in Nat /\ n \in Nat
      BY <1>1, <1>2
    <3> HIDE DEF m, c, a, u
    <3>3. used'[cur] >= m + (ctorBytes' - c) + a
      BY <3>1, <3>2
    <3> QED BY <3>3 DEF m, c, a
  <2> QED BY <1>3, <1>4, <2>4
<1> QED BY <1>1, <1>4 DEF Covered

\* A new window's mark is all its budget holds, so all an outer one lands on.
LEMMA OpenCovered ==
    ASSUME Core, Covered, NEW k \in {"forward", "pass"}, Open(k)
    PROVE  Covered'
<1> DEFINE w == [kind |-> k, depth |-> Len(guards), slot |-> cur, mark |-> used[cur],
                 ctor |-> ctorBytes, adjoints |-> 0]
<1>1. windows' = Append(windows, w) /\ UNCHANGED <<used, ctorBytes>>
  BY DEF Open, vars, table, meters
<1>2. /\ Len(guards) \in Nat /\ cur \in Slots /\ used[cur] \in Nat
      /\ ctorBytes \in Nat /\ windows \in Seq(Windows)
  BY GuardLength, Typed DEF Core, GradTypes
<1>3. w \in Windows
  BY <1>2 DEF Windows
<1>4. w.slot = cur /\ w.mark = used[cur] /\ w.ctor = ctorBytes /\ w.adjoints = 0
  OBVIOUS
<1> HIDE DEF w
<1>5. /\ Len(windows) \in Nat /\ Len(windows') = Len(windows) + 1
      /\ \A i \in 1..Len(windows) : windows'[i] = windows[i]
      /\ windows'[Len(windows) + 1] = w
  BY <1>1, <1>2, <1>3, StackPush
<1>6. \A i \in 1..Len(windows') :
          \/ i \in 1..Len(windows) /\ windows'[i] = windows[i]
          \/ i = Len(windows) + 1 /\ windows'[i] = w
  BY <1>5
<1>7. ASSUME NEW i \in 1..Len(windows')
      PROVE  used[windows'[i].slot] >= windows'[i].mark + (ctorBytes - windows'[i].ctor)
                                           + windows'[i].adjoints
  <2>1. CASE i \in 1..Len(windows) /\ windows'[i] = windows[i]
    BY <2>1 DEF Covered
  <2>2. CASE windows'[i] = w
    BY <1>2, <1>4, <2>2
  <2> QED BY <1>6, <1>7, <2>1, <2>2
<1>8. ASSUME NEW i \in 1..Len(windows'), NEW j \in 1..Len(windows'), i < j,
             windows'[i].slot = windows'[j].slot
      PROVE  windows'[j].mark >= windows'[i].mark + (windows'[j].ctor - windows'[i].ctor)
                                     + windows'[i].adjoints
  <2>1. i \in 1..Len(windows) /\ windows'[i] = windows[i]
    BY <1>5, <1>8
  <2>2. CASE j \in 1..Len(windows) /\ windows'[j] = windows[j]
    BY <1>8, <2>1, <2>2 DEF Covered
  <2>3. CASE windows'[j] = w
    BY <1>4, <1>8, <2>1, <2>3 DEF Covered
  <2> QED BY <1>6, <1>8, <2>2, <2>3
<1> QED BY <1>1, <1>7, <1>8 DEF Covered

\* Adjoints are charged where they are recorded.
LEMMA BackwardCovered ==
    ASSUME Core, Covered, NEW n \in Sizes, Backward(n)
    PROVE  Covered'
<1>1. /\ n \in Nat /\ Inside /\ cur = Top.slot /\ cur \in Slots
      /\ used' = [used EXCEPT ![cur] = @ + n] /\ ctorBytes' = ctorBytes
      /\ Len(windows') = Len(windows)
      /\ \A i \in 1..Len(windows) :
            /\ windows'[i].slot = windows[i].slot
            /\ windows'[i].mark = windows[i].mark
            /\ windows'[i].ctor = windows[i].ctor
            /\ windows'[i].adjoints = IF i = Len(windows) THEN n ELSE windows[i].adjoints
  BY BackwardShape
<1>2. /\ Len(windows) \in Nat \ {0} /\ Top = windows[Len(windows)]
      /\ Top.adjoints = 0
  BY <1>1, TopFacts DEF Backward
<1>3. used \in [Slots -> Nat] /\ ctorBytes \in Nat
  BY Typed DEF Core, GradTypes
<1>4. ASSUME NEW i \in 1..Len(windows)
      PROVE  used'[windows'[i].slot] >= windows'[i].mark + (ctorBytes' - windows'[i].ctor)
                                            + windows'[i].adjoints
  <2>1. /\ windows[i].slot \in Slots /\ windows[i].mark \in Nat
        /\ windows[i].ctor \in Nat /\ windows[i].adjoints \in Nat
    BY <1>4, WindowAt DEF Core
  <2>2. used[windows[i].slot] >= windows[i].mark + (ctorBytes - windows[i].ctor)
                                     + windows[i].adjoints
    BY <1>4 DEF Covered
  <2>3. used[windows[i].slot] \in Nat
    BY <1>3, <2>1
  <2> DEFINE m == windows[i].mark
             c == windows[i].ctor
             a == windows[i].adjoints
             u == used[windows[i].slot]
             b == windows'[i].adjoints
             v == used'[windows'[i].slot]
  <2>4. /\ m \in Nat /\ c \in Nat /\ a \in Nat /\ u \in Nat /\ ctorBytes \in Nat
        /\ n \in Nat /\ u >= m + (ctorBytes - c) + a
    BY <1>1, <1>3, <2>1, <2>2, <2>3
  <2>5. /\ windows'[i].slot = windows[i].slot /\ windows'[i].mark = m
        /\ windows'[i].ctor = c /\ b = IF i = Len(windows) THEN n ELSE a
    BY <1>1, <1>4
  <2>6. /\ v = u + n \/ v = u
        /\ i = Len(windows) => v = u + n /\ a = 0
    <3>1. v = IF windows[i].slot = cur THEN u + n ELSE u
      BY <1>1, <1>3, <2>1, <2>5
    <3>2. i = Len(windows) => windows[i].slot = cur /\ a = 0
      BY <1>1, <1>2
    <3> QED BY <3>1, <3>2
  <2> HIDE DEF m, c, a, u, b, v
  <2>7. v >= m + (ctorBytes - c) + b
    BY <2>4, <2>5, <2>6
  <2>8. ctorBytes' = ctorBytes
    BY <1>1
  <2> QED BY <2>5, <2>7, <2>8 DEF b, v
<1>5. ASSUME NEW i \in 1..Len(windows), NEW j \in 1..Len(windows), i < j,
             windows'[i].slot = windows'[j].slot
      PROVE  windows'[j].mark >= windows'[i].mark + (windows'[j].ctor - windows'[i].ctor)
                                     + windows'[i].adjoints
  <2>1. i # Len(windows)
    BY <1>2, <1>5
  <2> QED BY <1>1, <1>5, <2>1 DEF Covered
<1> QED BY <1>1, <1>4, <1>5 DEF Covered

\* Where a window lands, the outer windows on its budget are still covered.
LEMMA ClosingCovered ==
    ASSUME Core, Covered, NEW k \in {"forward", "pass"}, Closing(k), NEW n \in Nat,
           UNCHANGED <<cur, guards>>,
           \A r \in Slots : used'[r] = IF r = cur THEN Landing(Top) + n ELSE used[r]
    PROVE  Covered'
<1>1. /\ Len(windows) \in Nat \ {0} /\ Len(windows') = Len(windows) - 1
      /\ \A i \in 1..Len(windows') : i \in 1..Len(windows) /\ windows'[i] = windows[i]
      /\ ctorBytes' = ctorBytes
  BY ClosingCore DEF Closing
<1>2. /\ Top = windows[Len(windows)] /\ cur = Top.slot /\ Top.mark \in Nat
      /\ Top.ctor \in Nat /\ ctorBytes \in Nat
      /\ Landing(Top) = Top.mark + (ctorBytes - Top.ctor)
  BY TopFacts, LandingFacts DEF Closing, Core, GradTypes
<1>3. ASSUME NEW i \in 1..Len(windows')
      PROVE  used'[windows[i].slot] >= windows[i].mark + (ctorBytes - windows[i].ctor)
                                           + windows[i].adjoints
  <2>1. /\ i \in 1..Len(windows) /\ i < Len(windows)
    BY <1>1, <1>3
  <2>2. /\ windows[i].slot \in Slots /\ windows[i].mark \in Nat
        /\ windows[i].ctor \in Nat /\ windows[i].adjoints \in Nat
    BY <2>1, WindowAt DEF Core
  <2>3. CASE windows[i].slot = cur
    <3>1. Top.mark >= windows[i].mark + (Top.ctor - windows[i].ctor) + windows[i].adjoints
      <4>1. Len(windows) \in 1..Len(windows)
        BY <1>1
      <4> QED BY <1>2, <2>1, <2>3, <4>1 DEF Covered
    <3>2. used'[windows[i].slot] = Top.mark + (ctorBytes - Top.ctor) + n
      BY <1>2, <2>2, <2>3
    <3> DEFINE m == windows[i].mark
               c == windows[i].ctor
               a == windows[i].adjoints
               tm == Top.mark
               tc == Top.ctor
    <3>3. /\ m \in Nat /\ c \in Nat /\ a \in Nat /\ tm \in Nat /\ tc \in Nat
          /\ ctorBytes \in Nat /\ tm >= m + (tc - c) + a
      BY <1>2, <2>2, <3>1
    <3> HIDE DEF m, c, a, tm, tc
    <3>4. tm + (ctorBytes - tc) + n >= m + (ctorBytes - c) + a
      BY <3>3
    <3> QED BY <3>2, <3>4 DEF m, c, a, tm, tc
  <2>4. CASE windows[i].slot # cur
    <3>1. used'[windows[i].slot] = used[windows[i].slot]
      BY <2>2, <2>4
    <3> QED BY <2>1, <3>1 DEF Covered
  <2> QED BY <2>3, <2>4
<1>4. ASSUME NEW i \in 1..Len(windows'), NEW j \in 1..Len(windows'), i < j,
             windows'[i].slot = windows'[j].slot
      PROVE  windows'[j].mark >= windows'[i].mark + (windows'[j].ctor - windows'[i].ctor)
                                     + windows'[i].adjoints
  BY <1>1, <1>4 DEF Covered
<1> QED BY <1>1, <1>3, <1>4 DEF Covered

\* A crossing is never forgotten.
LEMMA CrossedStays == crossed /\ [GradNext]_gradVars => crossed'
<1>1. ASSUME crossed, NEW h \in Handles, TouchBudget(h) \/ \E n \in Requests : CarveSomewhere(h, n)
      PROVE  crossed'
  BY <1>1 DEF TouchBudget, CarveSomewhere, ad
<1>2. ASSUME crossed, NEW n \in Sizes, Constructor(n) \/ Intermediate(n) \/ Backward(n)
      PROVE  crossed'
  BY <1>2 DEF Constructor, Intermediate, Backward, ad
<1>3. ASSUME crossed, LeaveExtent \/ UNCHANGED gradVars
      PROVE  crossed'
  BY <1>3 DEF LeaveExtent, gradVars, ad
<1>4. ASSUME crossed, \/ Open("forward") \/ Open("pass") \/ CloseForward
                      \/ \E z \in Disconnected : ClosePass(z)
      PROVE  crossed'
  BY <1>4 DEF Open, CloseForward, ClosePass, Closing
<1> QED BY <1>1, <1>2, <1>3, <1>4 DEF GradNext

\* Every step keeps the windows covered, or crosses one.
LEMMA StepCoverInv == GradInv /\ CoverInv /\ [GradNext]_gradVars => CoverInv'
<1> SUFFICES ASSUME GradInv, CoverInv, [GradNext]_gradVars, status' = "running", ~crossed'
             PROVE  Covered'
  BY DEF CoverInv
<1>1. status = "running"
  BY EndedSteps
<1>2. Core /\ Covered /\ TypeInv /\ NamedKept
  BY <1>1, CrossedStays DEF GradInv, Core, CoverInv
<1>3. (Core /\ TypeInv)'
  BY StepGradInv DEF GradInv, Core
<1>4. /\ used \in [Slots -> Nat]
      /\ \A s \in Slots : used[s] \in Nat /\ used'[s] \in Nat
      /\ \A i \in 1..Len(windows) : windows[i].slot \in Slots
  BY <1>2, <1>3, WindowAt DEF Core, TypeInv, TypeOK, TableTypeOK
<1>5. ASSUME NEW h \in Handles, TouchBudget(h)
      PROVE  Covered'
  <2>1. UNCHANGED <<used, windows, ctorBytes>>
    BY <1>5 DEF TouchBudget, Reap, Credit, Enter, table, meters, ad
  <2> QED BY <1>2, <1>4, <2>1, ChargingCovered
<1>6. ASSUME NEW h \in Handles, NEW n \in Requests, CarveSomewhere(h, n)
      PROVE  Covered'
  <2>1. /\ used' = [used EXCEPT ![CarveSlot] = 0] /\ UNCHANGED <<windows, ctorBytes>>
        /\ \A w \in ToSet(windows) : w.slot # CarveSlot
    BY <1>6 DEF CarveSomewhere, Carve, Grant, Core, GradTypes
  <2>2. \A i \in 1..Len(windows) : windows[i].slot # CarveSlot
    <3>1. windows \in Seq(Windows)
      BY <1>2 DEF Core, GradTypes
    <3>2. \A i \in 1..Len(windows) : windows[i] \in ToSet(windows)
      BY <3>1, InStack
    <3> QED BY <2>1, <3>2
  <2>3. \A s \in Slots : s # CarveSlot => used'[s] = used[s]
    BY <1>4, <2>1
  <2>4. \A i \in 1..Len(windows) : used'[windows[i].slot] >= used[windows[i].slot]
    BY <1>4, <2>2, <2>3
  <2> QED BY <1>2, <1>4, <2>1, <2>4, ChargingCovered
<1>7. CASE LeaveExtent
  <2>1. UNCHANGED <<used, windows, ctorBytes>>
    BY <1>7 DEF LeaveExtent, Leave, table, meters, ad
  <2> QED BY <1>2, <1>4, <2>1, ChargingCovered
<1>8. ASSUME NEW n \in Sizes, Constructor(n) \/ Intermediate(n) \/ Backward(n)
      PROVE  Covered'
  <2>1. CASE Intermediate(n)
    <3>1. used' = used \/ used' = [used EXCEPT ![cur] = @ + n]
      BY <2>1 DEF Intermediate, AllocTensor, AllocString, Exhausted, Raise,
                  ChargeBudget, table, meters
    <3>2. n \in Nat /\ UNCHANGED <<windows, ctorBytes>>
      BY <2>1, InterpAssumption DEF Intermediate, ad
    <3>3. \A s \in Slots : used'[s] >= used[s]
      BY <1>4, <3>1, <3>2
    <3> QED BY <1>2, <1>4, <3>2, <3>3, ChargingCovered
  <2> QED BY <1>2, <1>8, <2>1, ConstructorCovered, BackwardCovered
<1>9. CASE Open("forward") \/ Open("pass")
  BY <1>2, <1>9, OpenCovered
<1>10. CASE CloseForward \/ \E z \in Disconnected : ClosePass(z)
  <2>1. PICK k \in {"forward", "pass"}, n \in Nat :
            /\ Closing(k)
            /\ LET room == Rebilled(free[cur], used[cur], Landing(Top))
               IN room = Unbounded \/ n <= room
            /\ SetBudgetUsed(cur, Landing(Top), n)
            /\ status' \in {status, "recharge-exhausted"}
    BY <1>2, <1>10, CloseShape
  <2> DEFINE u == Landing(Top)
  <2>2. u \in Nat /\ cur \in Slots
    BY <1>2, <2>1, LandingFacts, Typed DEF Closing
  <2> HIDE DEF u
  <2>3. /\ UNCHANGED <<cur, guards>>
        /\ \A r \in Slots : used'[r] = IF r = cur THEN u + n ELSE used[r]
    BY <1>2, <2>1, <2>2, SetUsedShape DEF u
  <2> QED BY <1>2, <2>1, <2>3, ClosingCovered DEF u
<1>11. CASE UNCHANGED gradVars
  <2>1. UNCHANGED <<used, windows, ctorBytes>>
    BY <1>11 DEF gradVars, vars, table, meters, ad
  <2> QED BY <1>2, <1>4, <2>1, ChargingCovered
<1> QED BY <1>5, <1>6, <1>7, <1>8, <1>9, <1>10, <1>11 DEF GradNext

\* The empty stack of windows is covered.
LEMMA InitCoverInv == GradInit => CoverInv
<1> SUFFICES ASSUME GradInit
             PROVE  Covered
  BY DEF CoverInv
<1>1. Len(windows) = 0
  BY EmptySeq DEF GradInit
<1> QED BY <1>1 DEF Covered

\* A covered window lands below what its budget holds, adjoints apart.
LEMMA LandingBelow ==
    ASSUME Core, Covered, Inside, Len(guards) = Top.depth
    PROVE  /\ cur \in Slots /\ used[cur] \in Nat /\ Top.adjoints \in Nat
           /\ Landing(Top) \in Nat
           /\ Landing(Top) + Top.adjoints <= used[cur]
<1>1. /\ Len(windows) \in 1..Len(windows) /\ Top = windows[Len(windows)]
      /\ cur = Top.slot /\ Top.adjoints \in Nat
      /\ Landing(Top) = Top.mark + (ctorBytes - Top.ctor) /\ Landing(Top) \in Nat
  BY TopFacts, LandingFacts
<1>2. used[Top.slot] >= Top.mark + (ctorBytes - Top.ctor) + Top.adjoints
  BY <1>1 DEF Covered
<1>3. cur \in Slots /\ used[cur] \in Nat
  BY Typed DEF Core
<1> QED BY <1>1, <1>2, <1>3

\* So the gradients of a covered pass fit where its temporaries were.
LEMMA PassCanPay ==
    ASSUME Core, Covered, Inside, Len(guards) = Top.depth
    PROVE  LET room == Rebilled(free[cur], used[cur], Landing(Top))
           IN room = Unbounded \/ Top.adjoints <= room
<1>1. free[cur] \in Nat \cup {Unbounded}
  BY Typed DEF Core
<1> DEFINE f == free[cur]
           u == used[cur]
           l == Landing(Top)
           a == Top.adjoints
<1>2. /\ f \in Nat \cup {Unbounded} /\ u \in Nat /\ l \in Nat /\ a \in Nat
      /\ l + a <= u
  BY <1>1, LandingBelow
<1> HIDE DEF f, u, l, a
<1>3. Rebilled(f, u, l) = Unbounded \/ a <= Rebilled(f, u, l)
  BY <1>2, InterpAssumption DEF Rebilled
<1> QED BY <1>3 DEF f, u, l, a

\* What a step of GradNext is, seen from the table.
LEMMA GradSteps ==
    ASSUME [GradNext]_gradVars, status = "running"
    PROVE  \/ [Next]_vars
           \/ \E n \in Sizes : Backward(n)
           \/ CloseForward
           \/ \E z \in Disconnected : ClosePass(z)
<1>1. ASSUME NEW h \in Handles, TouchBudget(h) \/ \E n \in Requests : CarveSomewhere(h, n)
      PROVE  Next
  BY <1>1 DEF TouchBudget, CarveSomewhere, Next
<1>2. ASSUME NEW n \in Sizes, Constructor(n) \/ Intermediate(n)
      PROVE  Next
  BY <1>2 DEF Constructor, Intermediate, Next
<1>3. CASE LeaveExtent
  BY <1>3 DEF LeaveExtent, Next
<1>4. CASE Open("forward") \/ Open("pass") \/ UNCHANGED gradVars
  BY <1>4 DEF Open, gradVars
<1> QED BY <1>1, <1>2, <1>3, <1>4 DEF GradNext

\* A pass that was not crossed can pay for what it publishes, as long as no
\* gradient it publishes was never an adjoint.
THEOREM UncrossedPassPays ==
    ASSUME Disconnected \subseteq {0}
    PROVE  GradSpec => []RechargeUnlessCrossed
<1>1. GradInit => RechargeUnlessCrossed
  BY DEF GradInit, Init, RechargeUnlessCrossed, RechargeCannotFail
<1>2. ASSUME GradInv, CoverInv, RechargeUnlessCrossed, [GradNext]_gradVars
      PROVE  RechargeUnlessCrossed'
  <2>1. CASE crossed
    BY <1>2, <2>1, CrossedStays DEF RechargeUnlessCrossed
  <2>2. CASE status # "running" /\ ~crossed
    BY <1>2, <2>2, EndedSteps DEF RechargeUnlessCrossed, RechargeCannotFail
  <2>3. CASE status = "running" /\ ~crossed
    <3>1. Core /\ TypeInv /\ Covered
      BY <1>2, <2>3 DEF GradInv, Core, CoverInv
    <3>2. CASE [Next]_vars
      <4>1. TypeInv'
        BY <3>1, <3>2, StepTypeInv
      <4> QED BY <4>1 DEF TypeInv, TypeOK, RechargeUnlessCrossed, RechargeCannotFail
    <3>3. CASE (\E n \in Sizes : Backward(n)) \/ CloseForward
      BY <2>3, <3>3 DEF Backward, CloseForward, RechargeUnlessCrossed, RechargeCannotFail
    <3>4. ASSUME NEW z \in Disconnected, ClosePass(z)
          PROVE  RechargeUnlessCrossed'
      <4>1. /\ Inside /\ Len(guards) = Top.depth /\ z = 0
        BY <3>4 DEF ClosePass, Closing
      <4>2. cur = Top.slot /\ Top.adjoints + z = Top.adjoints
        BY <3>1, <4>1, TopFacts
      <4>3. LET room == Rebilled(free[cur], used[cur], Landing(Top))
            IN room = Unbounded \/ Top.adjoints <= room
        BY <3>1, <4>1, PassCanPay
      <4>4. status' = status
        BY <3>4, <4>2, <4>3 DEF ClosePass
      <4> QED BY <2>3, <4>4 DEF RechargeUnlessCrossed, RechargeCannotFail
    <3> QED BY <1>2, <2>3, <3>2, <3>3, <3>4, GradSteps
  <2> QED BY <2>1, <2>2, <2>3
<1>3. GradInit => GradInv /\ CoverInv
  BY InitGradInv, InitCoverInv
<1>4. GradInv /\ CoverInv /\ [GradNext]_gradVars => GradInv' /\ CoverInv'
  BY StepGradInv, StepCoverInv
<1> QED BY <1>1, <1>2, <1>3, <1>4, PTL DEF GradSpec

-------------------------------------------------------------------------------
(* The books.                                                               *)

\* Setting a meter to what is at most charged, and charging n bytes of the
\* room that makes, moves free and used by the same amount.
LEMMA SetUsedBooksInv ==
    ASSUME TypeInv, BooksInv, NEW s \in Slots, NEW u \in Nat, NEW n \in Nat,
           u <= used[s], status = "running",
           LET room == Rebilled(free[s], used[s], u) IN room = Unbounded \/ n <= room,
           SetBudgetUsed(s, u, n)
    PROVE  BooksInv'
<1>1. /\ UNCHANGED <<extent, reserved, size, budgetFree>>
      /\ \A r \in Slots : used'[r] = IF r = s THEN u + n ELSE used[r]
      /\ \A r \in Slots :
            free'[r] = IF r = s THEN Minus(Rebilled(free[s], used[s], u), n) ELSE free[r]
      /\ used[s] \in Nat /\ free[s] \in Nat \cup {Unbounded}
  BY SetUsedShape, Typed DEF SetBudgetUsed
<1> DEFINE f == free[s]
           a == used[s]
<1>2. f \in Nat \cup {Unbounded} /\ a \in Nat /\ u <= a
  BY <1>1
<1> HIDE DEF f, a
<1>3. Minus(Rebilled(f, a, u), n) = IF f = Unbounded THEN f ELSE f + (a - u) - n
  BY <1>2, InterpAssumption DEF Rebilled, Minus
<1>4. \A r \in Slots : free'[r] = IF r # s THEN free[r]
                                 ELSE IF free[s] = Unbounded THEN free[s]
                                 ELSE free[s] + (used[s] - u) - n
  BY <1>1, <1>3 DEF f, a
<1>5. \A r \in Slots : extent'[r] = Unbounded <=> free'[r] = Unbounded
  <2> TAKE r \in Slots
  <2>1. extent[r] = Unbounded <=> free[r] = Unbounded
    BY DEF BooksInv
  <2>2. free[s] # Unbounded => free[s] + (used[s] - u) - n # Unbounded
    BY <1>1, InterpAssumption
  <2> QED BY <1>1, <1>4, <2>1, <2>2
<1>6. \A r \in LiveSlots : Balanced(r)'
  <2> TAKE r \in LiveSlots
  <2>1. r \in Slots /\ Balanced(r) /\ (extent[r] = Unbounded <=> free[r] = Unbounded)
    BY LiveSlot DEF BooksInv
  <2>2. CASE r # s
    BY <1>1, <1>4, <2>1, <2>2 DEF Balanced
  <2>3. CASE r = s
    BY <1>1, <1>4, <2>1, <2>3, MeterType DEF Balanced
  <2> QED BY <2>2, <2>3
<1>7. LiveSlots' = LiveSlots
  BY <1>1 DEF LiveSlots, Freed
<1> QED BY <1>5, <1>6, <1>7 DEF BooksInv

UncrossedBooks == (status = "running" => HandleInv) /\ (crossed \/ BooksInv)

\* Every step keeps the books, or crosses a window.
LEMMA StepUncrossedBooks ==
    ASSUME NoWrap, GradInv, CoverInv, UncrossedBooks, [GradNext]_gradVars
    PROVE  UncrossedBooks'
<1>1. CASE status # "running"
  <2>1. UNCHANGED <<size, extent, used, free, reserved, budgetFree, status>>
    BY <1>1, EndedSteps
  <2> QED BY <1>1, <2>1, CrossedStays, QuietBooksInv DEF UncrossedBooks
<1>2. CASE status = "running"
  <2>1. Core /\ TypeInv /\ HandleInv /\ (crossed \/ (Covered /\ BooksInv))
    BY <1>2 DEF GradInv, Core, CoverInv, UncrossedBooks
  <2>2. CASE [Next]_vars
    <3>1. HandleInv' /\ (BooksInv => BooksInv')
      BY <2>1, <2>2, StepHandleInv, StepBooksInv
    <3> QED BY <2>1, <3>1, CrossedStays DEF UncrossedBooks
  <2>3. ASSUME NEW n \in Sizes, Backward(n)
        PROVE  UncrossedBooks'
    <3>1. HandleInv'
      BY <2>1, <2>3, FrameHandleInv DEF Backward, ChargeBudget, HandleFrame
    <3>2. BooksInv => BooksInv'
      BY <1>2, <2>1, <2>3, ChargeBooksInv, Typed DEF Backward
    <3> QED BY <2>1, <3>1, <3>2, CrossedStays DEF UncrossedBooks
  <2>4. CASE CloseForward \/ \E z \in Disconnected : ClosePass(z)
    <3>1. PICK k \in {"forward", "pass"}, n \in Nat :
              /\ Closing(k)
              /\ LET room == Rebilled(free[cur], used[cur], Landing(Top))
                 IN room = Unbounded \/ n <= room
              /\ SetBudgetUsed(cur, Landing(Top), n)
              /\ status' \in {status, "recharge-exhausted"}
      BY <2>1, <2>4, CloseShape
    <3>2. HandleInv'
      BY <2>1, <3>1, FrameHandleInv DEF SetBudgetUsed, HandleFrame
    <3>3. Covered /\ BooksInv => BooksInv'
      <4> SUFFICES ASSUME Covered, BooksInv
                   PROVE  BooksInv'
        OBVIOUS
      <4> DEFINE u == Landing(Top)
      <4>1. u \in Nat /\ cur \in Slots /\ u <= used[cur]
        BY <2>1, <3>1, LandingBelow DEF Closing
      <4> HIDE DEF u
      <4> QED BY <1>2, <2>1, <3>1, <4>1, SetUsedBooksInv DEF u
    <3> QED BY <2>1, <3>2, <3>3, CrossedStays DEF UncrossedBooks
  <2> QED BY <1>2, <2>2, <2>3, <2>4, GradSteps
<1> QED BY <1>1, <1>2

\* (LOC) with rewinds: as long as no window was crossed, free, charged and
\* carved-out bytes of every live bounded budget add up to its extent.
THEOREM UncrossedBooksBalance ==
    ASSUME NoWrap
    PROVE  GradSpec => []LocUnlessCrossed
<1>1. GradInit => GradInv /\ CoverInv /\ UncrossedBooks
  BY InitGradInv, InitCoverInv, InitHandleInv, InitBooksInv DEF GradInit, UncrossedBooks
<1>2. GradInv /\ CoverInv /\ UncrossedBooks /\ [GradNext]_gradVars
          => GradInv' /\ CoverInv' /\ UncrossedBooks'
  BY StepGradInv, StepCoverInv, StepUncrossedBooks
<1>3. UncrossedBooks => LocUnlessCrossed
  BY DEF UncrossedBooks, LocUnlessCrossed, BooksInv, Balanced, Loc
<1> QED BY <1>1, <1>2, <1>3, PTL DEF GradSpec
===============================================================================
