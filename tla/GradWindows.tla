----------------------------- MODULE GradWindows -----------------------------
(***************************************************************************)
(* The two places where the interpreter hands budget back without a reap:  *)
(* the forward-only call of a @grad function that returns a scalar         *)
(* (call_fn_in_module) and a .fwd_bwd pass (call_grad_in_module).  Each    *)
(* remembers the bytes used in the entered budget when its body starts     *)
(* and, when the body is done, moves the budget back to that mark, plus    *)
(* what explicit constructors charged meanwhile: the rest was temporaries  *)
(* the program never named.  A pass then charges what it publishes, one    *)
(* gradient per differentiable input.                                      *)
(*                                                                         *)
(* Everything else a program does to budgets is InterpBudgets.  The tensor *)
(* values of the gradients are left out, their bytes are not.              *)
(***************************************************************************)
EXTENDS InterpBudgets

CONSTANTS
    MaxWindows,        \* bound on the nesting of @grad calls
    Disconnected       \* bytes of the gradients of inputs the loss ignores

ASSUME GradAssumption ==
    /\ MaxWindows \in Nat
    /\ Disconnected \subseteq Nat

VARIABLES
    windows,      \* the @grad calls being evaluated, innermost last
    ctorBytes,    \* Interpreter::ctor_forge_bytes, never rewound
    named,        \* history: bytes of constructors charged to the tenant of each slot
    crossed       \* history: a constructor in a window was charged to another
                  \* budget, or the slot of the window got a new tenant

ad == <<windows, ctorBytes, named, crossed>>
gradVars == <<vars, ad>>

Inside == windows # <<>>
Top == Last(windows)

GradInit ==
    /\ Init
    /\ windows = <<>>
    /\ ctorBytes = 0
    /\ named = [s \in Slots |-> 0]
    /\ crossed = FALSE

-------------------------------------------------------------------------------
(* set_budget_used                                                          *)

SaturatingSub(a, b) == IF b > a THEN 0 ELSE a - b

\* What `free` becomes when a budget goes from `before` bytes used to `after`.
Rebilled(f, before, after) ==
    IF f = Unbounded THEN f
    ELSE IF after <= before THEN f + (before - after)
    ELSE SaturatingSub(f, after - before)

\* Slip: what constructors charged goes back with the temporaries.
LandingAtMark(w) == w.mark

\* Where a closing window leaves the meter.  The counter of constructors is one
\* for the whole interpreter, whichever budget they were charged to.
Landing(w) == w.mark + SaturatingSub(ctorBytes, w.ctor)

\* Slip: the watermark moves and what is free does not.
SetUsedAlone(s, u, n) ==
    /\ used' = [used EXCEPT ![s] = u + n]
    /\ UNCHANGED <<free, parent, extent, children, reserved, size, gen, budgetFree,
                   minted, tenant, reaped, register, vaultUsed, tensors>>

\* used of slot s becomes u, after which n more bytes are charged to it.
SetBudgetUsed(s, u, n) ==
    /\ used' = [used EXCEPT ![s] = u + n]
    /\ free' = [free EXCEPT ![s] = Minus(Rebilled(@, used[s], u), n)]
    /\ UNCHANGED <<parent, extent, children, reserved, size, gen, budgetFree,
                   minted, tenant, reaped, register, vaultUsed, tensors>>

-------------------------------------------------------------------------------
(* Windows.  A @grad call is one expression, so the budgets entered in its  *)
(* body are left before it closes.                                          *)

Open(kind) ==
    /\ status = "running"
    /\ Len(windows) < MaxWindows
    /\ windows' = Append(windows, [kind |-> kind, depth |-> Len(guards), slot |-> cur,
                                   mark |-> used[cur], ctor |-> ctorBytes, adjoints |-> 0])
    /\ UNCHANGED <<vars, ctorBytes, named, crossed>>

Closing(kind) ==
    /\ status = "running"
    /\ Inside /\ Top.kind = kind /\ Len(guards) = Top.depth
    /\ windows' = Front(windows)
    /\ UNCHANGED <<ctorBytes, named, crossed>>

\* The forward-only rewind: temporaries only, the value is a scalar.
CloseForward ==
    /\ Closing("forward")
    /\ SetBudgetUsed(cur, Landing(Top), 0)
    /\ UNCHANGED status

\* Slip: the adjoints are recorded and not charged.
BackwardUncharged(n) ==
    /\ status = "running"
    /\ Inside /\ Top.kind = "pass" /\ Len(guards) = Top.depth /\ Top.adjoints = 0
    /\ windows' = [windows EXCEPT ![Len(windows)].adjoints = n]
    /\ UNCHANGED <<vars, ctorBytes, named, crossed>>

\* Tape::backward has run: every adjoint it built is charged at once.
Backward(n) ==
    /\ status = "running"
    /\ Inside /\ Top.kind = "pass" /\ Len(guards) = Top.depth /\ Top.adjoints = 0
    /\ ChargeBudget(cur, n)
    /\ windows' = [windows EXCEPT ![Len(windows)].adjoints = n]
    /\ UNCHANGED <<register, vaultUsed, tensors, status, ctorBytes, named, crossed>>

\* The epilogue of a pass: rewind, then charge the gradients published.  Those
\* of inputs the loss depends on are among the adjoints; z bytes are zeros
\* made for the inputs it does not depend on.
ClosePass(z) ==
    LET s == Top.slot
        room == Rebilled(free[s], used[s], Landing(Top))
        published == Top.adjoints + z
    IN
    /\ Closing("pass")
    /\ Top.adjoints > 0
    /\ IF room = Unbounded \/ published <= room
       THEN SetBudgetUsed(s, Landing(Top), published) /\ UNCHANGED status
       ELSE SetBudgetUsed(s, Landing(Top), 0) /\ status' = "recharge-exhausted"

-------------------------------------------------------------------------------
(* The steps of InterpBudgets, inside a window and out.                     *)

\* charge_ctor: an explicit forge constructor is also counted.
Constructor(n) ==
    /\ AllocTensor(n)
    /\ ctorBytes' = ctorBytes + n
    /\ named' = [named EXCEPT ![cur] = @ + n]
    /\ crossed' = (crossed \/ \E w \in ToSet(windows) : w.slot # cur)
    /\ UNCHANGED windows

\* charge_intermediate: a computed value is not.
Intermediate(n) == (AllocTensor(n) \/ AllocString(n) \/ Exhausted(n)) /\ UNCHANGED ad

CarveSomewhere(h, n) ==
    /\ Carve(h, n)
    /\ named' = [named EXCEPT ![CarveSlot] = 0]
    /\ crossed' = (crossed \/ \E w \in ToSet(windows) : w.slot = CarveSlot)
    /\ UNCHANGED <<windows, ctorBytes>>

TouchBudget(h) == (Reap(h) \/ Enter(h)) /\ UNCHANGED ad

\* Errors unwind through a window without closing it.
LeaveExtent ==
    /\ (status = "running" /\ Inside) => Len(guards) > Top.depth
    /\ Leave
    /\ UNCHANGED ad

GradNext ==
    \/ \E h \in Handles : TouchBudget(h) \/ \E n \in Requests : CarveSomewhere(h, n)
    \/ LeaveExtent
    \/ \E n \in Sizes : Constructor(n) \/ Intermediate(n) \/ Backward(n)
    \/ Open("forward") \/ Open("pass")
    \/ CloseForward
    \/ \E z \in Disconnected : ClosePass(z)

GradSpec == GradInit /\ [][GradNext]_gradVars

-------------------------------------------------------------------------------

\* Bytes a program asked for by name stay charged to the budget they were
\* charged to, through every nesting of windows, entered budgets, reaps and
\* reuses: no rewind hands back what a constructor may still hold
\* (ctor_forge_bytes, "under-keeping loses memory the program still holds").
NamedStayCharged == \A s \in LiveSlots : used[s] >= named[s]

\* "The re-charge cannot fail the budget": what a pass publishes fits where its
\* temporaries were.
RechargeCannotFail == status # "recharge-exhausted"

\* Windows keep (LOC), whatever their bodies carve, enter and charge, as long
\* as what a window counts as its own was charged to its own budget and that
\* budget's slot is not given to another: landing on mark + kept bytes moves
\* `used` and `free` by the same amount.
LocUnlessCrossed == crossed \/ Loc

\* Under the same condition a pass can always pay for what it publishes, except
\* for zeros nothing was charged for.
RechargeUnlessCrossed == crossed \/ RechargeCannotFail
===============================================================================
