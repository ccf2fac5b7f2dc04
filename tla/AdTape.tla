-------------------------------- MODULE AdTape --------------------------------
(***************************************************************************)
(* Reverse-mode differentiation of a @grad fn: the tape its body records   *)
(* and the sweep that carries adjoints back over it, as the interpreter    *)
(* does it on values (interp.rs) and as the code the JIT emits does it on  *)
(* buffers (jit.rs).  The JIT keeps, for a node, a pointer to its adjoint, *)
(* hands the adjoint of a sum to both operands as it is, and adds later    *)
(* contributions into that memory.                                         *)
(*                                                                         *)
(* A tensor is one integer.  The elementwise operations stand for the VJPs *)
(* that pass an adjoint on (.+, and the left of .-) and for those that     *)
(* make a new tensor (.*, and the right of .-).  `shared` is history.      *)
(***************************************************************************)
EXTENDS Integers, SequencesExt

CONSTANTS
    Backends,     \* of {"interp", "jit"}: the ones a program may run on
    Leaves,       \* the forward values of the `!` parameters, a sequence
    Ops,          \* the operations a body uses, of {"add", "sub", "mul"}
    MaxNodes      \* bound on the length of the tape

ASSUME TapeAssumption ==
    /\ Backends \subseteq {"interp", "jit"} /\ Leaves \in Seq(Int)
    /\ Ops \subseteq {"add", "sub", "mul"} /\ MaxNodes \in Nat

VARIABLES
    backend,      \* the one it runs on
    tape,         \* the nodes: operation, operands, forward value
    loss,         \* the node whose sum is the loss, 0 while recording
    adjoint,      \* of each node: the buffer of its adjoint, or None
    heap,         \* the contents of the buffers
    next,         \* the node the sweep visits next
    shared        \* a contribution was added into a buffer two nodes hold

vars == <<backend, tape, loss, adjoint, heap, next, shared>>

None == 0
Params == DOMAIN Leaves

Init ==
    /\ backend \in Backends
    /\ tape = [p \in Params |-> [op |-> "leaf", a |-> 0, b |-> 0, fwd |-> Leaves[p]]]
    /\ loss = 0
    /\ adjoint = <<>>
    /\ heap = <<>>
    /\ next = 0
    /\ shared = FALSE

Apply(op, x, y) == CASE op = "add" -> x + y [] op = "sub" -> x - y [] op = "mul" -> x * y

Record(op, a, b) ==
    /\ loss = 0 /\ Len(tape) < MaxNodes
    /\ tape' = Append(tape, [op |-> op, a |-> a, b |-> b,
                             fwd |-> Apply(op, tape[a].fwd, tape[b].fwd)])
    /\ UNCHANGED <<backend, loss, adjoint, heap, next, shared>>

\* The body ends in sum(n): the sweep starts with the adjoint 1 broadcast over n.
Loss(n) ==
    /\ loss = 0
    /\ loss' = n
    /\ heap' = <<1>>
    /\ adjoint' = [i \in DOMAIN tape |-> IF i = n THEN 1 ELSE None]
    /\ next' = Len(tape)
    /\ UNCHANGED <<backend, tape, shared>>

-------------------------------------------------------------------------------
(* The sweep, on sw = [adjoint, heap, shared].                              *)

\* A contribution in a tensor of its own.
WithNew(sw, value) == [sw EXCEPT !.heap = Append(@, value)]

\* Slip: a later contribution replaces the earlier ones.
AddedOver(sw, n, buffer) == [sw EXCEPT !.adjoint[n] = buffer]

\* Held by a node other than n that the sweep is at, or has yet to visit or publish.
HeldElsewhere(sw, n) ==
    \E m \in DOMAIN tape \ {n} :
        sw.adjoint[m] = sw.adjoint[n] /\ (m <= next \/ m \in Params)

\* grad_add makes a new value; tensor_add_inplace writes into the old one.
Added(sw, n, buffer) ==
    LET sum == sw.heap[sw.adjoint[n]] + sw.heap[buffer] IN
    IF backend = "interp"
    THEN [sw EXCEPT !.heap = Append(@, sum), !.adjoint[n] = Len(sw.heap) + 1]
    ELSE [sw EXCEPT !.heap[sw.adjoint[n]] = sum,
                    !.shared = @ \/ HeldElsewhere(sw, n)]

\* accumulate, ad_accumulate.
Accumulate(sw, n, buffer) ==
    IF sw.adjoint[n] = None THEN [sw EXCEPT !.adjoint[n] = buffer] ELSE Added(sw, n, buffer)

\* A contribution of the given value, made into a tensor and accumulated.
Contribute(sw, n, value) == Accumulate(WithNew(sw, value), n, Len(sw.heap) + 1)

\* The adjoint itself as a contribution: the interpreter clones it.
PassOn(sw, n, g) ==
    IF backend = "interp" THEN Contribute(sw, n, sw.heap[g]) ELSE Accumulate(sw, n, g)

\* Slip: the product rule with its operands swapped.
ProductSwapped(sw, node, g) ==
    LET left == Contribute(sw, node.a, tape[node.a].fwd * sw.heap[g]) IN
    Contribute(left, node.b, tape[node.b].fwd * left.heap[g])

\* The left contribution is accumulated before the right one is computed.
Product(sw, node, g) ==
    LET left == Contribute(sw, node.a, tape[node.b].fwd * sw.heap[g]) IN
    Contribute(left, node.b, tape[node.a].fwd * left.heap[g])

Propagated(sw, node, g) ==
    CASE node.op = "leaf" -> sw
      [] node.op = "add" -> PassOn(PassOn(sw, node.a, g), node.b, g)
      [] node.op = "sub" -> LET left == PassOn(sw, node.a, g) IN Contribute(left, node.b, -left.heap[g])
      [] node.op = "mul" -> Product(sw, node, g)

\* One node, from the last recorded to the first; a node no gradient has
\* reached is passed over.
Visit ==
    /\ next > 0
    /\ LET sw == [adjoint |-> adjoint, heap |-> heap, shared |-> shared]
           after == IF adjoint[next] = None THEN sw ELSE Propagated(sw, tape[next], adjoint[next])
       IN /\ adjoint' = after.adjoint
          /\ heap' = after.heap
          /\ shared' = after.shared
    /\ next' = next - 1
    /\ UNCHANGED <<backend, tape, loss>>

Next ==
    \/ \E op \in Ops, a, b \in DOMAIN tape : Record(op, a, b)
    \/ \E n \in DOMAIN tape : Loss(n)
    \/ Visit

Spec == Init /\ [][Next]_vars

\* A parameter the loss does not reach is published as zeros.
Published(p) == IF adjoint[p] = None THEN 0 ELSE heap[adjoint[p]]

-------------------------------------------------------------------------------
(* Properties.                                                              *)

\* d node / d operand n, a node that uses n twice counting twice.
Partial(node, n) ==
    LET fwd(i) == tape[i].fwd
        left == CASE node.op = "mul" -> fwd(node.b) [] node.op = "leaf" -> 0 [] OTHER -> 1
        right == CASE node.op = "mul" -> fwd(node.a) [] node.op = "leaf" -> 0
                   [] node.op = "add" -> 1 [] node.op = "sub" -> -1
    IN (IF node.a = n THEN left ELSE 0) + (IF node.b = n THEN right ELSE 0)

\* The chain rule, over every node that uses n.
Derivative ==
    LET d[n \in DOMAIN tape] ==
            (IF n = loss THEN 1 ELSE 0)
            + MapThenSumSet(LAMBDA j : d[j] * Partial(tape[j], n), (n + 1)..Len(tape))
    IN d

Swept == loss # 0 /\ next = 0

\* The gradient published for every `!` parameter is the derivative of the loss,
\* however often and in whatever order the body uses it.
GradientsExact == Swept => \A p \in Params : Published(p) = Derivative[p]

\* The interpreter, the reference, is exact.
InterpExact == backend = "interp" => GradientsExact

\* Where the interpreter's sweep stands, a node it has yet to visit has received
\* exactly the contributions of the nodes visited: a node is read only when
\* complete.
PartialSumsExact ==
    loss # 0 /\ backend = "interp" => \A n \in 1..next :
        Published(n) = (IF n = loss THEN 1 ELSE 0)
            + MapThenSumSet(LAMBDA j : Derivative[j] * Partial(tape[j], n), (next + 1)..Len(tape))

\* The JIT agrees as long as no contribution is added into memory that is also
\* another node's adjoint.
JitExactUnlessShared == backend = "jit" => shared \/ GradientsExact
===============================================================================
