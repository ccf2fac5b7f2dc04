---------------------------- MODULE AdTape_proofs ----------------------------
(***************************************************************************)
(* Theorems about AdTape, for every tape a body can record, on values and  *)
(* on buffers, and for any forward values: the interpreter's gradients are *)
(* the derivatives of the loss; a node is read only when complete; and the *)
(* JIT agrees as long as nothing is added into memory two nodes hold.      *)
(*                                                                         *)
(* One invariant serves both backends (SumsInv): until something is added  *)
(* into shared memory, a node whose adjoint is still to be used has        *)
(* received the contributions of exactly the nodes visited.                *)
(***************************************************************************)
EXTENDS AdTape, StacksAndSums

Nodes == [op : {"leaf", "add", "sub", "mul"}, a : Nat, b : Nat, fwd : Int]

\* The types, and the tape in the order it was recorded: operands come before.
TapeInv ==
    /\ backend \in Backends
    /\ tape \in Seq(Nodes)
    /\ Len(tape) >= Len(Leaves)
    /\ \A j \in 1..Len(tape) : tape[j].op # "leaf" => tape[j].a \in 1..(j - 1) /\ tape[j].b \in 1..(j - 1)

SweepInv ==
    /\ loss \in 0..Len(tape)
    /\ next \in 0..Len(tape)
    /\ shared \in BOOLEAN
    /\ heap \in Seq(Int)
    /\ loss # 0 => adjoint \in [1..Len(tape) -> 0..Len(heap)]
    /\ loss = 0 => next = 0 /\ shared = FALSE
    /\ backend = "interp" => shared = FALSE

\* The nodes whose adjoint will be read: by the sweep, or published.
Awaited == {n \in 1..Len(tape) : n <= next \/ n \in Params}

Seed(n) == IF n = loss THEN 1 ELSE 0

\* What n has received from the nodes visited.
Received(n) ==
    Seed(n) + MapThenSumSet(LAMBDA j : Derivative[j] * Partial(tape[j], n), (next + 1)..Len(tape))

SumsInv == loss # 0 /\ ~shared => \A n \in Awaited : Published(n) = Received(n)

AdInv == TapeInv /\ SweepInv /\ SumsInv

-------------------------------------------------------------------------------
(* The chain rule as a sum.                                                 *)

\* Partial on a tape t.
PartialOf(t, node, n) ==
    LET left == CASE node.op = "mul" -> t[node.b].fwd [] node.op = "leaf" -> 0 [] OTHER -> 1
        right == CASE node.op = "mul" -> t[node.a].fwd [] node.op = "leaf" -> 0
                   [] node.op = "add" -> 1 [] node.op = "sub" -> -1
    IN (IF node.a = n THEN left ELSE 0) + (IF node.b = n THEN right ELSE 0)

\* What the nodes S hand to n when their derivatives are d.
Handed(t, d, n, S) == MapThenSumSet(LAMBDA j : d[j] * PartialOf(t, t[j], n), S)

Chain(t, l) ==
    CHOOSE d : d = [n \in DOMAIN t |-> (IF n = l THEN 1 ELSE 0) + Handed(t, d, n, (n + 1)..Len(t))]

LEMMA PartialIs ==
    ASSUME NEW node, NEW n
    PROVE  Partial(node, n) = PartialOf(tape, node, n)
BY DEF Partial, PartialOf

LEMMA DerivativeIs == Derivative = Chain(tape, loss)
BY DEF Derivative, Chain, Handed, Partial, PartialOf

LEMMA ReceivedIs ==
    ASSUME NEW n
    PROVE  Received(n) = Seed(n) + Handed(tape, Chain(tape, loss), n, (next + 1)..Len(tape))
BY DEF Derivative, Chain, Received, Handed, Partial, PartialOf

LEMMA ReceivedBefore ==
    \A n : Received(n) = Seed(n) + Handed(tape, Chain(tape, loss), n, (next + 1)..Len(tape))
BY ReceivedIs

LEMMA ReceivedAfter ==
    (\A n : Received(n) = Seed(n) + Handed(tape, Chain(tape, loss), n, (next + 1)..Len(tape)))'
BY ReceivedBefore, PTL

\* The addends, as a function on the nodes.
Shares(t, d, n) == [j \in 1..Len(t) |-> d[j] * PartialOf(t, t[j], n)]

Tapes == {t \in Seq(Nodes) : \A j \in 1..Len(t) :
              t[j].op # "leaf" => t[j].a \in 1..(j - 1) /\ t[j].b \in 1..(j - 1)}

\* A node hands something to its operands only, and these come before it.
LEMMA PartialType ==
    ASSUME NEW t \in Tapes, NEW j \in 1..Len(t), NEW n
    PROVE  /\ PartialOf(t, t[j], n) \in Int
           /\ t[j].op = "leaf" => PartialOf(t, t[j], n) = 0
           /\ n \notin 1..(j - 1) => PartialOf(t, t[j], n) = 0
<1>1. t \in Seq(Nodes) /\ t[j] \in Nodes /\ Len(t) \in Nat
  BY ElementOfSeq DEF Tapes
<1>2. CASE t[j].op = "leaf"
  BY <1>1, <1>2 DEF PartialOf, Nodes
<1>3. CASE t[j].op # "leaf"
  <2>1. t[j].a \in 1..(j - 1) /\ t[j].b \in 1..(j - 1)
    BY <1>3 DEF Tapes
  <2>2. t[j].a \in 1..Len(t) /\ t[j].b \in 1..Len(t)
    BY <2>1, <1>1
  <2>3. t[t[j].a].fwd \in Int /\ t[t[j].b].fwd \in Int
    <3>1. \A i \in 1..Len(t) : t[i] \in Nodes
      BY <1>1, ElementOfSeq
    <3>2. t[t[j].a] \in Nodes /\ t[t[j].b] \in Nodes
      BY <3>1, <2>2
    <3> QED BY <3>2 DEF Nodes
  <2>4. t[j].op \in {"add", "sub", "mul"}
    BY <1>1, <1>3 DEF Nodes
  <2> QED BY <2>1, <2>3, <2>4 DEF PartialOf
<1> QED BY <1>2, <1>3

LEMMA ShareType ==
    ASSUME NEW t \in Tapes, NEW d, NEW n, NEW j \in 1..Len(t), d[j] \in Int
    PROVE  /\ Shares(t, d, n)[j] \in Int
           /\ Shares(t, d, n)[j] = d[j] * PartialOf(t, t[j], n)
           /\ n \notin 1..(j - 1) => Shares(t, d, n)[j] = 0
<1> DEFINE p == PartialOf(t, t[j], n)
<1>1. p \in Int /\ (n \notin 1..(j - 1) => p = 0)
  BY PartialType
<1>2. Shares(t, d, n)[j] = d[j] * p /\ d[j] \in Int
  BY DEF Shares
<1> HIDE DEF p
<1>3. d[j] * p \in Int /\ (p = 0 => d[j] * p = 0)
  BY <1>1, <1>2
<1> QED BY <1>1, <1>2, <1>3 DEF p

LEMMA NodesFinite ==
    ASSUME NEW t \in Tapes, NEW S \in SUBSET (1..Len(t))
    PROVE  IsFiniteSet(S)
<1>1. Len(t) \in Nat
  BY DEF Tapes
<1>2. IsFiniteSet(1..Len(t))
  BY <1>1, FS_Interval
<1> QED BY <1>2, FS_Subset

\* What nodes hand to n is the sum of these addends.
LEMMA HandedIs ==
    ASSUME NEW t \in Tapes, NEW d, NEW n, NEW S \in SUBSET (1..Len(t)), \A j \in S : d[j] \in Int
    PROVE  Handed(t, d, n, S) = SumOf(Shares(t, d, n), S)
<1> DEFINE P(s) == CHOOSE x \in s : TRUE
           e == Shares(t, d, n)
           A(it) == it = [s \in SUBSET S |-> IF s = {} THEN 0
                              ELSE d[P(s)] * PartialOf(t, t[P(s)], n) + it[s \ {P(s)}]]
           iter == CHOOSE it : A(it)
<1>1. Handed(t, d, n, S) = iter[S]
  BY DEF Handed, MapThenSumSet, MapThenFoldSet
<1>2. IsFiniteSet(S) /\ \A x \in S : e[x] \in Int /\ e[x] = d[x] * PartialOf(t, t[x], n)
  BY NodesFinite, ShareType
<1>3. \A s \in SUBSET S : s # {} => P(s) \in s
  OBVIOUS
<1>4. ASSUME NEW it
      PROVE  A(it) <=> OneByOne(it, e, S)
  <2> HIDE DEF e
  <2>1. \A s \in SUBSET S : s # {} => e[P(s)] = d[P(s)] * PartialOf(t, t[P(s)], n)
    BY <1>2, <1>3
  <2>2. OneByOne(it, e, S) <=> it = [s \in SUBSET S |-> IF s = {} THEN 0 ELSE e[P(s)] + it[s \ {P(s)}]]
    BY DEF OneByOne
  <2> HIDE DEF P
  <2> QED BY <2>1, <2>2
<1> HIDE DEF A
<1>5. PICK g : Sums(g, e, S)
  BY <1>2, SumsExist
<1> HIDE DEF e
<1>6. A(g)
  BY <1>2, <1>4, <1>5, SumsOneByOne
<1>7. OneByOne(iter, e, S)
  BY <1>4, <1>6
<1> HIDE DEF iter
<1>8. iter[S] = g[S]
  BY <1>2, <1>5, <1>7, OneByOneIsSums
<1>9. SumOf(e, S) = g[S]
  BY <1>2, <1>5, SumIsSums
<1> QED BY <1>1, <1>8, <1>9 DEF e

\* d satisfies the chain rule at the nodes above k.
ChainAbove(t, l, d, k) ==
    /\ d \in [1..Len(t) -> Int]
    /\ \A n \in (k + 1)..Len(t) :
           d[n] = (IF n = l THEN 1 ELSE 0) + SumOf(Shares(t, d, n), (n + 1)..Len(t))

\* From the nodes above k on to k, whose derivative depends on theirs only.
LEMMA ChainExtends ==
    ASSUME NEW t \in Tapes, NEW l, NEW k \in 1..Len(t), NEW d, ChainAbove(t, l, d, k)
    PROVE  \E c : ChainAbove(t, l, c, k - 1)
<1> DEFINE c == [d EXCEPT ![k] = (IF k = l THEN 1 ELSE 0) + SumOf(Shares(t, d, k), (k + 1)..Len(t))]
<1>1. Len(t) \in Nat /\ k \in Nat
  BY DEF Tapes
<1>2. \A n \in 1..Len(t) : (n + 1)..Len(t) \in SUBSET (1..Len(t))
  BY <1>1
<1>3. \A n, j \in 1..Len(t) : Shares(t, d, n)[j] \in Int
  BY ShareType DEF ChainAbove
<1>4. \A n \in 1..Len(t) : SumOf(Shares(t, d, n), (n + 1)..Len(t)) \in Int
  BY <1>2, <1>3, NodesFinite, SumType
<1>5. c \in [1..Len(t) -> Int] /\ \A n \in 1..Len(t) : n # k => c[n] = d[n]
  <2>1. SumOf(Shares(t, d, k), (k + 1)..Len(t)) \in Int
    BY <1>4
  <2> QED BY <2>1 DEF ChainAbove
<1>6. c[k] = (IF k = l THEN 1 ELSE 0) + SumOf(Shares(t, d, k), (k + 1)..Len(t))
  BY DEF ChainAbove
<1> HIDE DEF c
<1>7. ASSUME NEW n \in k..Len(t)
      PROVE  SumOf(Shares(t, c, n), (n + 1)..Len(t)) = SumOf(Shares(t, d, n), (n + 1)..Len(t))
  <2>1. n \in 1..Len(t) /\ \A j \in (n + 1)..Len(t) : j \in 1..Len(t) /\ j # k
    BY <1>1
  <2>2. \A j \in (n + 1)..Len(t) : Shares(t, c, n)[j] = Shares(t, d, n)[j]
    BY <1>5, <2>1 DEF Shares
  <2>3. \A j \in (n + 1)..Len(t) : Shares(t, d, n)[j] \in Int
    BY <2>1, <1>3
  <2>4. IsFiniteSet((n + 1)..Len(t))
    BY <1>2, <2>1, NodesFinite
  <2> QED BY <2>2, <2>3, <2>4, SumSame
<1>8. ASSUME NEW n \in ((k - 1) + 1)..Len(t)
      PROVE  c[n] = (IF n = l THEN 1 ELSE 0) + SumOf(Shares(t, c, n), (n + 1)..Len(t))
  <2>1. n \in k..Len(t) /\ n \in 1..Len(t)
    BY <1>1
  <2>2. CASE n = k
    BY <2>1, <2>2, <1>6, <1>7
  <2>3. CASE n # k
    <3>1. n \in (k + 1)..Len(t)
      BY <2>1, <2>3, <1>1
    <3> QED BY <2>1, <2>3, <3>1, <1>5, <1>7 DEF ChainAbove
  <2> QED BY <2>2, <2>3
<1> QED BY <1>5, <1>8 DEF ChainAbove

\* A set of nodes has what holds at the last one and goes on to the one before.
LEMMA Downwards ==
    ASSUME NEW N \in Nat, NEW F, N \in F, \A k \in 1..N : k \in F => k - 1 \in F
    PROVE  \A k \in 0..N : k \in F
<1> DEFINE Bad == {k \in 0..N : k \notin F}
<1>1. SUFFICES ASSUME Bad # {}
               PROVE  FALSE
  OBVIOUS
<1>2. IsFiniteSet(Bad) /\ Bad \subseteq Nat
  <2>1. IsFiniteSet(0..N)
    BY FS_Interval
  <2> QED BY <2>1, FS_Subset
<1>3. PICK m \in Bad : \A y \in Bad : m >= y
  <2> HIDE DEF Bad
  <2> QED BY <1>1, <1>2, Largest
<1>4. m \in 0..N /\ m # N /\ m + 1 \in 1..N /\ m + 1 \in 0..N /\ m = (m + 1) - 1
  OBVIOUS
<1>5. m + 1 \in F
  BY <1>3, <1>4
<1> QED BY <1>3, <1>4, <1>5

LEMMA ChainExists ==
    ASSUME NEW t \in Tapes, NEW l
    PROVE  \E d : ChainAbove(t, l, d, 0)
<1> DEFINE F == {k \in 0..Len(t) : \E d : ChainAbove(t, l, d, k)}
<1>1. Len(t) \in Nat
  BY DEF Tapes
<1>2. Len(t) \in F
  <2> DEFINE d == [n \in 1..Len(t) |-> 0]
  <2>1. ChainAbove(t, l, d, Len(t))
    BY <1>1 DEF ChainAbove
  <2> QED BY <1>1, <2>1
<1>3. ASSUME NEW k \in 1..Len(t), k \in F
      PROVE  k - 1 \in F
  BY <1>1, <1>3, ChainExtends
<1> HIDE DEF F
<1>4. 0 \in F
  BY <1>1, <1>2, <1>3, Downwards
<1> QED BY <1>4 DEF F

\* The derivative is the function that the chain rule says it is.
LEMMA ChainRule ==
    ASSUME NEW t \in Tapes, NEW l
    PROVE  /\ Chain(t, l) \in [1..Len(t) -> Int]
           /\ \A n \in 1..Len(t) :
                  Chain(t, l)[n] = (IF n = l THEN 1 ELSE 0)
                                   + SumOf(Shares(t, Chain(t, l), n), (n + 1)..Len(t))
<1> DEFINE D == 1..Len(t)
           Above(n) == (n + 1)..Len(t)
           seed(n) == IF n = l THEN 1 ELSE 0
           Rule(d) == d = [n \in DOMAIN t |-> seed(n) + Handed(t, d, n, (n + 1)..Len(t))]
           c == Chain(t, l)
<1>1. Len(t) \in Nat /\ DOMAIN t = D
  BY DEF Tapes
<1>2. \A n \in D : Above(n) \in SUBSET D /\ seed(n) \in Int
  BY <1>1
<1>3. PICK d : ChainAbove(t, l, d, 0)
  BY ChainExists
<1>4. d \in [D -> Int]
  BY <1>3 DEF ChainAbove
<1>5. \A n \in D : d[n] = seed(n) + Handed(t, d, n, Above(n))
  BY <1>1, <1>2, <1>3, <1>4, HandedIs DEF ChainAbove
<1>6. Rule(d)
  BY <1>1, <1>4, <1>5
<1>7. c = CHOOSE x : Rule(x)
  BY DEF Chain
<1> HIDE DEF Rule, c
<1>8. Rule(c)
  BY <1>6, <1>7
<1>9. c = [n \in D |-> seed(n) + Handed(t, c, n, Above(n))]
  BY <1>1, <1>8 DEF Rule
<1>10. \A n \in D : c[n] = seed(n) + Handed(t, c, n, Above(n))
  BY <1>9
<1> DEFINE F == {k \in 0..Len(t) : \A n \in Above(k) : c[n] \in Int}
<1>11. ASSUME NEW n \in D, \A j \in Above(n) : c[j] \in Int
       PROVE  /\ c[n] = seed(n) + SumOf(Shares(t, c, n), Above(n))
              /\ c[n] \in Int
  <2>1. Above(n) \in SUBSET D /\ seed(n) \in Int
    BY <1>2
  <2> HIDE DEF seed, Above
  <2>2. Handed(t, c, n, Above(n)) = SumOf(Shares(t, c, n), Above(n))
    BY <2>1, <1>11, HandedIs
  <2>3. \A j \in Above(n) : Shares(t, c, n)[j] \in Int
    BY <2>1, <1>11, ShareType
  <2>4. SumOf(Shares(t, c, n), Above(n)) \in Int
    BY <2>1, <2>3, NodesFinite, SumType
  <2> QED BY <2>1, <2>2, <2>4, <1>10
<1>12. Len(t) \in F
  BY <1>1
<1>13. ASSUME NEW k \in 1..Len(t), k \in F
       PROVE  k - 1 \in F
  <2>1. c[k] \in Int
    BY <1>11, <1>13
  <2>2. \A n \in Above(k - 1) : n = k \/ n \in Above(k)
    BY <1>1
  <2> QED BY <1>1, <1>13, <2>1, <2>2
<1> HIDE DEF F
<1>14. 0 \in F
  BY <1>1, <1>12, <1>13, Downwards
<1>15. \A n \in D : c[n] \in Int
  BY <1>1, <1>14 DEF F
<1>16. \A n \in D : c[n] = seed(n) + SumOf(Shares(t, c, n), Above(n))
  BY <1>2, <1>11, <1>15
<1>17. c \in [D -> Int]
  BY <1>9, <1>15
<1> QED BY <1>16, <1>17 DEF c

-------------------------------------------------------------------------------
(* One contribution.                                                        *)

SweepType(sw) ==
    /\ sw \in [adjoint : [1..Len(tape) -> Nat], heap : Seq(Int), shared : BOOLEAN]
    /\ \A n \in 1..Len(tape) : sw.adjoint[n] <= Len(sw.heap)

Value(sw, n) == IF sw.adjoint[n] = None THEN 0 ELSE sw.heap[sw.adjoint[n]]

\* From one sweep to the other, n has received v; nobody else anything, unless it
\* went into shared memory.
Adds(sw, after, n, v) ==
    /\ SweepType(after)
    /\ Len(after.heap) >= Len(sw.heap)
    /\ \A m \in 1..Len(tape) \ {n} : after.adjoint[m] = sw.adjoint[m]
    /\ backend = "interp" => after.shared = sw.shared
    /\ ~after.shared => ~sw.shared /\ \A m \in Awaited : Value(after, m) = Value(sw, m) + (IF m = n THEN v ELSE 0)

\* An adjoint is a buffer there is.
LEMMA Buffers ==
    ASSUME NEW sw, SweepType(sw)
    PROVE  /\ sw.heap \in Seq(Int) /\ Len(sw.heap) \in Nat
           /\ \A m \in 1..Len(tape) : sw.adjoint[m] = None \/ sw.adjoint[m] \in 1..Len(sw.heap)
<1>1. sw.heap \in Seq(Int) /\ sw.adjoint \in [1..Len(tape) -> Nat]
  BY DEF SweepType
<1>2. Len(sw.heap) \in Nat
  BY <1>1
<1>3. ASSUME NEW m \in 1..Len(tape), sw.adjoint[m] # None
      PROVE  sw.adjoint[m] \in 1..Len(sw.heap)
  <2>1. sw.adjoint[m] \in Nat
    BY <1>1
  <2>2. sw.adjoint[m] <= Len(sw.heap)
    BY DEF SweepType
  <2> QED BY <2>1, <2>2, <1>2, <1>3 DEF None
<1> QED BY <1>1, <1>2, <1>3

LEMMA ValueType ==
    ASSUME NEW sw, SweepType(sw), NEW n \in 1..Len(tape)
    PROVE  Value(sw, n) \in Int
BY Buffers, ElementOfSeq DEF Value

\* The first contribution is the adjoint; into a buffer of its own if the backend
\* makes one.
LEMMA FirstAdds ==
    ASSUME TapeInv, NEW sw, SweepType(sw), NEW n \in 1..Len(tape), sw.adjoint[n] = None,
           NEW b \in 1..Len(sw.heap)
    PROVE  Adds(sw, [sw EXCEPT !.adjoint[n] = b], n, sw.heap[b])
<1> DEFINE after == [sw EXCEPT !.adjoint[n] = b]
<1>1. /\ after.heap = sw.heap /\ after.shared = sw.shared
      /\ after.adjoint = [sw.adjoint EXCEPT ![n] = b]
  BY DEF SweepType
<1>2. b \in Nat /\ b # None /\ b <= Len(sw.heap) /\ sw.heap[b] \in Int
  BY ElementOfSeq DEF SweepType, None
<1>3. after \in [adjoint : [1..Len(tape) -> Nat], heap : Seq(Int), shared : BOOLEAN]
  BY <1>2 DEF SweepType
<1> HIDE DEF after
<1>4. after.adjoint[n] = b /\ \A m \in 1..Len(tape) \ {n} : after.adjoint[m] = sw.adjoint[m]
  BY <1>1 DEF SweepType
<1>5. SweepType(after)
  BY <1>1, <1>2, <1>3, <1>4 DEF SweepType
<1>6. Len(after.heap) >= Len(sw.heap)
  BY <1>1 DEF SweepType
<1>7. \A m \in Awaited : Value(after, m) = Value(sw, m) + (IF m = n THEN sw.heap[b] ELSE 0)
  <2>1. \A m \in Awaited : m \in 1..Len(tape) /\ Value(sw, m) \in Int
    BY ValueType DEF Awaited
  <2>2. Value(after, n) = sw.heap[b] /\ Value(sw, n) = 0
    BY <1>1, <1>2, <1>4 DEF Value
  <2>3. \A m \in 1..Len(tape) \ {n} : Value(after, m) = Value(sw, m)
    BY <1>1, <1>4 DEF Value
  <2> QED BY <2>1, <2>2, <2>3, <1>2
<1> QED BY <1>1, <1>4, <1>5, <1>6, <1>7 DEF Adds, after

\* A later one is added by the interpreter into a new value.
LEMMA InterpAdds ==
    ASSUME TapeInv, backend = "interp", NEW sw, SweepType(sw), NEW n \in 1..Len(tape),
           sw.adjoint[n] # None, NEW b \in 1..Len(sw.heap)
    PROVE  Adds(sw, Added(sw, n, b), n, sw.heap[b])
<1> DEFINE a == sw.adjoint[n]
           sum == sw.heap[a] + sw.heap[b]
           after == [sw EXCEPT !.heap = Append(@, sum), !.adjoint[n] = Len(sw.heap) + 1]
<1>1. Added(sw, n, b) = after
  BY DEF Added
<1>2. /\ a \in 1..Len(sw.heap) /\ sw.heap \in Seq(Int) /\ Len(sw.heap) \in Nat
      /\ \A m \in 1..Len(tape) : sw.adjoint[m] = None \/ sw.adjoint[m] \in 1..Len(sw.heap)
  BY Buffers
<1> HIDE DEF a
<1>3. sw.heap[a] \in Int /\ sw.heap[b] \in Int /\ sum \in Int
  <2>1. \A i \in 1..Len(sw.heap) : sw.heap[i] \in Int
    BY <1>2, ElementOfSeq
  <2> QED BY <2>1, <1>2
<1>4. /\ after.heap = Append(sw.heap, sum) /\ after.shared = sw.shared
      /\ after.adjoint = [sw.adjoint EXCEPT ![n] = Len(sw.heap) + 1]
  BY DEF SweepType
<1> HIDE DEF sum
<1>5. after \in [adjoint : [1..Len(tape) -> Nat], heap : Seq(Int), shared : BOOLEAN]
  <2>1. Append(sw.heap, sum) \in Seq(Int)
    BY <1>2, <1>3, StackPush
  <2>2. [sw.adjoint EXCEPT ![n] = Len(sw.heap) + 1] \in [1..Len(tape) -> Nat]
    BY <1>2 DEF SweepType
  <2> QED BY <2>1, <2>2 DEF SweepType
<1> HIDE DEF after
<1>6. /\ Len(after.heap) = Len(sw.heap) + 1
      /\ \A i \in 1..Len(sw.heap) : after.heap[i] = sw.heap[i]
      /\ after.heap[Len(sw.heap) + 1] = sum
  BY <1>2, <1>3, <1>4, StackPush
<1>7. /\ after.adjoint[n] = Len(sw.heap) + 1
      /\ \A m \in 1..Len(tape) \ {n} : after.adjoint[m] = sw.adjoint[m]
  BY <1>4 DEF SweepType
<1>8. SweepType(after)
  <2>1. \A m \in 1..Len(tape) : sw.adjoint[m] <= Len(sw.heap) /\ sw.adjoint[m] \in Nat
    BY DEF SweepType
  <2>2. ASSUME NEW m \in 1..Len(tape)
        PROVE  after.adjoint[m] <= Len(after.heap)
    <3>1. CASE m = n
      BY <3>1, <1>2, <1>6, <1>7
    <3>2. CASE m # n
      <4>1. after.adjoint[m] = sw.adjoint[m]
        BY <3>2, <1>7
      <4> QED BY <4>1, <2>1, <1>2, <1>6
    <3> QED BY <3>1, <3>2
  <2> QED BY <2>2, <1>5 DEF SweepType
<1>9. \A m \in Awaited : Value(after, m) = Value(sw, m) + (IF m = n THEN sw.heap[b] ELSE 0)
  <2>1. \A m \in Awaited : m \in 1..Len(tape) /\ Value(sw, m) \in Int
    BY ValueType DEF Awaited
  <2>2. Value(after, n) = sum /\ Value(sw, n) = sw.heap[a]
    BY <1>2, <1>6, <1>7 DEF Value, None, a
  <2>4. \A m \in 1..Len(tape) \ {n} : Value(after, m) = Value(sw, m)
    BY <1>2, <1>6, <1>7 DEF Value
  <2> QED BY <2>1, <2>2, <2>4, <1>3 DEF sum
<1>10. Len(after.heap) >= Len(sw.heap)
  BY <1>2, <1>6
<1> QED BY <1>1, <1>4, <1>7, <1>8, <1>9, <1>10 DEF Adds

\* And by the JIT into the old memory.
LEMMA JitAdds ==
    ASSUME TapeInv, backend # "interp", NEW sw, SweepType(sw), NEW n \in 1..Len(tape),
           sw.adjoint[n] # None, NEW b \in 1..Len(sw.heap), next \in Nat
    PROVE  Adds(sw, Added(sw, n, b), n, sw.heap[b])
<1> DEFINE a == sw.adjoint[n]
           sum == sw.heap[a] + sw.heap[b]
           after == [sw EXCEPT !.heap[a] = sum, !.shared = @ \/ HeldElsewhere(sw, n)]
<1>1. Added(sw, n, b) = after
  BY DEF Added
<1>2. /\ a \in 1..Len(sw.heap) /\ sw.heap \in Seq(Int) /\ Len(sw.heap) \in Nat
      /\ \A m \in 1..Len(tape) : sw.adjoint[m] = None \/ sw.adjoint[m] \in 1..Len(sw.heap)
  BY Buffers
<1> HIDE DEF a
<1>3. sw.heap[a] \in Int /\ sw.heap[b] \in Int /\ sum \in Int
  <2>1. \A i \in 1..Len(sw.heap) : sw.heap[i] \in Int
    BY <1>2, ElementOfSeq
  <2> QED BY <2>1, <1>2
<1>4. /\ after.heap = [sw.heap EXCEPT ![a] = sum]
      /\ after.adjoint = sw.adjoint
      /\ after.shared = (sw.shared \/ HeldElsewhere(sw, n))
  BY DEF SweepType
<1>5. HeldElsewhere(sw, n) \in BOOLEAN
  BY DEF HeldElsewhere
<1>6. [sw.heap EXCEPT ![a] = sum] \in Seq(Int)
  BY <1>2, <1>3, ExceptSeq
<1>7. after \in [adjoint : [1..Len(tape) -> Nat], heap : Seq(Int), shared : BOOLEAN]
  BY <1>5, <1>6 DEF SweepType
<1> HIDE DEF after, sum
<1>8. /\ Len(after.heap) = Len(sw.heap)
      /\ \A i \in 1..Len(sw.heap) : after.heap[i] = IF i = a THEN sum ELSE sw.heap[i]
  BY <1>2, <1>3, <1>4, ExceptSeq
<1>9. SweepType(after)
  BY <1>4, <1>7, <1>8 DEF SweepType
<1>10. ASSUME ~after.shared
       PROVE  ~sw.shared /\ \A m \in Awaited : Value(after, m) = Value(sw, m) + (IF m = n THEN sw.heap[b] ELSE 0)
  <2>1. ~sw.shared /\ ~HeldElsewhere(sw, n)
    BY <1>4, <1>10
  <2>2. \A m \in Awaited \ {n} : sw.adjoint[m] # a
    BY <2>1 DEF HeldElsewhere, Awaited, TapeInv, a
  <2>3. \A m \in Awaited : m \in 1..Len(tape) /\ Value(sw, m) \in Int
    BY ValueType DEF Awaited
  <2>4. Value(after, n) = sum /\ Value(sw, n) = sw.heap[a]
    BY <1>2, <1>4, <1>8 DEF Value, None, a
  <2>6. \A m \in Awaited \ {n} : Value(after, m) = Value(sw, m)
    BY <2>2, <2>3, <1>2, <1>4, <1>8 DEF Value
  <2> QED BY <2>1, <2>3, <2>4, <2>6, <1>3 DEF sum
<1>11. Len(after.heap) >= Len(sw.heap)
  BY <1>2, <1>8
<1> QED BY <1>1, <1>4, <1>9, <1>10, <1>11 DEF Adds

LEMMA AccumulateAdds ==
    ASSUME TapeInv, NEW sw, SweepType(sw), NEW n \in 1..Len(tape), NEW b \in 1..Len(sw.heap),
           next \in Nat
    PROVE  Adds(sw, Accumulate(sw, n, b), n, sw.heap[b])
<1>1. CASE sw.adjoint[n] = None
  BY <1>1, FirstAdds DEF Accumulate
<1>2. CASE sw.adjoint[n] # None
  <2>1. Accumulate(sw, n, b) = Added(sw, n, b)
    BY <1>2 DEF Accumulate
  <2>2. Adds(sw, Added(sw, n, b), n, sw.heap[b])
    <3>1. CASE backend = "interp"
      BY <3>1, <1>2, InterpAdds
    <3>2. CASE backend # "interp"
      BY <3>2, <1>2, JitAdds
    <3> QED BY <3>1, <3>2
  <2> QED BY <2>1, <2>2
<1> QED BY <1>1, <1>2

\* A contribution in a tensor of its own.
LEMMA ContributeAdds ==
    ASSUME TapeInv, NEW sw, SweepType(sw), NEW n \in 1..Len(tape), NEW v \in Int, next \in Nat
    PROVE  Adds(sw, Contribute(sw, n, v), n, v)
<1> DEFINE new == WithNew(sw, v)
           b == Len(sw.heap) + 1
           after == Accumulate(new, n, b)
<1>1. Contribute(sw, n, v) = after
  BY DEF Contribute
<1>2. sw.heap \in Seq(Int) /\ Len(sw.heap) \in Nat /\ sw.shared \in BOOLEAN
  BY DEF SweepType
<1>3. /\ new.heap = Append(sw.heap, v) /\ new.adjoint = sw.adjoint /\ new.shared = sw.shared
      /\ new \in [adjoint : [1..Len(tape) -> Nat], heap : Seq(Int), shared : BOOLEAN]
  <2>1. Append(sw.heap, v) \in Seq(Int)
    BY <1>2, StackPush
  <2> QED BY <2>1 DEF WithNew, SweepType
<1> HIDE DEF new
<1>4. /\ Len(new.heap) = b /\ b \in 1..Len(new.heap) /\ new.heap[b] = v
      /\ \A i \in 1..Len(sw.heap) : new.heap[i] = sw.heap[i]
  BY <1>2, <1>3, StackPush
<1>5. \A m \in 1..Len(tape) : sw.adjoint[m] \in Nat /\ sw.adjoint[m] <= Len(sw.heap)
  BY DEF SweepType
<1>6. SweepType(new)
  BY <1>2, <1>3, <1>4, <1>5 DEF SweepType
<1>7. \A m \in 1..Len(tape) : Value(new, m) = Value(sw, m)
  <2>1. \A m \in 1..Len(tape) : sw.adjoint[m] = None \/ sw.adjoint[m] \in 1..Len(sw.heap)
    BY <1>2, <1>5 DEF None
  <2> QED BY <2>1, <1>3, <1>4 DEF Value
<1> HIDE DEF b
<1>8. Adds(new, after, n, v)
  BY <1>4, <1>6, AccumulateAdds
<1> HIDE DEF after
<1>9. \A m \in Awaited : m \in 1..Len(tape)
  BY DEF Awaited
<1>10. Len(after.heap) \in Nat /\ Len(after.heap) >= Len(sw.heap)
  BY <1>2, <1>4, <1>8 DEF Adds, SweepType, b
<1>11. Adds(sw, after, n, v)
  BY <1>3, <1>7, <1>8, <1>9, <1>10 DEF Adds
<1> QED BY <1>1, <1>11

\* The adjoint passed on as it is.
LEMMA PassOnAdds ==
    ASSUME TapeInv, NEW sw, SweepType(sw), NEW n \in 1..Len(tape), NEW g \in 1..Len(sw.heap),
           next \in Nat
    PROVE  Adds(sw, PassOn(sw, n, g), n, sw.heap[g])
<1>1. sw.heap[g] \in Int
  BY ElementOfSeq DEF SweepType
<1>2. CASE backend = "interp"
  BY <1>1, <1>2, ContributeAdds DEF PassOn
<1>3. CASE backend # "interp"
  BY <1>3, AccumulateAdds DEF PassOn
<1> QED BY <1>2, <1>3

-------------------------------------------------------------------------------
(* One node.                                                                *)

\* Between the two contributions of the node k, the adjoint of k stands.
LEMMA AdjointStands ==
    ASSUME NEW sw, NEW left, NEW a, NEW x, NEW k \in Awaited, SweepType(sw),
           Adds(sw, left, a, x), a # k, sw.adjoint[k] # None
    PROVE  /\ left.adjoint[k] = sw.adjoint[k]
           /\ sw.adjoint[k] \in 1..Len(sw.heap)
           /\ sw.adjoint[k] \in 1..Len(left.heap)
           /\ ~left.shared => left.heap[sw.adjoint[k]] = sw.heap[sw.adjoint[k]]
<1>1. k \in 1..Len(tape)
  BY DEF Awaited
<1>2. left.adjoint[k] = sw.adjoint[k] /\ SweepType(left)
  BY <1>1 DEF Adds
<1>3. sw.adjoint[k] \in 1..Len(sw.heap) /\ left.adjoint[k] \in 1..Len(left.heap)
  BY <1>1, <1>2 DEF SweepType, None
<1>4. ASSUME ~left.shared
      PROVE  left.heap[sw.adjoint[k]] = sw.heap[sw.adjoint[k]]
  <2>1. Value(left, k) = Value(sw, k) + 0
    BY <1>4 DEF Adds
  <2>2. Value(sw, k) \in Int
    BY <1>1, ValueType
  <2>3. Value(left, k) = left.heap[sw.adjoint[k]] /\ Value(sw, k) = sw.heap[sw.adjoint[k]]
    BY <1>2 DEF Value
  <2> QED BY <2>1, <2>2, <2>3
<1> QED BY <1>2, <1>3, <1>4

\* a has received x and b has received y.
AddsBoth(sw, after, a, x, b, y) ==
    /\ SweepType(after)
    /\ backend = "interp" => after.shared = sw.shared
    /\ ~after.shared => ~sw.shared /\ \A m \in Awaited :
           Value(after, m) = Value(sw, m) + ((IF m = a THEN x ELSE 0) + (IF m = b THEN y ELSE 0))

\* The second contribution may be made from what the first left, which is the adjoint
\* still unless the first went into shared memory.
LEMMA TwoAdds ==
    ASSUME NEW sw, SweepType(sw), NEW left, NEW after, NEW a, NEW b, NEW x \in Int, NEW y \in Int, NEW z \in Int,
           Adds(sw, left, a, x), Adds(left, after, b, z), ~left.shared => z = y
    PROVE  AddsBoth(sw, after, a, x, b, y)
<1>1. SweepType(after) /\ (backend = "interp" => after.shared = sw.shared)
  BY DEF Adds
<1>2. ASSUME ~after.shared
      PROVE  ~sw.shared /\ \A m \in Awaited :
                  Value(after, m) = Value(sw, m) + ((IF m = a THEN x ELSE 0) + (IF m = b THEN y ELSE 0))
  <2>1. ~left.shared /\ \A m \in Awaited : Value(after, m) = Value(left, m) + (IF m = b THEN z ELSE 0)
    BY <1>2 DEF Adds
  <2>2. ~sw.shared /\ \A m \in Awaited : Value(left, m) = Value(sw, m) + (IF m = a THEN x ELSE 0)
    BY <2>1 DEF Adds
  <2>3. \A m \in Awaited : Value(sw, m) \in Int
    BY ValueType DEF Awaited
  <2> QED BY <2>1, <2>2, <2>3
<1> QED BY <1>1, <1>2 DEF AddsBoth

LEMMA TimesType ==
    ASSUME NEW a \in Int, NEW b \in Int
    PROVE  a * b \in Int
OBVIOUS

LEMMA Commutes ==
    ASSUME NEW a \in Int, NEW b \in Int
    PROVE  a * b = b * a
OBVIOUS

\* What a node on the tape hands on is its adjoint times the partial derivatives.
LEMMA PropagatedPasses ==
    ASSUME TapeInv, NEW sw, SweepType(sw), next \in 1..Len(tape), sw.adjoint[next] # None
    PROVE  LET after == Propagated(sw, tape[next], sw.adjoint[next])
           IN  /\ SweepType(after)
               /\ backend = "interp" => after.shared = sw.shared
               /\ ~after.shared => ~sw.shared /\ \A m \in Awaited :
                      Value(after, m) = Value(sw, m) + Value(sw, next) * PartialOf(tape, tape[next], m)
<1> DEFINE node == tape[next]
           g == sw.adjoint[next]
           d == sw.heap[g]
           a == node.a
           b == node.b
           after == Propagated(sw, node, g)
           Goal == /\ SweepType(after)
                   /\ backend = "interp" => after.shared = sw.shared
                   /\ ~after.shared => ~sw.shared /\ \A m \in Awaited :
                          Value(after, m) = Value(sw, m) + Value(sw, next) * PartialOf(tape, tape[next], m)
<1> SUFFICES Goal
  OBVIOUS
<1>1. next \in Nat /\ next \in Awaited /\ Len(tape) \in Nat
  BY DEF Awaited, TapeInv
<1>2. node \in Nodes /\ \A i \in 1..Len(tape) : tape[i] \in Nodes
  BY ElementOfSeq DEF TapeInv
<1>3. g \in 1..Len(sw.heap) /\ d \in Int /\ Value(sw, next) = d
  <2>1. g \in 1..Len(sw.heap)
    BY DEF SweepType, None
  <2> QED BY <2>1, ElementOfSeq DEF SweepType, Value
<1>4. \A m \in Awaited : Value(sw, m) \in Int
  BY ValueType DEF Awaited
<1>5. CASE node.op = "leaf"
  <2>1. after = sw
    BY <1>5 DEF Propagated
  <2>2. \A m \in Awaited : PartialOf(tape, tape[next], m) = 0
    BY <1>5 DEF PartialOf
  <2>3. \A m \in Awaited : Value(sw, m) = Value(sw, m) + d * 0
    BY <1>3, <1>4
  <2> HIDE DEF d, g, after
  <2> QED BY <2>1, <2>2, <2>3, <1>3
<1>6. CASE node.op # "leaf"
  <2>1. a \in 1..Len(tape) /\ b \in 1..Len(tape) /\ a # next /\ b # next
    BY <1>1, <1>6 DEF TapeInv
  <2>2. tape[a].fwd \in Int /\ tape[b].fwd \in Int
    <3>1. tape[a] \in Nodes /\ tape[b] \in Nodes
      BY <2>1, <1>2
    <3> QED BY <3>1 DEF Nodes
  <2>3. node.op \in {"add", "sub", "mul"}
    BY <1>2, <1>6 DEF Nodes
  <2> DEFINE left == IF node.op = "mul" THEN Contribute(sw, a, tape[b].fwd * d) ELSE PassOn(sw, a, g)
             x == IF node.op = "mul" THEN tape[b].fwd * d ELSE d
             h == left.heap[g]
             z == CASE node.op = "mul" -> tape[a].fwd * h [] node.op = "add" -> h [] node.op = "sub" -> -h
             y == CASE node.op = "mul" -> tape[a].fwd * d [] node.op = "add" -> d [] node.op = "sub" -> -d
  <2>4. x \in Int /\ y \in Int
    <3>1. tape[a].fwd * d \in Int /\ tape[b].fwd * d \in Int /\ -d \in Int
      <4> HIDE DEF d, a, b
      <4> QED BY <1>3, <2>2, TimesType
    <3> HIDE DEF d, g, node, a, b
    <3> QED BY <1>3, <2>3, <3>1
  <2>5. Adds(sw, left, a, x)
    <3>1. CASE node.op = "mul"
      <4> HIDE DEF a, b, d
      <4>1. Adds(sw, Contribute(sw, a, tape[b].fwd * d), a, tape[b].fwd * d)
        BY <3>1, <1>1, <2>1, <2>4, ContributeAdds
      <4> QED BY <3>1, <4>1
    <3>2. CASE node.op # "mul"
      <4> HIDE DEF a, g
      <4>1. Adds(sw, PassOn(sw, a, g), a, sw.heap[g])
        BY <1>1, <1>3, <2>1, PassOnAdds
      <4> QED BY <3>2, <4>1
    <3> QED BY <3>1, <3>2
  <2>6. /\ SweepType(left) /\ g \in 1..Len(left.heap) /\ (~left.shared => h = d)
        /\ h \in Int
    <3> HIDE DEF left, x, a
    <3>1. SweepType(left)
      BY <2>5 DEF Adds
    <3>2. g \in 1..Len(left.heap) /\ (~left.shared => h = d)
      BY <1>1, <2>1, <2>5, AdjointStands
    <3>3. h \in Int
      BY <3>1, <3>2, ElementOfSeq DEF SweepType
    <3> QED BY <3>1, <3>2, <3>3
  <2>7. z \in Int /\ (~left.shared => z = y)
    <3>1. tape[a].fwd * h \in Int /\ -h \in Int
      <4> HIDE DEF h, a
      <4> QED BY <2>2, <2>6, TimesType
    <3>2. z \in Int
      <4> HIDE DEF h, node, a
      <4> QED BY <2>3, <2>6, <3>1
    <3>3. h = d => z = y
      <4> HIDE DEF h, d, node, a
      <4> QED BY <2>3
    <3> QED BY <2>6, <3>2, <3>3
  <2>8. Adds(left, after, b, z)
    <3>1. CASE node.op = "mul"
      <4>1. after = Contribute(left, b, tape[a].fwd * h)
        BY <3>1 DEF Propagated, Product
      <4> HIDE DEF left, after, b, h, z
      <4>2. z = tape[a].fwd * h
        BY <3>1 DEF z
      <4> QED BY <4>1, <4>2, <1>1, <2>1, <2>6, <2>7, ContributeAdds
    <3>2. CASE node.op = "add"
      <4>1. after = PassOn(left, b, g)
        BY <3>2 DEF Propagated
      <4> HIDE DEF left, after, b, g, z
      <4>2. z = left.heap[g]
        BY <3>2 DEF z
      <4> QED BY <4>1, <4>2, <1>1, <2>1, <2>6, PassOnAdds
    <3>3. CASE node.op = "sub"
      <4>1. after = Contribute(left, b, -h)
        BY <3>3 DEF Propagated
      <4> HIDE DEF left, after, b, h, z
      <4>2. z = -h
        BY <3>3 DEF z
      <4> QED BY <4>1, <4>2, <1>1, <2>1, <2>6, <2>7, ContributeAdds
    <3> QED BY <2>3, <3>1, <3>2, <3>3
  <2>9. ASSUME NEW m \in Awaited
        PROVE  (IF m = a THEN x ELSE 0) + (IF m = b THEN y ELSE 0) = d * PartialOf(tape, node, m)
    <3> DEFINE p == IF node.op = "mul" THEN tape[b].fwd ELSE 1
               q == CASE node.op = "mul" -> tape[a].fwd [] node.op = "add" -> 1 [] node.op = "sub" -> -1
    <3>1. p \in Int /\ q \in Int
      BY <2>2, <2>3
    <3>2. PartialOf(tape, node, m) = (IF a = m THEN p ELSE 0) + (IF b = m THEN q ELSE 0)
      BY <2>3, <1>6 DEF PartialOf
    <3>3. x = d * p /\ y = d * q
      <4>1. CASE node.op = "mul"
        <5>1. x = tape[b].fwd * d /\ p = tape[b].fwd /\ y = tape[a].fwd * d /\ q = tape[a].fwd
          BY <4>1
        <5> HIDE DEF x, y, p, q, d
        <5> QED BY <5>1, <3>1, <1>3, Commutes
      <4>2. CASE node.op = "add"
        <5>1. x = d /\ p = 1 /\ y = d /\ q = 1
          BY <4>2
        <5> HIDE DEF x, y, p, q, d
        <5> QED BY <5>1, <1>3
      <4>3. CASE node.op = "sub"
        <5>1. x = d /\ p = 1 /\ y = -d /\ q = -1
          BY <4>3
        <5> HIDE DEF x, y, p, q, d
        <5> QED BY <5>1, <1>3
      <4> QED BY <2>3, <4>1, <4>2, <4>3
    <3> HIDE DEF p, q, d, x, y, a, b, node
    <3>4. d * ((IF a = m THEN p ELSE 0) + (IF b = m THEN q ELSE 0))
          = (IF a = m THEN d * p ELSE 0) + (IF b = m THEN d * q ELSE 0)
      BY <3>1, <1>3
    <3> QED BY <3>2, <3>3, <3>4
  <2> HIDE DEF left, x, y, z, a, b, d, g, h, node, after
  <2>10. AddsBoth(sw, after, a, x, b, y)
    BY <2>4, <2>5, <2>7, <2>8, TwoAdds
  <2> QED BY <2>9, <2>10, <1>3 DEF AddsBoth, node
<1> QED BY <1>5, <1>6

-------------------------------------------------------------------------------
(* The invariant.                                                           *)

LEMMA TapeIs ==
    ASSUME TapeInv
    PROVE  /\ tape \in Tapes /\ Len(tape) \in Nat /\ DOMAIN tape = 1..Len(tape)
           /\ Params = 1..Len(Leaves) /\ \A p \in Params : p \in 1..Len(tape)
<1>1. Leaves \in Seq(Int)
  BY TapeAssumption
<1>2. DOMAIN Leaves = 1..Len(Leaves) /\ Len(Leaves) \in Nat
  BY <1>1, LenProperties
<1>3. tape \in Tapes /\ Len(tape) \in Nat /\ DOMAIN tape = 1..Len(tape)
  BY DEF TapeInv, Tapes
<1>4. \A p \in 1..Len(Leaves) : p \in 1..Len(tape)
  BY <1>2, <1>3 DEF TapeInv
<1> QED BY <1>2, <1>3, <1>4 DEF Params

\* What a node has received, as a sum.
LEMMA ReceivedSum ==
    ASSUME NEW t \in Tapes, NEW l, NEW n, NEW k \in 0..Len(t)
    PROVE  /\ Handed(t, Chain(t, l), n, (k + 1)..Len(t)) = SumOf(Shares(t, Chain(t, l), n), (k + 1)..Len(t))
           /\ SumOf(Shares(t, Chain(t, l), n), (k + 1)..Len(t)) \in Int
<1>1. Len(t) \in Nat
  BY DEF Tapes
<1>2. (k + 1)..Len(t) \in SUBSET (1..Len(t))
  BY <1>1
<1>3. \A j \in 1..Len(t) : Chain(t, l)[j] \in Int
  BY ChainRule
<1>4. \A j \in 1..Len(t) : Shares(t, Chain(t, l), n)[j] \in Int
  BY <1>3, ShareType
<1>5. IsFiniteSet((k + 1)..Len(t))
  BY <1>2, NodesFinite
<1>6. SumOf(Shares(t, Chain(t, l), n), (k + 1)..Len(t)) \in Int
  BY <1>2, <1>4, <1>5, SumType
<1>7. Handed(t, Chain(t, l), n, (k + 1)..Len(t)) = SumOf(Shares(t, Chain(t, l), n), (k + 1)..Len(t))
  BY <1>2, <1>3, HandedIs
<1> QED BY <1>6, <1>7

\* A node all of whose users were visited has received its derivative.
LEMMA CompleteIsDerivative ==
    ASSUME NEW t \in Tapes, NEW l, NEW n \in 1..Len(t), NEW k \in 0..n
    PROVE  (IF n = l THEN 1 ELSE 0) + Handed(t, Chain(t, l), n, (k + 1)..Len(t)) = Chain(t, l)[n]
<1> DEFINE e == Shares(t, Chain(t, l), n)
           S == (k + 1)..Len(t)
           V == (n + 1)..Len(t)
<1>1. Len(t) \in Nat /\ k \in 0..Len(t)
  BY DEF Tapes
<1>2. S \in SUBSET (1..Len(t)) /\ V \in SUBSET S /\ \A j \in S \ V : n \notin 1..(j - 1)
  BY <1>1
<1>3. \A j \in 1..Len(t) : Chain(t, l)[j] \in Int
  BY ChainRule
<1>4. \A j \in 1..Len(t) : e[j] \in Int /\ (n \notin 1..(j - 1) => e[j] = 0)
  BY <1>3, ShareType
<1>5. Handed(t, Chain(t, l), n, S) = SumOf(e, S)
  BY <1>1, ReceivedSum
<1>6. Chain(t, l)[n] = (IF n = l THEN 1 ELSE 0) + SumOf(e, V)
  BY ChainRule
<1> HIDE DEF e, S, V
<1>7. SumOf(e, S) = SumOf(e, V)
  <2>1. IsFiniteSet(S)
    BY <1>2, NodesFinite
  <2>2. (\A j \in S : e[j] \in Int) /\ (\A j \in S \ V : e[j] = 0)
    BY <1>2, <1>4
  <2> QED BY <1>2, <2>1, <2>2, SumOfSupport
<1> QED BY <1>5, <1>6, <1>7 DEF S

LEMMA InitAdInv == Init => AdInv
<1> SUFFICES ASSUME Init
             PROVE  AdInv
  OBVIOUS
<1>1. Leaves \in Seq(Int) /\ Len(Leaves) \in Nat /\ DOMAIN Leaves = 1..Len(Leaves)
  BY TapeAssumption, LenProperties
<1>2. \A p \in 1..Len(Leaves) : Leaves[p] \in Int
  BY <1>1, ElementOfSeq
<1>3. /\ tape = [p \in 1..Len(Leaves) |-> [op |-> "leaf", a |-> 0, b |-> 0, fwd |-> Leaves[p]]]
      /\ \A p \in 1..Len(Leaves) : tape[p] \in Nodes /\ tape[p].op = "leaf"
  BY <1>1, <1>2 DEF Init, Params, Nodes
<1>4. tape \in Seq(Nodes) /\ Len(tape) = Len(Leaves)
  BY <1>1, <1>3
<1>5. TapeInv
  BY <1>1, <1>3, <1>4 DEF TapeInv, Init
<1>6. SweepInv /\ SumsInv
  <2>1. heap \in Seq(Int)
    BY EmptySeq DEF Init
  <2>2. loss \in 0..Len(tape) /\ next \in 0..Len(tape)
    BY <1>1, <1>4 DEF Init
  <2> QED BY <2>1, <2>2 DEF SweepInv, SumsInv, Init
<1> QED BY <1>5, <1>6 DEF AdInv

LEMMA RecordAdInv ==
    ASSUME AdInv, NEW op \in Ops, NEW a \in DOMAIN tape, NEW b \in DOMAIN tape, Record(op, a, b)
    PROVE  AdInv'
<1> DEFINE node == [op |-> op, a |-> a, b |-> b, fwd |-> Apply(op, tape[a].fwd, tape[b].fwd)]
<1>1. /\ tape \in Seq(Nodes) /\ Len(tape) \in Nat /\ a \in 1..Len(tape) /\ b \in 1..Len(tape)
      /\ Len(Leaves) \in Nat
  BY TapeIs, TapeAssumption DEF AdInv, TapeInv
<1>2. op \in {"add", "sub", "mul"}
  BY TapeAssumption
<1>3. node \in Nodes
  <2>1. tape[a] \in Nodes /\ tape[b] \in Nodes
    BY <1>1, ElementOfSeq
  <2>2. tape[a].fwd \in Int /\ tape[b].fwd \in Int
    BY <2>1 DEF Nodes
  <2>3. Apply(op, tape[a].fwd, tape[b].fwd) \in Int
    BY <1>2, <2>2 DEF Apply
  <2> QED BY <1>1, <1>2, <2>3 DEF Nodes
<1>4. /\ loss = 0 /\ tape' = Append(tape, node)
      /\ UNCHANGED <<backend, loss, adjoint, heap, next, shared>>
  BY DEF Record
<1>5. node.a = a /\ node.b = b
  OBVIOUS
<1> HIDE DEF node
<1>6. /\ tape' \in Seq(Nodes) /\ Len(tape') = Len(tape) + 1
      /\ \A i \in 1..Len(tape) : tape'[i] = tape[i]
      /\ tape'[Len(tape) + 1] = node
  BY <1>1, <1>3, <1>4, StackPush
<1>7. \A j \in 1..Len(tape') :
          tape'[j].op # "leaf" => tape'[j].a \in 1..(j - 1) /\ tape'[j].b \in 1..(j - 1)
  <2> SUFFICES ASSUME NEW j \in 1..Len(tape'), tape'[j].op # "leaf"
               PROVE  tape'[j].a \in 1..(j - 1) /\ tape'[j].b \in 1..(j - 1)
    OBVIOUS
  <2>1. CASE j = Len(tape) + 1
    BY <2>1, <1>1, <1>5, <1>6
  <2>2. CASE j # Len(tape) + 1
    <3>1. j \in 1..Len(tape) /\ tape'[j] = tape[j]
      BY <2>2, <1>1, <1>6
    <3> QED BY <3>1 DEF AdInv, TapeInv
  <2> QED BY <2>1, <2>2
<1>8. TapeInv'
  BY <1>1, <1>4, <1>6, <1>7 DEF AdInv, TapeInv
<1>9. SweepInv' /\ SumsInv'
  BY <1>1, <1>4, <1>6 DEF AdInv, SweepInv, SumsInv
<1> QED BY <1>8, <1>9 DEF AdInv

LEMMA LossAdInv ==
    ASSUME AdInv, NEW n \in DOMAIN tape, Loss(n)
    PROVE  AdInv'
<1>1. /\ loss' = n /\ heap' = <<1>> /\ next' = Len(tape) /\ shared = FALSE
      /\ adjoint' = [i \in DOMAIN tape |-> IF i = n THEN 1 ELSE None]
      /\ UNCHANGED <<backend, tape, shared>>
  BY DEF Loss, AdInv, SweepInv
<1>2. /\ tape \in Tapes /\ Len(tape) \in Nat /\ DOMAIN tape = 1..Len(tape)
      /\ n \in 1..Len(tape) /\ n # 0
  BY TapeIs DEF AdInv
<1>3. heap' \in Seq(Int) /\ Len(heap') = 1 /\ heap'[1] = 1
  BY <1>1
<1>4. adjoint' \in [1..Len(tape) -> 0..1]
  BY <1>1, <1>2 DEF None
<1>5. TapeInv'
  BY <1>1 DEF AdInv, TapeInv
<1>6. SweepInv'
  <2>1. adjoint' \in [1..Len(tape') -> 0..Len(heap')]
    BY <1>1, <1>3, <1>4
  <2>2. loss' \in 0..Len(tape') /\ next' \in 0..Len(tape') /\ loss' # 0
    BY <1>1, <1>2
  <2> QED BY <1>1, <1>3, <2>1, <2>2 DEF SweepInv
<1>7. ASSUME NEW m \in Awaited'
      PROVE  Published(m)' = Received(m)'
  <2>1. m \in 1..Len(tape)
    BY <1>1, <1>7 DEF Awaited
  <2>2. Published(m)' = IF m = n THEN 1 ELSE 0
    BY <1>1, <1>2, <1>3, <2>1 DEF Published, None
  <2>3. Received(m)' = Seed(m)' + Handed(tape', Chain(tape', loss'), m, (next' + 1)..Len(tape'))
    BY ReceivedAfter
  <2>4. (Len(tape) + 1)..Len(tape) = {}
    BY <1>2
  <2>5. Handed(tape, Chain(tape, n), m, (Len(tape) + 1)..Len(tape)) = 0
    BY <1>2, <2>4, ReceivedSum, SumEmpty
  <2>6. Seed(m)' = IF m = n THEN 1 ELSE 0
    BY <1>1 DEF Seed
  <2>7. Received(m)' = Seed(m)' + 0
    BY <2>3, <2>5, <1>1
  <2> QED BY <2>2, <2>6, <2>7
<1> QED BY <1>5, <1>6, <1>7 DEF AdInv, SumsInv

\* The sweep as the state has it.
Now == [adjoint |-> adjoint, heap |-> heap, shared |-> shared]

LEMMA NowIs ==
    ASSUME AdInv, loss # 0
    PROVE  /\ SweepType(Now)
           /\ Now.adjoint = adjoint /\ Now.heap = heap /\ Now.shared = shared
           /\ \A n : Value(Now, n) = Published(n)
<1>1. /\ adjoint \in [1..Len(tape) -> 0..Len(heap)] /\ heap \in Seq(Int) /\ shared \in BOOLEAN
      /\ Len(heap) \in Nat
  BY DEF AdInv, SweepInv
<1>2. \A n \in 1..Len(tape) : adjoint[n] \in Nat /\ adjoint[n] <= Len(heap)
  BY <1>1
<1>3. adjoint \in [1..Len(tape) -> Nat]
  BY <1>1
<1> QED BY <1>1, <1>2, <1>3 DEF SweepType, Now, Value, Published

LEMMA VisitAdInv ==
    ASSUME AdInv, Visit
    PROVE  AdInv'
<1> DEFINE k == next
           after == IF adjoint[k] = None THEN Now ELSE Propagated(Now, tape[k], adjoint[k])
           c == Chain(tape, loss)
           p(m) == PartialOf(tape, tape[k], m)
<1>1. /\ next > 0 /\ next' = next - 1 /\ UNCHANGED <<backend, tape, loss>>
      /\ adjoint' = after.adjoint /\ heap' = after.heap /\ shared' = after.shared
  BY DEF Visit, Now
<1>2. /\ tape \in Tapes /\ Len(tape) \in Nat /\ loss # 0 /\ k \in 1..Len(tape) /\ TapeInv
      /\ k \in Awaited
  BY <1>1, TapeIs DEF AdInv, SweepInv, Awaited
<1>3. /\ SweepType(Now) /\ Now.adjoint = adjoint /\ Now.shared = shared
      /\ \A m : Value(Now, m) = Published(m)
  BY <1>2, NowIs
<1>4. \A m \in Awaited : Published(m) \in Int /\ p(m) \in Int
  <2>1. \A m \in Awaited : m \in 1..Len(tape)
    BY DEF Awaited
  <2> QED BY <2>1, <1>2, <1>3, ValueType, PartialType
<1>5. /\ SweepType(after)
      /\ backend = "interp" => after.shared = shared
      /\ ~after.shared => ~shared /\ \A m \in Awaited :
             Value(after, m) = Published(m) + Published(k) * p(m)
  <2>1. CASE adjoint[k] = None
    <3>1. after = Now /\ Published(k) = 0
      BY <2>1 DEF Published
    <3>2. \A m \in Awaited : Published(m) = Published(m) + 0 * p(m)
      <4> HIDE DEF p
      <4> QED BY <1>4
    <3> HIDE DEF after, p
    <3> QED BY <3>1, <3>2, <1>3
  <2>2. CASE adjoint[k] # None
    <3>1. after = Propagated(Now, tape[next], Now.adjoint[next]) /\ Now.adjoint[next] # None
      BY <2>2, <1>3
    <3> HIDE DEF after
    <3> QED BY <3>1, <1>2, <1>3, PropagatedPasses
  <2> QED BY <2>1, <2>2
<1> HIDE DEF after
<1>6. TapeInv'
  BY <1>1 DEF AdInv, TapeInv
<1>7. SweepInv'
  <2>1. /\ after.adjoint \in [1..Len(tape) -> Nat] /\ after.heap \in Seq(Int)
        /\ after.shared \in BOOLEAN /\ Len(after.heap) \in Nat
        /\ \A m \in 1..Len(tape) : after.adjoint[m] <= Len(after.heap)
    BY <1>5 DEF SweepType
  <2>2. after.adjoint \in [1..Len(tape) -> 0..Len(after.heap)]
    BY <2>1
  <2> QED BY <1>1, <1>2, <1>5, <2>1, <2>2 DEF AdInv, SweepInv
<1>8. ASSUME ~shared', NEW m \in Awaited'
      PROVE  Published(m)' = Received(m)'
  <2> DEFINE S == (k + 1)..Len(tape)
             T == ((k - 1) + 1)..Len(tape)
             e == Shares(tape, c, m)
  <2>1. m \in Awaited /\ m \in 1..Len(tape)
    BY <1>1, <1>2, <1>8 DEF Awaited
  <2>2. ~shared /\ Published(m)' = Published(m) + Published(k) * p(m)
    <3>1. Published(m)' = Value(after, m)
      BY <1>1 DEF Published, Value
    <3> QED BY <3>1, <2>1, <1>1, <1>5, <1>8
  <2>3. Published(m) = Received(m) /\ Published(k) = Received(k)
    BY <2>1, <2>2, <1>2 DEF AdInv, SumsInv
  <2>4. /\ Received(m) = Seed(m) + Handed(tape, c, m, S)
        /\ Received(k) = Seed(k) + Handed(tape, c, k, S)
    BY ReceivedIs
  <2>5. Published(k) = c[k]
    <3>1. k \in 0..k
      BY <1>2
    <3>2. Seed(k) + Handed(tape, c, k, S) = c[k]
      BY <3>1, <1>2, CompleteIsDerivative DEF Seed
    <3> QED BY <2>3, <2>4, <3>2
  <2>6. Received(m)' = Seed(m) + Handed(tape, c, m, T)
    <3>1. Received(m)' = Seed(m)' + Handed(tape', Chain(tape', loss'), m, (next' + 1)..Len(tape'))
      BY ReceivedAfter
    <3>2. Seed(m)' = Seed(m)
      BY <1>1 DEF Seed
    <3> QED BY <3>1, <3>2, <1>1
  <2>7. /\ Handed(tape, c, m, S) = SumOf(e, S)
        /\ Handed(tape, c, m, T) = SumOf(e, T)
    <3>1. k \in 0..Len(tape) /\ k - 1 \in 0..Len(tape)
      BY <1>2
    <3> QED BY <3>1, <1>2, ReceivedSum
  <2>8. SumOf(e, S) \in Int /\ SumOf(e, T) = SumOf(e, S) + c[k] * p(m)
    <3>1. /\ S \in SUBSET (1..Len(tape)) /\ T = S \cup {k} /\ k \notin S
          /\ \A j \in S \cup {k} : j \in 1..Len(tape)
      BY <1>2
    <3>2. IsFiniteSet(S)
      BY <3>1, <1>2, NodesFinite
    <3>3. \A j \in 1..Len(tape) : c[j] \in Int
      BY <1>2, ChainRule
    <3>4. \A j \in 1..Len(tape) : e[j] \in Int /\ e[j] = c[j] * PartialOf(tape, tape[j], m)
      BY <3>3, <1>2, ShareType
    <3> HIDE DEF e, S, T, c
    <3>5. SumOf(e, S) \in Int /\ SumOf(e, S \cup {k}) = SumOf(e, S) + e[k]
      BY <3>1, <3>2, <3>4, SumAdd
    <3> QED BY <3>1, <3>4, <3>5, <1>2
  <2>9. Seed(m) \in Int /\ c[k] * p(m) \in Int
    <3>1. c[k] \in Int /\ p(m) \in Int
      BY <2>1, <1>2, <1>4, ChainRule
    <3> HIDE DEF c, p
    <3> QED BY <3>1 DEF Seed
  <2> HIDE DEF e, S, T, c, p, k
  <2> QED BY <2>2, <2>3, <2>4, <2>5, <2>6, <2>7, <2>8, <2>9
<1> QED BY <1>6, <1>7, <1>8 DEF AdInv, SumsInv

LEMMA AdInvariant == Spec => []AdInv
<1>1. AdInv /\ [Next]_vars => AdInv'
  <2> SUFFICES ASSUME AdInv, [Next]_vars
               PROVE  AdInv'
    OBVIOUS
  <2>1. CASE \E op \in Ops, a, b \in DOMAIN tape : Record(op, a, b)
    BY <2>1, RecordAdInv
  <2>2. CASE \E n \in DOMAIN tape : Loss(n)
    BY <2>2, LossAdInv
  <2>3. CASE Visit
    BY <2>3, VisitAdInv
  <2>4. CASE UNCHANGED vars
    <3>1. \A n : Received(n)' = Received(n)
      BY <2>4, ReceivedBefore, ReceivedAfter DEF vars, Seed
    <3>2. TapeInv' /\ SweepInv'
      BY <2>4 DEF vars, AdInv, TapeInv, SweepInv
    <3>3. SumsInv'
      BY <2>4, <3>1 DEF vars, AdInv, SumsInv, Awaited, Published
    <3> QED BY <3>2, <3>3 DEF AdInv
  <2> QED BY <2>1, <2>2, <2>3, <2>4 DEF Next
<1> QED BY <1>1, InitAdInv, PTL DEF Spec

-------------------------------------------------------------------------------
(* The theorems.                                                            *)

\* After the sweep, until something was added into shared memory, what is published
\* for a parameter is the derivative.
LEMMA UnsharedExact ==
    ASSUME AdInv, ~shared
    PROVE  GradientsExact
<1> SUFFICES ASSUME Swept, NEW p \in Params
             PROVE  Published(p) = Derivative[p]
  BY DEF GradientsExact
<1>1. /\ tape \in Tapes /\ p \in 1..Len(tape) /\ p \in Awaited
      /\ loss # 0 /\ next = 0 /\ 0 \in 0..p
  BY TapeIs DEF AdInv, Swept, Awaited
<1>2. Published(p) = Seed(p) + Handed(tape, Chain(tape, loss), p, (next + 1)..Len(tape))
  BY <1>1, ReceivedIs DEF AdInv, SumsInv
<1>3. Seed(p) + Handed(tape, Chain(tape, loss), p, (0 + 1)..Len(tape)) = Chain(tape, loss)[p]
  BY <1>1, CompleteIsDerivative DEF Seed
<1> QED BY <1>1, <1>2, <1>3, DerivativeIs

\* The interpreter's sweep (Tape::backward) publishes for every `!` parameter the
\* derivative of the loss, whatever the body records.
THEOREM InterpreterIsExact == Spec => []InterpExact
<1>1. AdInv => InterpExact
  BY UnsharedExact DEF AdInv, SweepInv, InterpExact
<1> QED BY <1>1, AdInvariant, PTL

\* And it reads a node only when every node that uses it has handed on its share.
THEOREM NodesAreComplete == Spec => []PartialSumsExact
<1>1. AdInv => PartialSumsExact
  <2> SUFFICES ASSUME AdInv, loss # 0, backend = "interp", NEW n \in 1..next
               PROVE  Published(n) = Received(n)
    BY DEF PartialSumsExact, Received, Seed
  <2>1. n \in Awaited
    BY DEF AdInv, SweepInv, Awaited, TapeInv
  <2> QED BY <2>1 DEF AdInv, SweepInv, SumsInv
<1> QED BY <1>1, AdInvariant, PTL

\* The code the JIT emits (emit_backward, ad_accumulate) agrees with it until a
\* contribution is added into memory that is also another node's adjoint.
THEOREM JitIsExactUnlessShared == Spec => []JitExactUnlessShared
<1>1. AdInv => JitExactUnlessShared
  BY UnsharedExact DEF JitExactUnlessShared
<1> QED BY <1>1, AdInvariant, PTL
===============================================================================
