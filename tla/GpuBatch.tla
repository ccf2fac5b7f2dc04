------------------------------- MODULE GpuBatch -------------------------------
(***************************************************************************)
(* Pipelined GPU dispatch of back-to-back projections (gpu.rs and the gate *)
(* for it in jit.rs).  A run of adjacent `let x = a @ w` statements may     *)
(* commit its command buffers without waiting; the host copies of the      *)
(* results are made by the next call that waits, or by a flush the JIT     *)
(* emits.  The GPU finishes committed work whenever it likes and in any    *)
(* order; the scratch it reads and writes is not tracked for hazards.      *)
(*                                                                         *)
(* A program is a straight block of statements; statement i writes a fresh *)
(* block i of the forge.  deferPending is a flag of the compiler; code has *)
(* no branches here, so it is stepped together with the code it emits.     *)
(***************************************************************************)
EXTENDS Integers, FiniteSetsExt, SequencesExt

CONSTANTS
    Programs,     \* the blocks of statements a program may consist of
    Weights,      \* the weight matrices
    Key,          \* the content fingerprint of each weight matrix
    MaxResident,  \* weight buffers kept resident, 2048 in the code
    InitCap,      \* the size of a scratch buffer at first
    Align,        \* bytes a scratch slice is aligned to, 256 in the code
    Parts         \* command buffers one call is split into

ASSUME GpuAssumption ==
    /\ \A p \in Programs :
          /\ p \in Seq([kind : {"batched", "inline", "other"}, a : Nat, w : Weights,
                        xs : Nat \ {0}, ys : Nat \ {0}])
          /\ \A i \in 1..Len(p) : p[i].a < i
    /\ Key \in [Weights -> Nat]
    /\ \A v, w \in Weights : Key[v] = Key[w] => v = w
    /\ MaxResident \in Nat /\ InitCap \in Nat /\ Align \in Nat \ {0} /\ Parts \in Nat \ {0}

VARIABLES
    prog,         \* the program
    hasDevice,    \* GpuCtx::new succeeded
    inAd,         \* the code is lowered under autodiff
    pc,           \* the statement being run
    phase,        \* "start", "issue" or "wait" within it
    deferPending, \* Jit::gpu_defer_pending
    host,         \* the contents of each block of the forge
    want,         \* history: what each block holds when nothing is deferred
    scratch,      \* the x and the y buffer: their number, capacity and bump offset
    cells,        \* what the scratch buffers hold, by buffer number and offset
    retired,      \* the scratch buffers replaced and not freed yet
    readBacks,    \* pending_rb: deferred copies, from scratch to a block
    flying,       \* command buffers committed and not completed
    resident      \* the weights that have a buffer on the device, by key

compiled == <<prog, hasDevice, inAd>>
device == <<scratch, cells, retired, readBacks, flying, resident>>
vars == <<compiled, pc, phase, deferPending, host, want, device>>

Junk == <<"junk">>
Product(a, w) == <<"product", a, w>>

Init ==
    /\ prog \in Programs
    /\ hasDevice \in BOOLEAN
    /\ inAd \in BOOLEAN
    /\ pc = 1
    /\ phase = "start"
    /\ deferPending = FALSE
    /\ host = [b \in 0..Len(prog) |-> IF b = 0 THEN <<"input">> ELSE Junk]
    /\ want = host
    /\ scratch = [x |-> [id |-> 0, cap |-> InitCap, off |-> 0],
                  y |-> [id |-> 1, cap |-> InitCap, off |-> 0]]
    /\ cells = <<>>
    /\ retired = {}
    /\ readBacks = <<>>
    /\ flying = {}
    /\ resident = {}

Stmt == prog[pc]

-------------------------------------------------------------------------------
(* The gate of the compiler.                                                *)

Candidate(i) == i \in 1..Len(prog) /\ prog[i].kind \in {"batched", "inline"}

\* Slip: a call is deferred whatever comes after it.
DefersAnywhere == Candidate(pc) /\ ~inAd

\* gpu_defer_hint && self.ad.is_none()
Defers == Candidate(pc) /\ Candidate(pc + 1) /\ ~inAd

-------------------------------------------------------------------------------
(* Scratch and pending work.                                                *)

AlignUp(n) == ((n + Align - 1) \div Align) * Align

\* The contents of a cell, Junk unless it was written and its buffer is alive.
CellAt(id, at) ==
    IF id \in {scratch.x.id, scratch.y.id} \cup retired
    THEN IF <<id, at>> \in DOMAIN cells THEN cells[<<id, at>>] ELSE Junk
    ELSE Junk

Fresh == 1 + Max({scratch.x.id, scratch.y.id} \cup retired)

\* ensure_x, ensure_y: a buffer too small is replaced, its contents are not copied.
Ensured(buffer, bytes, id) ==
    IF bytes > buffer.cap THEN [buffer EXCEPT !.id = id, !.cap = bytes] ELSE buffer

\* pending_rb names the block.
OverlapsPending(b) == \E k \in DOMAIN readBacks : readBacks[k].dst = b

\* The scratch with count cells of a buffer overwritten.
Overwritten(id, at, count, v) ==
    LET slice == {<<id, at + k>> : k \in 0..(count - 1)} IN
    [c \in slice \cup DOMAIN cells |-> IF c \in slice THEN v ELSE cells[c]]

\* The cells of the y slice as one value: all parts must have produced the same.
Gathered(id, at, size) ==
    LET vs == {CellAt(id, at + k) : k \in 0..(size - 1)} IN
    IF Cardinality(vs) = 1 THEN CHOOSE v \in vs : TRUE ELSE Junk

\* flush_pending, after the wait: the copies in order, then everything is released.
Materialised(h) ==
    [b \in DOMAIN h |->
        IF OverlapsPending(b)
        THEN LET k == CHOOSE k \in DOMAIN readBacks :
                          readBacks[k].dst = b /\ \A l \in DOMAIN readBacks :
                              readBacks[l].dst = b => l <= k
             IN Gathered(readBacks[k].id, readBacks[k].at, readBacks[k].size)
        ELSE h[b]]

Released ==
    /\ readBacks' = <<>>
    /\ retired' = {}
    /\ scratch' = [scratch EXCEPT !.x.off = 0, !.y.off = 0]

-------------------------------------------------------------------------------
(* The GPU: each part of a call computes its slice from what the scratch    *)
(* holds at that time.  A command buffer retains the weights it was given.  *)

GpuCompletes(cb) ==
    /\ cb \in flying
    /\ flying' = flying \ {cb}
    /\ cells' = Overwritten(cb.y, cb.from, cb.count, Product(cells[<<cb.x, cb.xAt>>], cb.w))
    /\ UNCHANGED <<compiled, pc, phase, deferPending, host, want, scratch, retired,
                   readBacks, resident>>

-------------------------------------------------------------------------------
(* The statements.                                                          *)

Wanted == [want EXCEPT ![pc] = Product(want[Stmt.a], Stmt.w)]
Computed(h) == [h EXCEPT ![pc] = Product(h[Stmt.a], Stmt.w)]

NextStatement == pc' = pc + 1 /\ phase' = "start"

\* The runtime entry of a batched projection with no device: the CPU kernel.
CpuCall ==
    /\ phase = "start" /\ pc <= Len(prog) /\ Stmt.kind = "batched" /\ ~hasDevice
    /\ host' = Computed(host)
    /\ want' = Wanted
    /\ deferPending' = Defers
    /\ NextStatement
    /\ UNCHANGED <<compiled, device>>

\* Slip: the operands are not looked up among the deferred results.
EnterCallUnchecked ==
    /\ phase = "start" /\ pc <= Len(prog) /\ Stmt.kind = "batched" /\ hasDevice
    /\ phase' = "issue"
    /\ want' = Wanted
    /\ UNCHANGED <<compiled, pc, deferPending, host, device>>

\* gpu_run, up to the overlap test.  Operands that a deferred call has yet to
\* write make it flush first.  The test of the weights is left out: they are
\* bf16, a deferred result is f32, and whatever converts one is a statement of
\* another kind.  So is the CPU path for slices the kernel cannot take, which the
\* gate keeps out of batched calls.
EnterCall ==
    /\ phase = "start" /\ pc <= Len(prog) /\ Stmt.kind = "batched" /\ hasDevice
    /\ IF OverlapsPending(Stmt.a) \/ OverlapsPending(pc)
       THEN /\ flying = {}
            /\ host' = Materialised(host)
            /\ Released
       ELSE UNCHANGED <<host, readBacks, retired, scratch>>
    /\ phase' = "issue"
    /\ want' = Wanted
    /\ UNCHANGED <<compiled, pc, deferPending, cells, flying, resident>>

\* GpuCtx::weight: the buffer of this content, uploaded when it is not there.
Upload ==
    LET kept == IF Cardinality(resident) > MaxResident THEN {} ELSE resident IN
    resident' = kept \cup {[key |-> Key[Stmt.w], w |-> Stmt.w]}

WeightOf == (CHOOSE r \in resident' : r.key = Key[Stmt.w]).w

\* The rest of gpu_run: upload the activations, commit the parts, and either
\* record the read-back or go on to wait.
Issue ==
    /\ phase = "issue"
    /\ LET xBase == AlignUp(scratch.x.off)
           yBase == AlignUp(scratch.y.off)
           x == Ensured(scratch.x, xBase + Stmt.xs, Fresh)
           y == Ensured(scratch.y, yBase + Stmt.ys, Fresh + 1)
           n == IF Parts <= Stmt.ys THEN Parts ELSE Stmt.ys
           from(i) == (Stmt.ys * i) \div n
       IN /\ Upload
          /\ cells' = Overwritten(x.id, xBase, Stmt.xs, host[Stmt.a])
          /\ retired' = retired \cup ({scratch.x.id, scratch.y.id} \ {x.id, y.id})
          /\ flying' = flying \cup
                {[x |-> x.id, xAt |-> xBase, y |-> y.id, w |-> WeightOf,
                  from |-> yBase + from(i), count |-> from(i + 1) - from(i)] : i \in 0..(n - 1)}
          /\ IF Defers
             THEN /\ readBacks' = Append(readBacks, [id |-> y.id, at |-> yBase,
                                                     size |-> Stmt.ys, dst |-> pc])
                  /\ scratch' = [x |-> [x EXCEPT !.off = xBase + Stmt.xs],
                                 y |-> [y EXCEPT !.off = yBase + Stmt.ys]]
                  /\ NextStatement
             ELSE /\ scratch' = [x |-> x, y |-> y]
                  /\ phase' = "wait"
                  /\ UNCHANGED <<pc, readBacks>>
    /\ deferPending' = Defers
    /\ UNCHANGED <<compiled, host, want>>

\* The end of a call that waits: deferred neighbours, then its own result, which
\* is at the first aligned offset after theirs.
Complete ==
    /\ phase = "wait" /\ flying = {}
    /\ host' = [Materialised(host) EXCEPT ![pc] =
                    Gathered(scratch.y.id, AlignUp(scratch.y.off), Stmt.ys)]
    /\ Released
    /\ NextStatement
    /\ UNCHANGED <<compiled, deferPending, want, cells, flying, resident>>

\* Slip: no flush is emitted before a kernel that reads memory.
InlineUnflushed ==
    /\ phase = "start" /\ pc <= Len(prog) /\ Stmt.kind = "inline"
    /\ host' = Computed(host)
    /\ deferPending' = FALSE
    /\ want' = Wanted
    /\ NextStatement
    /\ UNCHANGED <<compiled, device>>

\* A candidate whose kernel reads its operands inline: emit_gpu_flush_if_pending.
InlineKernel ==
    /\ phase = "start" /\ pc <= Len(prog) /\ Stmt.kind = "inline"
    /\ IF deferPending /\ hasDevice
       THEN /\ flying = {}
            /\ host' = Computed(Materialised(host))
            /\ Released
       ELSE /\ host' = Computed(host)
            /\ UNCHANGED <<readBacks, retired, scratch>>
    /\ deferPending' = FALSE
    /\ want' = Wanted
    /\ NextStatement
    /\ UNCHANGED <<compiled, cells, flying, resident>>

\* Any other statement that reads a block; nothing is emitted before it.
OtherStatement ==
    /\ phase = "start" /\ pc <= Len(prog) /\ Stmt.kind = "other"
    /\ host' = Computed(host)
    /\ want' = Wanted
    /\ NextStatement
    /\ UNCHANGED <<compiled, deferPending, device>>

Next ==
    \/ \E cb \in flying : GpuCompletes(cb)
    \/ CpuCall
    \/ EnterCall
    \/ Issue
    \/ Complete
    \/ InlineKernel
    \/ OtherStatement

Spec == Init /\ [][Next]_vars

\* The device finishes what was committed (a command buffer that fails is
\* completed too), and the program does not stop between statements.
FairSpec ==
    /\ Spec
    /\ WF_vars(\E cb \in flying : GpuCompletes(cb))
    /\ WF_vars(CpuCall \/ EnterCall \/ Issue \/ Complete \/ InlineKernel \/ OtherStatement)

-------------------------------------------------------------------------------
(* Properties.                                                              *)

\* What the host can see, a block that no deferred call has yet to write, holds
\* what the program computes without any deferral.  A result lost, torn, taken
\* from overwritten scratch or read too early shows here, in its block or in the
\* block of the statement that read it.
HostExact ==
    \A b \in 0..(pc - 1) : OverlapsPending(b) \/ host[b] = want[b]

\* Outside a run of candidates nothing is deferred: whatever comes next, the end
\* of the block included, may read any block.
NothingLeftDeferred ==
    phase = "start" /\ ~Candidate(pc) => readBacks = <<>> /\ retired = {}

\* The wait for the device ends and with it the block, and its results are there.
BlockEnds == <>(pc > Len(prog) /\ host = want)

===============================================================================
