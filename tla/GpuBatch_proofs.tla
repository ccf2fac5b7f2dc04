---------------------------- MODULE GpuBatch_proofs ----------------------------
(***************************************************************************)
(* Theorems about GpuBatch, for blocks of any length, any weights and any  *)
(* sizes of the scratch: deferred work never leaves a run of candidates,   *)
(* and every block the host can see holds what the program computes.       *)
(*                                                                         *)
(* The invariant Exact says where each result is that is still owed: in    *)
(* the cells a deferred call recorded, already written or about to be by   *)
(* parts whose activations no later call overwrites.  It holds because a   *)
(* call takes cells beyond the bump offsets of both buffers, or a buffer   *)
(* with a new number, and only a call that finds the device idle moves the *)
(* offsets back.                                                           *)
(***************************************************************************)
EXTENDS GpuBatch, StacksAndSums

\* There is deferred work on the device.
Deferred == readBacks # <<>> \/ retired # {}

\* What is deferred is known to the compiler, and the statement about to run is one
\* that flushes it or takes it along.
Scheduled ==
    /\ prog \in Programs /\ pc \in Nat \ {0} /\ phase \in {"start", "issue", "wait"}
    /\ phase # "start" => hasDevice /\ pc <= Len(prog)
    /\ Deferred => hasDevice
    /\ phase = "start" /\ Deferred => deferPending /\ Candidate(pc)

\* A program has a length.
LEMMA Lengths == ASSUME NEW p \in Programs PROVE Len(p) \in Nat
BY GpuAssumption, LenProperties

\* Nothing is deferred before the first run.
LEMMA InitScheduled == Init => Scheduled
BY DEF Init, Scheduled, Deferred

\* No step changes which statements are candidates.
LEMMA CandidateKept ==
    ASSUME prog' = prog, NEW i \in Nat
    PROVE  Candidate(i)' <=> Candidate(i)
BY DEF Candidate

\* What is deferred lies in the run the program counter is in.
LEMMA StepScheduled == Scheduled /\ [Next]_vars => Scheduled'
<1> SUFFICES ASSUME Scheduled, [Next]_vars
             PROVE  Scheduled'
  OBVIOUS
<1>1. prog' = prog /\ hasDevice' = hasDevice /\ prog \in Programs /\ Len(prog) \in Nat
  BY Lengths DEF Next, vars, compiled, Scheduled, GpuCompletes, CpuCall, EnterCall, Issue, Complete,
                 InlineKernel, OtherStatement
<1>2. ASSUME NEW cb \in flying, GpuCompletes(cb)
      PROVE  Scheduled'
  BY <1>1, <1>2 DEF GpuCompletes, Scheduled, Deferred, Candidate
<1>3. CASE CpuCall
  BY <1>1, <1>3 DEF CpuCall, NextStatement, device, Scheduled, Deferred
<1>4. CASE EnterCall
  <2>1. /\ phase' = "issue" /\ pc' = pc /\ hasDevice /\ pc <= Len(prog)
        /\ Deferred' => Deferred
    BY <1>4 DEF EnterCall, Released, Deferred
  <2> QED BY <1>1, <2>1 DEF Scheduled
<1>5. CASE Issue
  <2>1. phase = "issue" /\ hasDevice
    BY <1>5 DEF Issue, Scheduled
  <2>2. CASE Defers
    <3>1. pc' = pc + 1 /\ phase' = "start" /\ deferPending'
      BY <1>5, <2>2 DEF Issue, NextStatement
    <3>2. Candidate(pc + 1)
      BY <2>2 DEF Defers
    <3>3. Candidate(pc)'
      BY <1>1, <3>1, <3>2 DEF Candidate
    <3> QED BY <1>1, <2>1, <3>1, <3>3 DEF Scheduled
  <2>3. CASE ~Defers
    <3>1. pc' = pc /\ phase' = "wait"
      BY <1>5, <2>3 DEF Issue
    <3> QED BY <1>1, <2>1, <3>1 DEF Scheduled
  <2> QED BY <2>2, <2>3
<1>6. CASE Complete
  BY <1>1, <1>6 DEF Complete, Released, NextStatement, Scheduled, Deferred
<1>7. CASE InlineKernel
  <2>1. ~Deferred'
    <3>1. CASE deferPending /\ hasDevice
      BY <1>7, <3>1 DEF InlineKernel, Released, Deferred
    <3>2. CASE ~(deferPending /\ hasDevice)
      BY <1>7, <3>2 DEF InlineKernel, Scheduled, Deferred
    <3> QED BY <3>1, <3>2
  <2>2. phase' = "start" /\ pc' = pc + 1
    BY <1>7 DEF InlineKernel, NextStatement
  <2> QED BY <1>1, <2>1, <2>2 DEF Scheduled
<1>8. CASE OtherStatement
  <2>1. phase = "start" /\ ~Candidate(pc)
    BY <1>8 DEF OtherStatement, Stmt, Candidate
  <2>2. ~Deferred /\ ~Deferred'
    BY <1>8, <2>1 DEF OtherStatement, device, Scheduled, Deferred
  <2> QED BY <1>1, <1>8, <2>2 DEF OtherStatement, NextStatement, Scheduled
<1>9. CASE UNCHANGED vars
  BY <1>1, <1>9 DEF vars, device, Scheduled, Deferred, Candidate
<1> QED BY <1>2, <1>3, <1>4, <1>5, <1>6, <1>7, <1>8, <1>9 DEF Next

\* Whatever the block, nothing is left deferred outside a run of candidates: any
\* statement there, and the end of the block, finds every result in the forge.
THEOREM DeferredOnlyInRuns == Spec => []NothingLeftDeferred
<1>1. Scheduled => NothingLeftDeferred
  BY DEF Scheduled, Deferred, NothingLeftDeferred
<1> QED BY <1>1, InitScheduled, StepScheduled, PTL DEF Spec

-------------------------------------------------------------------------------
(* Slices and offsets.                                                      *)

\* A product grows with a factor.
LEMMA TimesMore ==
    ASSUME NEW a \in Nat, NEW b \in Nat, NEW c \in Nat, a <= b
    PROVE  c * a \in Nat /\ c * b \in Nat /\ c * a <= c * b
<1>1. PICK d \in Nat : b = a + d
  OBVIOUS
<1>2. c * b = c * a + c * d /\ c * d \in Nat /\ c * a \in Nat
  BY <1>1
<1> QED BY <1>2

\* A quotient stays at or below j exactly as long as the dividend is below the next multiple.
LEMMA QuotientBelow ==
    ASSUME NEW m \in Nat, NEW u \in Nat \ {0}, NEW j \in Nat
    PROVE  m \div u \in Nat /\ (m \div u <= j <=> m < u * (j + 1))
<1>1. PICK q : q = m \div u
  OBVIOUS
<1>2. PICK r : r = m % u
  OBVIOUS
<1>3. q \in Nat /\ r \in Nat /\ r < u /\ m = u * q + r
  BY <1>1, <1>2, Division
<1>4. ASSUME q <= j
      PROVE  m < u * (j + 1)
  <2>1. u * q <= u * j /\ u * q \in Nat /\ u * j \in Nat
    BY <1>3, <1>4, TimesMore
  <2>2. u * (j + 1) = u * j + u
    OBVIOUS
  <2>3. ASSUME NEW x \in Nat, NEW y \in Nat, x <= y
        PROVE  x + r < y + u
    BY <1>3, <2>3
  <2> QED BY <1>3, <2>1, <2>2, <2>3
<1>5. ASSUME m < u * (j + 1)
      PROVE  q <= j
  <2> SUFFICES ASSUME ~(q <= j)
               PROVE  FALSE
    BY <1>3
  <2>1. j + 1 <= q /\ j + 1 \in Nat
    BY <1>3
  <2>2. u * (j + 1) <= u * q /\ u * (j + 1) \in Nat /\ u * q \in Nat
    BY <1>3, <2>1, TimesMore
  <2>3. ASSUME NEW x \in Nat, NEW y \in Nat, y <= x
        PROVE  ~(x + r < y)
    BY <1>3, <2>3
  <2> QED BY <1>3, <1>5, <2>2, <2>3
<1> QED BY <1>1, <1>3, <1>4, <1>5

\* The slices of a result of s bytes cover it.
LEMMA Slices ==
    ASSUME NEW s \in Nat \ {0}, NEW n \in Nat \ {0}, n <= s
    PROVE  /\ \A i \in 0..n : (s * i) \div n \in Nat /\ (s * i) \div n <= s
           /\ \A j \in 0..(s - 1) : \E i \in 0..(n - 1) :
                  (s * i) \div n <= j /\ j < (s * (i + 1)) \div n
<1>1. ASSUME NEW i \in 0..n
      PROVE  (s * i) \div n \in Nat /\ (s * i) \div n <= s
  <2>1. s * i <= s * n /\ s * i \in Nat /\ s * n \in Nat
    BY TimesMore
  <2>2. n * (s + 1) = s * n + n
    OBVIOUS
  <2>3. s * i < n * (s + 1)
    <3>1. ASSUME NEW x \in Nat, NEW y \in Nat, x <= y
          PROVE  x < y + n
      BY <3>1
    <3> QED BY <2>1, <2>2, <3>1
  <2> QED BY <2>1, <2>3, QuotientBelow
<1>2. ASSUME NEW j \in 0..(s - 1)
      PROVE  \E i \in 0..(n - 1) : (s * i) \div n <= j /\ j < (s * (i + 1)) \div n
  <2>1. PICK d : d = n * (j + 1)
    OBVIOUS
  <2>2. d \in Nat \ {0} /\ n * 1 <= n * (j + 1) /\ d <= n * s
    BY <2>1, TimesMore
  <2>3. PICK e \in Nat : d = e + 1
    BY <2>2
  <2>4. PICK i : i = e \div s
    OBVIOUS
  <2>5. i \in Nat
    BY <2>4, QuotientBelow
  <2>6. e < s * (i + 1)
    BY <2>4, <2>5, QuotientBelow
  <2>7. s * i \in Nat /\ s * (i + 1) \in Nat /\ i + 1 \in Nat
    BY <2>5, TimesMore
  <2>8. s * i <= e
    <3>1. CASE i = 0
      BY <3>1
    <3>2. CASE i # 0
      <4>1. PICK h \in Nat : i = h + 1
        BY <3>2, <2>5
      <4>2. ~(e \div s <= h)
        BY <2>4, <4>1
      <4>3. ~(e < s * (h + 1))
        BY <4>2, QuotientBelow
      <4> QED BY <4>1, <4>3, <2>7
    <3> QED BY <3>1, <3>2
  <2>9. (s * i) \div n <= j
    <3>1. s * i < n * (j + 1)
      BY <2>1, <2>3, <2>7, <2>8
    <3> QED BY <3>1, <2>7, QuotientBelow
  <2>10. j < (s * (i + 1)) \div n
    <3>1. ~(s * (i + 1) < n * (j + 1))
      BY <2>1, <2>3, <2>6, <2>7
    <3>2. (s * (i + 1)) \div n \in Nat /\ ~((s * (i + 1)) \div n <= j)
      BY <3>1, <2>7, QuotientBelow
    <3> QED BY <3>2
  <2>11. i \in 0..(n - 1)
    <3>1. ASSUME n <= i
          PROVE  FALSE
      <4>1. s * n <= s * i /\ s * n \in Nat /\ s * n = n * s
        BY <3>1, <2>5, TimesMore
      <4> QED BY <4>1, <2>2, <2>3, <2>7, <2>8
    <3> QED BY <2>5, <3>1
  <2> QED BY <2>9, <2>10, <2>11
<1> QED BY <1>1, <1>2

\* An offset aligned is no smaller.
LEMMA AlignedUp ==
    ASSUME NEW n \in Nat
    PROVE  AlignUp(n) \in Nat /\ AlignUp(n) >= n
<1>1. PICK u \in Nat \ {0} : u = Align
  BY GpuAssumption
<1>2. PICK m \in Nat : m = n + u - 1
  BY <1>1
<1>3. PICK q : q = m \div u
  OBVIOUS
<1>4. q \in Nat /\ m % u \in 0..(u - 1) /\ m = u * q + (m % u)
  BY <1>3, Division
<1>5. PICK p : p = u * q
  OBVIOUS
<1>6. p \in Nat
  BY <1>4, <1>5, TimesMore
<1>7. p >= n
  BY <1>2, <1>4, <1>5, <1>6
<1>8. AlignUp(n) = q * u /\ q * u = p
  BY <1>1, <1>2, <1>3, <1>4, <1>5 DEF AlignUp
<1> QED BY <1>6, <1>7, <1>8

-------------------------------------------------------------------------------
(* Where the work of a run is.                                              *)

\* A scratch buffer, a committed part and a deferred copy as Issue makes them.
BufferType == [id : Nat, cap : Nat, off : Nat]

PartType == [x : Nat, xAt : Nat, y : Nat, w : Weights, from : Nat, count : Int]

ReadBackType == [id : Nat, at : Nat, size : Nat \ {0}, dst : Nat]

\* The result of the call that is waiting is owed like the deferred ones.
Own == [id |-> scratch.y.id, at |-> AlignUp(scratch.y.off), size |-> Stmt.ys, dst |-> pc]

\* The copies that will be made when the device is done.
Owed == {readBacks[k] : k \in DOMAIN readBacks} \cup (IF phase = "wait" THEN {Own} ELSE {})

\* The part cb writes cell j of buffer id.
Covers(cb, id, j) == cb.y = id /\ cb.from <= j /\ j < cb.from + cb.count

\* Every cell of r holds v, or a part is committed that will write it; and any
\* part that will writes v.
Filled(r, v, cs, fs) ==
    \A j \in r.at..(r.at + r.size - 1) :
        /\ \/ <<r.id, j>> \in DOMAIN cs /\ cs[<<r.id, j>>] = v
           \/ \E cb \in fs : Covers(cb, r.id, j)
        /\ \A cb \in fs : Covers(cb, r.id, j) => Product(cs[<<cb.x, cb.xAt>>], cb.w) = v

\* The scratch buffers are told apart, and the bump offsets are beyond all that
\* is in use of them.
BuffersOK ==
    /\ scratch = [x |-> scratch.x, y |-> scratch.y]
    /\ scratch.x \in BufferType /\ scratch.y \in BufferType
    /\ scratch.x.id # scratch.y.id
    /\ scratch.x.id \notin retired /\ scratch.y.id \notin retired
    /\ retired \subseteq Nat /\ IsFiniteSet(retired)

\* The part cb reads a cell of an activation buffer and writes a result buffer.
PartOK(cb) ==
    /\ cb \in PartType
    /\ cb.x \in {scratch.x.id} \cup retired /\ cb.y \in {scratch.y.id} \cup retired
    /\ <<cb.x, cb.xAt>> \in DOMAIN cells
    /\ phase # "wait" =>
           /\ cb.x = scratch.x.id => cb.xAt < scratch.x.off
           /\ cb.y = scratch.y.id => cb.from + cb.count <= scratch.y.off

\* No committed part reads a buffer another one writes.
FlyingOK ==
    /\ \A cb \in flying : PartOK(cb)
    /\ \A cb, db \in flying : cb.x # db.y

\* What is owed to r.dst is where r says, or on its way there.
OwingOK(r) ==
    /\ r \in ReadBackType /\ r.id \in {scratch.y.id} \cup retired
    /\ r.dst \in 1..Len(prog) /\ r.dst <= pc
    /\ Filled(r, want[r.dst], cells, flying)

\* The deferred results are of earlier statements and below the bump offset.
OwedOK ==
    /\ readBacks \in Seq(ReadBackType)
    /\ \A k \in DOMAIN readBacks :
           /\ readBacks[k].dst < pc
           /\ readBacks[k].id = scratch.y.id =>
                  readBacks[k].at + readBacks[k].size <= scratch.y.off
    /\ \A r \in Owed : OwingOK(r)

\* The blocks, and the operand and result of the call being made.
BlocksOK ==
    /\ host = [b \in 0..Len(prog) |-> host[b]] /\ want = [b \in 0..Len(prog) |-> want[b]]
    /\ phase # "start" => want[pc] = Product(want[Stmt.a], Stmt.w)
    /\ phase = "issue" => ~OverlapsPending(Stmt.a)

\* Every resident weight is under its own key.
WeightsOK == \A r \in resident : r.w \in Weights /\ r.key = Key[r.w]

\* The inductive invariant.
Exact ==
    Scheduled /\ BuffersOK /\ FlyingOK /\ OwedOK /\ BlocksOK /\ WeightsOK /\ HostExact

\* The statement about to run.
LEMMA Statement ==
    ASSUME Scheduled, pc <= Len(prog)
    PROVE  /\ pc \in 1..Len(prog) /\ Len(prog) \in Nat
           /\ Stmt.a \in Nat /\ Stmt.a < pc /\ Stmt.a \in 0..Len(prog)
           /\ Stmt.w \in Weights /\ Stmt.xs \in Nat \ {0} /\ Stmt.ys \in Nat \ {0}
<1>1. prog \in Programs /\ pc \in Nat \ {0} /\ Len(prog) \in Nat
  BY Lengths DEF Scheduled
<1>2. pc \in 1..Len(prog)
  BY <1>1
<1>3. /\ prog \in Seq([kind : {"batched", "inline", "other"}, a : Nat, w : Weights,
                       xs : Nat \ {0}, ys : Nat \ {0}])
      /\ \A i \in 1..Len(prog) : prog[i].a < i
  BY <1>1, GpuAssumption
<1>4. prog[pc] \in [kind : {"batched", "inline", "other"}, a : Nat, w : Weights,
                    xs : Nat \ {0}, ys : Nat \ {0}]
  BY <1>2, <1>3, ElementOfSeq
<1>5. /\ Stmt.a \in Nat /\ Stmt.a < pc /\ Stmt.w \in Weights /\ Stmt.xs \in Nat \ {0}
      /\ Stmt.ys \in Nat \ {0}
  BY <1>2, <1>3, <1>4 DEF Stmt
<1>6. Stmt.a \in 0..Len(prog)
  BY <1>1, <1>2, <1>5
<1> QED BY <1>1, <1>2, <1>5, <1>6

\* All cells written, the result is gathered from them.
LEMMA Gathers ==
    ASSUME NEW r \in ReadBackType, r.id \in {scratch.x.id, scratch.y.id} \cup retired,
           NEW v, Filled(r, v, cells, {})
    PROVE  Gathered(r.id, r.at, r.size) = v
<1>1. r.at \in Nat /\ r.size \in Nat \ {0}
  BY DEF ReadBackType
<1>2. ASSUME NEW k \in 0..(r.size - 1)
      PROVE  CellAt(r.id, r.at + k) = v
  <2>1. r.at + k \in r.at..(r.at + r.size - 1)
    BY <1>1
  <2> QED BY <2>1 DEF Filled, CellAt
<1>3. {CellAt(r.id, r.at + k) : k \in 0..(r.size - 1)} = {v}
  <2>1. 0 \in 0..(r.size - 1)
    BY <1>1
  <2> QED BY <1>2, <2>1
<1>4. Cardinality({v}) = 1
  BY FS_Singleton
<1>5. Gathered(r.id, r.at, r.size) = CHOOSE u \in {v} : TRUE
  BY <1>3, <1>4 DEF Gathered
<1> QED BY <1>5

\* When the device is done every block holds what it should.
LEMMA Materialises ==
    ASSUME Exact, flying = {}
    PROVE  /\ DOMAIN Materialised(host) = DOMAIN host
           /\ \A b \in 0..(pc - 1) : b \in DOMAIN host => Materialised(host)[b] = want[b]
<1>1. DOMAIN Materialised(host) = DOMAIN host
  BY DEF Materialised
<1>2. ASSUME NEW b \in 0..(pc - 1), b \in DOMAIN host
      PROVE  Materialised(host)[b] = want[b]
  <2>1. CASE ~OverlapsPending(b)
    BY <1>2, <2>1 DEF Materialised, Exact, HostExact
  <2>2. CASE OverlapsPending(b)
    <3> DEFINE P(k) == readBacks[k].dst = b /\ \A l \in DOMAIN readBacks :
                           readBacks[l].dst = b => l <= k
               K == {k \in DOMAIN readBacks : readBacks[k].dst = b}
               k == CHOOSE i \in DOMAIN readBacks : P(i)
    <3>1. Len(readBacks) \in Nat /\ DOMAIN readBacks = 1..Len(readBacks)
      BY LenProperties DEF Exact, OwedOK
    <3>2. IsFiniteSet(K) /\ K \subseteq Nat /\ K # {}
      <4>1. IsFiniteSet(1..Len(readBacks))
        BY <3>1, FS_Interval
      <4>2. IsFiniteSet(K)
        BY <3>1, <4>1, FS_Subset
      <4> QED BY <3>1, <4>2, <2>2 DEF OverlapsPending
    <3>3. \E i \in DOMAIN readBacks : P(i)
      <4>1. Max(K) \in K /\ \A l \in K : Max(K) >= l
        BY <3>2, Largest
      <4>2. P(Max(K))
        BY <4>1, <3>1
      <4> QED BY <4>1, <4>2
    <3>4. k \in DOMAIN readBacks /\ readBacks[k].dst = b
      BY <3>3
    <3>5. Materialised(host)[b] = Gathered(readBacks[k].id, readBacks[k].at, readBacks[k].size)
      BY <1>2, <2>2 DEF Materialised
    <3> HIDE DEF k
    <3>6. OwingOK(readBacks[k])
      BY <3>4 DEF Exact, OwedOK, Owed
    <3>7. Gathered(readBacks[k].id, readBacks[k].at, readBacks[k].size) = want[b]
      BY <3>4, <3>6, Gathers DEF OwingOK
    <3> QED BY <3>5, <3>7
  <2> QED BY <2>1, <2>2
<1> QED BY <1>1, <1>2

\* At first nothing is deferred and no part is committed.
LEMMA InitExact == Init => Exact
<1> SUFFICES ASSUME Init
             PROVE  Exact
  OBVIOUS
<1>1. Len(prog) \in Nat /\ InitCap \in Nat
  BY Lengths, GpuAssumption DEF Init
<1>2. BuffersOK
  <2>1. IsFiniteSet({})
    BY FS_EmptySet
  <2> QED BY <1>1, <2>1 DEF Init, BuffersOK, BufferType
<1>3. FlyingOK /\ WeightsOK
  BY DEF Init, FlyingOK, WeightsOK
<1>4. OwedOK
  <2>1. Owed = {} /\ readBacks = <<>> /\ DOMAIN readBacks = {}
    BY DEF Init, Owed
  <2> QED BY <2>1 DEF OwedOK
<1>5. BlocksOK /\ HostExact
  <2>1. host = [b \in 0..Len(prog) |-> host[b]] /\ want = host
    BY DEF Init
  <2> QED BY <1>1, <2>1 DEF Init, BlocksOK, HostExact
<1> QED BY <1>2, <1>3, <1>4, <1>5, InitScheduled DEF Exact

\* A step that leaves the device alone, and what was wanted of the statements
\* that have run, leaves the deferred work as it was.
LEMMA DeviceKept ==
    ASSUME Exact, UNCHANGED device, prog' = prog, pc' \in Nat, pc' >= pc,
           phase # "wait", phase' # "wait",
           \A b \in 0..(pc - 1) : want'[b] = want[b]
    PROVE  BuffersOK' /\ FlyingOK' /\ OwedOK' /\ WeightsOK'
<1>1. /\ scratch' = scratch /\ cells' = cells /\ retired' = retired
      /\ readBacks' = readBacks /\ flying' = flying /\ resident' = resident
  BY DEF device
<1>2. BuffersOK' /\ WeightsOK'
  BY <1>1 DEF Exact, BuffersOK, WeightsOK
<1>3. FlyingOK'
  <2>1. ASSUME NEW cb \in flying
        PROVE  PartOK(cb)'
    BY <1>1 DEF Exact, FlyingOK, PartOK
  <2> QED BY <1>1, <2>1 DEF Exact, FlyingOK
<1>4. OwedOK'
  <2>1. Owed' = Owed /\ Owed = {readBacks[k] : k \in DOMAIN readBacks}
    BY <1>1 DEF Owed
  <2>2. ASSUME NEW k \in DOMAIN readBacks
        PROVE  OwingOK(readBacks[k])'
    <3>1. PICK r : r = readBacks[k]
      OBVIOUS
    <3>2. r \in Owed /\ r.dst < pc
      BY <2>1, <3>1 DEF Exact, OwedOK
    <3>3. OwingOK(r)
      BY <3>2 DEF Exact, OwedOK
    <3>4. pc \in Nat /\ r.dst \in Nat
      BY <3>3 DEF Exact, Scheduled, OwingOK, ReadBackType
    <3>5. want'[r.dst] = want[r.dst]
      BY <3>2, <3>4
    <3>6. Filled(r, want'[r.dst], cells', flying')
      BY <1>1, <3>3, <3>5 DEF OwingOK
    <3>7. r.dst <= pc'
      BY <3>2, <3>4
    <3>8. OwingOK(r)'
      BY <1>1, <3>3, <3>6, <3>7 DEF OwingOK
    <3> QED BY <1>1, <3>1, <3>8
  <2>3. ASSUME NEW k \in DOMAIN readBacks
        PROVE  readBacks[k].dst < pc'
    <3>1. readBacks[k].dst < pc /\ pc \in Nat
      BY DEF Exact, OwedOK, Scheduled
    <3>2. readBacks[k].dst \in Nat
      BY <2>1 DEF Exact, OwedOK, OwingOK, ReadBackType
    <3> QED BY <3>1, <3>2
  <2>4. \A r \in Owed' : OwingOK(r)'
    BY <1>1, <2>1, <2>2
  <2> QED BY <1>1, <2>3, <2>4 DEF Exact, OwedOK
<1> QED BY <1>2, <1>3, <1>4

\* A flush leaves nothing deferred.
LEMMA DeviceReleased ==
    ASSUME Exact, Released, UNCHANGED <<cells, flying, resident>>, flying = {},
           phase' # "wait"
    PROVE  BuffersOK' /\ FlyingOK' /\ OwedOK' /\ WeightsOK' /\ readBacks' = <<>>
<1>1. readBacks' = <<>> /\ retired' = {} /\ DOMAIN readBacks' = {}
  BY DEF Released
<1>2. BuffersOK'
  <2>1. scratch' = [x |-> [scratch.x EXCEPT !.off = 0], y |-> [scratch.y EXCEPT !.off = 0]]
    BY DEF Released, Exact, BuffersOK
  <2>2. IsFiniteSet({})
    BY FS_EmptySet
  <2> QED BY <1>1, <2>1, <2>2 DEF Exact, BuffersOK, BufferType
<1>3. FlyingOK' /\ WeightsOK'
  BY DEF Exact, FlyingOK, WeightsOK
<1>4. Owed' = {}
  BY <1>1 DEF Owed
<1>5. OwedOK'
  BY <1>1, <1>4 DEF OwedOK
<1> QED BY <1>1, <1>2, <1>3, <1>5

\* The blocks h hold what the statements that have run were to compute.
Holds(h) == \A b \in 0..(pc - 1) : h[b] = want[b]

\* A statement computed from blocks that hold what they should leaves its own so.
LEMMA StatementDone ==
    ASSUME Exact, pc <= Len(prog), NEW h, DOMAIN h = DOMAIN host, Holds(h),
           host' = Computed(h), want' = Wanted, prog' = prog, NextStatement
    PROVE  BlocksOK' /\ HostExact'
<1>1. /\ pc \in 1..Len(prog) /\ Len(prog) \in Nat /\ Stmt.a \in Nat /\ Stmt.a < pc
      /\ Stmt.a \in 0..(pc - 1)
  <2>1. pc \in 1..Len(prog) /\ Len(prog) \in Nat /\ Stmt.a \in Nat /\ Stmt.a < pc
    BY Statement DEF Exact
  <2> QED BY <2>1
<1>2. DOMAIN host = 0..Len(prog) /\ DOMAIN want = 0..Len(prog)
  BY DEF Exact, BlocksOK
<1>3. pc \in DOMAIN h /\ pc \in DOMAIN want
  BY <1>1, <1>2
<1>4. PICK v : v = Product(want[Stmt.a], Stmt.w)
  OBVIOUS
<1>5. h[Stmt.a] = want[Stmt.a]
  BY <1>1 DEF Holds
<1>6. host' = [h EXCEPT ![pc] = v] /\ want' = [want EXCEPT ![pc] = v]
  BY <1>4, <1>5 DEF Computed, Wanted
<1>7. /\ host' = [b \in 0..Len(prog) |-> host'[b]]
      /\ want' = [b \in 0..Len(prog) |-> want'[b]]
  <2>1. DOMAIN h = 0..Len(prog)
    BY <1>2
  <2>2. host' = [b \in 0..Len(prog) |-> IF b = pc THEN v ELSE h[b]]
    BY <1>6, <2>1
  <2>3. want' = [b \in 0..Len(prog) |-> IF b = pc THEN v ELSE want[b]]
    BY <1>6, <1>2
  <2> QED BY <2>2, <2>3
<1>8. ASSUME NEW b \in 0..pc
      PROVE  host'[b] = want'[b]
  <2>1. CASE b = pc
    BY <1>3, <1>6, <2>1
  <2>2. CASE b # pc
    <3>1. b \in 0..(pc - 1) /\ b \in DOMAIN h /\ b \in DOMAIN want
      BY <1>1, <1>2, <2>2
    <3> QED BY <1>6, <2>2, <3>1 DEF Holds
  <2> QED BY <2>1, <2>2
<1>9. BlocksOK'
  BY <1>7 DEF BlocksOK, NextStatement
<1>10. HostExact'
  <2>1. pc' - 1 = pc
    BY <1>1 DEF NextStatement
  <2> QED BY <1>8, <2>1 DEF HostExact
<1> QED BY <1>9, <1>10

\* With nothing deferred every block holds what it should.
LEMMA NothingDeferred ==
    ASSUME Exact, readBacks = <<>>
    PROVE  Holds(host)
<1>1. \A b : ~OverlapsPending(b)
  BY DEF OverlapsPending
<1> QED BY <1>1 DEF Exact, HostExact, Holds

\* And after the copies of a flush.
LEMMA CopiesMade ==
    ASSUME Exact, pc <= Len(prog), flying = {}
    PROVE  DOMAIN Materialised(host) = DOMAIN host /\ Holds(Materialised(host))
<1>1. pc \in 1..Len(prog) /\ Len(prog) \in Nat
  BY Statement DEF Exact
<1>2. DOMAIN host = 0..Len(prog)
  BY DEF Exact, BlocksOK
<1>3. \A b \in 0..(pc - 1) : b \in DOMAIN host
  BY <1>1, <1>2
<1> QED BY <1>3, Materialises DEF Holds

\* Entering a statement changes what is wanted of no earlier one.
LEMMA WantedKept ==
    ASSUME Scheduled, pc <= Len(prog), want' = Wanted,
           want = [b \in 0..Len(prog) |-> want[b]]
    PROVE  \A b \in 0..(pc - 1) : want'[b] = want[b]
<1>1. pc \in 1..Len(prog) /\ Len(prog) \in Nat
  BY Statement
<1>2. ASSUME NEW b \in 0..(pc - 1)
      PROVE  want'[b] = want[b]
  <2>1. b \in DOMAIN want /\ b # pc
    BY <1>1
  <2> QED BY <2>1 DEF Wanted
<1> QED BY <1>2

\* Overwriting a slice writes its cells, and no others.
LEMMA SliceOverwritten ==
    ASSUME NEW id, NEW at \in Int, NEW count \in Int, NEW v,
           NEW now, now = Overwritten(id, at, count, v)
    PROVE  /\ \A c \in DOMAIN cells : c \in DOMAIN now
           /\ \A o, j : o # id => /\ <<o, j>> \in DOMAIN now <=> <<o, j>> \in DOMAIN cells
                                  /\ <<o, j>> \in DOMAIN cells =>
                                         now[<<o, j>>] = cells[<<o, j>>]
           /\ \A j \in Int : IF at <= j /\ j < at + count
                             THEN <<id, j>> \in DOMAIN now /\ now[<<id, j>>] = v
                             ELSE /\ <<id, j>> \in DOMAIN now <=> <<id, j>> \in DOMAIN cells
                                  /\ <<id, j>> \in DOMAIN cells =>
                                         now[<<id, j>>] = cells[<<id, j>>]
<1>1. PICK S : S = {<<id, at + k>> : k \in 0..(count - 1)}
  OBVIOUS
<1>2. now = [c \in S \cup DOMAIN cells |-> IF c \in S THEN v ELSE cells[c]]
  BY <1>1 DEF Overwritten
<1>3. /\ DOMAIN now = S \cup DOMAIN cells
      /\ \A c \in S : now[c] = v
      /\ \A c \in DOMAIN cells : c \notin S => now[c] = cells[c]
  BY <1>2
<1>4. \A o, j : o # id => <<o, j>> \notin S
  BY <1>1
<1>5. ASSUME NEW j \in Int
      PROVE  <<id, j>> \in S <=> at <= j /\ j < at + count
  <2>1. ASSUME <<id, j>> \in S
        PROVE  at <= j /\ j < at + count
    <3>1. PICK k \in 0..(count - 1) : <<id, j>> = <<id, at + k>>
      BY <1>1, <2>1
    <3> QED BY <3>1
  <2>2. ASSUME at <= j, j < at + count
        PROVE  <<id, j>> \in S
    <3>1. PICK k \in Int : k = j - at
      OBVIOUS
    <3>2. k \in 0..(count - 1) /\ at + k = j
      BY <2>2, <3>1
    <3> QED BY <1>1, <3>2
  <2> QED BY <2>1, <2>2
<1> QED BY <1>3, <1>4, <1>5

\* The statements whose kernels read the blocks themselves.
LEMMA KernelExact == Exact /\ (CpuCall \/ InlineKernel \/ OtherStatement) => Exact'
<1> SUFFICES ASSUME Exact, CpuCall \/ InlineKernel \/ OtherStatement
             PROVE  Exact'
  OBVIOUS
<1>1. /\ prog' = prog /\ hasDevice' = hasDevice /\ phase = "start" /\ pc <= Len(prog)
      /\ want' = Wanted /\ NextStatement /\ pc' = pc + 1 /\ phase' = "start"
  BY DEF CpuCall, InlineKernel, OtherStatement, compiled, NextStatement
<1>2. Scheduled'
  BY StepScheduled DEF Exact, Next
<1>3. pc' \in Nat /\ pc' >= pc
  BY <1>1 DEF Exact, Scheduled
<1>4. \A b \in 0..(pc - 1) : want'[b] = want[b]
  BY <1>1, WantedKept DEF Exact, BlocksOK
<1>5. CASE InlineKernel /\ deferPending /\ hasDevice
  <2>1. /\ flying = {} /\ host' = Computed(Materialised(host)) /\ Released
        /\ UNCHANGED <<cells, flying, resident>>
    BY <1>5 DEF InlineKernel
  <2>2. BuffersOK' /\ FlyingOK' /\ OwedOK' /\ WeightsOK'
    BY <1>1, <2>1, DeviceReleased
  <2>3. PICK h : h = Materialised(host)
    OBVIOUS
  <2>4. DOMAIN h = DOMAIN host /\ Holds(h) /\ host' = Computed(h)
    BY <1>1, <2>1, <2>3, CopiesMade
  <2>5. BlocksOK' /\ HostExact'
    BY <1>1, <2>4, StatementDone
  <2> QED BY <1>2, <2>2, <2>5 DEF Exact
<1>6. CASE ~(InlineKernel /\ deferPending /\ hasDevice)
  <2>1. readBacks = <<>>
    <3>1. CASE CpuCall
      BY <3>1 DEF CpuCall, Exact, Scheduled, Deferred
    <3>2. CASE InlineKernel
      BY <1>1, <1>6, <3>2 DEF Exact, Scheduled, Deferred
    <3>3. CASE OtherStatement
      <4>1. ~Candidate(pc)
        BY <3>3 DEF OtherStatement, Stmt, Candidate
      <4> QED BY <1>1, <4>1 DEF Exact, Scheduled, Deferred
    <3> QED BY <3>1, <3>2, <3>3
  <2>2. host' = Computed(host) /\ UNCHANGED device
    BY <1>6 DEF CpuCall, InlineKernel, OtherStatement, device
  <2>3. BuffersOK' /\ FlyingOK' /\ OwedOK' /\ WeightsOK'
    BY <1>1, <1>3, <1>4, <2>2, DeviceKept
  <2>4. Holds(host)
    BY <2>1, NothingDeferred
  <2>5. BlocksOK' /\ HostExact'
    BY <1>1, <2>2, <2>4, StatementDone
  <2> QED BY <1>2, <2>3, <2>5 DEF Exact
<1> QED BY <1>5, <1>6

\* A call that enters the runtime finds its operand in the forge, by a flush if need be.
LEMMA EnterExact == Exact /\ EnterCall => Exact'
<1> SUFFICES ASSUME Exact, EnterCall
             PROVE  Exact'
  OBVIOUS
<1>1. /\ prog' = prog /\ phase = "start" /\ pc <= Len(prog) /\ pc' = pc
      /\ want' = Wanted /\ phase' = "issue"
      /\ UNCHANGED <<cells, flying, resident>>
  BY DEF EnterCall, compiled
<1>2. Scheduled'
  BY StepScheduled DEF Exact, Next
<1>3. /\ pc \in 1..Len(prog) /\ Len(prog) \in Nat /\ Stmt.a \in Nat /\ Stmt.a < pc
      /\ Stmt.a \in 0..(pc - 1)
  <2>1. pc \in 1..Len(prog) /\ Len(prog) \in Nat /\ Stmt.a \in Nat /\ Stmt.a < pc
    BY <1>1, Statement DEF Exact
  <2> QED BY <2>1
<1>4. \A b \in 0..(pc - 1) : want'[b] = want[b]
  BY <1>1, WantedKept DEF Exact, BlocksOK
<1>5. want = [b \in 0..Len(prog) |-> want[b]] /\ host = [b \in 0..Len(prog) |-> host[b]]
  BY DEF Exact, BlocksOK
<1>6. PICK v : v = Product(want[Stmt.a], Stmt.w)
  OBVIOUS
<1>7. /\ want' = [b \in 0..Len(prog) |-> IF b = pc THEN v ELSE want[b]]
      /\ want' = [b \in 0..Len(prog) |-> want'[b]]
  <2>1. want' = [b \in 0..Len(prog) |-> IF b = pc THEN v ELSE want[b]]
    BY <1>1, <1>5, <1>6 DEF Wanted
  <2> QED BY <2>1
<1>8. want'[pc] = v /\ Stmt' = Stmt /\ want'[Stmt.a] = want[Stmt.a]
  BY <1>1, <1>3, <1>4, <1>7 DEF Stmt
<1>9. (want[pc] = Product(want[Stmt.a], Stmt.w))'
  BY <1>1, <1>6, <1>8
<1>10. CASE OverlapsPending(Stmt.a) \/ OverlapsPending(pc)
  <2>1. flying = {} /\ host' = Materialised(host) /\ Released
    BY <1>10 DEF EnterCall
  <2>2. BuffersOK' /\ FlyingOK' /\ OwedOK' /\ WeightsOK' /\ readBacks' = <<>>
    BY <1>1, <2>1, DeviceReleased
  <2>3. PICK h : h = Materialised(host)
    OBVIOUS
  <2>4. DOMAIN h = DOMAIN host /\ Holds(h) /\ host' = h
    BY <1>1, <2>1, <2>3, CopiesMade
  <2>5. host' = [b \in 0..Len(prog) |-> host'[b]]
    <3>1. host' = [b \in 0..Len(prog) |-> h[b]]
      BY <1>5, <2>1, <2>3 DEF Materialised
    <3> QED BY <3>1
  <2>6. HostExact'
    BY <1>1, <1>4, <2>4 DEF HostExact, Holds
  <2>7. ~OverlapsPending(Stmt.a)'
    BY <2>2 DEF OverlapsPending
  <2>8. BlocksOK'
    BY <1>1, <1>7, <1>9, <2>5, <2>7 DEF BlocksOK
  <2> QED BY <1>2, <2>2, <2>6, <2>8 DEF Exact
<1>11. CASE ~(OverlapsPending(Stmt.a) \/ OverlapsPending(pc))
  <2>1. host' = host /\ readBacks' = readBacks /\ UNCHANGED device
    BY <1>1, <1>11 DEF EnterCall, device
  <2>2. BuffersOK' /\ FlyingOK' /\ OwedOK' /\ WeightsOK'
    <3>1. pc \in Nat /\ pc >= pc
      BY <1>3
    <3> QED BY <1>1, <1>4, <2>1, <3>1, DeviceKept
  <2>3. \A b : OverlapsPending(b)' <=> OverlapsPending(b)
    BY <2>1 DEF OverlapsPending
  <2>4. HostExact'
    BY <1>1, <1>4, <2>1, <2>3 DEF HostExact, Exact
  <2>5. ~OverlapsPending(Stmt.a)'
    BY <1>8, <1>11, <2>1 DEF OverlapsPending
  <2>6. BlocksOK'
    BY <1>1, <1>5, <1>7, <1>9, <2>1, <2>5 DEF BlocksOK
  <2> QED BY <1>2, <2>2, <2>4, <2>6 DEF Exact
<1> QED BY <1>10, <1>11

\* The call that waits copies what was deferred, and then its own result.
LEMMA CompleteExact == Exact /\ Complete => Exact'
<1> SUFFICES ASSUME Exact, Complete
             PROVE  Exact'
  OBVIOUS
<1>1. /\ prog' = prog /\ phase = "wait" /\ flying = {} /\ pc' = pc + 1 /\ phase' = "start"
      /\ want' = want /\ Released /\ UNCHANGED <<cells, flying, resident>>
  BY DEF Complete, compiled, NextStatement
<1>2. Scheduled'
  BY StepScheduled DEF Exact, Next
<1>3. BuffersOK' /\ FlyingOK' /\ OwedOK' /\ WeightsOK'
  BY <1>1, DeviceReleased
<1>4. pc <= Len(prog)
  BY <1>1 DEF Exact, Scheduled
<1>5. pc \in 1..Len(prog) /\ Len(prog) \in Nat
  BY <1>4, Statement DEF Exact
<1>6. PICK h : h = Materialised(host)
  OBVIOUS
<1>7. DOMAIN h = DOMAIN host /\ Holds(h)
  BY <1>1, <1>4, <1>6, CopiesMade
<1>8. OwingOK(Own)
  BY <1>1 DEF Exact, OwedOK, Owed
<1>9. PICK r : r = Own
  OBVIOUS
<1>10. Gathered(r.id, r.at, r.size) = want[pc]
  <2>1. r.dst = pc
    BY <1>9 DEF Own
  <2> QED BY <1>1, <1>8, <1>9, <2>1, Gathers DEF OwingOK
<1>11. host' = [h EXCEPT ![pc] = want[pc]]
  BY <1>6, <1>9, <1>10 DEF Complete, Own
<1>12. DOMAIN h = 0..Len(prog)
  BY <1>7 DEF Exact, BlocksOK
<1>13. host' = [b \in 0..Len(prog) |-> IF b = pc THEN want[pc] ELSE h[b]]
  BY <1>11, <1>12
<1>14. BlocksOK'
  BY <1>1, <1>13 DEF BlocksOK, Exact
<1>15. HostExact'
  <2>1. ASSUME NEW b \in 0..pc
        PROVE  host'[b] = want[b]
    <3>1. b \in 0..Len(prog)
      BY <1>5
    <3>2. CASE b = pc
      BY <1>13, <3>1, <3>2
    <3>3. CASE b # pc
      <4>1. b \in 0..(pc - 1)
        BY <1>5, <3>3
      <4> QED BY <1>7, <1>13, <3>1, <3>3, <4>1 DEF Holds
    <3> QED BY <3>2, <3>3
  <2>2. pc' - 1 = pc
    BY <1>1, <1>5
  <2> QED BY <1>1, <2>1, <2>2 DEF HostExact
<1> QED BY <1>2, <1>3, <1>14, <1>15 DEF Exact

\* A part writes its slice from an activation no later call has overwritten, and
\* nothing it does not own.
LEMMA PartExact == \A cb \in flying : Exact /\ GpuCompletes(cb) => Exact'
<1> SUFFICES ASSUME NEW cb \in flying, Exact, GpuCompletes(cb)
             PROVE  Exact'
  OBVIOUS
<1>1. /\ flying' = flying \ {cb} /\ prog' = prog /\ pc' = pc /\ phase' = phase
      /\ host' = host /\ want' = want /\ scratch' = scratch /\ retired' = retired
      /\ readBacks' = readBacks /\ resident' = resident
  BY DEF GpuCompletes, compiled
<1>2. Scheduled'
  BY StepScheduled DEF Exact, Next
<1>3. BuffersOK' /\ WeightsOK' /\ BlocksOK' /\ HostExact'
  BY <1>1 DEF Exact, BuffersOK, WeightsOK, BlocksOK, HostExact, OverlapsPending, Stmt
<1>4. cb \in PartType /\ cb.from \in Nat /\ cb.count \in Int
  BY DEF Exact, FlyingOK, PartOK, PartType
<1>5. PICK p : p = Product(cells[<<cb.x, cb.xAt>>], cb.w)
  OBVIOUS
<1>6. cells' = Overwritten(cb.y, cb.from, cb.count, p)
  BY <1>5 DEF GpuCompletes
<1>7. /\ \A c \in DOMAIN cells : c \in DOMAIN cells'
      /\ \A o, j : o # cb.y => /\ <<o, j>> \in DOMAIN cells' <=> <<o, j>> \in DOMAIN cells
                               /\ <<o, j>> \in DOMAIN cells =>
                                      cells'[<<o, j>>] = cells[<<o, j>>]
      /\ \A j \in Int : IF cb.from <= j /\ j < cb.from + cb.count
                        THEN <<cb.y, j>> \in DOMAIN cells' /\ cells'[<<cb.y, j>>] = p
                        ELSE /\ <<cb.y, j>> \in DOMAIN cells' <=> <<cb.y, j>> \in DOMAIN cells
                             /\ <<cb.y, j>> \in DOMAIN cells =>
                                    cells'[<<cb.y, j>>] = cells[<<cb.y, j>>]
  <2>1. PICK now : now = cells'
    OBVIOUS
  <2>2. PICK at \in Int : at = cb.from
    BY <1>4
  <2>3. PICK count \in Int : count = cb.count
    BY <1>4
  <2>4. PICK id : id = cb.y
    OBVIOUS
  <2>5. now = Overwritten(id, at, count, p)
    BY <1>6, <2>1, <2>2, <2>3, <2>4
  <2>6. /\ \A c \in DOMAIN cells : c \in DOMAIN now
        /\ \A o, j : o # id => /\ <<o, j>> \in DOMAIN now <=> <<o, j>> \in DOMAIN cells
                               /\ <<o, j>> \in DOMAIN cells =>
                                      now[<<o, j>>] = cells[<<o, j>>]
        /\ \A j \in Int : IF at <= j /\ j < at + count
                          THEN <<id, j>> \in DOMAIN now /\ now[<<id, j>>] = p
                          ELSE /\ <<id, j>> \in DOMAIN now <=> <<id, j>> \in DOMAIN cells
                               /\ <<id, j>> \in DOMAIN cells =>
                                      now[<<id, j>>] = cells[<<id, j>>]
    BY <2>5, SliceOverwritten
  <2>7. \A c \in DOMAIN cells : c \in DOMAIN cells'
    BY <2>1, <2>6
  <2>8. \A o, j : o # cb.y => /\ <<o, j>> \in DOMAIN cells' <=> <<o, j>> \in DOMAIN cells
                              /\ <<o, j>> \in DOMAIN cells =>
                                     cells'[<<o, j>>] = cells[<<o, j>>]
    BY <2>1, <2>4, <2>6
  <2>9. \A j \in Int : IF cb.from <= j /\ j < cb.from + cb.count
                       THEN <<cb.y, j>> \in DOMAIN cells' /\ cells'[<<cb.y, j>>] = p
                       ELSE /\ <<cb.y, j>> \in DOMAIN cells' <=> <<cb.y, j>> \in DOMAIN cells
                            /\ <<cb.y, j>> \in DOMAIN cells =>
                                   cells'[<<cb.y, j>>] = cells[<<cb.y, j>>]
    BY <2>1, <2>2, <2>3, <2>4, <2>6
  <2> QED BY <2>7, <2>8, <2>9
<1>8. ASSUME NEW id, NEW j \in Nat
      PROVE  /\ Covers(cb, id, j) => <<id, j>> \in DOMAIN cells' /\ cells'[<<id, j>>] = p
             /\ ~Covers(cb, id, j) /\ <<id, j>> \in DOMAIN cells =>
                    <<id, j>> \in DOMAIN cells' /\ cells'[<<id, j>>] = cells[<<id, j>>]
  <2>1. CASE id = cb.y
    BY <1>7, <2>1 DEF Covers
  <2>2. CASE id # cb.y
    BY <1>7, <2>2 DEF Covers
  <2> QED BY <2>1, <2>2
<1>10. ASSUME NEW db \in flying
       PROVE  /\ <<db.x, db.xAt>> \in DOMAIN cells
              /\ cells'[<<db.x, db.xAt>>] = cells[<<db.x, db.xAt>>]
  <2>1. <<db.x, db.xAt>> \in DOMAIN cells /\ db.x # cb.y
    BY DEF Exact, FlyingOK, PartOK
  <2> QED BY <1>7, <2>1
<1>11. FlyingOK'
  <2>1. ASSUME NEW db \in flying
        PROVE  PartOK(db)'
    BY <1>1, <1>7, <1>10 DEF Exact, FlyingOK, PartOK
  <2> QED BY <1>1, <2>1 DEF Exact, FlyingOK
<1>12. ASSUME NEW r \in ReadBackType, NEW v, Filled(r, v, cells, flying)
       PROVE  Filled(r, v, cells', flying')
  <2> SUFFICES ASSUME NEW j \in r.at..(r.at + r.size - 1)
               PROVE  /\ \/ <<r.id, j>> \in DOMAIN cells' /\ cells'[<<r.id, j>>] = v
                         \/ \E db \in flying' : Covers(db, r.id, j)
                      /\ \A db \in flying' : Covers(db, r.id, j) =>
                             Product(cells'[<<db.x, db.xAt>>], db.w) = v
    BY DEF Filled
  <2>1. j \in Nat
    BY DEF ReadBackType
  <2>2. /\ \/ <<r.id, j>> \in DOMAIN cells /\ cells[<<r.id, j>>] = v
           \/ \E db \in flying : Covers(db, r.id, j)
        /\ \A db \in flying : Covers(db, r.id, j) => Product(cells[<<db.x, db.xAt>>], db.w) = v
    BY <1>12 DEF Filled
  <2>3. \/ <<r.id, j>> \in DOMAIN cells' /\ cells'[<<r.id, j>>] = v
        \/ \E db \in flying' : Covers(db, r.id, j)
    <3>1. CASE Covers(cb, r.id, j)
      BY <1>5, <1>8, <2>1, <2>2, <3>1
    <3>2. CASE ~Covers(cb, r.id, j)
      BY <1>1, <1>8, <2>1, <2>2, <3>2
    <3> QED BY <3>1, <3>2
  <2>4. ASSUME NEW db \in flying', Covers(db, r.id, j)
        PROVE  Product(cells'[<<db.x, db.xAt>>], db.w) = v
    BY <1>1, <1>10, <2>2, <2>4
  <2> QED BY <2>3, <2>4
<1>13. OwedOK'
  <2>1. Owed' = Owed
    BY <1>1 DEF Owed, Own, Stmt
  <2>2. ASSUME NEW r \in Owed
        PROVE  OwingOK(r)'
    <3>1. OwingOK(r)
      BY DEF Exact, OwedOK
    <3>2. Filled(r, want[r.dst], cells', flying')
      BY <1>12, <3>1 DEF OwingOK
    <3> QED BY <1>1, <3>1, <3>2 DEF OwingOK
  <2> QED BY <1>1, <2>1, <2>2 DEF Exact, OwedOK
<1> QED BY <1>2, <1>3, <1>11, <1>13 DEF Exact

\* The weight a call is given is the one it names.
LEMMA WeightFound ==
    ASSUME WeightsOK, Upload, Stmt.w \in Weights
    PROVE  WeightsOK' /\ WeightOf = Stmt.w
<1>1. PICK new : new = [key |-> Key[Stmt.w], w |-> Stmt.w]
  OBVIOUS
<1>2. new \in resident' /\ \A r \in resident' : r \in resident \/ r = new
  BY <1>1 DEF Upload
<1>3. new.w = Stmt.w /\ new.key = Key[Stmt.w]
  BY <1>1
<1>4. \A r \in resident' : r.w \in Weights /\ r.key = Key[r.w]
  BY <1>2, <1>3 DEF WeightsOK
<1>5. PICK f : f = CHOOSE r \in resident' : r.key = Key[Stmt.w]
  OBVIOUS
<1>6. f \in resident' /\ f.key = Key[Stmt.w]
  BY <1>2, <1>3, <1>5
<1>7. f.w = Stmt.w
  BY <1>4, <1>6, GpuAssumption
<1>8. WeightsOK'
  BY <1>4 DEF WeightsOK
<1> QED BY <1>5, <1>7, <1>8 DEF WeightOf

\* A new buffer has a number no live one has.
LEMMA FreshNumber ==
    ASSUME BuffersOK
    PROVE  /\ Fresh \in Nat
           /\ \A i \in {scratch.x.id, scratch.y.id} \cup retired : i \in Nat /\ i < Fresh
<1>1. PICK I : I = {scratch.x.id, scratch.y.id} \cup retired
  OBVIOUS
<1>2. IsFiniteSet(I) /\ I \subseteq Nat /\ I # {}
  <2>1. IsFiniteSet({scratch.x.id}) /\ IsFiniteSet({scratch.y.id})
    BY FS_Singleton
  <2>2. I = ({scratch.x.id} \cup {scratch.y.id}) \cup retired
    BY <1>1
  <2>3. IsFiniteSet(I)
    BY <2>1, <2>2, FS_Union DEF BuffersOK
  <2> QED BY <1>1, <2>3 DEF BuffersOK, BufferType
<1>3. Max(I) \in I /\ \A i \in I : Max(I) >= i
  BY <1>2, Largest
<1>4. Fresh = 1 + Max(I)
  BY <1>1 DEF Fresh
<1>5. PICK m \in Nat : m = Max(I)
  BY <1>2, <1>3
<1>6. \A i \in I : i \in Nat /\ i <= m
  BY <1>2, <1>3, <1>5
<1>7. Fresh = 1 + m /\ 1 + m \in Nat
  BY <1>4, <1>5
<1> QED BY <1>1, <1>6, <1>7

\* A buffer made large enough keeps its number, or has the new one; it keeps its offset.
LEMMA BufferEnsured ==
    ASSUME NEW b \in BufferType, NEW bytes \in Nat, NEW id \in Nat, NEW e, e = Ensured(b, bytes, id)
    PROVE  e \in BufferType /\ e.off = b.off /\ e.id \in {b.id, id}
BY DEF Ensured, BufferType

\* What a call has issued: its activation at xB of buffer x, and the parts fs that
\* compute its result to yB on of buffer y.
Issued(x, xB, y, yB, fs) ==
    /\ x \in BufferType /\ x.off = scratch.x.off /\ x.id \in {scratch.x.id, Fresh}
    /\ y \in BufferType /\ y.off = scratch.y.off /\ y.id \in {scratch.y.id, Fresh + 1}
    /\ xB \in Nat /\ xB >= scratch.x.off /\ yB \in Nat /\ yB >= scratch.y.off
    /\ yB = AlignUp(scratch.y.off)
    /\ cells' = Overwritten(x.id, xB, Stmt.xs, host[Stmt.a])
    /\ retired' = retired \cup ({scratch.x.id, scratch.y.id} \ {x.id, y.id})
    /\ flying' = flying \cup fs
    /\ \A cb \in fs : /\ cb \in PartType /\ cb.x = x.id /\ cb.xAt = xB /\ cb.y = y.id
                      /\ cb.w = Stmt.w /\ cb.from >= yB /\ cb.from + cb.count <= yB + Stmt.ys
    /\ \A j \in 0..(Stmt.ys - 1) : \E cb \in fs : cb.from <= yB + j /\ yB + j < cb.from + cb.count
    /\ IF Defers
       THEN /\ readBacks' = Append(readBacks, [id |-> y.id, at |-> yB,
                                               size |-> Stmt.ys, dst |-> pc])
            /\ scratch' = [x |-> [x EXCEPT !.off = xB + Stmt.xs],
                           y |-> [y EXCEPT !.off = yB + Stmt.ys]]
            /\ NextStatement
       ELSE /\ scratch' = [x |-> x, y |-> y]
            /\ phase' = "wait" /\ pc' = pc /\ readBacks' = readBacks

\* Issue does issue that, in as many slices as it is split into.
LEMMA IssueIssues ==
    ASSUME Exact, Issue
    PROVE  \E x, xB, y, yB, fs : Issued(x, xB, y, yB, fs)
<1>0. /\ Stmt.w \in Weights /\ Stmt.xs \in Nat \ {0} /\ Stmt.ys \in Nat \ {0}
  BY Statement DEF Issue, Exact, Scheduled
<1>1. WeightOf = Stmt.w
  BY <1>0, WeightFound DEF Issue, Exact
<1>2. /\ scratch.x \in BufferType /\ scratch.y \in BufferType
      /\ scratch.x.off \in Nat /\ scratch.y.off \in Nat
  BY DEF Exact, BuffersOK, BufferType
<1>3. PICK xB : xB = AlignUp(scratch.x.off)
  OBVIOUS
<1>4. PICK yB : yB = AlignUp(scratch.y.off)
  OBVIOUS
<1>5. xB \in Nat /\ xB >= scratch.x.off /\ yB \in Nat /\ yB >= scratch.y.off
  BY <1>2, <1>3, <1>4, AlignedUp
<1>6. Fresh \in Nat
  BY FreshNumber DEF Exact
<1>7. PICK x : x = Ensured(scratch.x, xB + Stmt.xs, Fresh)
  OBVIOUS
<1>8. PICK y : y = Ensured(scratch.y, yB + Stmt.ys, Fresh + 1)
  OBVIOUS
<1>9. x \in BufferType /\ x.off = scratch.x.off /\ x.id \in {scratch.x.id, Fresh}
  <2>1. PICK bytes \in Nat : bytes = xB + Stmt.xs
    BY <1>0, <1>5
  <2>2. PICK id \in Nat : id = Fresh
    BY <1>6
  <2>3. PICK b \in BufferType : b = scratch.x
    BY <1>2
  <2>4. x = Ensured(b, bytes, id)
    BY <1>7, <2>1, <2>2, <2>3
  <2>5. x \in BufferType /\ x.off = b.off /\ x.id \in {b.id, id}
    BY <2>4, BufferEnsured
  <2> QED BY <2>2, <2>3, <2>5
<1>10. y \in BufferType /\ y.off = scratch.y.off /\ y.id \in {scratch.y.id, Fresh + 1}
  <2>1. PICK bytes \in Nat : bytes = yB + Stmt.ys
    BY <1>0, <1>5
  <2>2. PICK id \in Nat : id = Fresh + 1
    BY <1>6
  <2>3. PICK b \in BufferType : b = scratch.y
    BY <1>2
  <2>4. y = Ensured(b, bytes, id)
    BY <1>8, <2>1, <2>2, <2>3
  <2>5. y \in BufferType /\ y.off = b.off /\ y.id \in {b.id, id}
    BY <2>4, BufferEnsured
  <2> QED BY <2>2, <2>3, <2>5
<1>11. PICK n : n = (IF Parts <= Stmt.ys THEN Parts ELSE Stmt.ys)
  OBVIOUS
<1>12. n \in Nat \ {0} /\ n <= Stmt.ys
  BY <1>0, <1>11, GpuAssumption
<1>13. PICK s \in Nat \ {0} : s = Stmt.ys
  BY <1>0
<1>14. /\ \A i \in 0..n : (s * i) \div n \in Nat /\ (s * i) \div n <= s
       /\ \A j \in 0..(s - 1) : \E i \in 0..(n - 1) :
              (s * i) \div n <= j /\ j < (s * (i + 1)) \div n
  BY <1>12, <1>13, Slices
<1>15. PICK from : /\ \A i \in 0..n : from[i] = (s * i) \div n
                   /\ \A i \in 0..n : from[i] \in Nat /\ from[i] <= s
                   /\ \A j \in 0..(s - 1) : \E i \in 0..(n - 1) : from[i] <= j /\ j < from[i + 1]
  <2> DEFINE g == [i \in 0..n |-> (s * i) \div n]
  <2>1. \A i \in 0..n : g[i] = (s * i) \div n
    OBVIOUS
  <2>2. \A i \in 0..(n - 1) : i \in 0..n /\ i + 1 \in 0..n
    BY <1>12
  <2> HIDE DEF g
  <2> QED BY <1>14, <2>1, <2>2
<1>16. PICK fs : fs = {[x |-> x.id, xAt |-> xB, y |-> y.id, w |-> Stmt.w,
                        from |-> yB + from[i], count |-> from[i + 1] - from[i]] : i \in 0..(n - 1)}
  OBVIOUS
<1>17. flying' = flying \cup fs
  <2>1. flying' = flying \cup
           {[x |-> x.id, xAt |-> xB, y |-> y.id, w |-> WeightOf,
             from |-> yB + ((Stmt.ys * i) \div n),
             count |-> ((Stmt.ys * (i + 1)) \div n) - ((Stmt.ys * i) \div n)] : i \in 0..(n - 1)}
    BY <1>3, <1>4, <1>7, <1>8, <1>11 DEF Issue
  <2>2. \A i \in 0..(n - 1) : i \in 0..n /\ i + 1 \in 0..n
    BY <1>12
  <2>3. \A i \in 0..(n - 1) : /\ from[i] = (Stmt.ys * i) \div n
                              /\ from[i + 1] = (Stmt.ys * (i + 1)) \div n
    BY <1>13, <1>15, <2>2
  <2>4. {[x |-> x.id, xAt |-> xB, y |-> y.id, w |-> WeightOf,
          from |-> yB + ((Stmt.ys * i) \div n),
          count |-> ((Stmt.ys * (i + 1)) \div n) - ((Stmt.ys * i) \div n)] : i \in 0..(n - 1)} = fs
    BY <1>1, <1>16, <2>3
  <2> QED BY <2>1, <2>4
<1>18. ASSUME NEW cb \in fs
       PROVE  /\ cb \in PartType /\ cb.x = x.id /\ cb.xAt = xB /\ cb.y = y.id
              /\ cb.w = Stmt.w /\ cb.from >= yB /\ cb.from + cb.count <= yB + Stmt.ys
  <2>1. PICK i \in 0..(n - 1) :
            cb = [x |-> x.id, xAt |-> xB, y |-> y.id, w |-> Stmt.w,
                  from |-> yB + from[i], count |-> from[i + 1] - from[i]]
    BY <1>16
  <2>2. i \in 0..n /\ i + 1 \in 0..n
    BY <1>12
  <2>3. PICK f \in Nat : f = from[i]
    BY <1>15, <2>2
  <2>4. PICK g \in Nat : g = from[i + 1] /\ g <= s
    BY <1>15, <2>2
  <2>5. x.id \in Nat /\ y.id \in Nat
    BY <1>9, <1>10 DEF BufferType
  <2>6. cb = [x |-> x.id, xAt |-> xB, y |-> y.id, w |-> Stmt.w, from |-> yB + f, count |-> g - f]
    BY <2>1, <2>3, <2>4
  <2>7. cb.from = yB + f /\ cb.count = g - f /\ cb.from \in Nat /\ cb.count \in Int
    BY <1>5, <2>6
  <2>8. cb \in PartType
    BY <1>0, <1>5, <2>5, <2>6, <2>7 DEF PartType
  <2> QED BY <1>5, <1>13, <2>4, <2>6, <2>7, <2>8
<1>19. ASSUME NEW j \in 0..(Stmt.ys - 1)
       PROVE  \E cb \in fs : cb.from <= yB + j /\ yB + j < cb.from + cb.count
  <2>1. PICK i \in 0..(n - 1) : from[i] <= j /\ j < from[i + 1]
    BY <1>13, <1>15
  <2>2. i \in 0..n /\ i + 1 \in 0..n
    BY <1>12
  <2>3. from[i] \in Nat /\ from[i + 1] \in Nat
    BY <1>15, <2>2
  <2>4. PICK cb : cb = [x |-> x.id, xAt |-> xB, y |-> y.id, w |-> Stmt.w,
                        from |-> yB + from[i], count |-> from[i + 1] - from[i]]
    OBVIOUS
  <2>5. cb \in fs
    BY <1>16, <2>4
  <2>6. cb.from <= yB + j /\ yB + j < cb.from + cb.count
    BY <1>5, <2>1, <2>3, <2>4
  <2> QED BY <2>5, <2>6
<1>20. /\ cells' = Overwritten(x.id, xB, Stmt.xs, host[Stmt.a])
       /\ retired' = retired \cup ({scratch.x.id, scratch.y.id} \ {x.id, y.id})
       /\ IF Defers
          THEN /\ readBacks' = Append(readBacks, [id |-> y.id, at |-> yB,
                                                  size |-> Stmt.ys, dst |-> pc])
               /\ scratch' = [x |-> [x EXCEPT !.off = xB + Stmt.xs],
                              y |-> [y EXCEPT !.off = yB + Stmt.ys]]
               /\ NextStatement
          ELSE /\ scratch' = [x |-> x, y |-> y]
               /\ phase' = "wait" /\ pc' = pc /\ readBacks' = readBacks
  BY <1>3, <1>4, <1>7, <1>8 DEF Issue
<1>21. Issued(x, xB, y, yB, fs)
  BY <1>4, <1>5, <1>9, <1>10, <1>17, <1>18, <1>19, <1>20 DEF Issued
<1> QED BY <1>21

\* The buffers a call issues to, and those it leaves behind.
LEMMA IssuedBuffers ==
    ASSUME Exact, NEW x, NEW xB, NEW y, NEW yB, NEW fs, Issued(x, xB, y, yB, fs),
           Stmt.xs \in Nat \ {0}, Stmt.ys \in Nat \ {0}
    PROVE  /\ BuffersOK'
           /\ scratch'.x.id = x.id /\ scratch'.y.id = y.id
           /\ scratch'.x.off = (IF Defers THEN xB + Stmt.xs ELSE scratch.x.off)
           /\ scratch'.y.off = (IF Defers THEN yB + Stmt.ys ELSE scratch.y.off)
           /\ x.id # y.id
           /\ x.id \notin {scratch.y.id} \cup retired /\ y.id \notin {scratch.x.id} \cup retired
           /\ {scratch.x.id} \cup retired \subseteq {x.id} \cup retired'
           /\ {scratch.y.id} \cup retired \subseteq {y.id} \cup retired'
<1>1. PICK ox \in Nat : ox = scratch.x.id
  BY DEF Exact, BuffersOK, BufferType
<1>2. PICK oy \in Nat : oy = scratch.y.id
  BY DEF Exact, BuffersOK, BufferType
<1>3. PICK f \in Nat : f = Fresh /\ \A i \in {ox, oy} \cup retired : i \in Nat /\ i < f
  BY <1>1, <1>2, FreshNumber DEF Exact
<1>4. /\ x.id \in {ox, f} /\ y.id \in {oy, f + 1}
      /\ ox # oy /\ ox \notin retired /\ oy \notin retired
      /\ retired' = retired \cup ({ox, oy} \ {x.id, y.id})
  BY <1>1, <1>2, <1>3 DEF Issued, Exact, BuffersOK
<1>5. /\ f \notin {ox, oy} \cup retired /\ f + 1 \notin {ox, oy} \cup retired /\ f # f + 1
  BY <1>3
<1>6. /\ x.id # y.id /\ x.id \notin {oy} \cup retired /\ y.id \notin {ox} \cup retired
      /\ x.id \notin retired' /\ y.id \notin retired'
      /\ {ox} \cup retired \subseteq {x.id} \cup retired'
      /\ {oy} \cup retired \subseteq {y.id} \cup retired'
  BY <1>4, <1>5
<1>7. /\ x \in BufferType /\ y \in BufferType /\ xB \in Nat /\ yB \in Nat
      /\ x.off = scratch.x.off /\ y.off = scratch.y.off
  BY DEF Issued
<1>8. scratch' = [x |-> scratch'.x, y |-> scratch'.y]
  BY DEF Issued
<1>9. /\ scratch'.x \in BufferType /\ scratch'.x.id = x.id
      /\ scratch'.x.off = (IF Defers THEN xB + Stmt.xs ELSE scratch.x.off)
  <2>1. PICK at \in Nat : at = xB + Stmt.xs
    BY <1>7
  <2>2. scratch'.x = IF Defers THEN [x EXCEPT !.off = at] ELSE x
    <3>1. CASE Defers
      BY <2>1, <3>1 DEF Issued
    <3>2. CASE ~Defers
      BY <3>2 DEF Issued
    <3> QED BY <3>1, <3>2
  <2> QED BY <1>7, <2>1, <2>2 DEF BufferType
<1>10. /\ scratch'.y \in BufferType /\ scratch'.y.id = y.id
       /\ scratch'.y.off = (IF Defers THEN yB + Stmt.ys ELSE scratch.y.off)
  <2>1. PICK at \in Nat : at = yB + Stmt.ys
    BY <1>7
  <2>2. scratch'.y = IF Defers THEN [y EXCEPT !.off = at] ELSE y
    <3>1. CASE Defers
      BY <2>1, <3>1 DEF Issued
    <3>2. CASE ~Defers
      BY <3>2 DEF Issued
    <3> QED BY <3>1, <3>2
  <2> QED BY <1>7, <2>1, <2>2 DEF BufferType
<1>11. retired' \subseteq Nat /\ IsFiniteSet(retired')
  <2>1. IsFiniteSet({ox}) /\ IsFiniteSet({oy})
    BY FS_Singleton
  <2>2. IsFiniteSet({ox} \cup {oy})
    BY <2>1, FS_Union
  <2>3. {ox, oy} \ {x.id, y.id} \subseteq {ox} \cup {oy}
    OBVIOUS
  <2>4. IsFiniteSet({ox, oy} \ {x.id, y.id})
    BY <2>2, <2>3, FS_Subset
  <2>5. IsFiniteSet(retired')
    BY <1>4, <2>4, FS_Union DEF Exact, BuffersOK
  <2> QED BY <1>4, <2>5 DEF Exact, BuffersOK
<1>12. BuffersOK'
  BY <1>6, <1>8, <1>9, <1>10, <1>11 DEF BuffersOK
<1> QED BY <1>1, <1>2, <1>6, <1>9, <1>10, <1>12

\* The activation a call uploads overwrites none that a committed part has yet to
\* read, and no result.
LEMMA IssuedCells ==
    ASSUME Exact, phase = "issue", NEW x, NEW xB, NEW y, NEW yB, NEW fs, Issued(x, xB, y, yB, fs),
           Stmt.xs \in Nat \ {0}, Stmt.ys \in Nat \ {0}
    PROVE  /\ \A c \in DOMAIN cells : c \in DOMAIN cells'
           /\ <<x.id, xB>> \in DOMAIN cells' /\ cells'[<<x.id, xB>>] = host[Stmt.a]
           /\ \A o \in {scratch.y.id} \cup retired : \A j :
                  /\ <<o, j>> \in DOMAIN cells' <=> <<o, j>> \in DOMAIN cells
                  /\ <<o, j>> \in DOMAIN cells => cells'[<<o, j>>] = cells[<<o, j>>]
           /\ \A cb \in flying : cells'[<<cb.x, cb.xAt>>] = cells[<<cb.x, cb.xAt>>]
<1>1. PICK now : now = cells'
  OBVIOUS
<1>2. PICK id : id = x.id
  OBVIOUS
<1>3. PICK at \in Int : at = xB /\ at \in Nat /\ at >= scratch.x.off
  BY DEF Issued
<1>4. PICK count \in Int : count = Stmt.xs /\ count > 0
  OBVIOUS
<1>5. PICK v : v = host[Stmt.a]
  OBVIOUS
<1>6. now = Overwritten(id, at, count, v)
  BY <1>1, <1>2, <1>3, <1>4, <1>5 DEF Issued
<1>7. /\ \A c \in DOMAIN cells : c \in DOMAIN now
      /\ \A o, j : o # id => /\ <<o, j>> \in DOMAIN now <=> <<o, j>> \in DOMAIN cells
                             /\ <<o, j>> \in DOMAIN cells =>
                                    now[<<o, j>>] = cells[<<o, j>>]
      /\ \A j \in Int : IF at <= j /\ j < at + count
                        THEN <<id, j>> \in DOMAIN now /\ now[<<id, j>>] = v
                        ELSE /\ <<id, j>> \in DOMAIN now <=> <<id, j>> \in DOMAIN cells
                             /\ <<id, j>> \in DOMAIN cells =>
                                    now[<<id, j>>] = cells[<<id, j>>]
  BY <1>6, SliceOverwritten
<1>8. <<id, at>> \in DOMAIN now /\ now[<<id, at>>] = v
  <2>1. at <= at /\ at < at + count
    BY <1>3, <1>4
  <2> QED BY <1>7, <2>1
<1>9. /\ id \notin {scratch.y.id} \cup retired
      /\ id \in {scratch.x.id, Fresh} /\ Fresh \notin {scratch.x.id} \cup retired
  <2>1. id \notin {scratch.y.id} \cup retired
    BY <1>2, IssuedBuffers
  <2>2. \A i \in {scratch.x.id, scratch.y.id} \cup retired : i \in Nat /\ i < Fresh
    BY FreshNumber DEF Exact
  <2> QED BY <1>2, <2>1, <2>2 DEF Issued
<1>10. ASSUME NEW cb \in flying
       PROVE  now[<<cb.x, cb.xAt>>] = cells[<<cb.x, cb.xAt>>]
  <2>1. /\ <<cb.x, cb.xAt>> \in DOMAIN cells /\ cb.xAt \in Nat
        /\ cb.x \in {scratch.x.id} \cup retired
        /\ cb.x = scratch.x.id => cb.xAt < scratch.x.off
    BY DEF Exact, FlyingOK, PartOK, PartType
  <2>2. CASE cb.x # id
    BY <1>7, <2>1, <2>2
  <2>3. CASE cb.x = id
    <3>1. cb.x = scratch.x.id
      BY <1>9, <2>1, <2>3
    <3>2. scratch.x.off \in Nat
      BY DEF Exact, BuffersOK, BufferType
    <3>3. ~(at <= cb.xAt /\ cb.xAt < at + count) /\ cb.xAt \in Int
      BY <1>3, <2>1, <3>1, <3>2
    <3> QED BY <1>7, <2>1, <2>3, <3>3
  <2> QED BY <2>2, <2>3
<1>11. \A o \in {scratch.y.id} \cup retired : o # id
  BY <1>9
<1> QED BY <1>1, <1>2, <1>3, <1>5, <1>7, <1>8, <1>10, <1>11

\* A call issues its work beside all that is in use, and what was owed stays owed.
LEMMA IssueExact == Exact /\ Issue => Exact'
<1> SUFFICES ASSUME Exact, Issue
             PROVE  Exact'
  OBVIOUS
<1>1. /\ phase = "issue" /\ prog' = prog /\ host' = host /\ want' = want
      /\ pc <= Len(prog) /\ pc \in Nat
  BY DEF Issue, compiled, Exact, Scheduled
<1>2. Scheduled'
  BY StepScheduled DEF Exact, Next
<1>3. /\ pc \in 1..Len(prog) /\ Len(prog) \in Nat /\ Stmt.a \in Nat /\ Stmt.a < pc
      /\ Stmt.a \in 0..(pc - 1) /\ Stmt.w \in Weights
      /\ Stmt.xs \in Nat \ {0} /\ Stmt.ys \in Nat \ {0}
  <2>1. /\ pc \in 1..Len(prog) /\ Len(prog) \in Nat /\ Stmt.a \in Nat /\ Stmt.a < pc
        /\ Stmt.w \in Weights /\ Stmt.xs \in Nat \ {0} /\ Stmt.ys \in Nat \ {0}
    BY <1>1, Statement DEF Exact
  <2> QED BY <2>1
<1>4. WeightsOK'
  BY <1>3, WeightFound DEF Exact, Issue
<1>5. PICK x, xB, y, yB, fs : Issued(x, xB, y, yB, fs)
  BY IssueIssues
<1>6. /\ BuffersOK'
      /\ scratch'.x.id = x.id /\ scratch'.y.id = y.id
      /\ scratch'.x.off = (IF Defers THEN xB + Stmt.xs ELSE scratch.x.off)
      /\ scratch'.y.off = (IF Defers THEN yB + Stmt.ys ELSE scratch.y.off)
      /\ x.id # y.id
      /\ x.id \notin {scratch.y.id} \cup retired /\ y.id \notin {scratch.x.id} \cup retired
      /\ {scratch.x.id} \cup retired \subseteq {x.id} \cup retired'
      /\ {scratch.y.id} \cup retired \subseteq {y.id} \cup retired'
  BY <1>3, <1>5, IssuedBuffers
<1>7. /\ \A c \in DOMAIN cells : c \in DOMAIN cells'
      /\ <<x.id, xB>> \in DOMAIN cells' /\ cells'[<<x.id, xB>>] = host[Stmt.a]
      /\ \A o \in {scratch.y.id} \cup retired : \A j :
             /\ <<o, j>> \in DOMAIN cells' <=> <<o, j>> \in DOMAIN cells
             /\ <<o, j>> \in DOMAIN cells => cells'[<<o, j>>] = cells[<<o, j>>]
      /\ \A cb \in flying : cells'[<<cb.x, cb.xAt>>] = cells[<<cb.x, cb.xAt>>]
  BY <1>1, <1>3, <1>5, IssuedCells
<1>8. flying' = flying \cup fs
  BY <1>5 DEF Issued
<1>9. \A cb \in fs : /\ cb \in PartType /\ cb.x = x.id /\ cb.xAt = xB /\ cb.y = y.id
                     /\ cb.w = Stmt.w /\ cb.from >= yB /\ cb.from + cb.count <= yB + Stmt.ys
  BY <1>5 DEF Issued
<1>10. /\ xB \in Nat /\ xB >= scratch.x.off /\ yB \in Nat /\ yB >= scratch.y.off
       /\ scratch.x.off \in Nat /\ scratch.y.off \in Nat
       /\ x.id \in Nat /\ y.id \in Nat
       /\ x.id \in {scratch.x.id, Fresh} /\ y.id \in {scratch.y.id, Fresh + 1}
  BY <1>5 DEF Issued, Exact, BuffersOK, BufferType
<1>11. Fresh \notin {scratch.x.id} \cup retired /\ Fresh + 1 \notin {scratch.y.id} \cup retired
  <2>1. Fresh \in Nat
        /\ \A i \in {scratch.x.id, scratch.y.id} \cup retired : i \in Nat /\ i < Fresh
    BY FreshNumber DEF Exact
  <2> QED BY <2>1
<1>12. phase' # "wait" => Defers
  BY <1>5 DEF Issued
\* A part that was there is as good as it was.
<1>13. ASSUME NEW cb \in flying
       PROVE  PartOK(cb)'
  <2>1. /\ cb \in PartType /\ cb.x \in {scratch.x.id} \cup retired
        /\ cb.y \in {scratch.y.id} \cup retired
        /\ <<cb.x, cb.xAt>> \in DOMAIN cells
        /\ cb.x = scratch.x.id => cb.xAt < scratch.x.off
        /\ cb.y = scratch.y.id => cb.from + cb.count <= scratch.y.off
    BY <1>1 DEF Exact, FlyingOK, PartOK
  <2>2. cb.xAt \in Nat /\ cb.from + cb.count \in Int
    BY <2>1 DEF PartType
  <2>3. /\ cb.x \in {scratch'.x.id} \cup retired' /\ cb.y \in {scratch'.y.id} \cup retired'
        /\ <<cb.x, cb.xAt>> \in DOMAIN cells'
    BY <1>6, <1>7, <2>1
  <2>4. ASSUME Defers, cb.x = scratch'.x.id
        PROVE  cb.xAt < scratch'.x.off
    <3>1. cb.x = scratch.x.id
      BY <1>6, <1>10, <1>11, <2>1, <2>4
    <3>2. cb.xAt < scratch.x.off
      BY <2>1, <3>1
    <3>3. scratch'.x.off = xB + Stmt.xs
      BY <1>6, <2>4
    <3> QED BY <1>3, <1>10, <2>2, <3>2, <3>3
  <2>5. ASSUME Defers, cb.y = scratch'.y.id
        PROVE  cb.from + cb.count <= scratch'.y.off
    <3>1. cb.y = scratch.y.id
      BY <1>6, <1>10, <1>11, <2>1, <2>5
    <3>2. cb.from + cb.count <= scratch.y.off
      BY <2>1, <3>1
    <3>3. scratch'.y.off = yB + Stmt.ys
      BY <1>6, <2>5
    <3> QED BY <1>3, <1>10, <2>2, <3>2, <3>3
  <2> QED BY <1>12, <2>1, <2>3, <2>4, <2>5 DEF PartOK
<1>14. ASSUME NEW cb \in fs
       PROVE  PartOK(cb)'
  <2>1. cb \in PartType /\ cb.x = x.id /\ cb.xAt = xB /\ cb.y = y.id
    BY <1>9
  <2>2. <<cb.x, cb.xAt>> \in DOMAIN cells'
    BY <1>7, <2>1
  <2>3. Defers => cb.xAt < scratch'.x.off
    BY <1>3, <1>6, <1>10, <2>1
  <2>4. Defers => cb.from + cb.count <= scratch'.y.off
    BY <1>6, <1>9
  <2> QED BY <1>6, <1>12, <2>1, <2>2, <2>3, <2>4 DEF PartOK
<1>15. FlyingOK'
  <2>1. ASSUME NEW cb \in flying', NEW db \in flying'
        PROVE  cb.x # db.y
    <3>1. CASE cb \in flying /\ db \in flying
      BY <3>1 DEF Exact, FlyingOK
    <3>2. CASE cb \in flying /\ db \in fs
      BY <1>6, <1>9, <3>2 DEF Exact, FlyingOK, PartOK
    <3>3. CASE cb \in fs /\ db \in flying
      BY <1>6, <1>9, <3>3 DEF Exact, FlyingOK, PartOK
    <3>4. CASE cb \in fs /\ db \in fs
      BY <1>6, <1>9, <3>4
    <3> QED BY <1>8, <3>1, <3>2, <3>3, <3>4
  <2> QED BY <1>8, <1>13, <1>14, <2>1 DEF FlyingOK
\* What was owed is written by the parts that were there, and by no new one.
<1>16. ASSUME NEW r \in Owed
       PROVE  OwingOK(r)'
  <2>1. PICK k \in DOMAIN readBacks : r = readBacks[k]
    BY <1>1 DEF Owed
  <2>2. /\ OwingOK(r)
        /\ r.id = scratch.y.id => r.at + r.size <= scratch.y.off
    BY <2>1 DEF Exact, OwedOK, Owed
  <2>3. /\ r \in ReadBackType /\ r.id \in {scratch.y.id} \cup retired
        /\ r.dst \in 1..Len(prog) /\ r.dst <= pc
        /\ Filled(r, want[r.dst], cells, flying)
        /\ r.id \in Nat /\ r.at \in Nat /\ r.size \in Nat \ {0}
    BY <2>2 DEF OwingOK, ReadBackType
  <2>4. ASSUME NEW j \in r.at..(r.at + r.size - 1), NEW cb \in fs
        PROVE  ~Covers(cb, r.id, j)
    <3>1. CASE r.id # y.id
      BY <1>9, <3>1 DEF Covers
    <3>2. CASE r.id = y.id
      <4>1. r.id = scratch.y.id
        BY <1>10, <1>11, <2>3, <3>2
      <4>2. j < yB /\ j \in Int
        BY <1>10, <2>2, <2>3, <4>1
      <4>3. cb.from >= yB /\ cb.from \in Nat
        BY <1>9 DEF PartType
      <4> QED BY <1>10, <4>2, <4>3 DEF Covers
    <3> QED BY <3>1, <3>2
  <2>5. Filled(r, want[r.dst], cells', flying')
    <3>1. PICK v : v = want[r.dst]
      OBVIOUS
    <3>2. ASSUME NEW j \in r.at..(r.at + r.size - 1)
          PROVE  /\ \/ <<r.id, j>> \in DOMAIN cells' /\ cells'[<<r.id, j>>] = v
                    \/ \E db \in flying' : Covers(db, r.id, j)
                 /\ \A db \in flying' : Covers(db, r.id, j) =>
                        Product(cells'[<<db.x, db.xAt>>], db.w) = v
      <4>1. /\ \/ <<r.id, j>> \in DOMAIN cells /\ cells[<<r.id, j>>] = v
               \/ \E db \in flying : Covers(db, r.id, j)
            /\ \A db \in flying : Covers(db, r.id, j) => Product(cells[<<db.x, db.xAt>>], db.w) = v
        BY <2>3, <3>1 DEF Filled
      <4>2. \/ <<r.id, j>> \in DOMAIN cells' /\ cells'[<<r.id, j>>] = v
            \/ \E db \in flying' : Covers(db, r.id, j)
        BY <1>7, <1>8, <2>3, <4>1
      <4>3. ASSUME NEW db \in flying', Covers(db, r.id, j)
            PROVE  Product(cells'[<<db.x, db.xAt>>], db.w) = v
        <5>1. db \in flying
          BY <1>8, <2>4, <4>3
        <5> QED BY <1>7, <4>1, <4>3, <5>1
      <4> QED BY <4>2, <4>3
    <3> QED BY <3>1, <3>2 DEF Filled
  <2>6. r.id \in {scratch'.y.id} \cup retired'
    BY <1>6, <2>3
  <2>7. r.dst <= pc'
    <3>1. pc' = pc \/ pc' = pc + 1
      BY <1>5 DEF Issued, NextStatement
    <3> QED BY <1>1, <2>3, <3>1
  <2>8. OwingOK(r)'
    BY <1>1, <2>3, <2>5, <2>6, <2>7 DEF OwingOK
  <2> QED BY <2>8
\* The result of this call is owed at yB.
<1>17. PICK new : new = [id |-> y.id, at |-> yB, size |-> Stmt.ys, dst |-> pc]
  OBVIOUS
<1>18. new \in ReadBackType /\ new.id = y.id /\ new.at = yB /\ new.size = Stmt.ys /\ new.dst = pc
  BY <1>1, <1>3, <1>10, <1>17 DEF ReadBackType
<1>19. OwingOK(new)'
  <2>1. PICK v : v = want[pc]
    OBVIOUS
  <2>2. v = Product(host[Stmt.a], Stmt.w)
    <3>1. v = Product(want[Stmt.a], Stmt.w) /\ ~OverlapsPending(Stmt.a)
      BY <1>1, <2>1 DEF Exact, BlocksOK
    <3>2. host[Stmt.a] = want[Stmt.a]
      BY <1>3, <3>1 DEF Exact, HostExact
    <3> QED BY <3>1, <3>2
  <2>3. ASSUME NEW j \in yB..(yB + Stmt.ys - 1)
        PROVE  /\ \E cb \in flying' : Covers(cb, y.id, j)
               /\ \A cb \in flying' : Covers(cb, y.id, j) =>
                      Product(cells'[<<cb.x, cb.xAt>>], cb.w) = v
    <3>1. \E cb \in flying' : Covers(cb, y.id, j)
      <4>1. PICK i \in Int : i = j - yB
        BY <1>10
      <4>2. i \in 0..(Stmt.ys - 1) /\ yB + i = j
        BY <1>3, <1>10, <4>1
      <4>3. PICK cb \in fs : cb.from <= yB + i /\ yB + i < cb.from + cb.count
        BY <1>5, <4>2 DEF Issued
      <4> QED BY <1>8, <1>9, <4>2, <4>3 DEF Covers
    <3>2. ASSUME NEW cb \in flying', Covers(cb, y.id, j)
          PROVE  Product(cells'[<<cb.x, cb.xAt>>], cb.w) = v
      <4>1. ASSUME cb \in flying
            PROVE  FALSE
        <5>1. /\ cb.y \in {scratch.y.id} \cup retired /\ cb.y = y.id /\ j < cb.from + cb.count
              /\ cb.y = scratch.y.id => cb.from + cb.count <= scratch.y.off
          BY <1>1, <3>2, <4>1 DEF Exact, FlyingOK, PartOK, Covers
        <5>2. cb.y = scratch.y.id
          BY <1>10, <1>11, <5>1
        <5>3. cb.from + cb.count \in Int
          <6>1. cb \in PartType
            BY <4>1 DEF Exact, FlyingOK, PartOK
          <6>2. cb.from \in Nat /\ cb.count \in Int
            BY <6>1 DEF PartType
          <6> QED BY <6>2
        <5> QED BY <1>10, <5>1, <5>2, <5>3
      <4>2. cb \in fs
        BY <1>8, <4>1
      <4> QED BY <1>7, <1>9, <2>2, <4>2
    <3> QED BY <3>1, <3>2
  <2>4. Filled(new, v, cells', flying')
    BY <1>18, <2>3 DEF Filled
  <2>5. pc <= pc'
    <3>1. pc' = pc \/ pc' = pc + 1
      BY <1>5 DEF Issued, NextStatement
    <3> QED BY <1>1, <3>1
  <2>6. new.id \in {scratch'.y.id} \cup retired'
    BY <1>6, <1>18
  <2> QED BY <1>1, <1>3, <1>18, <2>1, <2>4, <2>5, <2>6 DEF OwingOK
<1>20. readBacks \in Seq(ReadBackType)
  BY DEF Exact, OwedOK
<1>21. ASSUME NEW r \in ReadBackType, r \in Owed
       PROVE  /\ r.dst < pc
              /\ Defers /\ r.id = scratch'.y.id => r.at + r.size <= scratch'.y.off
              /\ r.id = scratch'.y.id => r.at + r.size <= scratch.y.off
  <2>1. PICK k \in DOMAIN readBacks : r = readBacks[k]
    BY <1>1, <1>21 DEF Owed
  <2>2. /\ r.dst < pc
        /\ r.id = scratch.y.id => r.at + r.size <= scratch.y.off
        /\ OwingOK(r)
    BY <1>21, <2>1 DEF Exact, OwedOK
  <2>3. r.at + r.size \in Nat
    BY DEF ReadBackType
  <2>4. ASSUME r.id = scratch'.y.id
        PROVE  r.at + r.size <= scratch.y.off
    BY <1>6, <1>10, <1>11, <2>2, <2>4 DEF OwingOK
  <2>5. ASSUME r.id = scratch'.y.id, Defers
        PROVE  r.at + r.size <= scratch'.y.off
    <3>1. r.at + r.size <= scratch.y.off
      BY <2>4, <2>5
    <3>2. scratch'.y.off = yB + Stmt.ys
      BY <1>6, <2>5
    <3> QED BY <1>3, <1>10, <2>3, <3>1, <3>2
  <2> QED BY <2>2, <2>4, <2>5
<1>22. OwedOK'
  <2>1. CASE Defers
    <3>1. readBacks' = Append(readBacks, new) /\ pc' = pc + 1 /\ phase' = "start"
      BY <1>5, <1>17, <2>1 DEF Issued, NextStatement
    <3>2. PICK m \in Nat : m = Len(readBacks) /\ DOMAIN readBacks = 1..m
      BY <1>20, LenProperties
    <3>3. /\ readBacks' \in Seq(ReadBackType) /\ DOMAIN readBacks' = 1..(m + 1)
          /\ \A k \in 1..m : readBacks'[k] = readBacks[k]
          /\ readBacks'[m + 1] = new
      <4>1. /\ readBacks' \in Seq(ReadBackType) /\ Len(readBacks') = m + 1
            /\ \A k \in 1..m : readBacks'[k] = readBacks[k]
            /\ readBacks'[m + 1] = new
        BY <1>18, <1>20, <3>1, <3>2, AppendProperties
      <4> QED BY <4>1, LenProperties
    <3>4. ASSUME NEW k \in 1..(m + 1)
          PROVE  /\ (k \in 1..m /\ readBacks'[k] \in Owed) \/ readBacks'[k] = new
                 /\ readBacks'[k] \in ReadBackType
      <4>1. CASE k = m + 1
        BY <1>18, <3>3, <4>1
      <4>2. CASE k # m + 1
        <5>1. k \in 1..m
          BY <4>2
        <5>2. readBacks'[k] = readBacks[k] /\ readBacks[k] \in ReadBackType
          BY <1>20, <3>2, <3>3, <5>1, ElementOfSeq
        <5>3. readBacks[k] \in Owed
          BY <3>2, <5>1 DEF Owed
        <5> QED BY <5>1, <5>2, <5>3
      <4> QED BY <4>1, <4>2
    <3>5. ASSUME NEW k \in 1..(m + 1)
          PROVE  /\ readBacks'[k].dst < pc'
                 /\ readBacks'[k].id = scratch'.y.id =>
                        readBacks'[k].at + readBacks'[k].size <= scratch'.y.off
                 /\ \A r : r = readBacks'[k] => OwingOK(r)'
      <4>1. PICK r : r = readBacks'[k]
        OBVIOUS
      <4>2. CASE r \in Owed
        <5>1. r \in ReadBackType /\ r.dst \in Nat
          BY <3>4, <4>1 DEF ReadBackType
        <5>2. r.dst < pc'
          BY <1>1, <1>21, <3>1, <4>2, <5>1
        <5> QED BY <1>16, <1>21, <2>1, <4>1, <4>2, <5>1, <5>2
      <4>3. CASE r = new
        <5>1. r.dst < pc'
          BY <1>1, <1>18, <3>1, <4>3
        <5>2. r.at + r.size <= scratch'.y.off
          BY <1>3, <1>6, <1>10, <1>18, <2>1, <4>3
        <5> QED BY <1>19, <4>1, <4>3, <5>1, <5>2
      <4> QED BY <3>4, <4>1, <4>2, <4>3
    <3>6. Owed' = {readBacks'[k] : k \in 1..(m + 1)}
      BY <3>1, <3>3 DEF Owed
    <3>7. \A r \in Owed' : OwingOK(r)'
      BY <3>5, <3>6
    <3> QED BY <3>3, <3>5, <3>7 DEF OwedOK
  <2>2. CASE ~Defers
    <3>1. readBacks' = readBacks /\ pc' = pc /\ phase' = "wait"
      BY <1>5, <2>2 DEF Issued
    <3>2. scratch'.y.off = scratch.y.off
      BY <1>6, <2>2
    <3>3. Own' = new
      <4>1. AlignUp(scratch'.y.off) = yB
        BY <1>5, <3>2 DEF Issued
      <4> QED BY <1>1, <1>6, <1>17, <3>1, <4>1 DEF Own, Stmt, AlignUp
    <3>4. Owed = {readBacks[k] : k \in DOMAIN readBacks}
      BY <1>1 DEF Owed
    <3>5. Owed' = Owed \cup {new}
      BY <3>1, <3>3, <3>4 DEF Owed
    <3>6. ASSUME NEW k \in DOMAIN readBacks
          PROVE  /\ readBacks[k].dst < pc
                 /\ readBacks[k].id = scratch'.y.id =>
                        readBacks[k].at + readBacks[k].size <= scratch'.y.off
      <4>1. readBacks[k] \in Owed
        BY <3>4
      <4>2. readBacks[k] \in ReadBackType
        BY <4>1 DEF Exact, OwedOK, OwingOK
      <4> QED BY <1>21, <3>2, <4>1, <4>2
    <3>7. \A r \in Owed' : OwingOK(r)'
      BY <1>16, <1>19, <3>5
    <3> QED BY <1>20, <3>1, <3>6, <3>7 DEF OwedOK
  <2> QED BY <2>1, <2>2
<1>23. BlocksOK'
  <2>1. phase' = "start" \/ (phase' = "wait" /\ pc' = pc)
    BY <1>5 DEF Issued, NextStatement
  <2>2. phase' # "issue"
    BY <2>1
  <2>3. phase' # "start" => (want[pc] = Product(want[Stmt.a], Stmt.w))'
    <3>1. want[pc] = Product(want[Stmt.a], Stmt.w)
      BY <1>1 DEF Exact, BlocksOK
    <3> QED BY <1>1, <2>1, <3>1 DEF Stmt
  <2> QED BY <1>1, <2>2, <2>3 DEF Exact, BlocksOK
<1>24. HostExact'
  <2>1. CASE Defers
    <3>1. readBacks' = Append(readBacks, new) /\ pc' = pc + 1
      BY <1>5, <1>17, <2>1 DEF Issued, NextStatement
    <3>2. PICK m \in Nat : m = Len(readBacks) /\ DOMAIN readBacks = 1..m
      BY <1>20, LenProperties
    <3>3. /\ DOMAIN readBacks' = 1..(m + 1)
          /\ \A k \in 1..m : readBacks'[k] = readBacks[k]
          /\ readBacks'[m + 1] = new
      <4>1. /\ readBacks' \in Seq(ReadBackType) /\ Len(readBacks') = m + 1
            /\ \A k \in 1..m : readBacks'[k] = readBacks[k]
            /\ readBacks'[m + 1] = new
        BY <1>18, <1>20, <3>1, <3>2, AppendProperties
      <4> QED BY <4>1, LenProperties
    <3>4. ASSUME NEW b \in 0..pc
          PROVE  OverlapsPending(b)' \/ host[b] = want[b]
      <4>1. CASE b = pc
        <5>1. m + 1 \in DOMAIN readBacks' /\ readBacks'[m + 1].dst = b
          BY <1>18, <3>3, <4>1
        <5> QED BY <5>1 DEF OverlapsPending
      <4>2. CASE OverlapsPending(b)
        <5>1. PICK k \in 1..m : readBacks[k].dst = b
          BY <3>2, <4>2 DEF OverlapsPending
        <5>2. k \in DOMAIN readBacks' /\ readBacks'[k].dst = b
          BY <3>3, <5>1
        <5> QED BY <5>2 DEF OverlapsPending
      <4>3. CASE b # pc /\ ~OverlapsPending(b)
        <5>1. b \in 0..(pc - 1)
          BY <1>1, <4>3
        <5> QED BY <4>3, <5>1 DEF Exact, HostExact
      <4> QED BY <4>1, <4>2, <4>3
    <3>5. pc' - 1 = pc
      BY <1>1, <3>1
    <3> QED BY <1>1, <3>4, <3>5 DEF HostExact
  <2>2. CASE ~Defers
    <3>1. readBacks' = readBacks /\ pc' = pc
      BY <1>5, <2>2 DEF Issued
    <3> QED BY <1>1, <3>1 DEF Exact, HostExact, OverlapsPending
  <2> QED BY <2>1, <2>2
<1> QED BY <1>2, <1>4, <1>6, <1>15, <1>22, <1>23, <1>24 DEF Exact

\* Every step keeps the work of the run where it should be.
LEMMA StepExact == Exact /\ [Next]_vars => Exact'
<1> SUFFICES ASSUME Exact, [Next]_vars
             PROVE  Exact'
  OBVIOUS
<1>1. CASE UNCHANGED vars
  <2>1. /\ prog' = prog /\ hasDevice' = hasDevice /\ pc' = pc /\ phase' = phase
        /\ deferPending' = deferPending /\ inAd' = inAd
        /\ host' = host /\ want' = want /\ scratch' = scratch /\ cells' = cells
        /\ retired' = retired /\ readBacks' = readBacks /\ flying' = flying
        /\ resident' = resident
    BY <1>1 DEF vars, compiled, device
  <2>2. Scheduled' /\ BuffersOK' /\ FlyingOK' /\ BlocksOK' /\ WeightsOK' /\ HostExact'
    <3>1. Scheduled'
      BY StepScheduled DEF Exact
    <3>2. BuffersOK' /\ WeightsOK' /\ HostExact' /\ BlocksOK'
      BY <2>1 DEF Exact, BuffersOK, WeightsOK, HostExact, BlocksOK, OverlapsPending, Stmt
    <3>3. FlyingOK'
      BY <2>1 DEF Exact, FlyingOK, PartOK
    <3> QED BY <3>1, <3>2, <3>3
  <2>3. OwedOK'
    <3>1. Owed' = Owed
      BY <2>1 DEF Owed, Own, Stmt, AlignUp
    <3>2. ASSUME NEW r \in Owed
          PROVE  OwingOK(r)'
      BY <2>1 DEF Exact, OwedOK, OwingOK
    <3> QED BY <2>1, <3>1, <3>2 DEF Exact, OwedOK
  <2> QED BY <2>2, <2>3 DEF Exact
<1> QED BY <1>1, PartExact, KernelExact, EnterExact, IssueExact, CompleteExact DEF Next

\* What the host can see is what the program computes, for every block of statements,
\* whatever the sizes of the slices and of the scratch, however many parts a call is
\* split into and in whatever order the device completes them.
THEOREM HostAlwaysExact == Spec => []HostExact
<1>1. Exact => HostExact
  BY DEF Exact
<1> QED BY <1>1, InitExact, StepExact, PTL DEF Spec

================================================================================
