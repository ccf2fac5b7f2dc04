------------------------------ MODULE ForgeArena ------------------------------
(***************************************************************************)
(* The bump allocator of the JIT runtime (ForgeArena, jit.rs): one list of *)
(* chunks per budget, a cursor that moves forward over it, the marks a     *)
(* program takes with forge.snapshot and returns to with forge.restore,    *)
(* and the marks the compiler takes around a .fwd_bwd pass, whose epilogue *)
(* moves the published gradients down to the mark.                         *)
(*                                                                         *)
(* What the emitted code holds are raw pointers: nothing at run time knows *)
(* which of them are still good.  `blocks` is the language's answer, the   *)
(* allocations made and not discarded by a rewind to an earlier mark, and  *)
(* the properties compare it with `memory`, the block that last wrote each *)
(* cell.  `events`, `born`, `map` and `value` are history; `map` numbers   *)
(* the mappings the OS was asked for.  A charge that does not fit ends the *)
(* process (JitBudgets) and is no action here.                             *)
(***************************************************************************)
EXTENDS Integers, SequencesExt, Functions

CONSTANTS
    Budgets,      \* table indices, 0 the root
    Extent,       \* arena.limit of each: --forge, or the bytes it was carved with
    RootChunk,    \* DEFAULT_CHUNK.min(limit), the chunk size of entry 0
    Align,        \* ForgeArena::ALIGN, 64
    Page,         \* page_size()
    MinChunk,     \* 64 KiB, the least first chunk of a carved budget
    Sizes,        \* byte counts the emitted code allocates
    Params,       \* indices of the `!` parameters of a @grad fn
    ForeignMarks, \* whether a program restores a mark under another budget
    GradInHelper, \* whether code a @grad body calls makes @grad calls of its own
    MaxEvents,    \* bound on the allocations and marks of a behaviour
    MaxWindows    \* bound on the nesting of @grad calls

ASSUME ArenaAssumption ==
    /\ 0 \in Budgets /\ Budgets \subseteq Nat /\ Extent \in [Budgets -> Nat]
    /\ {RootChunk, Align, Page, MinChunk} \subseteq Nat \ {0}
    /\ Page % Align = 0
    /\ Sizes \subseteq Nat /\ Params \subseteq Nat /\ {ForeignMarks, GradInHelper} \subseteq BOOLEAN
    /\ MaxEvents \in Nat /\ MaxWindows \in Nat

VARIABLES
    arena,        \* the ForgeArena of each budget
    memory,       \* the block that last wrote each cell of each mapping
    entered,      \* CURRENT_BUDGET
    marks,        \* the marks of forge.snapshot still in use, newest last
    windows,      \* the @grad calls being evaluated: their InternalMark, innermost last
    slots,        \* GRAD_SLOTS: the buffer last captured for each parameter
    blocks,       \* the allocations the program may still use
    events,       \* how many blocks and marks there have been
    panicked      \* an assertion of restore or restore_internal failed

vars == <<arena, memory, entered, marks, windows, slots, blocks, events, panicked>>

Unset == -1
Garbage == -1
Inside == windows # <<>>
Top == Last(windows)

-------------------------------------------------------------------------------
(* alloc                                                                    *)

RoundUp(n, unit) == ((n + unit - 1) \div unit) * unit
AlignUp(n) == RoundUp(n, Align)
Max2(a, b) == IF a > b THEN a ELSE b
Min2(a, b) == IF a < b THEN a ELSE b

\* A new arena maps nothing.  A carved one has no chunk size yet.
Fresh(b) == [chunks |-> <<>>, cur |-> 1, cursor |-> 0, used |-> 0, committed |-> 0,
             chunkSize |-> IF b = 0 THEN RootChunk ELSE Unset, maps |-> 0]

\* The chunk size the first request fixes, and no later one moves.
SizeFor(b, a, need) ==
    IF a.chunkSize # Unset THEN a.chunkSize
    ELSE Min2(Extent[b], Max2(RoundUp(need, Page), MinChunk))

\* PageChunk::try_alloc_zeroed of chunk_size_for(need).
ChunkFor(b, a, need) ==
    [len |-> RoundUp(Max2(Max2(SizeFor(b, a, need), need), 1), Page),
     map |-> <<b, a.maps + 1>>]

\* Slip: the bytes of a replaced chunk counted for ever.
WithChunkAdded(a, i, chunk) ==
    [a EXCEPT !.chunks = IF i \in 1..Len(@) THEN [@ EXCEPT ![i] = chunk] ELSE Append(@, chunk),
              !.committed = @ + chunk.len,
              !.maps = @ + 1]

\* The arena with a chunk mapped at position i of its list, in place of what
\* was there.
WithChunk(a, i, chunk) ==
    LET old == IF i \in 1..Len(a.chunks) THEN a.chunks[i].len ELSE 0 IN
    [a EXCEPT !.chunks = IF i \in 1..Len(@) THEN [@ EXCEPT ![i] = chunk] ELSE Append(@, chunk),
              !.committed = @ - old + chunk.len,
              !.maps = @ + 1]

\* Slip: the next chunk taken as it is, too small or not.
UsableAsIs(a, i, need) == i <= Len(a.chunks)

\* A chunk above the cursor is free: kept if it is large enough, else replaced.
Usable(a, i, need) == i <= Len(a.chunks) /\ a.chunks[i].len >= need

\* n bytes placed in the arena a of budget b: the arena after, and where.
Placed(b, a, n) ==
    LET need == AlignUp(n)
        sized == [a EXCEPT !.used = @ + need, !.chunkSize = SizeFor(b, a, need)]
        open == IF a.chunks = <<>> THEN WithChunk(sized, 1, ChunkFor(b, a, need)) ELSE sized
        fits == AlignUp(open.cursor) + n <= open.chunks[open.cur].len
        i == IF fits THEN open.cur ELSE open.cur + 1
        at == IF fits THEN AlignUp(open.cursor) ELSE 0
        room == IF fits \/ Usable(open, i, need) THEN open
                ELSE WithChunk(open, i, ChunkFor(b, open, need))
        after == [room EXCEPT !.cur = i, !.cursor = at + n]
    IN [arena |-> after,
        place |-> [budget |-> b, chunk |-> i, map |-> after.chunks[i].map,
                   at |-> at, bytes |-> n]]

Init ==
    /\ arena = [b \in Budgets |-> Fresh(b)]
    /\ memory = <<>>
    /\ entered = 0
    /\ marks = <<>>
    /\ windows = <<>>
    /\ slots = <<>>
    /\ blocks = {}
    /\ events = 0
    /\ panicked = FALSE

\* The block of an allocation at a place, its number and what it holds.
Block(place, id, value) ==
    [budget |-> place.budget, chunk |-> place.chunk, map |-> place.map, at |-> place.at,
     bytes |-> place.bytes, id |-> id, value |-> value]

Cells(x) == {<<x.map, x.at + k>> : k \in 0..(x.bytes - 1)}

\* The bytes of x are still mapped, and still its own.
Intact(x) ==
    LET chunks == arena[x.budget].chunks IN
    /\ x.chunk \in DOMAIN chunks /\ chunks[x.chunk].map = x.map
    /\ x.at + x.bytes <= chunks[x.chunk].len
    /\ \A c \in Cells(x) : memory[c] = x.id

\* Block x is written over whatever its cells held (alloc zeroes them first).
Written(mem, x) == [c \in DOMAIN mem \cup Cells(x) |-> IF c \in Cells(x) THEN x.id ELSE mem[c]]

\* Outside every @grad call, or in ordinary code that the body of one calls.
Ordinary == Inside => Top.phase = "helper"

Alloc(n) ==
    /\ ~panicked /\ events < MaxEvents
    /\ arena[entered].used + AlignUp(n) <= Extent[entered]
    /\ LET placed == Placed(entered, arena[entered], n)
           x == Block(placed.place, events + 1, events + 1)
       IN /\ arena' = [arena EXCEPT ![entered] = placed.arena]
          /\ memory' = Written(memory, x)
          /\ blocks' = blocks \cup {x}
    /\ events' = events + 1
    /\ UNCHANGED <<entered, marks, windows, slots, panicked>>

\* dmc_budget_enter and dmc_budget_exit (JitBudgets).
Switch(b) ==
    /\ ~panicked /\ ~Inside /\ b # entered
    /\ entered' = b
    /\ UNCHANGED <<arena, memory, marks, windows, slots, blocks, events, panicked>>

-------------------------------------------------------------------------------
(* The program's marks.  Snapshots are LIFO (docs/MEMORY.md, section 5): an *)
(* older mark is restored only when no newer one is in use, and code called *)
(* from a @grad body keeps to the marks it took itself.                     *)

\* Slip: a mark taken at the next aligned offset.
PackAligned(a) == [cur |-> a.cur, cursor |-> AlignUp(a.cursor)]

Pack(a) == [cur |-> a.cur, cursor |-> a.cursor]

Snapshot ==
    /\ ~panicked /\ Ordinary /\ events < MaxEvents
    /\ marks' = Append(marks, [mark |-> Pack(arena[entered]), budget |-> entered, born |-> events + 1])
    /\ events' = events + 1
    /\ UNCHANGED <<arena, memory, entered, windows, slots, blocks, panicked>>

\* The assertions of restore and of restore_internal: the mark names a chunk of
\* this arena and is not ahead of its cursor.
InArena(a, m) ==
    /\ m.cur <= Len(a.chunks) \/ (m.cur = 1 /\ m.cursor = 0)
    /\ m.cur < a.cur \/ (m.cur = a.cur /\ m.cursor <= a.cursor)

Rewound(a, m) == [a EXCEPT !.cur = m.cur, !.cursor = m.cursor]

Values(f) == {f[p] : p \in DOMAIN f}

\* What the program loses by a rewind of budget b to a mark made at event e.
Discarded(b, e) == {x \in blocks : x.budget = b /\ x.id > e}

InUse == marks # <<>> /\ (Inside => Len(marks) > Top.depth)

Restore ==
    /\ ~panicked /\ Ordinary /\ InUse
    /\ LET m == Last(marks) IN
       /\ ~ForeignMarks => m.budget = entered
       /\ IF InArena(arena[entered], m.mark)
          THEN /\ arena' = [arena EXCEPT ![entered] = Rewound(@, m.mark)]
               /\ blocks' = blocks \ Discarded(entered, m.born)
               /\ UNCHANGED panicked
          ELSE panicked' = TRUE /\ UNCHANGED <<arena, blocks>>
    /\ UNCHANGED <<memory, entered, marks, windows, slots, events>>

\* The program has no more use for its newest mark.
Forget ==
    /\ ~panicked /\ Ordinary /\ InUse
    /\ marks' = Front(marks)
    /\ UNCHANGED <<arena, memory, entered, windows, slots, blocks, events, panicked>>

-------------------------------------------------------------------------------
(* @grad calls.  The body of one is let bindings, differentiable operations *)
(* and nested .fwd_bwd calls; a tensor literal or an argument in it may     *)
(* call ordinary code (phase "helper").  Gradients are captured last.       *)

Phase(p) == [windows EXCEPT ![Len(windows)].phase = p]

\* Marks taken in the call w, or in what it calls, do not outlive it.
MarksBefore(w) == SubSeq(marks, 1, w.depth)

CallHelper ==
    /\ ~panicked /\ Inside /\ Top.phase = "body"
    /\ windows' = Phase("helper")
    /\ UNCHANGED <<arena, memory, entered, marks, slots, blocks, events, panicked>>

HelperReturns ==
    /\ ~panicked /\ Inside /\ Top.phase = "helper"
    /\ windows' = Phase("body")
    /\ marks' = MarksBefore(Top)
    /\ UNCHANGED <<arena, memory, entered, slots, blocks, events, panicked>>

Window(kind) ==
    [kind |-> kind, phase |-> "body", mark |-> Pack(arena[entered]),
     used |-> arena[entered].used, born |-> events, depth |-> Len(marks)]

\* Slip: the slots of an earlier call left in place.
KeptSlots == slots

ClearedSlots == <<>>

Callable == Inside => Top.phase = "helper" /\ GradInHelper

\* grad_call_prologue.
OpenPass ==
    /\ ~panicked /\ Len(windows) < MaxWindows
    /\ ~Callable => Top.phase = "body"
    /\ windows' = Append(windows, Window("pass"))
    /\ slots' = ClearedSlots
    /\ UNCHANGED <<arena, memory, entered, marks, blocks, events, panicked>>

\* __dmc_forge_snapshot_internal, at the forward-only entry of a @grad fn.
OpenForward ==
    /\ ~panicked /\ Len(windows) < MaxWindows
    /\ Callable
    /\ windows' = Append(windows, Window("forward"))
    /\ UNCHANGED <<arena, memory, entered, marks, slots, blocks, events, panicked>>

\* capture_grad: a gradient buffer the backward pass of this call allocated.
Publish(p, x) ==
    /\ ~panicked /\ Inside /\ Top.kind = "pass" /\ Top.phase \in {"body", "backward"}
    /\ x \in blocks /\ x.budget = entered /\ x.id > Top.born
    /\ slots' = [q \in DOMAIN slots \cup {p} |-> IF q = p THEN x ELSE slots[q]]
    /\ windows' = Phase("backward")
    /\ UNCHANGED <<arena, memory, entered, marks, blocks, events, panicked>>

\* restore_internal: as restore, and the charge goes back.
ReturnedTo(a, w) == [Rewound(a, w.mark) EXCEPT !.used = w.used]

\* Slip: each source read when its turn comes, after the moves before it.
ReadInPlace(mem, x) == IF \A c \in Cells(x) : mem[c] = x.id THEN x.value ELSE Garbage

\* Every captured buffer is read before the rewind.
ReadAhead(mem, x) == IF Intact(x) THEN x.value ELSE Garbage

\* Slip: gradients moved without asking the meter.
MovedUncharged(a, n) == [Placed(entered, a, n) EXCEPT !.arena.used = a.used]

Moved(a, n) == Placed(entered, a, n)

\* The gradient of p allocated again, after those of the parameters before it.
Move(p, acc) ==
    LET x == slots[p]
        placed == Moved(acc.arena, x.bytes)
        y == Block(placed.place, acc.events + 1, ReadAhead(acc.memory, x))
    IN [arena |-> placed.arena, memory |-> Written(acc.memory, y),
        slots |-> [acc.slots EXCEPT ![p] = y], events |-> acc.events + 1]

\* The gradients allocated again from the mark, in ascending parameter order.
Compacted(w) ==
    MapThenFoldSet(Move,
        [arena |-> ReturnedTo(arena[entered], w), memory |-> memory,
         slots |-> slots, events |-> events],
        LAMBDA p : p, Max, DOMAIN slots)

\* grad_call_epilogue.
ClosePass ==
    /\ ~panicked /\ Inside /\ Top.kind = "pass" /\ Top.phase \in {"body", "backward"}
    /\ IF InArena(arena[entered], Top.mark)
       THEN LET after == Compacted(Top) IN
            /\ after.arena.used <= Extent[entered]
            /\ arena' = [arena EXCEPT ![entered] = after.arena]
            /\ memory' = after.memory
            /\ slots' = after.slots
            /\ blocks' = (blocks \ Discarded(entered, Top.born)) \cup Values(after.slots)
            /\ events' = after.events
            /\ UNCHANGED panicked
       ELSE panicked' = TRUE /\ UNCHANGED <<arena, memory, slots, blocks, events>>
    /\ windows' = Front(windows)
    /\ marks' = MarksBefore(Top)
    /\ UNCHANGED entered

\* The rewind at the exit of a forward-only entry.
CloseForward ==
    /\ ~panicked /\ Inside /\ Top.kind = "forward" /\ Top.phase = "body"
    /\ IF InArena(arena[entered], Top.mark)
       THEN /\ arena' = [arena EXCEPT ![entered] = ReturnedTo(@, Top)]
            /\ blocks' = blocks \ Discarded(entered, Top.born)
            /\ UNCHANGED panicked
       ELSE panicked' = TRUE /\ UNCHANGED <<arena, blocks>>
    /\ windows' = Front(windows)
    /\ marks' = MarksBefore(Top)
    /\ UNCHANGED <<memory, entered, slots, events>>

Next ==
    \/ \E n \in Sizes : Alloc(n)
    \/ \E b \in Budgets : Switch(b)
    \/ Snapshot \/ Restore \/ Forget
    \/ CallHelper \/ HelperReturns
    \/ OpenPass \/ OpenForward \/ ClosePass \/ CloseForward
    \/ \E p \in Params, x \in blocks : Publish(p, x)

Spec == Init /\ [][Next]_vars

-------------------------------------------------------------------------------
(* Properties.                                                              *)

SumOver(f, S) == MapThenSumSet(LAMBDA x : f[x], S)

Lengths(a) == [i \in DOMAIN a.chunks |-> a.chunks[i].len]
Charges == [x \in blocks |-> AlignUp(x.bytes)]

\* Every arena keeps a cursor inside its active chunk, a fixed chunk size once
\* it has one, and `committed` as the bytes of the chunks it holds.
TypeOK ==
    /\ entered \in Budgets /\ events \in Nat /\ panicked \in BOOLEAN
    /\ \A b \in Budgets : LET a == arena[b] IN
        /\ a.chunks = <<>> => a.cur = 1 /\ a.cursor = 0
        /\ a.chunks # <<>> => a.cur \in DOMAIN a.chunks /\ a.cursor \in 0..a.chunks[a.cur].len
        /\ a.committed = SumOver(Lengths(a), DOMAIN a.chunks)
        /\ b = 0 => a.chunkSize = RootChunk
    /\ \A x \in blocks : x.at % Align = 0 /\ x.id \in 1..events

\* Every value the program may still use is in memory that is still mapped and
\* that nothing has been placed over since, through rewinds, chunks skipped,
\* reused and replaced, and gradients moved.
BlocksIntact == \A x \in blocks : Intact(x)

\* The buffers a pass captured are still good when its epilogue reads them, so
\* the gradient it publishes is the one it computed.
SlotsIntact ==
    Inside /\ Top.kind = "pass" /\ Top.phase = "backward"
        => \A x \in Values(slots) : Intact(x) /\ x.value # Garbage

\* A gradient is the same after it has been moved.
GradientsSurvive == \A x \in blocks : x.value # Garbage

\* The meter covers what the program may still use and stays under the limit,
\* though the compiler's rewinds lower it.
UsedCoversLive ==
    \A b \in Budgets :
        /\ SumOver(Charges, {x \in blocks : x.budget = b}) <= arena[b].used
        /\ arena[b].used <= Extent[b]

\* A program that keeps its marks in order is never stopped by an assertion of
\* restore or of restore_internal, which would abort the process.
MarksHold == ~panicked
===============================================================================
