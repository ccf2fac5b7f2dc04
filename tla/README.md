# demoniC: memory, names, ports and gradients in TLA+

demoniC is a language with two backends that must agree: a tree-walking
interpreter (`compiler/src/interp.rs`, the reference) and a Cranelift JIT
(`compiler/src/jit.rs`). Most of the repository is a compiler: text to tree, tree
to types, tree to code. This project models what keeps state, follows an order or
waits, and what a test of one program at a time reaches worst:

* byte budgets that a program carves out of the forge, enters and reaps, in both
  backends, and the bump arenas that serve them in the JIT;
* the rewinds that a program asks for and those the compiler inserts around a
  `@grad` call, and the reverse sweep that computes gradients in that memory;
* what a name means in a program of several files, which the checker, the
  interpreter and the JIT find out in three ways;
* foreign processes behind pipes, and a GPU that finishes its work when it likes.

Source paths below are relative to `compiler/src`.

## The system

| component | state | operations | works with | modelled |
|---|---|---|---|---|
| Budget table, interpreter (`interp.rs` 740-960, 2440-2950) | `budgets`, `budget_free`, the register `CUR_BUDGET`/`CUR_BUDGET_TAG`, stamps on tensors | carve, reap, enter, `in b`, charging, staleness test, guard drop | evaluator, AD | `InterpBudgets` |
| `@grad` charge windows, interpreter (3860-4160, 5500-5566) | marks, `ctor_forge_bytes` | forward-only and `.fwd_bwd` entry and exit | budget table | `GradWindows` |
| Budget table, JIT (`jit.rs` 27840-28460) | `BUDGETS`, `BUDGET_FREE`, `CURRENT_BUDGET`, `FORGE_EXHAUSTED`, `arena.used` | carve, reap, enter, exit, allocate, under two exhaustion policies; reset between tests | emitted code, arena, harness | `JitBudgets` |
| Extent edges of emitted code (8160-8180, 9780-9818, 10560-10620, 21160-21230) | `budget_stack`, `loop_stack` at compile time | end of block, break, continue, return, `?` | JIT table | `JitBudgets` |
| Forge arena (27290-27850, 28310-28410) and `GRAD_SLOTS` (27130-27201) | chunk lists, cursors, `used`, `committed`, marks, slots | alloc, snapshot, restore, internal mark and restore, prologue, epilogue | JIT table, emitted code | `ForgeArena` |
| Reverse sweep (`interp.rs` 14020-14800, `jit.rs` 17270-18480) | tape, adjoints, buffers | record, backward, publish | arena | `AdTape` (partly) |
| GPU batching (`gpu.rs`, its gate in `jit.rs`) | command buffers in flight, deferred read-backs, growing scratch, resident weights | dispatch, wait, flush | JIT lowering, device | `GpuBatch` |
| Process ports (`ports.rs`, `py/port_harness.py`) | the registry of children, ids never reused, two pipes a child | open, call, close, end of the program | values, child processes | `Ports` |
| Import resolver (`resolver.rs`) | visited set, path stack, sorted list | resolve | parser | `Resolver` |
| Names: imports in the checker, module tables of the interpreter, merge (`merge.rs`) for the JIT | exports and aliases; `scopes`, `cur_module`, `module_fns`; rename tables | process imports, load a file, call, refer; rename and refuse | resolver, both backends | `Names` (functions, externs, constants) |
| Test harness (`main.rs`) | one JIT arena per test, the policy | reset, run, take the exhaustion record | everything | the reset and the policy, in `JitBudgets` |
| Differential self-test (`selftest.rs`) | a worker thread per seed | generate, classify with timeout | both backends | no |
| Symbolic shapes (`shape.rs`), comptime folding (`comptime.rs`) | none; a step counter | normalise, broadcast; gate, fold | checker | no |
| Types and ownership, lexer, parser, AST, desugaring, formatter, diagnostics, manifest, arena sizes, assimilate, tools | trees and text | | | no |

What makes each modelled part correct:

* **Budget tables.** A handle is good until its budget is reaped and never after,
  though slots are reused and only a generation tells tenants apart. Free, charged
  and carved-out bytes of a budget add up to its extent, called (LOC) in the code.
  `--forge` is one ceiling over the tree. The register comes back on every edge
  that leaves an extent. A tensor is stamped with the budget that paid for it.
* **Windows.** What the compiler inserted is handed back when a `@grad` call ends,
  what the program named is not, and the gradients that outlive the call are paid for.
* **Arena.** No memory the program may still use is overwritten or unmapped,
  whatever was rewound, skipped or replaced; gradients survive being moved over
  one another; the meter covers what is live.
* **Sweep.** Each input receives the derivative, however often and in whatever
  order the body uses it, and both backends publish the same.
* **GPU.** Deferral is invisible: no result is lost, torn, read too early or taken
  from scratch that was overwritten, and every block ends.
* **Ports.** A call gets the answer to its own request from its own child; a close
  leaves nothing running; builtins return; no child outlives the program.
* **Resolver.** The list holds the files in reach, each once, after what it uses,
  and exactly the programs with a cycle or an unreadable file are refused.
* **Names.** A reference reaches the declaration the checker found for it, under
  either backend, and the merge refuses no program the checker accepts.

In the language a program is single-threaded. Concurrency comes from outside: the
device and the children. Elsewhere the hard part is the order of legal calls: a reap
inside the extent of the same budget, nested marks, passes in passes, an error with
three extents open, a slot used a second time, a name three callers up.
`PROJECT.json` lists these hazards at their lines.

## Modules

* `BudgetTree`: what both backends promise of budgets, with no slots, no
  generations and no free list. A budget is an identity used once; three actions.
* `InterpBudgets`: the interpreter's table. `size, parent, extent, used, free,
  children, gen, budgetFree` are the fields of `BudgetEntry` and the two vectors;
  `cur` and `tag` are the two thread-locals; `guards` is the stack of
  `BudgetGuard`s on the Rust stack; `vaultUsed` the Vault's meter; `tensors` the
  stamps of the tensors in use; `status` the error being raised. One action per
  entry point (`Carve`, `Reap`, `Enter`, `Leave`, `AllocTensor`, `CopyTensor`,
  `AllocString`, `AllocVault`), one per refusal. After an error only `Leave` is
  enabled, which is drop glue running. `minted`, `tenant`, `reaped` and `reserved`
  are history, as are the fields `paid` and `late` of a tensor. A fresh value passes
  through `eval_expr` and is refused in an extent whose budget is gone (`AllocTensor`);
  a private copy is charged, stamped and bound after that look (`CopyTensor`).
* `GradWindows`: extends it with the calls that rewind the meter. `windows` holds
  the marks on the Rust stack, `ctorBytes` is `ctor_forge_bytes`. The steps of the
  table happen inside a window and out.
* `JitBudgets`: the runtime table of the JIT and the edges of the emitted code.
  `extents` and `frames` are where the program is: the extents it is in and the
  calls and loops around them, which stand for `budget_stack` and `loop_stack`. An
  edge restores the register by the exits emitted on it (`ExitsTo`), never by a
  guard. `metered` is `arena.used`, apart from `used` of the table. A refusal ends
  the process, except that exhaustion under `records`, the policy of `dmc test
  --jit`, is recorded and let through; `NextTest` is the reset before the next test.
  The body of a `@grad` fn contains differentiable code and nested passes only
  (`Bare`); tensor literals and arguments in it may call any function. It is the lowering of the
  `.fwd_bwd` entry that refuses anything else. The forward-only entry goes through the
  ordinary lowering, but both entries of a `@grad` fn are always compiled
  (`jit.rs` 4310-4313), so what the one refuses the other never runs.
* `ForgeArena`: placement. `arena` is the `ForgeArena` of each budget, to the chunk
  list and the cursor; `slots` is `GRAD_SLOTS`. A chunk that is mapped gets a fresh
  number, so that memory unmapped and replaced is told apart from memory reused. The
  epilogue of a pass (`Compacted`) places the gradients again from the mark of the
  call, in the order of the parameters: a fold of single placements (`Move`).
  `memory`, the block that last wrote each cell, is compared with `blocks`, what
  the language lets the program still use.
* `AdTape`: the tape, the sweep and the adjoints, on one backend or the other. The
  interpreter's adjoints are values, the JIT's are buffers that are passed on and
  added into.
* `GpuBatch`: a straight block of projections and other statements. `Defers` is the
  gate of the lowering with its flag `deferPending`, `Issue` commits the command
  buffers of one call, `Complete` waits and copies, `InlineKernel` is the CPU path
  with its flush. `GpuCompletes` takes any command buffer in flight, reads its input
  and writes its output at that moment, so that scratch reused too early shows.
  `want` is what the program computes without deferral. Two paths of `gpu_run` are left
  out because the gate keeps them from being taken: the overlap test of the weights (`gpu.rs` 495;
  a weight is bf16 and named, a deferred result is f32, and a conversion is a statement
  that is no candidate) and the CPU path for slices that are not a multiple of four
  wide (504; the gate asks for `n` and `rs` that are, `jit.rs` 19914 and 19930).
* `Ports`: `ports` and `nextId` are the registry; a call is `Call`, `Write`, `Read`, a
  close is `Close`, `Reap`, because each of them can block. A child is its
  state, its two pipes and the lines it has left to write. A function of the child
  may print on the response pipe, raise, answer nonsense, end the child or hang.
* `Resolver`: the recursion as an explicit stack, with one action per outcome of a
  `use`. `Names` extends it: after `Check` (the imports of `check.rs` and its rule for
  an identifier, `Means`) a program is either loaded and run by the interpreter
  (`Load`: one table of constants for all files, one of functions for each) or
  merged and run by the JIT (`Merge`: the renaming as a function from declarations
  and references to names). A function body may make any reference the checker
  accepts, so a run tries all of them, in every chain of calls.
* `StacksAndSums`: what the proofs share: lemmas about stacks kept as sequences, about
  finite sets and whole quotients, about folds over a set, and about sums over slots.
* `..._proofs`: theorems about the module of that name; `InterpBudgets_proofs` also holds those
  about `GradWindows`, which steps over the same table.
* `MC...`: the modules TLC runs; they hold what a `.cfg` cannot write.

Each definition a bug could plausibly change has a slip before it, an operator
marked "Slip:" that no model uses: the same code with a guard, a reset or an order
lost. Putting one in place of the definition must break the property that is
there for it.

## Runs

| run | asks | result |
|---|---|---|
| `InterpBudgets` | handles, stamps, (LOC), the register, refinement of `BudgetTree`, and that an error always ends with the register at the root | holds |
| `GradWindows` | named bytes stay charged; (LOC) and the room of a pass hold until a window is crossed | holds |
| `JitBudgets` | the same table properties in the JIT and the same abstract tree; no byte in a reaped slot; the register after every kind of edge over nested extents, calls and loops; a `@grad` call ends under the budget it began under; nothing is spent twice through windows, recording and the next test | holds |
| `Arena` | live blocks intact through program marks in two arenas and through nested passes, chunks grown, skipped, reused, replaced; captured and moved gradients; the meter | holds |
| `ArenaForeignMark` | live blocks intact when a mark is restored under another budget | violated |
| `ArenaStaleSlot` | captured buffers good at the epilogue when helper code makes passes of its own | violated |
| `AdTape` | the interpreter exact at the end and at every node; the JIT exact unless a shared buffer was added into | holds |
| `AdJitShared` | the JIT exact without that condition | violated |
| `GpuBatch` | the host sees what it would without deferral; nothing is deferred beyond a run of candidates; every block ends | holds |
| `Ports` | answers belong to their requests; closed is reaped; builtins return; no child outlives the program | holds |
| `Names` | the resolver's list and verdict; both backends reach what the checker found, up to named exceptions; the merge refuses only externs that clash with what keeps its name, and a file called by a number | holds |
| `NamesLets` | a file's private constants are found by no other file | violated |

### Bounds

* Bytes are scaled. Budgets of three or four units carved in ones and twos reach
  every relation between free, used and reserved that the guards compare; negative
  requests are in `InterpBudgets` and `JitBudgets`.
* `MaxSlots = 3` with two or three carves and one or two reaps reaches a reused
  slot, a child of a carved budget and a full table. `GenMod = 4` stands for 2^32:
  with at most two reaps the generation does not wrap, and `NoWrap` says so.
* `MaxExtents`, `MaxFrames`, `MaxDepth`, `MaxWindows` bound nesting. A wrong exit
  shows with two extents; three over four frames let a break, a continue and a return
  cross two of them, and let helper code inside a window do so.
* `JitBudgets` explores three corners of one space, named in `MCJitBudgets` and joined
  by its constraint: `Table` (slots come and go, three carves, two reaps, no
  window), `Edges` (three extents over four frames around one window, one budget) and
  `Windows` (two nested `@grad` calls with the recording policy and the next test):
  600,061 states. Outside the corners each question would be asked with
  counters that do not matter to it.
* `Arena` has two such corners: `Marks` (two arenas, program marks, no windows) and
  `Passes` (one arena, `@grad` calls nested two deep, two sizes). Lines are 2 bytes
  and pages 4, chunks start at one page. Sizes 1, 3 and 5 make alignment gaps, an
  oversized chunk, and an above-cursor chunk that is too small and has to be replaced.
* `MaxUsed` caps a meter only where nothing else does, for an unbounded budget or
  under the recording policy. TLC runs the bounded forge; a run without
  `--forge` is covered by the theorems.
* Tapes have two parameters and three operations: an operand used twice, a node
  used by two others, a node the loss does not reach, and the shortest program
  whose adjoint is shared are all among them. Values 2 and 3 keep an error visible.
* GPU blocks have four statements of three kinds, each on the input or any earlier
  result, with slices of one and three bytes on scratch that holds four: a
  slice that fits, one that makes the scratch grow while work is in flight, and one
  after the growth. Each call is split into two command buffers, and the cache of
  resident weights overflows.
* Two ports, three calls, pipes of one line: an id could come back, the third call can
  meet what the first two left, and a pipe is full when one line waits.
* Three files. `Graphs` are all import graphs with up to two uses a file and a file
  that may be unreadable; three files make a diamond, a cycle with a tail and a
  duplicate `use`. The other programs are a product of choices around the names `f`, `g`,
  `main` and the alias `a`: the same name as a function, a constant, an extern, a
  local of a function and an alias, private or `pub`, in one file or several, with
  file names that fold together. Calls nest two deep; one more returns at once.

Deadlock is not checked: a program may stop anywhere, and the bounds stop it too.

### Fairness

* `InterpBudgets` (`ErrorRestoresRegister`): dropping a guard once an error is being
  raised. The Rust compiler inserts that drop on every unwinding edge.
* `GpuBatch` (`BlockEnds`): the device completes something while work is in flight, and
  the program goes on from one statement to the next. A command buffer that fails is
  completed too.
* `Ports` (`Returns`, `ChildrenEnd`): the operating system runs each child that can run,
  and the program while it is inside a builtin. Nothing makes a program call or close,
  and nothing makes a hanging function return: the properties say what then waits.
* `Names` (`ResolutionDecides`): the resolver does not stop before it has decided.

Nothing else is assumed to be fair, so programs may stop or loop anywhere.

## Where code and comments part

Runs whose property is violated, each quoting the line it takes its property from:

1. `ArenaForeignMark`. `forge.restore` (`jit.rs` 28370) checks that a mark is inside
   the arena of the entered budget, not that it was taken there.
2. `ArenaStaleSlot`. `GRAD_SLOTS` is cleared when a pass starts, so what a nested pass
   captures stays for the outer epilogue (`jit.rs` 27172). It needs a `.fwd_bwd` in
   a function that the body of a `@grad` fn calls from a tensor literal or an argument.
3. `AdJitShared`. The rule of `.+` (`jit.rs` 18148) passes one buffer to both operands
   and `ad_accumulate` adds into it: `sum((w .+ w) .+ w)` has gradient 4.
4. `NamesLets`. The interpreter keeps the top-level constants of all files in one table
   and asks it before the functions of the executing file (`interp.rs` 3586), so a
   private `let f` of an imported file hides an own `fn f`; SPEC.md 1004 calls it
   file-private.

Others appear as the condition of a property that holds, or as the difference between
two models:

* `metered` and `used` in `JitBudgets`: `restore_internal` (`jit.rs` 27815) rewinds
  `arena.used` and not the table's `used` and `free`, which `jit.rs` 27878 says are
  "kept in lockstep". A carved budget, or a root with children, is served
  from `free`, so every `@grad` call uses it up for good, where the interpreter
  gives the bytes back. `Solvent` shows the difference is never in the program's
  favour, and `Loc` holds wherever the two agree.
* `RegisterFollowsGuards` ends with "until that budget is reaped": the register is a
  bare index (`interp.rs` 860), so a budget reaped inside its own extent, and its slot
  carved again, hands the extent to the new tenant.
* `StampMatchesCharge` excepts a tensor that is `late`: inside an extent of `b`, after
  `reap(b)` and a `carve` of `c` that takes its slot, `let !y = x` charges the copy to `c`
  through the bare index and stamps it with the dead `b` (`interp.rs` 3230-3235, the same in
  `Stmt::Let`, and 5416-5425 for a `!` parameter), where the comment at 929 says
  "the copy's origin must match what it is charged to". No check follows, so `y` is bound and
  stale while the budget that paid for it is live; any other tensor made there is refused
  at once. The error is on the safe side: `y` can never be read.
* `LocUnlessCrossed` and `RechargeUnlessCrossed`: `kept_ctor_bytes` counts
  constructors of the whole interpreter (`interp.rs` 5566, 4154), so one charged to
  another budget moves the meter of the window's budget.
* `Disconnected = {0}` in `GradWindows`: the zero gradient of an input the loss
  ignores (`interp.rs` 4113) was never charged, so with a size other than 0 the
  re-charge can fail, which the comment at 4150 rules out.
* `NoWrap`: after 2^32 reaps of a slot a stale handle is good again (`interp.rs` 2834).
* A negative carve is refused by the interpreter (2756) and clamped to zero by the
  JIT (27977). Each module follows its backend.
* `AnswersItsRequest` and `Returns` except a port whose function has printed: its
  standard output is the pipe the responses use, so from then on calls get the
  answers of earlier ones, and a full pipe can hold a write or a close for ever. There
  is no timeout, so a function that hangs holds its caller.
* `InterpFollowsText` excepts a name that a calling function binds (the scopes of all
  callers are searched before the functions of the file), a name another
  file holds as a constant or an alias, and a file that declares as `extern fn` what it also
  imports: the checker means the extern, the interpreter runs the import.
* `JitFollowsText` excepts `alias.g` in a function with a local `g` (`merge.rs` 1342
  rewrites it to the bare name, which the local then captures) and a file with a `let g`
  that imports a `pub fn g` (functions come first in the merge, `EXPR_NS`, `merge.rs` 194; the
  checker and the interpreter read the constant).
* `InterpFollowsText` also excepts where a program begins, if its entry file has no `main`
  and imports one: `run` (`interp.rs` 3000) finds the import, though the comment above it says
  that a `main` in a dependency is that file's own. The JIT finds none.
* Exports: code and model export the items marked `pub`, and nothing else. SPEC.md 1029 has an
  `extern fn` "always visible to importers without `pub`". No property covers this: `Means`
  is the checker's rule, and the others are compared with it.
* `MergeRefusesOnlyExterns` excepts a file called by a number (`NumberedFile`): two files whose
  folded paths agree are told apart by their place in the list, joined by `$` (`merge.rs` 741), and
  so is a directory from a file, so `a_b$0$` can be the first of two or `a_b/0.dmc`. The
  comment (`merge.rs` 66) has prefixes collision-free by construction. Such a program is
  refused and never miscompiled.

## What is proved

The theorems hold for every value of the constants their modules assume: all limits,
requests and sizes, tables of any length, nesting, pipes and blocks of any size.

**Interpreter budgets** (`InterpBudgets_proofs`)

* `TypeCorrect`: `Spec => []TypeOK`. Inductive with `Born`: every slot below `size`
  has had a tenant, and only the root is unbounded.
* `HandlesExact`: `NoWrap => (Spec => []StaleExact)`. The strengthening `HandleInv`
  says that the free stack has no duplicates, that no generation exceeds the number
  of reaps, and, for every handle ever minted, that its slot's generation equals its
  own exactly while it is not reaped and is greater afterwards. `StaleExact`
  alone is not inductive: that a reap cannot revive an older handle of the slot
  rests on generations only going up, which is where `NoWrap` enters.
* `StampsExact` and `RegisterRestored`: under `NoWrap`, from `StampInv`. The register,
  the tag and what every guard saved are those of the budget opened one level further
  out, so a pop restores a consistent pair; and each tensor's tag is the descriptor
  its payer was minted with, or, if it is late, that of some reaped budget (`Stamped`).
* `BooksBalance`: `NoWrap => (Spec => []Loc)`, from `BooksInv`. A carve moves `n` from
  `free` to `reserved` of the parent and makes a balanced entry; a reap reverses it;
  every other charge moves bytes from `free` to `used`. The type invariant and
  `HandleInv` are needed for the slot a carve takes not to be live.

* `TableIsATree`: `NoWrap => (Spec => ImplementsTree)`, the refinement of `BudgetTree` step
  by step, from `FamilyInv`: the parent of a live budget is live and still in the slot the child
  was carved from, though slots are reused, and a slot has reserved and counted exactly
  the children of its tenant. So what the code refuses to reap is what the
  tree says has children, and what it lets a budget spend is what the tree says is left.

**Windows** (`InterpBudgets_proofs`, second part). The steps are those of the table a program may take
inside a window, and the rewinds.

* `NamedNotRewound`: `GradSpec => []NamedStayCharged`, without `NoWrap`. The invariant
  `Core` says where each open window stands (`Places`: windows and extents nest, so a
  window finds its own budget entered when it closes) and that its mark with what
  constructors charged since covers what is named in its budget (`Marks`). It need
  not hold once an error has ended the program.
* `UncrossedPassPays`: `Disconnected \subseteq {0} => (GradSpec => []RechargeUnlessCrossed)`.
  `Covered` adds that the budget of every open window holds its mark, what was
  named since and its adjoints, and that a window opened inside another on the same
  budget lands no lower than the outer one: without the second half the
  first does not survive the inner window's rewind. A pass then frees at least
  the adjoints it goes on to charge.
* `UncrossedBooksBalance`: `NoWrap => (GradSpec => []LocUnlessCrossed)`: a covered window
  lands below what is charged, so nothing saturates and `used` and `free` move alike.

**JIT budgets** (`JitBudgets_proofs`). The steps are those of the
table, of every edge out of an extent, of `@grad` calls and of the next test, which
starts the table anew but under the policy it has.

* `TypeCorrect`: `Spec => []TypeOK`, with no bound on reaps: generations may wrap. The
  invariant `TypeInv` has six parts: the table, the free stack, the handles, the
  control state, the frames (each was opened under no more extents than are open inside
  it, so an exit never pops what it should keep) and the family, that every
  slot's `children` and `reserved` are the number and the extents of its live
  children. A carve into a count that is a natural needs nothing, but a reap takes one
  away: only the exact count shows it stays natural.
* `HandlesExact` (under `NoWrap`): as for the interpreter.
* `RegisterRestored` and `GradReturnsHome`, from `RegisterInv`: each extent saved the
  budget of the extent around it (`Nested`), so restoring from the outermost extent
  left is enough however many are left; and the budget of each waiting `@grad`
  call is the one that was entered where the call it waits in began (`WindowsNest`).
* `BooksBalance`, `NothingSpentTwice` and `ReapedStaysEmpty`, from `BooksInv`: as long as
  no exhaustion is on record, `metered <= used` and `metered + reserved + free <= extent`
  for every live slot, with equality while the two counters agree, and a dead slot is
  empty. The root is the hard case: its charges are checked against the arena
  and not against `free`, so the invariant also carries that its extent is the limit.
* `OneCeiling`: `Spec => []ForgeIsACeiling`: whatever was carved and charged, all
  arenas together hold no more than `--forge`, as long as no exhaustion was recorded.
  The invariant `CeilingInv` is about what each live slot keeps to itself, its
  extent less what it has carved out; these add up to the root's extent, whatever is
  carved and reaped, and each bounds what that slot has metered.
* `TableIsATree`: `NoWrap => (Spec => ImplementsTree)`, along the interpreter's argument, from
  `Tenancy`: a live slot is held by the budget that was carved into it and is not reaped.
  `ImplementsTree` lets the tree start anew with the next test, and says nothing of steps
  that leave an exhaustion on record or the two counters apart.

**Forge arena** (`ForgeArena_proofs`): all six properties of the run: `TypeCorrect`, `NothingPlacedOver` (`BlocksIntact`), `NeverStopped` (`MarksHold`), `MeterCovers`
(`UsedCoversLive`), `CapturedBuffersSurvive` (`SlotsIntact`) and
`MovedGradientsAreThoseComputed` (`GradientsSurvive`), for arenas of any number, chunks,
blocks and marks of any size, and passes nested to any depth. The invariant:

* `Stored`: a live block lies in a chunk that is still the mapping it was placed in, below
  the cursor, each of its cells still holds it, and the meter covers all of them together;
* `Marked`: a position that can be rewound to is at or before the cursor, its chunk is
  still there, and the live blocks that are older than it end before it, so that a
  rewind frees what came later and nothing else;
* `Ordered`: the positions of one arena follow one another in space as in time, so a rewind to
  one leaves those before it good;
* `SlotInv`: the block of a slot is live, and no mark that helper code can still restore is
  older than it.

None of the properties is inductive alone: that a cell is not written a second time rests on
the cursor, which a rewind moves back, so every position it can be moved back to must
be accounted for before it is used. They assume `~ForeignMarks` (a mark is restored under the
budget it was taken in), and the last two also `~GradInHelper` (helper code called from a
pass makes no `@grad` calls of its own). These are constants of the model and have these values in
the run `Arena`; the runs `ArenaForeignMark` and `ArenaStaleSlot`, which have the others, show
what happens without them.

**Reverse sweep** (`AdTape_proofs`): all three properties of the run, for tapes of any length, any
forward values and both backends: `InterpreterIsExact` (`InterpExact`), `NodesAreComplete`
(`PartialSumsExact`) and `JitIsExactUnlessShared` (`JitExactUnlessShared`), under no more than
the types of the constants.

* `ChainRule`: `Derivative`, a recursive function over the tape, is defined. A function that
  keeps to the chain rule above a node extends to that node, whose derivative depends on later
  nodes only (`ChainExtends`), so there is one for the whole tape (`Downwards`: what holds at
  the last node and goes on to the one before holds at all). It is stated of a tape and a loss and not of
  the variables, so it says the same of the next state.
* The invariant `SumsInv` is one for both backends. A node is awaited if the sweep has yet to
  visit it or it is a parameter. As long as nothing was added into shared memory, every
  awaited node has received the contributions of exactly the nodes visited (`Received`). The
  node to be visited is then complete, as only later nodes use it (`CompleteIsDerivative`), and what it
  hands on is its derivative times a partial derivative (`PropagatedPasses`), the one addend
  by which the sums of its operands grow.
* That a contribution changes one awaited node only is `Adds`: by a new value in the interpreter
  (`InterpAdds`), and in the JIT because no other awaited node holds the buffer (`JitAdds`). The nodes
  that are not awaited may be overwritten, and are. Between its two contributions the adjoint of the
  visited node must stand (`AdjointStands`): it is read again for the second.

**Ports** (`Ports_proofs`): `AnswersOwn` and `ReapedOnClose`. The invariant: an id names
one child while it is open and is not minted again; what is in a child's pipes stems
from requests already made; and a child that has not printed holds, in both pipes and
in what it has left to write, at most one message, which belongs to the request being
read for. A child outside the registry has exited or is being waited for.

**Resolver** (`Names_proofs`): `ListIsLeafFirst`, `Spec => []LeafFirst` for the specification
of `Names` and any import graph. The invariant (`OrderInv`): a file is on its way once, or listed
once, or neither; of the uses that a file on its way has passed, all are listed but the
one being resolved, which is the next file on its way; what a listed file uses is listed
before it.

**Names** (`Names_proofs`), for any number of files, any declarations and aliases in them, any paths
and any chain of calls:

* `InterpreterFollowsText`: `Spec => []InterpFollowsText`. The invariant `TablesInv` says whose each
  entry of the one table is: under a name there is a constant of that name, or a
  module by an alias of a file that has no such constant (`Held`), and once all files are loaded
  no constant and no alias is missing. It must hold of the snapshots too, since they
  are where the imports of the next file come from, and those are there only because of
  `OrderInv`. A reference then finds its own file's entry, or the exception the property
  names; one that finds none goes to the functions of its file, which are those of the checker but for the
  externs (`FunctionsIs` against `EnvironmentIs`).
* `MergedFollowsText`: `Spec => []JitFollowsText`. A merge that was not refused gives two declarations one
  name only if both are the same extern (`MergedApart`), so what a rewritten reference
  finds is what it was rewritten to (`JitDeclared`), and that is what the checker found
  (`JitReached`).
* `OnlyExternsRefused`: `Spec => []MergeRefusesOnlyExterns`. Prefixes tell files apart
  (`PrefixesApart`): two keys that agree get two numbers, and a number is the last part of no other
  key unless a file is called by it. So two declarations that clash both keep their bare name
  (`ClashIsBare`), which no two `pub` functions do.

Of the constants these assume what the source gives: declarations have one file and one name,
no file declares a name twice, a path has a last part, `main` is an entry point, and numbers
are written so that two have two spellings.

**GPU** (`GpuBatch_proofs`): `DeferredOnlyInRuns`. Whatever is deferred between two
statements, the statement to come is a candidate and the compiler's flag says that it
must flush. `HostAlwaysExact`: `Spec => []HostExact`, under no more than the module's
assumption on the constants. The invariant (`Exact`) says of every result owed, cell by cell of its slice: it is there, or
something in flight will write it, and whatever in flight covers the cell computes it from an
input that has not been overwritten (`Filled`). Slices in one scratch buffer do not
meet because the bump offset only grows until everything was waited for; scratch
that grows is a new buffer, while what is in flight keeps the old one (`retired`).

The proofs have one lemma per action that can disturb the invariant and one frame
lemma for those that cannot.

Only model-checked:

* liveness: `ErrorRestoresRegister`, `BlockEnds`, `Returns`, `ChildrenEnd`,
  `ResolutionDecides`; the prover has no rules for fairness;
* that the resolver's list is all that is in reach (in `ResolutionDecides`), which rests on a
  transitive closure.

Sums and folds come with the library only as definitions over recursive functions. `StacksAndSums`
proves what is needed of them, that a sum does not depend on the order in which `CHOOSE` takes
the elements, and `ForgeArena_proofs` that the epilogue goes through the parameters in their
order. Both rest on `Descent`: of the finite sets that contradict a claim there is one with no
smaller one among them, since inclusion is well-founded. This says of a set of sets what an
induction rule says of a predicate; `Downwards` says it of a set of nodes.

## What is not modelled

Within the modelled parts: tensor contents (`ForgeArena` and `AdTape` keep what is
needed to tell a right value from a wrong one; in `GpuBatch` a product is one value), the
text of diagnostics, the mapping calls of the operating system, and the poisoning of reaped
chunks, a debugging aid. A payload on a port is the kind of its answer; base64
and JSON are layout. `AdTape` has the elementwise `.+`, `.-`, `.*`; matmul, reductions,
activations, broadcasting, scalar nodes and the second-order tape follow the same
accumulation. `Names` has functions, externs and constants; models, enums and type
aliases have key spaces that follow the same rules, and binding patterns of `match` are
left out.

Outside them:

* `selftest.rs`: one worker per seed with a channel of its own. Workers that time out
  go on running, but share nothing but the panic hook of the process.
* `shape.rs`, `comptime.rs`: a normal form over polynomials, and a fold under a step
  count. Functions from tree to tree, tested as such.
* The lexer, parser, formatter, desugaring and the analyses of types and ownership;
  the translation of some two hundred builtins to Cranelift IR; the port-wrapper
  generator. They are functions from text to tree, tree to tree and tree to code,
  where a state machine would repeat the code. `jit.rs`, `interp.rs` and `check.rs`, by far the
  longest files, consist mostly of these and, in `jit.rs`, of its own tests: the modelled
  lines are a small share of them although what keeps state in them is
  modelled, but for the operators of the interpreter on values.
* Diagnostics, the manifest and the arena sizes: they reach the models as an end of
  the process and as constants.

## Plan

Done, in this order: `BudgetTree` and `InterpBudgets` with their theorems,
`GradWindows`, `JitBudgets`, `ForgeArena`, `AdTape`; then the test loop in
`JitBudgets`, `GpuBatch`, `Ports`, `Resolver` and `Names`, and the theorems about the
JIT table, the windows, the ports, the resolver and the GPU gate; then the refinement of
`BudgetTree` by both tables, the ceiling, the forge arena, the deferred results of the GPU,
what names stand for under both backends, and the derivative the sweep computes.

Next, most important first:

1. `BackendParity`: the interpreter's and the JIT's table run in step on one program
   (composition of `InterpBudgets` and `JitBudgets`), to state exactly on which
   programs both refuse at the same point: negative carves, charges under a
   reaped extent, windows.
2. That the resolver's list holds only files in reach, as a theorem.
3. More of `AdTape`: scalar nodes, reductions, nested passes, the second-order tape.
4. KV streams (append along an axis up to a capacity), copy-on-write of tensors and
   `!` parameters.
5. `SymDim` and `Comptime`: pure algorithms against reference definitions; the step budget.
