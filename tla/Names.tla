--------------------------------- MODULE Names ---------------------------------
(***************************************************************************)
(* What a name means in a program of several files.  The checker says it   *)
(* (check.rs, process_imports and the identifier arms); the interpreter    *)
(* and the JIT then find it again, each in a way of its own:               *)
(*                                                                         *)
(*  - the interpreter loads the files one after the other, keeps a table   *)
(*    of functions for each, and looks a name up at run time;              *)
(*  - the JIT compiles one program, which merge.rs makes of all the files  *)
(*    by renaming every declaration and every reference.                   *)
(*                                                                         *)
(* A function body may make any reference the checker accepts, so a run    *)
(* tries them all.  A reference is a name, or alias.name; it is called or  *)
(* only read.  Models, enums and type aliases, which follow the rules of   *)
(* functions, are left out.                                                *)
(***************************************************************************)
EXTENDS Resolver

CONSTANTS
    Words,        \* the names and aliases that can be written
    None,         \* no alias
    EntryPoints,  \* the functions looked up by literal name: main and test_*
    Number,       \* the numbers of the files as parts of a name
    MaxFrames     \* bound: calls in progress; one more returns at once

\* A declaration: its file, its kind, its name, whether it is `pub`, its
\* signature if it is an extern fn, and the parameters and lets of its body if it is a fn,
\* each holding a function or data.
ASSUME NamesAssumption ==
    /\ None \notin Words
    /\ \A p \in Programs :
          /\ \A x \in p.decls :
                /\ x.file \in Files /\ x.name \in Words
                /\ x.ns \in {"fn", "let", "extern"} /\ x.pub \in BOOLEAN
                /\ x.pub => x.ns = "fn"
                /\ Range(x.local) \subseteq {"fn", "data"}
          /\ \A x, y \in p.decls : x.file = y.file /\ x.name = y.name => x = y
          /\ \A f \in Files : p.path[f] \in Seq(Range(p.path[f])) /\ p.path[f] # <<>>
    /\ "main" \in EntryPoints
    /\ IsFiniteSet(Files)
    /\ IsInjective(Number) /\ 0..(Cardinality(Files) - 1) \subseteq DOMAIN Number
    /\ MaxFrames \in Nat

VARIABLES
    phase,        \* "front", "load", "merge", "run", "refused", "unmerged" or "over"
    loaded,       \* the files the interpreter has loaded
    globals,      \* scopes[0] of the interpreter: one table for all the files
    snapshots,    \* scopes[0] as it was when each file had been loaded
    frames,       \* the functions being executed, the innermost last
    last          \* history: the last reference, the depth it was made at, its meaning
                  \* and what it reached

interp == <<loaded, globals, snapshots>>
vars == <<prog, resolver, phase, interp, frames, last>>

Thing(kind, at, name) == [kind |-> kind, at |-> at, name |-> name]
Nothing == Thing("nothing", 0, "")
TheFn(x) == Thing(x.ns, IF x.ns = "extern" THEN 0 ELSE x.file, x.name)

NoReference == [q |-> None, name |-> "", depth |-> 0, want |-> Nothing, got |-> Nothing]

Init ==
    /\ ResolverInit
    /\ phase = "front"
    /\ loaded = 0 /\ globals = <<>> /\ snapshots = <<>>
    /\ frames = <<>>
    /\ last = NoReference

ResolveStep ==
    /\ phase = "front"
    /\ Resolve
    /\ UNCHANGED <<phase, interp, frames, last>>

-------------------------------------------------------------------------------
(* What a file can name.                                                    *)

Own(f, kinds) == {x \in prog.decls : x.file = f /\ x.ns \in kinds}
Exported(f) == {x \in prog.decls : x.file = f /\ x.pub}

\* The declarations as a table: by name, under the alias q.
Table(decls, q) ==
    [key \in {<<q, x.name>> : x \in decls} |-> CHOOSE x \in decls : x.name = key[2]]

\* Tables laid over one another, the last on top.
Laid(tables) ==
    [key \in UNION {DOMAIN tables[k] : k \in DOMAIN tables} |->
        tables[Max({k \in DOMAIN tables : key \in DOMAIN tables[k]})][key]]

\* The imports of f, a later `use` over an earlier one.
Imports(f) ==
    Laid([k \in DOMAIN prog.uses[f] |-> Table(Exported(prog.uses[f][k].to), prog.uses[f][k].as)])

Aliases(f) == {u.as : u \in Range(prog.uses[f])} \ {None}
LetNames(f) == {x.name : x \in Own(f, {"let"})}

\* Two unqualified imports export one name.
Ambiguous(f) ==
    \E j, k \in DOMAIN prog.uses[f] :
        /\ j < k /\ prog.uses[f][j].as = None /\ prog.uses[f][k].as = None
        /\ \E x \in Exported(prog.uses[f][j].to), y \in Exported(prog.uses[f][k].to) : x.name = y.name

\* check.rs: the locals, then the lets of the file, its aliases, then its
\* functions, which are its own and after them those it imports.  The lets stand
\* above the functions: a body does not see what is below it.
Environment(f) ==
    Laid(<<Imports(f), Table(Own(f, {"fn", "extern"}), None), Table(Own(f, {"let"}), None)>>)

Executing == Last(frames)

Means(q, name) ==
    IF (IF q = None THEN name ELSE q) \in DOMAIN Executing.local
    THEN IF q = None THEN Thing("local", Len(frames), name) ELSE Nothing
    ELSE IF /\ <<q, name>> \in DOMAIN Environment(Executing.file)
            /\ IF q = None THEN name \in LetNames(Executing.file) \/ name \notin Aliases(Executing.file)
               ELSE q \notin LetNames(Executing.file)
         THEN TheFn(Environment(Executing.file)[<<q, name>>])
         ELSE Nothing

\* The references the checker accepts: defined, and a function where called.
WellTyped(q, name, call) ==
    LET m == Means(q, name) IN
    /\ m.kind # "nothing"
    /\ call => \/ m.kind \in {"fn", "extern"}
               \/ (m.kind = "local" /\ Executing.local[name] = "fn")

Check ==
    /\ phase = "front" /\ outcome # "resolving"
    /\ IF outcome = "resolved" /\ \A f \in Visited : ~Ambiguous(f)
       THEN phase' \in {"load", "merge"}
       ELSE phase' = "refused"
    /\ UNCHANGED <<prog, resolver, interp, frames, last>>

MainDeclared == \E x \in Own(Entry, {"fn"}) : x.name = "main"

\* The program begins with main, if one was found.
Started(mains) ==
    IF mains = {}
    THEN phase' = "over" /\ UNCHANGED <<frames, last>>
    ELSE \E x \in mains :
            /\ phase' = "run"
            /\ frames' = <<x>>
            /\ last' = [NoReference EXCEPT
                            !.want = IF MainDeclared THEN Thing("fn", Entry, "main") ELSE Nothing,
                            !.got = TheFn(x)]

-------------------------------------------------------------------------------
(* The interpreter.                                                         *)

\* process_imports puts into scopes[0] the aliases, and of an unqualified
\* import what the snapshot holds under an exported name.  (The names it adds
\* under alias.name are those of functions, which are found before.)
Imported(u) ==
    IF u.as # None THEN [n \in {u.as} |-> Thing("module", u.to, n)]
    ELSE Restrict(snapshots[u.to], {x.name : x \in Exported(u.to)} \cap DOMAIN snapshots[u.to])

\* load_program: the imports, then the file's own lets.
Load ==
    /\ phase = "load" /\ loaded < Len(sortedPaths)
    /\ LET f == sortedPaths[loaded + 1]
           imported == [k \in DOMAIN prog.uses[f] |-> Imported(prog.uses[f][k])]
           lets == [n \in LetNames(f) |-> Thing("let", f, n)]
       IN /\ globals' = Laid(<<globals, Laid(imported), lets>>)
          /\ snapshots' = [g \in DOMAIN snapshots \cup {f} |-> IF g = f THEN globals' ELSE snapshots[g]]
    /\ loaded' = loaded + 1
    /\ UNCHANGED <<prog, resolver, phase, frames, last>>

\* The entries of `fns` under the number of file f.
Fns(f) == Laid(<<Imports(f), Table(Own(f, {"fn"}), None)>>)

\* Slip: a callee is executed under the file of its caller.
CurModuleOfEntry == frames[1].file

\* cur_module: the file of the function executing.
CurModule == Executing.file

\* lookup: the innermost scope that binds the name.  A call pushes a scope and
\* hides none.
Lookup(name) ==
    LET depths == {d \in DOMAIN frames : name \in DOMAIN frames[d].local} IN
    IF depths # {} THEN Thing("local", Max(depths), name)
    ELSE IF name \in DOMAIN globals THEN globals[name] ELSE Nothing

InterpReaches(q, name) ==
    LET found == Lookup(IF q = None THEN name ELSE q)
        key == <<q, name>>
    IN IF q = None /\ found # Nothing THEN found
       ELSE IF (q # None => found.kind = "module") /\ key \in DOMAIN Fns(CurModule)
       THEN TheFn(Fns(CurModule)[key])
       ELSE IF q = None /\ \E x \in prog.decls : x.ns = "extern" /\ x.name = name /\ x.file \in Visited
       THEN Thing("extern", 0, name)
       ELSE Nothing

StartInterp ==
    /\ phase = "load" /\ loaded = Len(sortedPaths)
    /\ Started({Fns(Entry)[key] : key \in DOMAIN Fns(Entry) \cap {<<None, "main">>}})
    /\ UNCHANGED <<prog, resolver, interp>>

-------------------------------------------------------------------------------
(* The merge and the JIT.  A merged name is a sequence of parts, which the  *)
(* code joins by `$`.                                                       *)

FnSpace == {x \in prog.decls : x.file \in Visited /\ x.ns # "let"}
LetSpace == {x \in prog.decls : x.file \in Visited /\ x.ns = "let"}

\* file_prefixes: the stem, else the path from the entry file's directory, else an index as well.
Stem(f) == <<Last(prog.path[f])>>
PrefixKey(f) == IF \E g \in Visited \ {f} : Stem(g) = Stem(f) THEN prog.path[f] ELSE Stem(f)
Prefix(f) ==
    IF \E g \in Visited \ {f} : PrefixKey(g) = PrefixKey(f)
    THEN Append(PrefixKey(f), Number[(CHOOSE k \in DOMAIN sortedPaths : sortedPaths[k] = f) - 1])
    ELSE PrefixKey(f)

IsEntryPoint(x) == x.ns = "fn" /\ x.name \in EntryPoints

\* Slip: a dependency's `pub fn main` keeps its name.
KeepsBareNameAnywhere(x) ==
    \/ Len(sortedPaths) = 1
    \/ x.ns = "extern"
    \/ IsEntryPoint(x)
    \/ /\ x.pub
       /\ ~\E y \in FnSpace : y.file # x.file /\ y.pub /\ y.name = x.name

\* keeps_bare_name
KeepsBareName(x) ==
    \/ Len(sortedPaths) = 1
    \/ x.ns = "extern"
    \/ x.file = Entry /\ IsEntryPoint(x)
    \/ /\ x.pub /\ ~IsEntryPoint(x)
       /\ ~\E y \in FnSpace : y.file # x.file /\ y.pub /\ y.name = x.name

Merged(x) == IF KeepsBareName(x) THEN <<x.name>> ELSE Append(Prefix(x.file), x.name)

\* The reference scope of a file: functions, its own over imported ones; then its lets.
MergeFns(f) == Laid(<<Imports(f), Table(Own(f, {"fn", "extern"}), None)>>)
MergeLets(f) == Table(Own(f, {"let"}), None)

\* Slip: a local is taken for the declaration of that name.
RewrittenUnshadowed(q, name) ==
    LET f == Executing.file IN
    CASE <<q, name>> \in DOMAIN MergeFns(f)  -> Merged(MergeFns(f)[<<q, name>>])
      [] <<q, name>> \in DOMAIN MergeLets(f) -> Merged(MergeLets(f)[<<q, name>>])
      [] OTHER -> <<name>>

\* Rewriter::expr: what a reference reads in the merged program.
Rewritten(q, name) ==
    LET f == Executing.file
        shadowed == (IF q = None THEN name ELSE q) \in DOMAIN Executing.local
    IN CASE shadowed -> <<name>>
         [] ~shadowed /\ <<q, name>> \in DOMAIN MergeFns(f) -> Merged(MergeFns(f)[<<q, name>>])
         [] ~shadowed /\ <<q, name>> \notin DOMAIN MergeFns(f) /\ <<q, name>> \in DOMAIN MergeLets(f) ->
               Merged(MergeLets(f)[<<q, name>>])
         [] OTHER -> <<name>>

\* ExternMismatch, then DuplicateMerged.
MergeFails ==
    \/ \E x, y \in FnSpace : /\ x.ns = "extern" /\ y.ns = "extern"
                             /\ x.name = y.name /\ x.sig # y.sig
    \/ \E space \in {FnSpace, LetSpace} : \E x, y \in space :
           x.file # y.file /\ Merged(x) = Merged(y) /\ ~(x.ns = "extern" /\ y.ns = "extern")

Merge ==
    /\ phase = "merge"
    /\ IF MergeFails
       THEN /\ phase' = "unmerged"
            /\ UNCHANGED <<frames, last>>
       ELSE Started({x \in FnSpace : x.ns = "fn" /\ Merged(x) = <<"main">>})
    /\ UNCHANGED <<prog, resolver, interp>>

\* lower_ident and lower_call: a local, to be called only if it holds a
\* function, then the functions of the program, then its constants.
JitReaches(q, name, call) ==
    LET m == Rewritten(q, name)
        local == Executing.local
        fns == {x \in FnSpace : Merged(x) = m}
        lets == {x \in LetSpace : Merged(x) = m}
    IN IF Len(m) = 1 /\ m[1] \in DOMAIN local /\ (call => local[m[1]] = "fn")
       THEN Thing("local", Len(frames), m[1])
       ELSE IF fns # {} THEN TheFn(CHOOSE x \in fns : TRUE)
       ELSE IF lets # {} THEN TheFn(CHOOSE x \in lets : TRUE)
       ELSE Nothing

-------------------------------------------------------------------------------
(* Execution, under either.                                                 *)

Interpreted == loaded > 0

DeclOf(thing) == CHOOSE x \in prog.decls : x.ns = "fn" /\ x.file = thing.at /\ x.name = thing.name

\* A call that reached no function is an error, which ends the program; so is
\* an extern fn under the interpreter.
Callable(thing) ==
    \/ thing.kind = "fn"
    \/ thing.kind = "extern" /\ ~Interpreted
    \/ thing.kind = "local" /\ frames[thing.at].local[thing.name] = "fn"

Refer(q, name, call) ==
    /\ phase = "run" /\ WellTyped(q, name, call)
    /\ LET got == IF Interpreted THEN InterpReaches(q, name) ELSE JitReaches(q, name, call) IN
        /\ last' = [q |-> q, name |-> name, depth |-> Len(frames),
                    want |-> Means(q, name), got |-> got]
        /\ phase' = IF got = Nothing \/ (call /\ ~Callable(got)) THEN "over" ELSE phase
        /\ frames' = IF call /\ got.kind = "fn" /\ Len(frames) < MaxFrames
                     THEN Append(frames, DeclOf(got)) ELSE frames
    /\ UNCHANGED <<prog, resolver, interp>>

Return ==
    /\ phase = "run" /\ frames # <<>>
    /\ frames' = Front(frames)
    /\ phase' = IF Len(frames) = 1 THEN "over" ELSE phase
    /\ last' = NoReference
    /\ UNCHANGED <<prog, resolver, interp>>

Next ==
    \/ ResolveStep \/ Check \/ Load \/ StartInterp \/ Merge \/ Return
    \/ /\ phase = "run"
       /\ \E q \in {None} \cup Aliases(Executing.file), name \in Words, call \in BOOLEAN :
              Refer(q, name, call)

Spec == Init /\ [][Next]_vars

\* The compiler does not stop before it has resolved its input.
FairSpec == Spec /\ WF_vars(ResolveStep)

-------------------------------------------------------------------------------
(* Properties.                                                              *)

Word == IF last.q = None THEN last.name ELSE last.q

\* A function further up binds the word, as a parameter or in a `let`.
BoundByCaller == \E d \in 1..(last.depth - 1) : Word \in DOMAIN frames[d].local

\* Another file has a top-level `let` or an alias of that name.
HeldElsewhere ==
    last.depth # 0 /\ \E f \in Visited \ {frames[last.depth].file} :
        Word \in Aliases(f) \cup LetNames(f)

\* Under the interpreter every reference reaches the declaration the checker
\* found for it, whatever file it stands in and whoever called its function:
\* unless a calling function binds the word, another file holds a `let` or an
\* alias of that name in the one table all files share, or the file declares as
\* an extern fn what it also imports.  A program begins with the main of the entry
\* file, unless that has none but imports one.
InterpFollowsText ==
    Interpreted => \/ last.got = last.want
                   \/ BoundByCaller
                   \/ HeldElsewhere
                   \/ /\ last.want.kind = "extern"
                      /\ last.got.kind = "fn"
                   \/ last.depth = 0 /\ ~MainDeclared

\* In the merged program every reference reaches the declaration the checker
\* found for it: unless alias.name, which becomes a bare name, meets a local of
\* that name, or a `let` of the file an imported function of that name.
JitFollowsText ==
    ~Interpreted => \/ last.got = last.want
                    \/ /\ last.q # None
                       /\ last.name \in DOMAIN frames[last.depth].local
                    \/ /\ last.want.kind = "let"
                       /\ last.got.kind = "fn"

\* A file is called by a number, as 0.dmc.
NumberedFile == \E f \in Visited : Stem(f)[1] \in Range(Number)

\* The merge refuses no program the checker accepts, however names and paths
\* fall together, but one whose extern fn disagrees with another declaration that
\* keeps its name: unless a file is called by the number that tells two others apart.
MergeRefusesOnlyExterns ==
    phase = "unmerged" =>
        \/ \E x, y \in FnSpace : /\ x.ns = "extern" /\ y # x /\ y.name = x.name
                                 /\ y.ns = "extern" \/ y.pub \/ IsEntryPoint(y)
        \/ NumberedFile

\* What SPEC.md 6.7 says of a top-level `let`: it is private to its file.  No
\* other file's reaches a function whose callers bind nothing of that name.
LetsStayPrivate ==
    /\ Interpreted
    /\ ~BoundByCaller
    /\ last.want.kind = "let" \/ last.got.kind = "let"
    => last.got = last.want
===============================================================================
