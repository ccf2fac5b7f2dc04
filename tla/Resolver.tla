------------------------------- MODULE Resolver -------------------------------
(***************************************************************************)
(* The import resolver (resolver.rs): from the entry file, depth first     *)
(* through every `use`, to the list of files every later pass walks.       *)
(* The frames of the recursion are the files on path_stack, each with the  *)
(* `use` it stands at.                                                     *)
(***************************************************************************)
EXTENDS Integers, SequencesExt, Relation

CONSTANTS
    Files,        \* the files there may be
    Entry,        \* the file named on the command line
    Programs      \* what may stand in the files

\* uses[f]: the imports of f in order, each the file meant and its alias if it
\* has one.  broken: the files that are missing, cannot be read or do not parse.
ASSUME ResolverAssumption ==
    /\ Entry \in Files
    /\ \A p \in Programs :
          /\ DOMAIN p.uses = Files
          /\ \A f \in Files :
                /\ p.uses[f] \in Seq(Range(p.uses[f]))
                /\ \A k \in DOMAIN p.uses[f] : p.uses[f][k].to \in Files
          /\ p.broken \subseteq Files

VARIABLES
    prog,         \* the program
    pathStack,    \* path_stack: the files being resolved, the entry file first
    sortedPaths,  \* Resolver::sorted_paths, which also holds what `visited` does
    outcome       \* "resolving", "resolved", "cycle" or "unreadable"

resolver == <<pathStack, sortedPaths, outcome>>

ResolverInit ==
    /\ prog \in Programs
    /\ pathStack = IF Entry \in prog.broken THEN <<>> ELSE <<[file |-> Entry, next |-> 1]>>
    /\ sortedPaths = <<>>
    /\ outcome = IF Entry \in prog.broken THEN "unreadable" ELSE "resolving"

Top == Last(pathStack)
Use == prog.uses[Top.file][Top.next]
AtUse == outcome = "resolving" /\ Top.next <= Len(prog.uses[Top.file])
Visited == Range(sortedPaths)

\* Slip: a file that is done is still taken for one on the way.
OnStackNotPopped(f) == f \in Visited \/ \E k \in DOMAIN pathStack : pathStack[k].file = f

OnStack(f) == \E k \in DOMAIN pathStack : pathStack[k].file = f

Advanced == [pathStack EXCEPT ![Len(pathStack)].next = @ + 1]

\* A `use` of a file on the way from the entry file to this one.
CloseCycle ==
    /\ AtUse /\ OnStack(Use.to)
    /\ outcome' = "cycle"
    /\ UNCHANGED <<prog, pathStack, sortedPaths>>

\* The path of the `use` leads nowhere, or to a file that does not parse.
UnreadableUse ==
    /\ AtUse /\ ~OnStack(Use.to) /\ Use.to \in prog.broken
    /\ outcome' = "unreadable"
    /\ UNCHANGED <<prog, pathStack, sortedPaths>>

\* A file resolved before, by another way.
SkipVisited ==
    /\ AtUse /\ Use.to \in Visited
    /\ pathStack' = Advanced
    /\ UNCHANGED <<prog, sortedPaths, outcome>>

Descend ==
    /\ AtUse /\ ~OnStack(Use.to) /\ Use.to \notin Visited \cup prog.broken
    /\ pathStack' = Append(Advanced, [file |-> Use.to, next |-> 1])
    /\ UNCHANGED <<prog, sortedPaths, outcome>>

\* Slip: a file is listed in front of those it uses.
ListedFirst == <<Top.file>> \o sortedPaths

Listed == Append(sortedPaths, Top.file)

\* Every `use` of the file is done: it joins the list.
LeaveFile ==
    /\ outcome = "resolving" /\ Top.next > Len(prog.uses[Top.file])
    /\ pathStack' = Front(pathStack)
    /\ sortedPaths' = Listed
    /\ outcome' = IF Len(pathStack) = 1 THEN "resolved" ELSE outcome
    /\ UNCHANGED prog

Resolve == CloseCycle \/ UnreadableUse \/ SkipVisited \/ Descend \/ LeaveFile

-------------------------------------------------------------------------------
(* Properties.                                                              *)

Uses(f, g) == \E k \in DOMAIN prog.uses[f] : prog.uses[f][k].to = g

\* Whether g is at the end of one `use` or more that begin at f.
UsesAll == TransitiveClosure([f, g \in Files |-> Uses(f, g)], Files)
Reached == {Entry} \cup {g \in Files : UsesAll[Entry, g]}

\* The list every later pass walks: each file once, after everything it uses.  The
\* checker, the interpreter and the merge look an import up among the files done
\* before.
LeafFirst ==
    outcome = "resolved" =>
        /\ IsInjective(sortedPaths)
        /\ \A j, k \in DOMAIN sortedPaths : Uses(sortedPaths[j], sortedPaths[k]) => k < j

\* Which programs are accepted, and as what: resolution always comes to an end; it
\* refuses exactly the programs with a circular import or an unreadable file
\* within reach, naming one that is there, and lists all that is in reach of another.
ResolutionDecides ==
    <>[] CASE outcome = "resolved"   -> /\ Visited = Reached
                                        /\ Reached \cap prog.broken = {}
                                        /\ \A f \in Reached : ~UsesAll[f, f]
           [] outcome = "unreadable" -> Reached \cap prog.broken # {}
           [] outcome = "cycle"      -> \E f \in Reached : UsesAll[f, f]
           [] OTHER                  -> FALSE
===============================================================================
