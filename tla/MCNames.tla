-------------------------------- MODULE MCNames --------------------------------
(* Names on programs of three files: every import graph without declarations, *)
(* and a family of small programs around the names f, g and main.             *)
EXTENDS Names

Plain(f) == [to |-> f, as |-> None]
As(f, a) == [to |-> f, as |-> a]

Decl(file, ns, name, pub) ==
    [file |-> file, ns |-> ns, name |-> name, pub |-> pub, sig |-> 0, local |-> <<>>]
Binding(x, local) == [x EXCEPT !.local = local]
Foreign(file, name, sig) == [Decl(file, "extern", name, FALSE) EXCEPT !.sig = sig]

Digits == [k \in 0..2 |-> ToString(k)]

Short == <<<<"m">>, <<"l">>, <<"k">>>>
\* Two files of one name in two directories; two whose names differ in a folded character.
Paths == {Short, <<<<"m">>, <<"l">>, <<"s", "l">>>>, <<<<"m">>, <<"l">>, <<"l">>>>}

\* Every import graph of up to two uses a file.
Graphs ==
    {[uses |-> u, broken |-> b, decls |-> {Decl(1, "fn", "main", FALSE)}, path |-> Short] :
        u \in [Files -> UNION {[1..n -> {Plain(f) : f \in Files}] : n \in 0..2}],
        b \in {{}, {3}}}

EntryUses == {<<As(2, "a")>>, <<Plain(2), Plain(3)>>, <<As(2, "a"), Plain(3)>>,
              <<As(3, "a"), As(2, "a")>>}
InEntry ==
    {{Binding(Decl(1, "fn", "main", FALSE), l)} \cup d :
        l \in {"g" :> "fn" @@ "f" :> "data", "a" :> "data"},
        d \in {{}, {Decl(1, "let", "f", FALSE)}, {Decl(1, "let", "g", FALSE), Decl(1, "fn", "f", FALSE)},
               {Decl(1, "let", "a", FALSE)}}}
    \cup {{Decl(1, "fn", "f", FALSE)}}
InMiddle ==
    {{Decl(2, "fn", "g", TRUE)} \cup d :
        d \in {{Decl(2, "let", "f", FALSE)}, {Decl(2, "fn", "f", TRUE)}, {Foreign(2, "f", 0)},
               {Decl(2, "fn", "main", TRUE)}}}
    \cup {{Binding(Decl(2, "fn", "g", TRUE), "f" :> "fn")}}
InLeaf ==
    {{Decl(3, "fn", "f", TRUE), Decl(3, "fn", "main", TRUE)},
     {Decl(3, "let", "f", FALSE), Decl(3, "fn", "g", TRUE)}, {Decl(3, "fn", "f", FALSE)},
     {Foreign(3, "f", 1)}}

ThreeFiles ==
    {[uses |-> <<u, v, <<>>>>, broken |-> {}, decls |-> x \cup y \cup z, path |-> Short] :
        u \in EntryUses, v \in {<<Plain(3)>>, <<As(3, "a")>>}, x \in InEntry, y \in InMiddle, z \in InLeaf}

\* The same with fewer declarations, for the names the merge makes up.
ThreePaths ==
    {[uses |-> <<u, <<Plain(3)>>, <<>>>>, broken |-> {}, decls |-> x \cup y \cup z, path |-> p] :
        u \in {<<Plain(2)>>}, x \in {{Decl(1, "fn", "main", FALSE), Decl(1, "fn", "f", FALSE)}},
        y \in InMiddle, z \in InLeaf, p \in Paths}

AllPrograms == Graphs \cup ThreeFiles \cup ThreePaths
===============================================================================
