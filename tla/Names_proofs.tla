------------------------------ MODULE Names_proofs ------------------------------
(***************************************************************************)
(* Theorems about names, for any number of files, any imports among them   *)
(* and any declarations in them:                                           *)
(*                                                                         *)
(*  - the list every later pass walks (ListIsLeafFirst, from OrderInv);    *)
(*  - what a reference reaches under the interpreter and in the merged     *)
(*    program is what the checker found for it (InterpreterFollowsText and *)
(*    MergedFollowsText, from NamesInv, at the end);                       *)
(*  - what a failed merge shows (OnlyExternsRefused).                      *)
(***************************************************************************)
EXTENDS Names, SequenceTheorems, StacksAndSums, TLAPS

Frame == [file : Files, next : Nat \ {0}]

Typed ==
    /\ prog \in Programs
    /\ pathStack \in Seq(Frame)
    /\ sortedPaths \in Seq(Files)
    /\ outcome = "resolving" => pathStack # <<>>

\* A file is on its way once, or listed once.
Once ==
    /\ \A j, k \in 1..Len(sortedPaths) : sortedPaths[j] = sortedPaths[k] => j = k
    /\ \A i, j \in 1..Len(pathStack) : pathStack[i].file = pathStack[j].file => i = j
    /\ \A i \in 1..Len(pathStack), k \in 1..Len(sortedPaths) : pathStack[i].file # sortedPaths[k]

Among(f, list, n) == \E k \in 1..n : list[k] = f

\* What a file on its way has used so far is listed, but for the one being resolved.
PassedIn(uses, stack, list) ==
    \A i \in 1..Len(stack) :
        \A u \in 1..Len(uses[stack[i].file]) :
            u < stack[i].next =>
                \/ Among(uses[stack[i].file][u].to, list, Len(list))
                \/ i < Len(stack) /\ uses[stack[i].file][u].to = stack[i + 1].file

\* What a listed file uses is listed before it.
SettledIn(uses, list) ==
    \A k \in 1..Len(list) :
        \A u \in 1..Len(uses[list[k]]) : Among(uses[list[k]][u].to, list, k - 1)

Passed == PassedIn(prog.uses, pathStack, sortedPaths)
Settled == SettledIn(prog.uses, sortedPaths)

OrderInv == Typed /\ Once /\ Passed /\ Settled

-------------------------------------------------------------------------------

\* The imports of a file are a sequence of files.
LEMMA UsesTyped ==
    ASSUME prog \in Programs, NEW f \in Files
    PROVE  /\ Len(prog.uses[f]) \in Nat /\ DOMAIN prog.uses[f] = 1..Len(prog.uses[f])
           /\ \A u \in 1..Len(prog.uses[f]) : prog.uses[f][u].to \in Files
<1>1. /\ prog.uses[f] \in Seq(Range(prog.uses[f]))
      /\ \A k \in DOMAIN prog.uses[f] : prog.uses[f][k].to \in Files
  BY ResolverAssumption
<1>2. Len(prog.uses[f]) \in Nat /\ DOMAIN prog.uses[f] = 1..Len(prog.uses[f])
  <2> DEFINE S == Range(prog.uses[f])
             s == prog.uses[f]
  <2>1. s \in Seq(S)
    BY <1>1
  <2> HIDE DEF S, s
  <2>2. Len(s) \in Nat /\ DOMAIN s = 1..Len(s)
    BY <2>1, LenProperties
  <2> QED BY <2>2 DEF s
<1> QED BY <1>1, <1>2

\* The file at the top, and where it stands.
LEMMA TopTyped ==
    ASSUME OrderInv, outcome = "resolving"
    PROVE  /\ Len(pathStack) \in Nat \ {0} /\ Len(sortedPaths) \in Nat
           /\ Top = pathStack[Len(pathStack)] /\ Top \in Frame
           /\ Top.file \in Files /\ Top.next \in Nat \ {0}
<1>1. pathStack \in Seq(Frame) /\ pathStack # <<>> /\ sortedPaths \in Seq(Files)
  BY DEF OrderInv, Typed
<1>2. Len(pathStack) \in Nat \ {0} /\ Last(pathStack) = pathStack[Len(pathStack)] /\ Last(pathStack) \in Frame
  BY <1>1, StackPop
<1>3. Len(sortedPaths) \in Nat
  BY <1>1, LenProperties
<1> QED BY <1>2, <1>3 DEF Top, Frame

\* The entry file alone is on its way at the start.
LEMMA InitOrderInv == Init => OrderInv
<1> SUFFICES ASSUME Init
             PROVE  OrderInv
  OBVIOUS
<1>1. prog \in Programs /\ sortedPaths = <<>> /\ Entry \in Files
  BY ResolverAssumption DEF Init, ResolverInit
<1>2. CASE Entry \in prog.broken
  <2>1. pathStack = <<>> /\ outcome = "unreadable"
    BY <1>2 DEF Init, ResolverInit
  <2>2. Typed
    BY <1>1, <2>1 DEF Typed
  <2> QED BY <1>1, <2>1, <2>2 DEF OrderInv, Once, Passed, Settled, PassedIn, SettledIn
<1>3. CASE Entry \notin prog.broken
  <2> DEFINE e == [file |-> Entry, next |-> 1]
  <2>1. pathStack = <<e>> /\ outcome = "resolving" /\ e \in Frame
    BY <1>1, <1>3 DEF Init, ResolverInit, Frame
  <2>2. pathStack \in Seq(Frame) /\ Len(pathStack) = 1 /\ pathStack[1] = e /\ pathStack # <<>>
    BY <2>1
  <2>3. Typed
    BY <1>1, <2>2 DEF Typed
  <2>4. Once
    BY <1>1, <2>2 DEF Once
  <2>5. Passed
    BY <2>2 DEF Passed, PassedIn
  <2>6. Settled
    BY <1>1 DEF Settled, SettledIn
  <2> QED BY <2>3, <2>4, <2>5, <2>6 DEF OrderInv
<1> QED BY <1>2, <1>3

\* The stack with its top one `use` further.
LEMMA AdvancedIs ==
    ASSUME OrderInv, outcome = "resolving"
    PROVE  /\ Advanced \in Seq(Frame) /\ Len(Advanced) = Len(pathStack)
           /\ \A i \in 1..Len(pathStack) :
                 /\ Advanced[i].file = pathStack[i].file
                 /\ Advanced[i].next = IF i = Len(pathStack) THEN pathStack[i].next + 1
                                       ELSE pathStack[i].next
<1> DEFINE n == Len(pathStack)
           t == [pathStack[n] EXCEPT !.next = @ + 1]
<1>1. pathStack \in Seq(Frame) /\ n \in Nat \ {0} /\ pathStack[n] \in Frame
  BY TopTyped DEF OrderInv, Typed
<1>2. t \in Frame /\ t.file = pathStack[n].file /\ t.next = pathStack[n].next + 1
  BY <1>1 DEF Frame
<1>3. Advanced = [pathStack EXCEPT ![n] = t]
  BY DEF Advanced
<1> HIDE DEF n, t
<1>4. /\ Advanced \in Seq(Frame) /\ Len(Advanced) = Len(pathStack)
      /\ \A i \in 1..Len(pathStack) : Advanced[i] = IF i = n THEN t ELSE pathStack[i]
  <2>1. n \in 1..Len(pathStack)
    BY <1>1 DEF n
  <2> QED BY <1>1, <1>2, <1>3, <2>1, ExceptSeq
<1> QED BY <1>2, <1>4 DEF n

\* A `use` of a listed file: the one place it changes is passed for good.
LEMMA SkipOrderInv ==
    ASSUME OrderInv, SkipVisited
    PROVE  OrderInv'
<1>1. /\ outcome = "resolving" /\ Top.next <= Len(prog.uses[Top.file]) /\ Use.to \in Visited
      /\ prog' = prog /\ sortedPaths' = sortedPaths /\ outcome' = outcome /\ pathStack' = Advanced
  BY DEF SkipVisited, AtUse
<1> DEFINE n == Len(pathStack)
<1>2. /\ n \in Nat \ {0} /\ Top = pathStack[n] /\ Top.next \in Nat \ {0} /\ Top.file \in Files
      /\ Len(sortedPaths) \in Nat
  BY <1>1, TopTyped
<1>3. /\ pathStack' \in Seq(Frame) /\ Len(pathStack') = n
      /\ \A i \in 1..n : /\ pathStack'[i].file = pathStack[i].file
                         /\ pathStack'[i].next = IF i = n THEN pathStack[i].next + 1
                                                 ELSE pathStack[i].next
  BY <1>1, AdvancedIs
<1>4. Among(Use.to, sortedPaths, Len(sortedPaths))
  <2>1. sortedPaths \in Seq(Files)
    BY DEF OrderInv, Typed
  <2>2. DOMAIN sortedPaths = 1..Len(sortedPaths)
    BY <2>1, LenProperties
  <2> QED BY <1>1, <2>2 DEF Visited, Range, Among
<1>5. Settled' <=> Settled
  BY <1>1 DEF Settled
<1> HIDE DEF n
<1>6. Typed'
  <2>1. pathStack' # <<>>
    BY <1>2, <1>3
  <2> QED BY <1>1, <1>3, <2>1 DEF OrderInv, Typed
<1>7. Once'
  BY <1>1, <1>3 DEF OrderInv, Once, n
<1>8. Passed'
  <2>1. SUFFICES PassedIn(prog.uses, pathStack', sortedPaths)
    BY <1>1 DEF Passed
  <2> SUFFICES ASSUME NEW i \in 1..n, NEW u \in 1..Len(prog.uses[pathStack[i].file]),
                      u < pathStack'[i].next
               PROVE  \/ Among(prog.uses[pathStack[i].file][u].to, sortedPaths, Len(sortedPaths))
                      \/ i < n /\ prog.uses[pathStack[i].file][u].to = pathStack[i + 1].file
    BY <1>2, <1>3 DEF PassedIn
  <2>2. CASE u < pathStack[i].next
    BY <2>2 DEF OrderInv, Passed, PassedIn, n
  <2>3. CASE ~(u < pathStack[i].next)
    <3>1. i = n /\ u = Top.next
      <4>1. i = n /\ u < Top.next + 1 /\ ~(u < Top.next)
        BY <1>2, <1>3, <2>3
      <4>2. u \in Int
        OBVIOUS
      <4> QED BY <1>2, <4>1, <4>2
    <3> QED BY <1>2, <1>4, <3>1 DEF Use
  <2> QED BY <2>2, <2>3
<1>9. Settled'
  BY <1>5 DEF OrderInv
<1> QED BY <1>6, <1>7, <1>8, <1>9 DEF OrderInv

\* Into a file met for the first time: it is neither on its way nor listed, and the
\* `use` it was met at is excused until it is.
LEMMA DescendOrderInv ==
    ASSUME OrderInv, Descend
    PROVE  OrderInv'
<1> DEFINE n == Len(pathStack)
           g == Use.to
           e == [file |-> g, next |-> 1]
<1>1. /\ outcome = "resolving" /\ Top.next <= Len(prog.uses[Top.file]) /\ ~OnStack(g) /\ g \notin Visited
      /\ prog' = prog /\ sortedPaths' = sortedPaths /\ outcome' = outcome
      /\ pathStack' = Append(Advanced, e)
  BY DEF Descend, AtUse
<1>2. /\ n \in Nat \ {0} /\ Top = pathStack[n] /\ Top.next \in Nat \ {0} /\ Top.file \in Files
      /\ Len(sortedPaths) \in Nat /\ sortedPaths \in Seq(Files) /\ prog \in Programs /\ pathStack \in Seq(Frame)
  BY <1>1, TopTyped DEF OrderInv, Typed
<1>3. g \in Files /\ g = prog.uses[Top.file][Top.next].to
  <2>1. Len(prog.uses[Top.file]) \in Nat /\ \A u \in 1..Len(prog.uses[Top.file]) : prog.uses[Top.file][u].to \in Files
    BY <1>2, UsesTyped
  <2>2. Top.next \in 1..Len(prog.uses[Top.file])
    BY <1>1, <1>2, <2>1
  <2> QED BY <2>1, <2>2 DEF Use
<1>4. /\ \A i \in 1..n : pathStack[i].file # g
      /\ \A k \in 1..Len(sortedPaths) : sortedPaths[k] # g
  <2>1. DOMAIN pathStack = 1..n /\ DOMAIN sortedPaths = 1..Len(sortedPaths)
    BY <1>2, LenProperties
  <2> QED BY <1>1, <2>1 DEF OnStack, Visited, Range
<1> HIDE DEF g
<1>5. /\ pathStack' \in Seq(Frame) /\ Len(pathStack') = n + 1
      /\ pathStack'[n + 1].file = g /\ pathStack'[n + 1].next = 1
      /\ \A i \in 1..n : /\ pathStack'[i].file = pathStack[i].file
                         /\ pathStack'[i].next = IF i = n THEN pathStack[i].next + 1
                                                 ELSE pathStack[i].next
  <2>1. /\ Advanced \in Seq(Frame) /\ Len(Advanced) = n
        /\ \A i \in 1..n : /\ Advanced[i].file = pathStack[i].file
                           /\ Advanced[i].next = IF i = n THEN pathStack[i].next + 1
                                                 ELSE pathStack[i].next
    BY <1>1, AdvancedIs
  <2>2. e \in Frame /\ e.file = g /\ e.next = 1
    BY <1>3 DEF Frame
  <2> HIDE DEF e
  <2>3. /\ pathStack' \in Seq(Frame) /\ Len(pathStack') = n + 1 /\ pathStack'[n + 1] = e
        /\ \A i \in 1..n : pathStack'[i] = Advanced[i]
    BY <1>1, <2>1, <2>2, StackPush
  <2> QED BY <2>1, <2>2, <2>3
<1>6. Settled' <=> Settled
  BY <1>1 DEF Settled
<1> HIDE DEF n, e
<1>7. Typed'
  <2>1. pathStack' # <<>>
    BY <1>2, <1>5
  <2> QED BY <1>1, <1>5, <2>1 DEF OrderInv, Typed
<1>8. Once'
  <2>1. /\ \A i, j \in 1..n : pathStack[i].file = pathStack[j].file => i = j
        /\ \A i \in 1..n, k \in 1..Len(sortedPaths) : pathStack[i].file # sortedPaths[k]
        /\ \A j, k \in 1..Len(sortedPaths) : sortedPaths[j] = sortedPaths[k] => j = k
    BY DEF OrderInv, Once, n
  <2>2. ASSUME NEW i \in 1..(n + 1)
        PROVE  \/ i \in 1..n /\ pathStack'[i].file = pathStack[i].file
               \/ i = n + 1 /\ pathStack'[i].file = g
    BY <1>2, <1>5
  <2>3. \A i, j \in 1..(n + 1) : pathStack'[i].file = pathStack'[j].file => i = j
    BY <1>4, <2>1, <2>2
  <2>4. \A i \in 1..(n + 1), k \in 1..Len(sortedPaths) : pathStack'[i].file # sortedPaths[k]
    BY <1>4, <2>1, <2>2
  <2> QED BY <1>1, <1>5, <2>1, <2>3, <2>4 DEF Once
<1>9. Passed'
  <2>1. SUFFICES PassedIn(prog.uses, pathStack', sortedPaths)
    BY <1>1 DEF Passed
  <2> SUFFICES ASSUME NEW i \in 1..(n + 1), NEW u \in 1..Len(prog.uses[pathStack'[i].file]),
                      u < pathStack'[i].next
               PROVE  \/ Among(prog.uses[pathStack'[i].file][u].to, sortedPaths, Len(sortedPaths))
                      \/ i < n + 1 /\ prog.uses[pathStack'[i].file][u].to = pathStack'[i + 1].file
    BY <1>2, <1>5 DEF PassedIn
  <2>2. u \in Int /\ u >= 1 /\ i \in Int /\ i >= 1
    OBVIOUS
  <2>3. i \in 1..n /\ pathStack'[i].file = pathStack[i].file
    BY <1>2, <1>5, <2>2
  <2>4. CASE u < pathStack[i].next
    <3>1. \/ Among(prog.uses[pathStack[i].file][u].to, sortedPaths, Len(sortedPaths))
          \/ i < n /\ prog.uses[pathStack[i].file][u].to = pathStack[i + 1].file
      BY <2>3, <2>4 DEF OrderInv, Passed, PassedIn, n
    <3>2. i < n => i < n + 1 /\ pathStack'[i + 1].file = pathStack[i + 1].file
      BY <1>2, <1>5, <2>2
    <3> QED BY <2>3, <3>1, <3>2
  <2>5. CASE ~(u < pathStack[i].next)
    <3>1. i = n /\ u = Top.next
      <4>1. i = n /\ u < Top.next + 1 /\ ~(u < Top.next)
        BY <1>2, <1>5, <2>3, <2>5
      <4> QED BY <1>2, <2>2, <4>1
    <3>2. i < n + 1 /\ pathStack'[i + 1].file = g /\ prog.uses[pathStack'[i].file][u].to = g
      BY <1>2, <1>3, <1>5, <2>3, <3>1
    <3> QED BY <3>2
  <2> QED BY <2>4, <2>5
<1>10. Settled'
  BY <1>6 DEF OrderInv
<1> QED BY <1>7, <1>8, <1>9, <1>10 DEF OrderInv

\* A file whose every `use` is done has all it uses in the list it joins.
LEMMA LeaveOrderInv ==
    ASSUME OrderInv, LeaveFile
    PROVE  OrderInv'
<1> DEFINE n == Len(pathStack)
           m == Len(sortedPaths)
           f == Top.file
<1>1. /\ outcome = "resolving" /\ Top.next > Len(prog.uses[f]) /\ prog' = prog
      /\ pathStack' = Front(pathStack) /\ sortedPaths' = Append(sortedPaths, f)
      /\ outcome' = IF n = 1 THEN "resolved" ELSE outcome
  BY DEF LeaveFile, Listed
<1>2. /\ n \in Nat \ {0} /\ Top = pathStack[n] /\ Top.next \in Nat \ {0} /\ f \in Files
      /\ m \in Nat /\ sortedPaths \in Seq(Files) /\ prog \in Programs
      /\ pathStack \in Seq(Frame) /\ pathStack # <<>>
  BY <1>1, TopTyped DEF OrderInv, Typed
<1> HIDE DEF f
<1>3. /\ pathStack' \in Seq(Frame) /\ Len(pathStack') = n - 1
      /\ \A i \in 1..(n - 1) : pathStack'[i] = pathStack[i]
  BY <1>1, <1>2, StackPop
<1>4. /\ sortedPaths' \in Seq(Files) /\ Len(sortedPaths') = m + 1 /\ sortedPaths'[m + 1] = f
      /\ \A k \in 1..m : sortedPaths'[k] = sortedPaths[k]
  BY <1>1, <1>2, StackPush
<1>5. /\ \A j, k \in 1..m : sortedPaths[j] = sortedPaths[k] => j = k
      /\ \A i, j \in 1..n : pathStack[i].file = pathStack[j].file => i = j
      /\ \A i \in 1..n, k \in 1..m : pathStack[i].file # sortedPaths[k]
  BY DEF OrderInv, Once
<1>6. f = pathStack[n].file /\ \A i \in 1..(n - 1) : pathStack[i].file # f
  BY <1>2, <1>5 DEF f
<1>7. ASSUME NEW u \in 1..Len(prog.uses[f])
      PROVE  Among(prog.uses[f][u].to, sortedPaths, m)
  <2>1. Len(prog.uses[f]) \in Nat
    BY <1>2, UsesTyped
  <2>2. u < pathStack[n].next
    BY <1>1, <1>2, <2>1
  <2>3. n \in 1..n
    BY <1>2
  <2>4. \/ Among(prog.uses[f][u].to, sortedPaths, m)
        \/ n < n /\ prog.uses[f][u].to = pathStack[n + 1].file
    BY <1>6, <2>2, <2>3 DEF OrderInv, Passed, PassedIn
  <2> QED BY <1>2, <2>4
<1>8. \A g, k : k \in 0..m /\ Among(g, sortedPaths, k) => Among(g, sortedPaths', k) /\ Among(g, sortedPaths', m + 1)
  <2> SUFFICES ASSUME NEW g, NEW k \in 0..m, Among(g, sortedPaths, k)
               PROVE  Among(g, sortedPaths', k) /\ Among(g, sortedPaths', m + 1)
    OBVIOUS
  <2>1. PICK j \in 1..k : sortedPaths[j] = g
    BY DEF Among
  <2>2. j \in 1..k /\ j \in 1..(m + 1) /\ sortedPaths'[j] = g
    BY <1>2, <1>4, <2>1
  <2> QED BY <2>2 DEF Among
<1> HIDE DEF n, m
<1>9. Typed'
  <2>1. outcome' = "resolving" => pathStack' # <<>>
    BY <1>1, <1>2, <1>3
  <2> QED BY <1>1, <1>2, <1>3, <1>4, <2>1 DEF Typed
<1>10. Once'
  <2>1. ASSUME NEW k \in 1..(m + 1)
        PROVE  \/ k \in 1..m /\ sortedPaths'[k] = sortedPaths[k]
               \/ k = m + 1 /\ sortedPaths'[k] = f
    BY <1>2, <1>4
  <2>2. n \in 1..n /\ \A k \in 1..m : sortedPaths[k] # f
    BY <1>2, <1>5, <1>6
  <2>3. \A j, k \in 1..(m + 1) : sortedPaths'[j] = sortedPaths'[k] => j = k
    BY <1>5, <2>1, <2>2
  <2>4. \A i \in 1..(n - 1) : i \in 1..n /\ pathStack'[i].file = pathStack[i].file
    BY <1>2, <1>3
  <2>5. \A i, j \in 1..(n - 1) : pathStack'[i].file = pathStack'[j].file => i = j
    BY <1>5, <2>4
  <2>6. \A i \in 1..(n - 1), k \in 1..(m + 1) : pathStack'[i].file # sortedPaths'[k]
    BY <1>5, <1>6, <2>1, <2>4
  <2> QED BY <1>3, <1>4, <2>3, <2>5, <2>6 DEF Once
<1>11. Passed'
  <2>1. SUFFICES PassedIn(prog.uses, pathStack', sortedPaths')
    BY <1>1 DEF Passed
  <2> SUFFICES ASSUME NEW i \in 1..(n - 1), NEW u \in 1..Len(prog.uses[pathStack[i].file]),
                      u < pathStack[i].next
               PROVE  \/ Among(prog.uses[pathStack[i].file][u].to, sortedPaths', m + 1)
                      \/ i < n - 1 /\ prog.uses[pathStack[i].file][u].to = pathStack'[i + 1].file
    BY <1>2, <1>3, <1>4 DEF PassedIn
  <2>2. i \in 1..n /\ i < n
    BY <1>2
  <2>3. \/ Among(prog.uses[pathStack[i].file][u].to, sortedPaths, m)
        \/ prog.uses[pathStack[i].file][u].to = pathStack[i + 1].file
    BY <2>2 DEF OrderInv, Passed, PassedIn, n, m
  <2>4. CASE Among(prog.uses[pathStack[i].file][u].to, sortedPaths, m)
    BY <1>2, <1>8, <2>4
  <2>5. CASE prog.uses[pathStack[i].file][u].to = pathStack[i + 1].file
    <3>1. CASE i < n - 1
      <4>1. pathStack'[i + 1] = pathStack[i + 1]
        BY <1>2, <1>3, <3>1
      <4> QED BY <2>5, <3>1, <4>1
    <3>2. CASE ~(i < n - 1)
      <4>1. i + 1 = n
        BY <1>2, <2>2, <3>2
      <4>2. prog.uses[pathStack[i].file][u].to = f
        BY <1>6, <2>5, <4>1
      <4>3. m + 1 \in 1..(m + 1)
        BY <1>2
      <4> QED BY <1>4, <4>2, <4>3 DEF Among
    <3> QED BY <3>1, <3>2
  <2> QED BY <2>3, <2>4, <2>5
<1>12. Settled'
  <2>1. SUFFICES SettledIn(prog.uses, sortedPaths')
    BY <1>1 DEF Settled
  <2> SUFFICES ASSUME NEW k \in 1..(m + 1), NEW u \in 1..Len(prog.uses[sortedPaths'[k]])
               PROVE  Among(prog.uses[sortedPaths'[k]][u].to, sortedPaths', k - 1)
    BY <1>4 DEF SettledIn
  <2>2. CASE k = m + 1
    <3>1. sortedPaths'[k] = f /\ k - 1 = m /\ m \in 0..m
      BY <1>2, <1>4, <2>2
    <3>2. Among(prog.uses[f][u].to, sortedPaths, m)
      BY <1>7, <3>1
    <3> QED BY <1>8, <3>1, <3>2
  <2>3. CASE k # m + 1
    <3>1. k \in 1..m /\ k - 1 \in 0..m /\ sortedPaths'[k] = sortedPaths[k]
      BY <1>2, <1>4, <2>3
    <3>2. Among(prog.uses[sortedPaths[k]][u].to, sortedPaths, k - 1)
      BY <3>1 DEF OrderInv, Settled, SettledIn, m
    <3> QED BY <1>8, <3>1, <3>2
  <2> QED BY <2>2, <2>3
<1> QED BY <1>9, <1>10, <1>11, <1>12 DEF OrderInv

\* Every step keeps the order; after the resolver none touches it.
LEMMA StepOrderInv == OrderInv /\ [Next]_vars => OrderInv'
<1> SUFFICES ASSUME OrderInv, [Next]_vars
             PROVE  OrderInv'
  OBVIOUS
<1>1. CASE UNCHANGED <<prog, resolver>>
  BY <1>1 DEF resolver, OrderInv, Typed, Once, Passed, Settled
<1>2. CASE ResolveStep
  <2>1. CASE CloseCycle \/ UnreadableUse
    BY <2>1 DEF CloseCycle, UnreadableUse, OrderInv, Typed, Once, Passed, Settled
  <2> QED BY <1>2, <2>1, SkipOrderInv, DescendOrderInv, LeaveOrderInv DEF ResolveStep, Resolve
<1>3. CASE Check \/ StartInterp \/ Merge
  BY <1>1, <1>3 DEF Check, StartInterp, Merge
<1>4. CASE Load
  BY <1>1, <1>4 DEF Load
<1>5. CASE Return
  BY <1>1, <1>5 DEF Return
<1>6. ASSUME NEW q, NEW name, NEW call, Refer(q, name, call)
      PROVE  OrderInv'
  BY <1>1, <1>6 DEF Refer
<1>7. CASE UNCHANGED vars
  BY <1>1, <1>7 DEF vars
<1> QED BY <1>2, <1>3, <1>4, <1>5, <1>6, <1>7 DEF Next

\* The list every later pass walks has each file once, after everything it uses,
\* whatever the imports: diamonds, a file used twice, cycles elsewhere.
THEOREM ListIsLeafFirst == Spec => []LeafFirst
<1>1. OrderInv => LeafFirst
  <2> SUFFICES ASSUME OrderInv
               PROVE  LeafFirst
    OBVIOUS
  <2>1. DOMAIN sortedPaths = 1..Len(sortedPaths) /\ Len(sortedPaths) \in Nat /\ prog \in Programs
        /\ \A k \in 1..Len(sortedPaths) : sortedPaths[k] \in Files
    BY LenProperties, ElementOfSeq DEF OrderInv, Typed
  <2>2. \A j, k \in 1..Len(sortedPaths) : sortedPaths[j] = sortedPaths[k] => j = k
    BY DEF OrderInv, Once
  <2>3. ASSUME NEW j \in 1..Len(sortedPaths), NEW k \in 1..Len(sortedPaths),
               Uses(sortedPaths[j], sortedPaths[k])
        PROVE  k < j
    <3>1. DOMAIN prog.uses[sortedPaths[j]] = 1..Len(prog.uses[sortedPaths[j]])
      BY <2>1, UsesTyped
    <3>2. PICK u \in 1..Len(prog.uses[sortedPaths[j]]) : prog.uses[sortedPaths[j]][u].to = sortedPaths[k]
      BY <2>3, <3>1 DEF Uses
    <3>3. Among(sortedPaths[k], sortedPaths, j - 1)
      BY <3>2 DEF OrderInv, Settled, SettledIn
    <3>4. PICK i \in 1..(j - 1) : sortedPaths[i] = sortedPaths[k]
      BY <3>3 DEF Among
    <3>5. i \in 1..Len(sortedPaths) /\ i < j
      BY <2>1, <3>4
    <3> QED BY <2>2, <3>4, <3>5
  <2> QED BY <2>1, <2>2, <2>3 DEF LeafFirst, IsInjective
<1> QED BY <1>1, InitOrderInv, StepOrderInv, PTL DEF Spec

-------------------------------------------------------------------------------
(* Tables.                                                                  *)

\* A key of tables laid over one another has the value of the last that has it.
LEMMA LaidIs ==
    ASSUME NEW t, NEW n \in Nat, DOMAIN t = 1..n
    PROVE  /\ \A key : key \in DOMAIN Laid(t) <=> \E k \in 1..n : key \in DOMAIN t[k]
           /\ \A key \in DOMAIN Laid(t) :
                 \E k \in 1..n : /\ key \in DOMAIN t[k] /\ Laid(t)[key] = t[k][key]
                                 /\ \A j \in 1..n : j > k => key \notin DOMAIN t[j]
<1>1. \A key : key \in DOMAIN Laid(t) <=> \E k \in 1..n : key \in DOMAIN t[k]
  BY DEF Laid
<1>2. ASSUME NEW key \in DOMAIN Laid(t)
      PROVE  \E k \in 1..n : /\ key \in DOMAIN t[k] /\ Laid(t)[key] = t[k][key]
                             /\ \A j \in 1..n : j > k => key \notin DOMAIN t[j]
  <2> DEFINE H == {k \in 1..n : key \in DOMAIN t[k]}
  <2>1. H # {} /\ H \subseteq 1..n /\ H \subseteq Nat
    BY <1>1
  <2>2. IsFiniteSet(H)
    <3>1. 1 \in Int /\ n \in Int
      OBVIOUS
    <3>2. IsFiniteSet(1..n)
      BY <3>1, FS_Interval
    <3> QED BY <2>1, <3>2, FS_Subset
  <2>3. Laid(t)[key] = t[Max(H)][key]
    BY DEF Laid
  <2> HIDE DEF H
  <2>4. Max(H) \in H /\ \A y \in H : Max(H) >= y
    BY <2>1, <2>2, Largest
  <2>5. PICK k : k = Max(H)
    OBVIOUS
  <2>6. k \in 1..n /\ key \in DOMAIN t[k] /\ Laid(t)[key] = t[k][key]
    BY <2>3, <2>4, <2>5 DEF H
  <2>7. \A j \in 1..n : j > k => key \notin DOMAIN t[j]
    BY <2>4, <2>5, <2>6 DEF H
  <2> QED BY <2>6, <2>7
<1> QED BY <1>1, <1>2

\* Of two tables.
LEMMA LaidTwo ==
    ASSUME NEW a, NEW b, NEW key
    PROVE  /\ key \in DOMAIN Laid(<<a, b>>) <=> key \in DOMAIN a \/ key \in DOMAIN b
           /\ key \in DOMAIN b => Laid(<<a, b>>)[key] = b[key]
           /\ key \in DOMAIN a /\ key \notin DOMAIN b => Laid(<<a, b>>)[key] = a[key]
<1>1. PICK t : t = <<a, b>>
  OBVIOUS
<1>2. DOMAIN t = 1..2 /\ t[1] = a /\ t[2] = b /\ 1..2 = {1, 2}
  BY <1>1
<1>3. PICK n \in Nat : n = 2
  OBVIOUS
<1>4. /\ key \in DOMAIN Laid(t) <=> \E k \in 1..n : key \in DOMAIN t[k]
      /\ key \in DOMAIN Laid(t) =>
            \E k \in 1..n : /\ key \in DOMAIN t[k] /\ Laid(t)[key] = t[k][key]
                            /\ \A j \in 1..n : j > k => key \notin DOMAIN t[j]
  BY <1>2, <1>3, LaidIs
<1>5. key \in DOMAIN Laid(t) <=> key \in DOMAIN a \/ key \in DOMAIN b
  BY <1>2, <1>3, <1>4
<1>6. ASSUME key \in DOMAIN b
      PROVE  Laid(t)[key] = b[key]
  BY <1>2, <1>3, <1>4, <1>5, <1>6
<1>7. ASSUME key \in DOMAIN a, key \notin DOMAIN b
      PROVE  Laid(t)[key] = a[key]
  BY <1>2, <1>3, <1>4, <1>5, <1>7
<1> QED BY <1>1, <1>5, <1>6, <1>7

\* Of three.
LEMMA LaidThree ==
    ASSUME NEW a, NEW b, NEW c, NEW key
    PROVE  /\ key \in DOMAIN Laid(<<a, b, c>>) <=> key \in DOMAIN a \/ key \in DOMAIN b \/ key \in DOMAIN c
           /\ key \in DOMAIN c => Laid(<<a, b, c>>)[key] = c[key]
           /\ key \in DOMAIN b /\ key \notin DOMAIN c => Laid(<<a, b, c>>)[key] = b[key]
           /\ key \in DOMAIN a /\ key \notin DOMAIN b /\ key \notin DOMAIN c =>
                  Laid(<<a, b, c>>)[key] = a[key]
<1>1. PICK t : t = <<a, b, c>>
  OBVIOUS
<1>2. DOMAIN t = 1..3 /\ t[1] = a /\ t[2] = b /\ t[3] = c /\ 1..3 = {1, 2, 3}
  BY <1>1
<1>3. PICK n \in Nat : n = 3
  OBVIOUS
<1>4. /\ key \in DOMAIN Laid(t) <=> \E k \in 1..n : key \in DOMAIN t[k]
      /\ key \in DOMAIN Laid(t) =>
            \E k \in 1..n : /\ key \in DOMAIN t[k] /\ Laid(t)[key] = t[k][key]
                            /\ \A j \in 1..n : j > k => key \notin DOMAIN t[j]
  BY <1>2, <1>3, LaidIs
<1>5. key \in DOMAIN Laid(t) <=> key \in DOMAIN a \/ key \in DOMAIN b \/ key \in DOMAIN c
  BY <1>2, <1>3, <1>4
<1>6. ASSUME key \in DOMAIN c
      PROVE  Laid(t)[key] = c[key]
  BY <1>2, <1>3, <1>4, <1>5, <1>6
<1>7. ASSUME key \in DOMAIN b, key \notin DOMAIN c
      PROVE  Laid(t)[key] = b[key]
  BY <1>2, <1>3, <1>4, <1>5, <1>7
<1>8. ASSUME key \in DOMAIN a, key \notin DOMAIN b, key \notin DOMAIN c
      PROVE  Laid(t)[key] = a[key]
  BY <1>2, <1>3, <1>4, <1>5, <1>8
<1> QED BY <1>1, <1>5, <1>6, <1>7, <1>8

\* What a table of declarations holds.
LEMMA TableIs ==
    ASSUME NEW D, NEW p, NEW q, NEW n
    PROVE  /\ <<q, n>> \in DOMAIN Table(D, p) <=> q = p /\ \E x \in D : x.name = n
           /\ <<q, n>> \in DOMAIN Table(D, p) => /\ Table(D, p)[<<q, n>>] \in D
                                                /\ Table(D, p)[<<q, n>>].name = n
<1>1. <<q, n>> \in DOMAIN Table(D, p) <=> q = p /\ \E x \in D : x.name = n
  BY DEF Table
<1>2. ASSUME <<q, n>> \in DOMAIN Table(D, p)
      PROVE  Table(D, p)[<<q, n>>] \in D /\ Table(D, p)[<<q, n>>].name = n
  <2>1. Table(D, p)[<<q, n>>] = CHOOSE x \in D : x.name = n
    BY <1>2 DEF Table
  <2>2. \E x \in D : x.name = n
    BY <1>1, <1>2
  <2> QED BY <2>1, <2>2
<1> QED BY <1>1, <1>2

\* What declarations are.
LEMMA Declared ==
    ASSUME prog \in Programs
    PROVE  /\ \A x \in prog.decls :
                  /\ x.file \in Files /\ x.name \in Words /\ x.ns \in {"fn", "let", "extern"}
                  /\ x.pub \in BOOLEAN /\ (x.pub => x.ns = "fn")
           /\ \A x, y \in prog.decls : x.file = y.file /\ x.name = y.name => x = y
BY NamesAssumption

\* The entry of a file's own declaration.
LEMMA OwnIs ==
    ASSUME prog \in Programs, NEW f, NEW kinds, NEW n
    PROVE  /\ <<None, n>> \in DOMAIN Table(Own(f, kinds), None) <=>
                  \E x \in prog.decls : x.file = f /\ x.ns \in kinds /\ x.name = n
           /\ \A x \in prog.decls : x.file = f /\ x.ns \in kinds /\ x.name = n =>
                  Table(Own(f, kinds), None)[<<None, n>>] = x
           /\ \A q : <<q, n>> \in DOMAIN Table(Own(f, kinds), None) => q = None
<1>1. PICK D : D = Own(f, kinds)
  OBVIOUS
<1>2. \A x : x \in D <=> x \in prog.decls /\ x.file = f /\ x.ns \in kinds
  BY <1>1 DEF Own
<1>3. PICK p : p = None
  OBVIOUS
<1>4. /\ \A q : <<q, n>> \in DOMAIN Table(D, p) <=> q = p /\ \E x \in D : x.name = n
      /\ <<p, n>> \in DOMAIN Table(D, p) => /\ Table(D, p)[<<p, n>>] \in D
                                           /\ Table(D, p)[<<p, n>>].name = n
  BY TableIs
<1>5. ASSUME NEW x \in prog.decls, x.file = f, x.ns \in kinds, x.name = n
      PROVE  Table(D, p)[<<p, n>>] = x
  <2>1. Table(D, p)[<<p, n>>] \in D /\ Table(D, p)[<<p, n>>].name = n
    BY <1>2, <1>4, <1>5
  <2>2. PICK y : y = Table(D, p)[<<p, n>>]
    OBVIOUS
  <2>3. y \in prog.decls /\ y.file = f /\ y.name = n
    BY <1>2, <2>1, <2>2
  <2>4. y = x
    BY <1>5, <2>3, Declared
  <2> QED BY <2>2, <2>4
<1> QED BY <1>1, <1>2, <1>3, <1>4, <1>5

-------------------------------------------------------------------------------
(* What the files in use can name.                                          *)

\* A listed file and its imports.
LEMMA ListedFile ==
    ASSUME OrderInv, NEW f \in Visited
    PROVE  /\ f \in Files /\ prog \in Programs
           /\ Len(prog.uses[f]) \in Nat /\ DOMAIN prog.uses[f] = 1..Len(prog.uses[f])
           /\ \A u \in 1..Len(prog.uses[f]) : prog.uses[f][u].to \in Visited
<1>1. prog \in Programs /\ sortedPaths \in Seq(Files)
  BY DEF OrderInv, Typed
<1>2. /\ Len(sortedPaths) \in Nat /\ DOMAIN sortedPaths = 1..Len(sortedPaths)
      /\ \A k \in 1..Len(sortedPaths) : sortedPaths[k] \in Files
  BY <1>1, LenProperties, ElementOfSeq
<1>3. PICK k \in 1..Len(sortedPaths) : sortedPaths[k] = f
  BY <1>2 DEF Visited, Range
<1>4. f \in Files
  BY <1>2, <1>3
<1>5. Len(prog.uses[f]) \in Nat /\ DOMAIN prog.uses[f] = 1..Len(prog.uses[f])
  BY <1>1, <1>4, UsesTyped
<1>6. ASSUME NEW u \in 1..Len(prog.uses[f])
      PROVE  prog.uses[f][u].to \in Visited
  <2>1. Among(prog.uses[f][u].to, sortedPaths, k - 1)
    BY <1>3, <1>6 DEF OrderInv, Settled, SettledIn
  <2>2. PICK j \in 1..(k - 1) : sortedPaths[j] = prog.uses[f][u].to
    BY <2>1 DEF Among
  <2>3. j \in 1..Len(sortedPaths)
    BY <1>2, <1>3, <2>2
  <2> QED BY <1>2, <2>2, <2>3 DEF Visited, Range
<1> QED BY <1>1, <1>4, <1>5, <1>6

\* An import is a function another listed file exports.
LEMMA ImportsIs ==
    ASSUME OrderInv, NEW f \in Visited, NEW q, NEW n, <<q, n>> \in DOMAIN Imports(f)
    PROVE  /\ Imports(f)[<<q, n>>] \in prog.decls
           /\ Imports(f)[<<q, n>>].ns = "fn" /\ Imports(f)[<<q, n>>].pub
           /\ Imports(f)[<<q, n>>].name = n /\ Imports(f)[<<q, n>>].file \in Visited
<1>1. /\ prog \in Programs
      /\ Len(prog.uses[f]) \in Nat /\ DOMAIN prog.uses[f] = 1..Len(prog.uses[f])
      /\ \A u \in 1..Len(prog.uses[f]) : prog.uses[f][u].to \in Visited
  BY ListedFile
<1>2. PICK m \in Nat : m = Len(prog.uses[f])
  BY <1>1
<1>3. PICK t : t = [k \in DOMAIN prog.uses[f] |-> Table(Exported(prog.uses[f][k].to), prog.uses[f][k].as)]
  OBVIOUS
<1>4. /\ DOMAIN t = 1..m /\ Imports(f) = Laid(t)
      /\ \A k \in 1..m : t[k] = Table(Exported(prog.uses[f][k].to), prog.uses[f][k].as)
  BY <1>1, <1>2, <1>3 DEF Imports
<1>5. PICK key : key = <<q, n>>
  OBVIOUS
<1>6. PICK k \in 1..m : key \in DOMAIN t[k] /\ Laid(t)[key] = t[k][key]
  BY <1>4, <1>5, LaidIs
<1>7. PICK D : D = Exported(prog.uses[f][k].to)
  OBVIOUS
<1>8. PICK p : p = prog.uses[f][k].as
  OBVIOUS
<1>9. t[k] = Table(D, p)
  BY <1>4, <1>7, <1>8
<1>10. Table(D, p)[<<q, n>>] \in D /\ Table(D, p)[<<q, n>>].name = n
  <2>1. <<q, n>> \in DOMAIN Table(D, p)
    BY <1>5, <1>6, <1>9
  <2> QED BY <2>1, TableIs
<1>11. PICK x : x = Imports(f)[<<q, n>>]
  OBVIOUS
<1>12. x \in D /\ x.name = n
  BY <1>4, <1>5, <1>6, <1>9, <1>10, <1>11
<1>13. x \in prog.decls /\ x.file = prog.uses[f][k].to /\ x.pub
  BY <1>7, <1>12 DEF Exported
<1>14. x.ns = "fn" /\ x.file \in Visited
  BY <1>1, <1>2, <1>13, Declared
<1> QED BY <1>11, <1>12, <1>13, <1>14

\* What a function of the file means by a name: its constant, else its own
\* function, else the one it imports.
LEMMA EnvironmentIs ==
    ASSUME OrderInv, NEW f \in Visited, NEW q, NEW n, <<q, n>> \in DOMAIN Environment(f),
           NEW x, x = Environment(f)[<<q, n>>]
    PROVE  /\ x \in prog.decls /\ x.file \in Visited /\ x.name = n
           /\ \/ q = None /\ x.file = f /\ x.ns = "let"
              \/ q = None /\ x.file = f /\ x.ns \in {"fn", "extern"}
              \/ /\ <<q, n>> \in DOMAIN Imports(f) /\ x = Imports(f)[<<q, n>>]
                 /\ x.ns = "fn" /\ x.pub
                 /\ q = None => ~\E y \in prog.decls : y.file = f /\ y.name = n
<1>1. prog \in Programs
  BY ListedFile
<1>2. PICK i : i = Imports(f)
  OBVIOUS
<1>3. PICK F : F = {"fn", "extern"}
  OBVIOUS
<1>4. PICK L : L = {"let"}
  OBVIOUS
<1>5. PICK o : o = Table(Own(f, F), None)
  OBVIOUS
<1>6. PICK l : l = Table(Own(f, L), None)
  OBVIOUS
<1>7. PICK key : key = <<q, n>>
  OBVIOUS
<1>8. Environment(f) = Laid(<<i, o, l>>)
  BY <1>2, <1>3, <1>4, <1>5, <1>6 DEF Environment
<1>9. PICK e : e = Laid(<<i, o, l>>)
  OBVIOUS
<1>10. /\ key \in DOMAIN e <=> key \in DOMAIN i \/ key \in DOMAIN o \/ key \in DOMAIN l
       /\ key \in DOMAIN l => e[key] = l[key]
       /\ key \in DOMAIN o /\ key \notin DOMAIN l => e[key] = o[key]
       /\ key \in DOMAIN i /\ key \notin DOMAIN o /\ key \notin DOMAIN l => e[key] = i[key]
  BY <1>9, LaidThree
<1>11. key \in DOMAIN e /\ x = e[key]
  BY <1>7, <1>8, <1>9
<1>12. /\ key \in DOMAIN i \/ key \in DOMAIN o \/ key \in DOMAIN l
       /\ key \in DOMAIN l => x = l[key]
       /\ key \in DOMAIN o /\ key \notin DOMAIN l => x = o[key]
       /\ key \in DOMAIN i /\ key \notin DOMAIN o /\ key \notin DOMAIN l => x = i[key]
  BY <1>10, <1>11
<1>13. CASE key \in DOMAIN l
  <2>1. q = None /\ \E y \in prog.decls : y.file = f /\ y.ns \in L /\ y.name = n
    BY <1>1, <1>6, <1>7, <1>13, OwnIs
  <2>2. PICK y \in prog.decls : y.file = f /\ y.ns \in L /\ y.name = n
    BY <2>1
  <2>3. l[<<None, n>>] = y
    BY <1>1, <1>6, <2>2, OwnIs
  <2>4. x = y
    BY <1>7, <1>12, <1>13, <2>1, <2>3
  <2>5. x \in prog.decls /\ x.file \in Visited /\ x.name = n /\ x.file = f /\ x.ns = "let"
    BY <1>4, <2>2, <2>4
  <2> QED BY <2>1, <2>5
<1>14. CASE key \in DOMAIN o /\ key \notin DOMAIN l
  <2>1. q = None /\ \E y \in prog.decls : y.file = f /\ y.ns \in F /\ y.name = n
    BY <1>1, <1>5, <1>7, <1>14, OwnIs
  <2>2. PICK y \in prog.decls : y.file = f /\ y.ns \in F /\ y.name = n
    BY <2>1
  <2>3. o[<<None, n>>] = y
    BY <1>1, <1>5, <2>2, OwnIs
  <2>4. x = y
    BY <1>7, <1>12, <1>14, <2>1, <2>3
  <2>5. x \in prog.decls /\ x.file \in Visited /\ x.name = n /\ x.file = f /\ x.ns \in {"fn", "extern"}
    BY <1>3, <2>2, <2>4
  <2> QED BY <2>1, <2>5
<1>15. CASE key \in DOMAIN i /\ key \notin DOMAIN o /\ key \notin DOMAIN l
  <2>1. x = i[key] /\ <<q, n>> \in DOMAIN Imports(f) /\ x = Imports(f)[<<q, n>>]
    BY <1>2, <1>7, <1>12, <1>15
  <2>2. x \in prog.decls /\ x.ns = "fn" /\ x.pub /\ x.name = n /\ x.file \in Visited
    BY <2>1, ImportsIs
  <2>3. ASSUME q = None, NEW y \in prog.decls, y.file = f, y.name = n
        PROVE  FALSE
    <3>1. y.ns \in F \/ y.ns \in L
      BY <1>1, <1>3, <1>4, Declared
    <3>2. <<None, n>> \notin DOMAIN o /\ <<None, n>> \notin DOMAIN l
      BY <1>7, <1>15, <2>3
    <3>3. CASE y.ns \in F
      BY <1>1, <1>5, <2>3, <3>2, <3>3, OwnIs
    <3>4. CASE y.ns \in L
      BY <1>1, <1>6, <2>3, <3>2, <3>4, OwnIs
    <3> QED BY <3>1, <3>3, <3>4
  <2> QED BY <2>1, <2>2, <2>3
<1> QED BY <1>12, <1>13, <1>14, <1>15

\* The functions of a file as a backend looks them up, of the kinds it has: its
\* own, then the imported ones.
LEMMA FunctionsIs ==
    ASSUME OrderInv, NEW f \in Visited, NEW kinds, NEW q, NEW n,
           NEW table, table = Laid(<<Imports(f), Table(Own(f, kinds), None)>>)
    PROVE  /\ <<q, n>> \in DOMAIN table <=>
                  \/ <<q, n>> \in DOMAIN Imports(f)
                  \/ q = None /\ \E y \in prog.decls : y.file = f /\ y.ns \in kinds /\ y.name = n
           /\ \A y \in prog.decls : q = None /\ y.file = f /\ y.ns \in kinds /\ y.name = n =>
                  table[<<q, n>>] = y
           /\ (/\ <<q, n>> \in DOMAIN Imports(f)
               /\ q = None => ~\E y \in prog.decls : y.file = f /\ y.ns \in kinds /\ y.name = n)
              => table[<<q, n>>] = Imports(f)[<<q, n>>]
<1>1. prog \in Programs
  BY ListedFile
<1>2. PICK i : i = Imports(f)
  OBVIOUS
<1>3. PICK o : o = Table(Own(f, kinds), None)
  OBVIOUS
<1>4. PICK key : key = <<q, n>>
  OBVIOUS
<1>5. /\ key \in DOMAIN table <=> key \in DOMAIN i \/ key \in DOMAIN o
      /\ key \in DOMAIN o => table[key] = o[key]
      /\ key \in DOMAIN i /\ key \notin DOMAIN o => table[key] = i[key]
  BY <1>2, <1>3, LaidTwo
<1>6. key \in DOMAIN o <=> q = None /\ \E y \in prog.decls : y.file = f /\ y.ns \in kinds /\ y.name = n
  BY <1>1, <1>3, <1>4, OwnIs
<1>7. ASSUME NEW y \in prog.decls, q = None, y.file = f, y.ns \in kinds, y.name = n
      PROVE  table[<<q, n>>] = y
  <2>1. o[<<None, n>>] = y
    BY <1>1, <1>3, <1>7, OwnIs
  <2>2. key \in DOMAIN o
    BY <1>6, <1>7
  <2> QED BY <1>4, <1>5, <1>7, <2>1, <2>2
<1>8. ASSUME <<q, n>> \in DOMAIN Imports(f),
             q = None => ~\E y \in prog.decls : y.file = f /\ y.ns \in kinds /\ y.name = n
      PROVE  table[<<q, n>>] = Imports(f)[<<q, n>>]
  BY <1>2, <1>4, <1>5, <1>6, <1>8
<1> QED BY <1>2, <1>4, <1>5, <1>6, <1>7, <1>8

-------------------------------------------------------------------------------
(* References under the interpreter.                                        *)

\* The functions in progress are declared in listed files.
FrameInv ==
    /\ frames \in Seq(prog.decls)
    /\ \A d \in 1..Len(frames) : frames[d].ns = "fn" /\ frames[d].file \in Visited

\* What the interpreter's one table holds under a name: a constant of that name,
\* or a module by an alias of a file that has no such constant.
Held(n, v) ==
    \E g \in Visited :
        \/ n \in LetNames(g) /\ v = Thing("let", g, n)
        \/ n \in Aliases(g) /\ n \notin LetNames(g) /\ v.kind = "module"

\* That of the table and the snapshots, and all the constants and aliases of the
\* files loaded are in it.
TablesIn(table, snaps, count) ==
    /\ \A n \in DOMAIN table : Held(n, table[n])
    /\ \A g \in DOMAIN snaps : \A n \in DOMAIN snaps[g] : Held(n, snaps[g][n])
    /\ \A k \in 1..count :
           /\ sortedPaths[k] \in DOMAIN snaps
           /\ \A n \in LetNames(sortedPaths[k]) \cup Aliases(sortedPaths[k]) : n \in DOMAIN table

TablesInv == TablesIn(globals, snapshots, loaded)

\* The function executing.
LEMMA ExecutingIs ==
    ASSUME FrameInv, frames # <<>>
    PROVE  /\ Len(frames) \in Nat \ {0} /\ DOMAIN frames = 1..Len(frames)
           /\ Executing = frames[Len(frames)] /\ Executing \in prog.decls
           /\ Executing.ns = "fn" /\ Executing.file \in Visited
<1>1. /\ frames \in Seq(prog.decls)
      /\ \A d \in 1..Len(frames) : frames[d].ns = "fn" /\ frames[d].file \in Visited
  BY DEF FrameInv
<1>2. Len(frames) \in Nat \ {0} /\ Executing = frames[Len(frames)] /\ Executing \in prog.decls
  BY <1>1, StackPop DEF Executing
<1>3. DOMAIN frames = 1..Len(frames) /\ Len(frames) \in 1..Len(frames)
  BY <1>1, <1>2, LenProperties
<1> QED BY <1>1, <1>2, <1>3

\* What an accepted reference means: a local, or what stands for the name in the
\* file, where neither an alias hides it nor a constant the alias.
LEMMA MeansIs ==
    ASSUME NEW q, NEW name, NEW call, WellTyped(q, name, call), NEW w, w = IF q = None THEN name ELSE q
    PROVE  \/ /\ q = None /\ name \in DOMAIN Executing.local
              /\ Means(q, name) = Thing("local", Len(frames), name)
              /\ call => Executing.local[name] = "fn"
           \/ /\ w \notin DOMAIN Executing.local /\ <<q, name>> \in DOMAIN Environment(Executing.file)
              /\ Means(q, name) = TheFn(Environment(Executing.file)[<<q, name>>])
              /\ q = None => name \in LetNames(Executing.file) \/ name \notin Aliases(Executing.file)
              /\ q # None => q \notin LetNames(Executing.file)
<1>1. PICK m : m = Means(q, name)
  OBVIOUS
<1>2. /\ m.kind # "nothing"
      /\ call => m.kind \in {"fn", "extern"} \/ (m.kind = "local" /\ Executing.local[name] = "fn")
  BY <1>1 DEF WellTyped
<1>3. m # Nothing
  <2>1. Nothing.kind = "nothing"
    BY DEF Nothing, Thing
  <2> QED BY <1>2, <2>1
<1>4. CASE w \in DOMAIN Executing.local
  <2>1. q = None /\ m = Thing("local", Len(frames), name)
    BY <1>1, <1>3, <1>4 DEF Means
  <2>2. m.kind = "local"
    BY <2>1 DEF Thing
  <2> QED BY <1>1, <1>2, <1>4, <2>1, <2>2
<1>5. CASE w \notin DOMAIN Executing.local
  <2> DEFINE seen == /\ <<q, name>> \in DOMAIN Environment(Executing.file)
                     /\ IF q = None THEN name \in LetNames(Executing.file) \/ name \notin Aliases(Executing.file)
                        ELSE q \notin LetNames(Executing.file)
  <2>1. m = IF seen THEN TheFn(Environment(Executing.file)[<<q, name>>]) ELSE Nothing
    BY <1>1, <1>5 DEF Means
  <2>2. seen /\ m = TheFn(Environment(Executing.file)[<<q, name>>])
    BY <1>3, <2>1
  <2>3. q = None => name \in LetNames(Executing.file) \/ name \notin Aliases(Executing.file)
    BY <2>2
  <2>4. q # None => q \notin LetNames(Executing.file)
    BY <2>2
  <2>5. <<q, name>> \in DOMAIN Environment(Executing.file)
    BY <2>2
  <2> HIDE DEF seen
  <2>6. Means(q, name) = TheFn(Environment(Executing.file)[<<q, name>>])
    BY <1>1, <2>2
  <2> QED BY <1>5, <2>3, <2>4, <2>5, <2>6
<1> QED BY <1>4, <1>5

\* The value a search of the scopes and the one table ends with.
LEMMA LookupIs ==
    ASSUME FrameInv, frames # <<>>, NEW w
    PROVE  \/ \E d \in 1..Len(frames) : /\ w \in DOMAIN frames[d].local
                                        /\ Lookup(w) = Thing("local", d, w)
           \/ /\ w \notin DOMAIN Executing.local /\ w \in DOMAIN globals
              /\ Lookup(w) = globals[w]
           \/ /\ w \notin DOMAIN Executing.local /\ w \notin DOMAIN globals
              /\ Lookup(w) = Nothing
<1>1. /\ Len(frames) \in Nat \ {0} /\ DOMAIN frames = 1..Len(frames)
      /\ Executing = frames[Len(frames)]
  BY ExecutingIs
<1> DEFINE D == {d \in DOMAIN frames : w \in DOMAIN frames[d].local}
<1>2. Lookup(w) = IF D # {} THEN Thing("local", Max(D), w)
                  ELSE IF w \in DOMAIN globals THEN globals[w] ELSE Nothing
  BY DEF Lookup
<1>3. CASE D # {}
  <2>1. D \subseteq 1..Len(frames) /\ D \subseteq Nat
    BY <1>1
  <2>2. IsFiniteSet(D)
    <3>1. 1 \in Int /\ Len(frames) \in Int
      BY <1>1
    <3>2. IsFiniteSet(1..Len(frames))
      BY <3>1, FS_Interval
    <3> QED BY <2>1, <3>2, FS_Subset
  <2>3. Lookup(w) = Thing("local", Max(D), w)
    BY <1>2, <1>3
  <2>4. \A d \in D : w \in DOMAIN frames[d].local
    OBVIOUS
  <2> HIDE DEF D
  <2>5. Max(D) \in D
    BY <1>3, <2>1, <2>2, Largest
  <2>6. PICK d : d = Max(D)
    OBVIOUS
  <2> QED BY <2>1, <2>3, <2>4, <2>5, <2>6
<1>4. CASE D = {}
  <2>1. w \notin DOMAIN Executing.local
    BY <1>1, <1>4
  <2>2. Lookup(w) = IF w \in DOMAIN globals THEN globals[w] ELSE Nothing
    BY <1>2, <1>4
  <2> QED BY <2>1, <2>2
<1> QED BY <1>3, <1>4

\* Kinds.
LEMMA TheFnIs ==
    ASSUME NEW x
    PROVE  /\ TheFn(x).kind = x.ns /\ TheFn(x).name = x.name
           /\ x.ns # "extern" => TheFn(x) = Thing(x.ns, x.file, x.name) /\ TheFn(x).at = x.file
           /\ x.ns = "extern" => TheFn(x) = Thing("extern", 0, x.name)
BY DEF TheFn, Thing

\* The files loaded, when all are, are those listed.
LEMMA AllLoaded ==
    ASSUME OrderInv, TablesInv, loaded = Len(sortedPaths), NEW f \in Visited,
           NEW n \in LetNames(f) \cup Aliases(f)
    PROVE  n \in DOMAIN globals
<1>1. sortedPaths \in Seq(Files)
  BY DEF OrderInv, Typed
<1>2. DOMAIN sortedPaths = 1..Len(sortedPaths)
  BY <1>1, LenProperties
<1>3. PICK k \in 1..loaded : sortedPaths[k] = f
  BY <1>2 DEF Visited, Range
<1> QED BY <1>3 DEF TablesInv, TablesIn

\* The constants of a file are declarations of it.
LEMMA LetNamesIs ==
    ASSUME NEW f, NEW n
    PROVE  n \in LetNames(f) <=> \E x \in prog.decls : x.file = f /\ x.ns = "let" /\ x.name = n
BY DEF LetNames, Own

\* A reference that no local takes finds in the table what it means, unless
\* another file put it there.
LEMMA InterpGlobal ==
    ASSUME OrderInv, FrameInv, TablesInv, frames # <<>>,
           NEW f, f = Executing.file, NEW q, NEW name, NEW w, w = (IF q = None THEN name ELSE q),
           <<q, name>> \in DOMAIN Environment(f),
           q = None => name \in LetNames(f) \/ name \notin Aliases(f),
           q # None => q \notin LetNames(f),
           w \in DOMAIN globals, Lookup(w) = globals[w]
    PROVE  \/ InterpReaches(q, name) = TheFn(Environment(f)[<<q, name>>])
           \/ \E g \in Visited \ {f} : w \in Aliases(g) \cup LetNames(g)
<1>1. f \in Visited /\ prog \in Programs
  BY ExecutingIs DEF OrderInv, Typed
<1>2. PICK v : v = globals[w]
  OBVIOUS
<1>3. PICK g \in Visited : \/ w \in LetNames(g) /\ v = Thing("let", g, w)
                           \/ w \in Aliases(g) /\ w \notin LetNames(g) /\ v.kind = "module"
  BY <1>2 DEF TablesInv, TablesIn, Held
<1>4. PICK x : x = Environment(f)[<<q, name>>]
  OBVIOUS
<1>5. /\ x \in prog.decls /\ x.file \in Visited /\ x.name = name
      /\ \/ q = None /\ x.file = f /\ x.ns = "let"
         \/ q = None /\ x.file = f /\ x.ns \in {"fn", "extern"}
         \/ /\ <<q, name>> \in DOMAIN Imports(f) /\ x = Imports(f)[<<q, name>>]
            /\ x.ns = "fn" /\ x.pub
            /\ q = None => ~\E y \in prog.decls : y.file = f /\ y.name = name
  BY <1>1, <1>4, EnvironmentIs
<1>6. CASE g # f
  BY <1>3, <1>6
<1>7. CASE g = f /\ q = None
  <2>1. w = name /\ w \in LetNames(f) /\ v = Thing("let", f, w)
    BY <1>3, <1>7
  <2>2. PICK y \in prog.decls : y.file = f /\ y.ns = "let" /\ y.name = name
    BY <2>1, LetNamesIs
  <2>3. x = y
    <3>1. x.file = f /\ x.name = name
      BY <1>5, <1>7, <2>2
    <3> QED BY <1>1, <1>5, <2>2, <3>1, Declared
  <2>4. TheFn(x) = v
    BY <2>1, <2>2, <2>3, TheFnIs
  <2>5. v # Nothing
    <3>1. v.kind = "let" /\ Nothing.kind = "nothing"
      BY <2>1 DEF Nothing, Thing
    <3> QED BY <3>1
  <2>6. Lookup(IF q = None THEN name ELSE q) = v
    BY <1>2
  <2>7. InterpReaches(q, name) = v
    BY <1>7, <2>5, <2>6 DEF InterpReaches
  <2> QED BY <1>4, <2>4, <2>7
<1>8. CASE g = f /\ q # None
  <2>1. v.kind = "module"
    BY <1>3, <1>8
  <2>2. Lookup(IF q = None THEN name ELSE q) = v
    BY <1>2
  <2>3. <<q, name>> \in DOMAIN Imports(f) /\ x = Imports(f)[<<q, name>>]
    BY <1>5, <1>8
  <2>4. PICK K : K = {"fn"}
    OBVIOUS
  <2>5. PICK table : table = Laid(<<Imports(f), Table(Own(f, K), None)>>)
    OBVIOUS
  <2>6. Fns(CurModule) = table
    BY <2>4, <2>5 DEF Fns, CurModule
  <2>7. <<q, name>> \in DOMAIN table /\ table[<<q, name>>] = x
    BY <1>1, <1>8, <2>3, <2>5, FunctionsIs
  <2>8. InterpReaches(q, name) = TheFn(table[<<q, name>>])
    BY <1>8, <2>1, <2>2, <2>6, <2>7 DEF InterpReaches
  <2> QED BY <1>4, <2>7, <2>8
<1> QED BY <1>6, <1>7, <1>8

\* A reference that neither a local nor the table takes finds the function it means,
\* but for an extern that is also imported.
LEMMA InterpFunction ==
    ASSUME OrderInv, FrameInv, TablesInv, frames # <<>>, loaded = Len(sortedPaths),
           NEW f, f = Executing.file, NEW q \in {None} \cup Aliases(f), NEW name,
           NEW w, w = (IF q = None THEN name ELSE q),
           <<q, name>> \in DOMAIN Environment(f),
           w \notin DOMAIN globals, Lookup(w) = Nothing
    PROVE  \/ InterpReaches(q, name) = TheFn(Environment(f)[<<q, name>>])
           \/ /\ TheFn(Environment(f)[<<q, name>>]).kind = "extern"
              /\ InterpReaches(q, name).kind = "fn"
<1>1. f \in Visited /\ prog \in Programs
  BY ExecutingIs DEF OrderInv, Typed
<1>2. q = None /\ w = name
  BY <1>1, AllLoaded
<1>3. PICK x : x = Environment(f)[<<q, name>>]
  OBVIOUS
<1>4. /\ x \in prog.decls /\ x.file \in Visited /\ x.name = name
      /\ \/ q = None /\ x.file = f /\ x.ns = "let"
         \/ q = None /\ x.file = f /\ x.ns \in {"fn", "extern"}
         \/ /\ <<q, name>> \in DOMAIN Imports(f) /\ x = Imports(f)[<<q, name>>]
            /\ x.ns = "fn" /\ x.pub
            /\ q = None => ~\E y \in prog.decls : y.file = f /\ y.name = name
  BY <1>1, <1>3, EnvironmentIs
<1>5. ~(x.file = f /\ x.ns = "let")
  BY <1>1, <1>2, <1>4, AllLoaded, LetNamesIs
<1>6. PICK K : K = {"fn"}
  OBVIOUS
<1>7. PICK table : table = Laid(<<Imports(f), Table(Own(f, K), None)>>)
  OBVIOUS
<1>8. Fns(CurModule) = table
  BY <1>6, <1>7 DEF Fns, CurModule
<1>9. Lookup(IF q = None THEN name ELSE q) = Nothing
  OBVIOUS
<1>10. /\ <<q, name>> \in DOMAIN table => InterpReaches(q, name) = TheFn(table[<<q, name>>])
       /\ <<q, name>> \notin DOMAIN table /\ (\E y \in prog.decls : y.ns = "extern" /\ y.name = name /\ y.file \in Visited)
              => InterpReaches(q, name) = Thing("extern", 0, name)
  BY <1>2, <1>8, <1>9 DEF InterpReaches
<1>11. CASE x.file = f /\ x.ns = "fn"
  <2>1. <<q, name>> \in DOMAIN table /\ table[<<q, name>>] = x
    BY <1>1, <1>2, <1>4, <1>6, <1>7, <1>11, FunctionsIs
  <2> QED BY <1>3, <1>10, <2>1
<1>12. CASE x.file = f /\ x.ns = "extern"
  <2>1. ~\E y \in prog.decls : y.file = f /\ y.ns \in K /\ y.name = name
    BY <1>1, <1>4, <1>6, <1>12, Declared
  <2>2. CASE <<q, name>> \in DOMAIN table
    <3>1. <<q, name>> \in DOMAIN Imports(f)
      BY <1>1, <1>7, <2>1, <2>2, FunctionsIs
    <3>2. table[<<q, name>>] = Imports(f)[<<q, name>>]
      BY <1>1, <1>7, <2>1, <3>1, FunctionsIs
    <3>3. Imports(f)[<<q, name>>].ns = "fn"
      BY <1>1, <3>1, ImportsIs
    <3>4. InterpReaches(q, name).kind = "fn"
      BY <1>10, <2>2, <3>2, <3>3, TheFnIs
    <3>5. TheFn(x).kind = "extern"
      BY <1>12, TheFnIs
    <3> QED BY <1>3, <3>4, <3>5
  <2>3. CASE <<q, name>> \notin DOMAIN table
    <3>1. InterpReaches(q, name) = Thing("extern", 0, name)
      BY <1>4, <1>10, <1>12, <2>3
    <3>2. TheFn(x) = Thing("extern", 0, name)
      BY <1>4, <1>12, TheFnIs
    <3> QED BY <1>3, <3>1, <3>2
  <2> QED BY <2>2, <2>3
<1>13. CASE /\ <<q, name>> \in DOMAIN Imports(f) /\ x = Imports(f)[<<q, name>>]
            /\ ~\E y \in prog.decls : y.file = f /\ y.name = name
  <2>1. <<q, name>> \in DOMAIN table /\ table[<<q, name>>] = x
    BY <1>1, <1>7, <1>13, FunctionsIs
  <2> QED BY <1>3, <1>10, <2>1
<1> QED BY <1>2, <1>4, <1>5, <1>11, <1>12, <1>13

\* What a reference means and what it reaches under the interpreter.
LEMMA InterpReached ==
    ASSUME OrderInv, FrameInv, TablesInv, frames # <<>>, loaded = Len(sortedPaths),
           NEW f, f = Executing.file, NEW q \in {None} \cup Aliases(f), NEW name, NEW call,
           WellTyped(q, name, call), NEW w, w = (IF q = None THEN name ELSE q)
    PROVE  \/ InterpReaches(q, name) = Means(q, name)
           \/ \E d \in 1..(Len(frames) - 1) : w \in DOMAIN frames[d].local
           \/ \E g \in Visited \ {f} : w \in Aliases(g) \cup LetNames(g)
           \/ Means(q, name).kind = "extern" /\ InterpReaches(q, name).kind = "fn"
<1>1. Len(frames) \in Nat \ {0} /\ Executing = frames[Len(frames)]
  BY ExecutingIs
<1>2. \/ /\ q = None /\ name \in DOMAIN Executing.local
         /\ Means(q, name) = Thing("local", Len(frames), name)
         /\ call => Executing.local[name] = "fn"
      \/ /\ w \notin DOMAIN Executing.local /\ <<q, name>> \in DOMAIN Environment(f)
         /\ Means(q, name) = TheFn(Environment(f)[<<q, name>>])
         /\ q = None => name \in LetNames(f) \/ name \notin Aliases(f)
         /\ q # None => q \notin LetNames(f)
  BY MeansIs
<1>3. CASE \E d \in 1..Len(frames) : w \in DOMAIN frames[d].local /\ Lookup(w) = Thing("local", d, w)
  <2>1. PICK d \in 1..Len(frames) : w \in DOMAIN frames[d].local /\ Lookup(w) = Thing("local", d, w)
    BY <1>3
  <2>2. CASE d # Len(frames)
    <3>1. d \in 1..(Len(frames) - 1)
      BY <1>1, <2>2
    <3> QED BY <2>1, <3>1
  <2>3. CASE d = Len(frames)
    <3>1. w \in DOMAIN Executing.local
      BY <1>1, <2>1, <2>3
    <3>2. q = None /\ w = name /\ Means(q, name) = Thing("local", Len(frames), name)
      BY <1>2, <3>1
    <3>3. Lookup(w) # Nothing
      <4>1. Lookup(w).kind = "local" /\ Nothing.kind = "nothing"
        BY <2>1 DEF Nothing, Thing
      <4> QED BY <4>1
    <3>4. InterpReaches(q, name) = Lookup(w)
      BY <3>2, <3>3 DEF InterpReaches
    <3> QED BY <2>1, <2>3, <3>2, <3>4
  <2> QED BY <2>2, <2>3
<1>4. CASE w \notin DOMAIN Executing.local
  <2>1. /\ <<q, name>> \in DOMAIN Environment(f)
        /\ Means(q, name) = TheFn(Environment(f)[<<q, name>>])
        /\ q = None => name \in LetNames(f) \/ name \notin Aliases(f)
        /\ q # None => q \notin LetNames(f)
    BY <1>2, <1>4
  <2>2. CASE w \in DOMAIN globals /\ Lookup(w) = globals[w]
    BY <2>1, <2>2, InterpGlobal
  <2>3. CASE w \notin DOMAIN globals /\ Lookup(w) = Nothing
    BY <2>1, <2>3, InterpFunction
  <2> QED BY <1>3, <2>2, <2>3, LookupIs
<1> QED BY <1>3, <1>4, LookupIs

\* A function reached is one of a listed file.
LEMMA InterpCallee ==
    ASSUME OrderInv, FrameInv, TablesInv, frames # <<>>, NEW q, NEW name,
           InterpReaches(q, name).kind = "fn"
    PROVE  \E x \in prog.decls : x.ns = "fn" /\ x.file \in Visited /\ InterpReaches(q, name) = TheFn(x)
<1>1. PICK f : f = Executing.file
  OBVIOUS
<1>2. f \in Visited /\ prog \in Programs
  BY <1>1, ExecutingIs DEF OrderInv, Typed
<1>3. PICK w : w = IF q = None THEN name ELSE q
  OBVIOUS
<1>4. PICK found : found = Lookup(w)
  OBVIOUS
<1>5. found.kind \in {"local", "let", "module", "nothing"}
  <2>1. CASE \E d \in 1..Len(frames) : w \in DOMAIN frames[d].local /\ found = Thing("local", d, w)
    BY <2>1 DEF Thing
  <2>2. CASE w \in DOMAIN globals /\ found = globals[w]
    <3>1. Held(w, found)
      BY <2>2 DEF TablesInv, TablesIn
    <3>2. PICK g : found = Thing("let", g, w) \/ found.kind = "module"
      BY <3>1 DEF Held
    <3> QED BY <3>2 DEF Thing
  <2>3. CASE found = Nothing
    BY <2>3 DEF Nothing, Thing
  <2> QED BY <1>4, <2>1, <2>2, <2>3, LookupIs
<1>6. PICK K : K = {"fn"}
  OBVIOUS
<1>7. PICK table : table = Laid(<<Imports(f), Table(Own(f, K), None)>>)
  OBVIOUS
<1>8. Fns(CurModule) = table
  BY <1>1, <1>6, <1>7 DEF Fns, CurModule
<1>9. <<q, name>> \in DOMAIN table /\ InterpReaches(q, name) = TheFn(table[<<q, name>>])
  <2>1. Lookup(IF q = None THEN name ELSE q) = found
    BY <1>3, <1>4
  <2>2. Thing("extern", 0, name).kind = "extern" /\ Nothing.kind = "nothing"
    BY DEF Nothing, Thing
  <2> QED BY <1>5, <1>8, <2>1, <2>2 DEF InterpReaches
<1>10. PICK x : x = table[<<q, name>>]
  OBVIOUS
<1>11. x \in prog.decls /\ x.ns = "fn" /\ x.file \in Visited
  <2>1. CASE q = None /\ \E y \in prog.decls : y.file = f /\ y.ns \in K /\ y.name = name
    <3>1. PICK y \in prog.decls : y.file = f /\ y.ns \in K /\ y.name = name
      BY <2>1
    <3>2. table[<<q, name>>] = y
      BY <1>2, <1>7, <2>1, <3>1, FunctionsIs
    <3> QED BY <1>2, <1>6, <1>10, <3>1, <3>2
  <2>2. CASE ~(q = None /\ \E y \in prog.decls : y.file = f /\ y.ns \in K /\ y.name = name)
    <3>1. <<q, name>> \in DOMAIN Imports(f)
      BY <1>2, <1>7, <1>9, <2>2, FunctionsIs
    <3>2. q = None => ~\E y \in prog.decls : y.file = f /\ y.ns \in K /\ y.name = name
      BY <2>2
    <3>3. table[<<q, name>>] = Imports(f)[<<q, name>>]
      BY <1>2, <1>7, <3>1, <3>2, FunctionsIs
    <3> QED BY <1>2, <1>10, <3>1, <3>3, ImportsIs
  <2> QED BY <2>1, <2>2
<1> QED BY <1>9, <1>10, <1>11

-------------------------------------------------------------------------------
(* The merge.                                                               *)

\* The path of a file.
LEMMA PathIs ==
    ASSUME OrderInv, NEW f \in Visited
    PROVE  \E T : prog.path[f] \in Seq(T) /\ prog.path[f] # <<>> /\ Last(prog.path[f]) \in T
<1>1. f \in Files /\ prog \in Programs
  BY ListedFile
<1>2. PICK T : T = Range(prog.path[f])
  OBVIOUS
<1>3. PICK s : s = prog.path[f]
  OBVIOUS
<1>4. s \in Seq(T) /\ s # <<>>
  BY <1>1, <1>2, <1>3, NamesAssumption
<1>5. Last(s) \in T
  BY <1>4, StackPop
<1> QED BY <1>3, <1>4, <1>5

\* A prefix key ends with the stem of the file.
LEMMA PrefixKeyIs ==
    ASSUME OrderInv, NEW f \in Visited
    PROVE  /\ \E T : PrefixKey(f) \in Seq(T) /\ PrefixKey(f) # <<>>
           /\ Last(PrefixKey(f)) = Stem(f)[1]
<1>1. PICK T : prog.path[f] \in Seq(T) /\ prog.path[f] # <<>> /\ Last(prog.path[f]) \in T
  BY PathIs
<1>2. PICK s : s = prog.path[f]
  OBVIOUS
<1>3. PICK e : e = Last(s)
  OBVIOUS
<1>4. <<e>> \in Seq(T) /\ <<e>> # <<>> /\ Last(<<e>>) = e /\ <<e>>[1] = e
  BY <1>1, <1>2, <1>3 DEF Last
<1>5. Stem(f) = <<e>>
  BY <1>2, <1>3 DEF Stem
<1>6. PrefixKey(f) = s \/ PrefixKey(f) = <<e>>
  BY <1>2, <1>5 DEF PrefixKey
<1> QED BY <1>1, <1>2, <1>3, <1>4, <1>5, <1>6

\* A prefix is a sequence of one part at least.
LEMMA PrefixIs ==
    ASSUME OrderInv, NEW f \in Visited
    PROVE  \E T : Prefix(f) \in Seq(T) /\ Prefix(f) # <<>>
<1>1. PICK T : PrefixKey(f) \in Seq(T) /\ PrefixKey(f) # <<>>
  BY PrefixKeyIs
<1>2. PICK s : s = PrefixKey(f)
  OBVIOUS
<1>3. PICK e : e = Number[(CHOOSE k \in DOMAIN sortedPaths : sortedPaths[k] = f) - 1]
  OBVIOUS
<1>4. PICK U : U = T \cup {e}
  OBVIOUS
<1>5. s \in Seq(U) /\ e \in U
  BY <1>1, <1>2, <1>4, StackWiden
<1>6. Append(s, e) \in Seq(U) /\ Append(s, e) # <<>>
  BY <1>5, StackPush
<1>7. Prefix(f) = s \/ Prefix(f) = Append(s, e)
  BY <1>2, <1>3 DEF Prefix
<1> QED BY <1>1, <1>2, <1>5, <1>6, <1>7

\* A merged name: the bare one, or several parts that end with it.
LEMMA MergedIs ==
    ASSUME OrderInv, NEW x, x.file \in Visited
    PROVE  /\ KeepsBareName(x) => Merged(x) = <<x.name>> /\ Len(Merged(x)) = 1
           /\ ~KeepsBareName(x) => /\ Merged(x) = Append(Prefix(x.file), x.name)
                                   /\ Len(Merged(x)) # 1
           /\ Last(Merged(x)) = x.name
<1>1. PICK T : Prefix(x.file) \in Seq(T) /\ Prefix(x.file) # <<>>
  BY PrefixIs
<1>2. PICK s : s = Prefix(x.file)
  OBVIOUS
<1>3. PICK n : n = x.name
  OBVIOUS
<1>4. PICK U : U = T \cup {n}
  OBVIOUS
<1>5. s \in Seq(U) /\ n \in U /\ s # <<>>
  BY <1>1, <1>2, <1>4, StackWiden
<1>6. Len(s) \in Nat \ {0} /\ Len(Append(s, n)) = Len(s) + 1 /\ Last(Append(s, n)) = n
  BY <1>5, StackPush, StackPop
<1>7. <<n>> \in Seq(U) /\ Len(<<n>>) = 1 /\ Last(<<n>>) = n
  BY <1>5 DEF Last
<1>8. CASE KeepsBareName(x)
  <2>1. Merged(x) = <<n>>
    BY <1>3, <1>8 DEF Merged
  <2> QED BY <1>3, <1>7, <1>8, <2>1
<1>9. CASE ~KeepsBareName(x)
  <2>1. Merged(x) = Append(s, n)
    BY <1>2, <1>3, <1>9 DEF Merged
  <2>2. Len(Merged(x)) # 1 /\ Last(Merged(x)) = n
    BY <1>6, <2>1
  <2> QED BY <1>2, <1>3, <1>9, <2>1, <2>2
<1> QED BY <1>8, <1>9

\* After a merge that succeeds, what has one name in one space is one thing.
LEMMA MergedApart ==
    ASSUME OrderInv, ~MergeFails, NEW space \in {FnSpace, LetSpace}, NEW x \in space, NEW y \in space,
           Merged(x) = Merged(y)
    PROVE  TheFn(x) = TheFn(y)
<1>1. x \in prog.decls /\ y \in prog.decls /\ x.file \in Visited /\ y.file \in Visited /\ prog \in Programs
  BY DEF FnSpace, LetSpace, OrderInv, Typed
<1>2. x.name = y.name
  <2>1. Last(Merged(x)) = x.name /\ Last(Merged(y)) = y.name
    BY <1>1, MergedIs
  <2> QED BY <2>1
<1>3. CASE x.file = y.file
  <2>1. x = y
    BY <1>1, <1>2, <1>3, Declared
  <2> QED BY <2>1
<1>4. CASE x.file # y.file
  <2>1. x.ns = "extern" /\ y.ns = "extern"
    BY <1>4 DEF MergeFails
  <2> QED BY <1>2, <2>1, TheFnIs
<1> QED BY <1>3, <1>4

-------------------------------------------------------------------------------
(* References in the merged program.                                        *)

\* A name that stands for a declaration of the program alone reaches it.
LEMMA JitDeclared ==
    ASSUME OrderInv, ~MergeFails, NEW q, NEW name, NEW call,
           NEW x \in prog.decls, x.file \in Visited, Rewritten(q, name) = Merged(x),
           ~KeepsBareName(x) \/ x.name \notin DOMAIN Executing.local
    PROVE  \/ JitReaches(q, name, call) = TheFn(x)
           \/ x.ns = "let" /\ JitReaches(q, name, call).kind = "fn"
<1>1. PICK m : m = Rewritten(q, name)
  OBVIOUS
<1>2. m = Merged(x) /\ prog \in Programs
  BY <1>1 DEF OrderInv, Typed
<1>3. ~(Len(m) = 1 /\ m[1] \in DOMAIN Executing.local)
  <2>1. CASE KeepsBareName(x)
    <3>1. m = <<x.name>>
      BY <1>2, <2>1, MergedIs
    <3>2. m[1] = x.name
      BY <3>1
    <3>3. x.name \notin DOMAIN Executing.local
      BY <2>1
    <3>4. m[1] \notin DOMAIN Executing.local
      BY <3>2, <3>3
    <3> QED BY <3>4
  <2>2. CASE ~KeepsBareName(x)
    <3>1. Len(m) # 1
      BY <1>2, <2>2, MergedIs
    <3> QED BY <3>1
  <2> QED BY <2>1, <2>2
<1>4. PICK fns : fns = {y \in FnSpace : Merged(y) = m}
  OBVIOUS
<1>5. PICK lets : lets = {y \in LetSpace : Merged(y) = m}
  OBVIOUS
<1>6. JitReaches(q, name, call) =
          IF fns # {} THEN TheFn(CHOOSE y \in fns : TRUE)
          ELSE IF lets # {} THEN TheFn(CHOOSE y \in lets : TRUE) ELSE Nothing
  BY <1>1, <1>3, <1>4, <1>5 DEF JitReaches
<1>7. CASE x.ns # "let"
  <2>1. x \in FnSpace /\ x \in fns
    BY <1>2, <1>4, <1>7 DEF FnSpace
  <2>2. PICK y : y = CHOOSE z \in fns : TRUE
    OBVIOUS
  <2>3. y \in fns
    BY <2>1, <2>2
  <2>4. y \in FnSpace /\ Merged(y) = Merged(x)
    BY <1>2, <1>4, <2>3
  <2>5. TheFn(y) = TheFn(x)
    BY <2>1, <2>4, MergedApart
  <2>6. JitReaches(q, name, call) = TheFn(y)
    BY <1>6, <2>1, <2>2
  <2> QED BY <2>5, <2>6
<1>8. CASE x.ns = "let" /\ fns = {}
  <2>1. x \in LetSpace /\ x \in lets
    BY <1>2, <1>5, <1>8 DEF LetSpace
  <2>2. PICK y : y = CHOOSE z \in lets : TRUE
    OBVIOUS
  <2>3. y \in lets
    BY <2>1, <2>2
  <2>4. y \in LetSpace /\ Merged(y) = Merged(x)
    BY <1>2, <1>5, <2>3
  <2>5. TheFn(y) = TheFn(x)
    BY <2>1, <2>4, MergedApart
  <2>6. JitReaches(q, name, call) = TheFn(y)
    BY <1>6, <1>8, <2>1, <2>2
  <2> QED BY <2>5, <2>6
<1>9. CASE x.ns = "let" /\ fns # {}
  <2>1. PICK y : y = CHOOSE z \in fns : TRUE
    OBVIOUS
  <2>2. y \in fns
    BY <1>9, <2>1
  <2>3. y \in FnSpace /\ Merged(y) = Merged(x)
    BY <1>2, <1>4, <2>2
  <2>4. y \in prog.decls /\ y.file \in Visited /\ y.ns # "let"
    BY <2>3 DEF FnSpace
  <2>5. y.ns = "fn"
    <3>1. CASE y.ns = "extern"
      <4>1. KeepsBareName(y)
        BY <3>1 DEF KeepsBareName
      <4>2. Len(Merged(x)) = 1
        BY <2>3, <2>4, <4>1, MergedIs
      <4>3. KeepsBareName(x)
        BY <4>2, MergedIs
      <4>4. Len(sortedPaths) = 1
        <5>1. ~x.pub
          BY <1>2, <1>9, Declared
        <5> QED BY <1>9, <4>3, <5>1 DEF KeepsBareName, IsEntryPoint
      <4>5. x.file = y.file
        <5>1. sortedPaths \in Seq(Files)
          BY DEF OrderInv, Typed
        <5>2. DOMAIN sortedPaths = 1..1 /\ \A k \in 1..1 : k = 1
          BY <4>4, <5>1, LenProperties
        <5> QED BY <2>4, <5>2 DEF Visited, Range
      <4>6. x.name = y.name
        <5>1. Last(Merged(x)) = x.name /\ Last(Merged(y)) = y.name
          BY <2>4, MergedIs
        <5> QED BY <2>3, <5>1
      <4>7. x = y
        BY <1>2, <2>4, <4>5, <4>6, Declared
      <4> QED BY <1>9, <2>4, <4>7
    <3> QED BY <1>2, <2>4, <3>1, Declared
  <2>6. JitReaches(q, name, call) = TheFn(y)
    BY <1>6, <1>9, <2>1
  <2> QED BY <1>9, <2>5, <2>6, TheFnIs
<1> QED BY <1>7, <1>8, <1>9

\* What a reference means and what it reaches in the merged program.
LEMMA JitReached ==
    ASSUME OrderInv, ~MergeFails, FrameInv, frames # <<>>,
           NEW q, NEW name, NEW call, WellTyped(q, name, call)
    PROVE  \/ JitReaches(q, name, call) = Means(q, name)
           \/ q # None /\ name \in DOMAIN Executing.local
           \/ Means(q, name).kind = "let" /\ JitReaches(q, name, call).kind = "fn"
<1>1. PICK f : f = Executing.file
  OBVIOUS
<1>2. f \in Visited /\ prog \in Programs
  BY <1>1, ExecutingIs DEF OrderInv, Typed
<1>3. PICK w : w = IF q = None THEN name ELSE q
  OBVIOUS
<1>4. PICK m : m = Rewritten(q, name)
  OBVIOUS
<1>5. \/ /\ q = None /\ name \in DOMAIN Executing.local
         /\ Means(q, name) = Thing("local", Len(frames), name)
         /\ call => Executing.local[name] = "fn"
      \/ /\ w \notin DOMAIN Executing.local /\ <<q, name>> \in DOMAIN Environment(f)
         /\ Means(q, name) = TheFn(Environment(f)[<<q, name>>])
  BY <1>1, <1>3, MeansIs
<1>6. CASE /\ q = None /\ name \in DOMAIN Executing.local
           /\ Means(q, name) = Thing("local", Len(frames), name)
           /\ call => Executing.local[name] = "fn"
  <2>1. m = <<name>>
    BY <1>4, <1>6 DEF Rewritten
  <2>2. Len(m) = 1 /\ m[1] = name
    BY <2>1
  <2>3. JitReaches(q, name, call) = Thing("local", Len(frames), name)
    BY <1>4, <1>6, <2>2 DEF JitReaches
  <2> QED BY <1>6, <2>3
<1>7. CASE /\ w \notin DOMAIN Executing.local /\ <<q, name>> \in DOMAIN Environment(f)
           /\ Means(q, name) = TheFn(Environment(f)[<<q, name>>])
  <2>1. PICK x : x = Environment(f)[<<q, name>>]
    OBVIOUS
  <2>2. /\ x \in prog.decls /\ x.file \in Visited /\ x.name = name
        /\ \/ q = None /\ x.file = f /\ x.ns = "let"
           \/ q = None /\ x.file = f /\ x.ns \in {"fn", "extern"}
           \/ /\ <<q, name>> \in DOMAIN Imports(f) /\ x = Imports(f)[<<q, name>>]
              /\ x.ns = "fn" /\ x.pub
              /\ q = None => ~\E y \in prog.decls : y.file = f /\ y.name = name
    BY <1>2, <1>7, <2>1, EnvironmentIs
  <2>3. PICK K : K = {"fn", "extern"}
    OBVIOUS
  <2>4. PICK table : table = Laid(<<Imports(f), Table(Own(f, K), None)>>)
    OBVIOUS
  <2>5. MergeFns(f) = table
    BY <2>3, <2>4 DEF MergeFns
  <2>6. q # None \/ name \notin DOMAIN Executing.local
    BY <1>3, <1>7
  <2>7. PICK L : L = {"let"}
    OBVIOUS
  <2>8. PICK lets : lets = Table(Own(f, L), None)
    OBVIOUS
  <2>9. MergeLets(f) = lets
    BY <2>7, <2>8 DEF MergeLets
  <2>10. m = IF <<q, name>> \in DOMAIN table THEN Merged(table[<<q, name>>])
             ELSE IF <<q, name>> \in DOMAIN lets THEN Merged(lets[<<q, name>>]) ELSE <<name>>
    <3>1. ~((IF q = None THEN name ELSE q) \in DOMAIN Executing.local)
      BY <1>3, <1>7
    <3>2. CASE <<q, name>> \in DOMAIN table
      BY <1>1, <1>4, <2>5, <2>9, <3>1, <3>2 DEF Rewritten
    <3>3. CASE <<q, name>> \notin DOMAIN table /\ <<q, name>> \in DOMAIN lets
      BY <1>1, <1>4, <2>5, <2>9, <3>1, <3>3 DEF Rewritten
    <3>4. CASE <<q, name>> \notin DOMAIN table /\ <<q, name>> \notin DOMAIN lets
      BY <1>1, <1>4, <2>5, <2>9, <3>1, <3>4 DEF Rewritten
    <3> QED BY <3>2, <3>3, <3>4
  <2>11. CASE x.ns # "let"
    <3>1. <<q, name>> \in DOMAIN table /\ table[<<q, name>>] = x
      <4>1. CASE q = None /\ x.file = f /\ x.ns \in {"fn", "extern"}
        BY <1>2, <2>2, <2>3, <2>4, <4>1, FunctionsIs
      <4>2. CASE /\ <<q, name>> \in DOMAIN Imports(f) /\ x = Imports(f)[<<q, name>>]
                 /\ q = None => ~\E y \in prog.decls : y.file = f /\ y.name = name
        BY <1>2, <2>4, <4>2, FunctionsIs
      <4> QED BY <2>2, <2>11, <4>1, <4>2
    <3>2. m = Merged(x)
      BY <2>10, <3>1
    <3>3. CASE name \notin DOMAIN Executing.local
      <4>1. x \in prog.decls /\ x.file \in Visited
        BY <2>2
      <4>2. Rewritten(q, name) = Merged(x)
        BY <1>4, <3>2
      <4>3. ~KeepsBareName(x) \/ x.name \notin DOMAIN Executing.local
        BY <2>2, <3>3
      <4>4. \/ JitReaches(q, name, call) = TheFn(x)
            \/ x.ns = "let" /\ JitReaches(q, name, call).kind = "fn"
        BY <4>1, <4>2, <4>3, JitDeclared
      <4> QED BY <1>7, <2>1, <2>11, <4>4
    <3> QED BY <2>6, <3>3
  <2>12. CASE x.ns = "let"
    <3>1. q = None /\ x.file = f
      BY <2>2, <2>12
    <3>2. Means(q, name).kind = "let"
      BY <1>7, <2>1, <2>12, TheFnIs
    <3>3. CASE <<q, name>> \in DOMAIN table
      <4>1. ~\E y \in prog.decls : y.file = f /\ y.ns \in K /\ y.name = name
        BY <1>2, <2>2, <2>3, <2>12, <3>1, Declared
      <4>2. <<q, name>> \in DOMAIN Imports(f)
        BY <1>2, <2>4, <3>3, <4>1, FunctionsIs
      <4>3. PICK y : y = Imports(f)[<<q, name>>]
        OBVIOUS
      <4>4. table[<<q, name>>] = y
        BY <1>2, <2>4, <4>1, <4>2, <4>3, FunctionsIs
      <4>5. y \in prog.decls /\ y.ns = "fn" /\ y.name = name /\ y.file \in Visited
        BY <1>2, <4>2, <4>3, ImportsIs
      <4>6. Rewritten(q, name) = Merged(y)
        BY <1>4, <2>10, <3>3, <4>4
      <4>7. y.name \notin DOMAIN Executing.local
        BY <2>6, <3>1, <4>5
      <4>8. ~KeepsBareName(y) \/ y.name \notin DOMAIN Executing.local
        BY <4>7
      <4>9. \/ JitReaches(q, name, call) = TheFn(y)
            \/ y.ns = "let" /\ JitReaches(q, name, call).kind = "fn"
        BY <4>5, <4>6, <4>8, JitDeclared
      <4> QED BY <3>2, <4>5, <4>9, TheFnIs
    <3>4. CASE <<q, name>> \notin DOMAIN table
      <4>1. <<q, name>> \in DOMAIN lets /\ lets[<<q, name>>] = x
        <5>1. x \in prog.decls /\ x.file = f /\ x.ns \in L /\ x.name = name
          BY <2>2, <2>7, <2>12, <3>1
        <5>2. <<None, name>> \in DOMAIN lets /\ lets[<<None, name>>] = x
          BY <1>2, <2>8, <5>1, OwnIs
        <5> QED BY <3>1, <5>2
      <4>2. Rewritten(q, name) = Merged(x)
        BY <1>4, <2>10, <3>4, <4>1
      <4>3. x.name \notin DOMAIN Executing.local
        BY <2>2, <2>6, <3>1
      <4>4. JitReaches(q, name, call) = TheFn(x) \/ JitReaches(q, name, call).kind = "fn"
        BY <2>2, <4>2, <4>3, JitDeclared
      <4> QED BY <1>7, <2>1, <3>2, <4>4
    <3> QED BY <3>3, <3>4
  <2> QED BY <2>11, <2>12
<1> QED BY <1>5, <1>6, <1>7

\* A function reached is one of a listed file.
LEMMA JitCallee ==
    ASSUME NEW q, NEW name, NEW call, JitReaches(q, name, call).kind = "fn"
    PROVE  \E x \in prog.decls : x.ns = "fn" /\ x.file \in Visited /\ JitReaches(q, name, call) = TheFn(x)
<1>1. PICK m : m = Rewritten(q, name)
  OBVIOUS
<1>2. PICK fns : fns = {y \in FnSpace : Merged(y) = m}
  OBVIOUS
<1>3. PICK lets : lets = {y \in LetSpace : Merged(y) = m}
  OBVIOUS
<1>4. PICK got : got = JitReaches(q, name, call)
  OBVIOUS
<1>5. \/ got.kind = "local"
      \/ fns # {} /\ got = TheFn(CHOOSE y \in fns : TRUE)
      \/ lets # {} /\ got = TheFn(CHOOSE y \in lets : TRUE)
      \/ got = Nothing
  BY <1>1, <1>2, <1>3, <1>4 DEF JitReaches, Thing
<1>6. Nothing.kind = "nothing"
  BY DEF Nothing, Thing
<1>7. CASE fns # {} /\ got = TheFn(CHOOSE y \in fns : TRUE)
  <2>1. PICK y \in fns : got = TheFn(y)
    BY <1>7
  <2>2. y \in FnSpace
    BY <1>2, <2>1
  <2>3. y \in prog.decls /\ y.file \in Visited
    BY <2>2 DEF FnSpace
  <2> QED BY <1>4, <2>1, <2>3, TheFnIs
<1>8. CASE lets # {} /\ got = TheFn(CHOOSE y \in lets : TRUE)
  <2>1. PICK y \in lets : got = TheFn(y)
    BY <1>8
  <2>2. y.ns = "let"
    BY <1>3, <2>1 DEF LetSpace
  <2> QED BY <1>4, <2>1, <2>2, TheFnIs
<1> QED BY <1>4, <1>5, <1>6, <1>7, <1>8

-------------------------------------------------------------------------------
(* Why a merge fails.                                                       *)

\* What stands at the end of a sequence, and in front of it, is in it once.
LEMMA AppendApart ==
    ASSUME NEW T, NEW s \in Seq(T), NEW t \in Seq(T), NEW a \in T, NEW b \in T,
           Append(s, a) = Append(t, b)
    PROVE  s = t /\ a = b
<1>1. /\ Len(s) \in Nat /\ Len(Append(s, a)) = Len(s) + 1 /\ Append(s, a)[Len(s) + 1] = a
      /\ \A i \in 1..Len(s) : Append(s, a)[i] = s[i]
  BY StackPush
<1>2. /\ Len(t) \in Nat /\ Len(Append(t, b)) = Len(t) + 1 /\ Append(t, b)[Len(t) + 1] = b
      /\ \A i \in 1..Len(t) : Append(t, b)[i] = t[i]
  BY StackPush
<1>3. Len(s) = Len(t) /\ a = b
  BY <1>1, <1>2
<1>4. \A i \in 1..Len(s) : s[i] = t[i]
  BY <1>1, <1>2, <1>3
<1> QED BY <1>3, <1>4, SeqEqual

\* There is a number for each place in the list.
LEMMA PlaceNumbered ==
    ASSUME OrderInv, NEW f \in Visited
    PROVE  \E k \in 1..Len(sortedPaths) :
               /\ k = (CHOOSE i \in DOMAIN sortedPaths : sortedPaths[i] = f) /\ sortedPaths[k] = f
               /\ k - 1 \in DOMAIN Number
<1>1. sortedPaths \in Seq(Files) /\ \A j, k \in 1..Len(sortedPaths) : sortedPaths[j] = sortedPaths[k] => j = k
  BY DEF OrderInv, Typed, Once
<1>2. PICK n \in Nat : n = Len(sortedPaths)
  BY <1>1, LenProperties
<1>3. DOMAIN sortedPaths = 1..n /\ sortedPaths \in [1..n -> Files]
  BY <1>1, <1>2, LenProperties
<1>4. PICK k : k = CHOOSE i \in DOMAIN sortedPaths : sortedPaths[i] = f
  OBVIOUS
<1>5. k \in 1..n /\ sortedPaths[k] = f
  BY <1>3, <1>4 DEF Visited, Range
<1>6. IsFiniteSet(Files) /\ 0..(Cardinality(Files) - 1) \subseteq DOMAIN Number
  BY NamesAssumption
<1>7. Cardinality(1..n) <= Cardinality(Files)
  <2>1. PICK S : S = 1..n
    OBVIOUS
  <2>2. sortedPaths \in Injection(S, Files)
    BY <1>1, <1>2, <1>3, <2>1 DEF Injection, IsInjective
  <2>3. Cardinality(S) <= Cardinality(Files)
    BY <1>6, <2>2, FS_Injection
  <2> QED BY <2>1, <2>3
<1>8. Cardinality(1..n) = n
  <2>1. PICK a \in Int : a = 1
    OBVIOUS
  <2>2. Cardinality(a..n) = IF a > n THEN 0 ELSE n - a + 1
    BY FS_Interval
  <2> QED BY <1>2, <2>1, <2>2
<1>9. Cardinality(Files) \in Nat
  BY <1>6, FS_CardinalityType
<1>10. k - 1 \in 0..(Cardinality(Files) - 1)
  BY <1>5, <1>7, <1>8, <1>9
<1> QED BY <1>2, <1>4, <1>5, <1>6, <1>10

\* Two listed files have two prefixes, if none is called by a number.
LEMMA PrefixesApart ==
    ASSUME OrderInv, ~NumberedFile, NEW f \in Visited, NEW g \in Visited, Prefix(f) = Prefix(g)
    PROVE  f = g
<1> SUFFICES ASSUME f # g
             PROVE  FALSE
  OBVIOUS
<1>1. PICK i \in 1..Len(sortedPaths) :
          /\ i = (CHOOSE h \in DOMAIN sortedPaths : sortedPaths[h] = f) /\ sortedPaths[i] = f
          /\ i - 1 \in DOMAIN Number
  BY PlaceNumbered
<1>2. PICK j \in 1..Len(sortedPaths) :
          /\ j = (CHOOSE h \in DOMAIN sortedPaths : sortedPaths[h] = g) /\ sortedPaths[j] = g
          /\ j - 1 \in DOMAIN Number
  BY PlaceNumbered
<1>3. PICK s : s = PrefixKey(f)
  OBVIOUS
<1>4. PICK t : t = PrefixKey(g)
  OBVIOUS
<1>5. PICK a : a = Number[i - 1]
  OBVIOUS
<1>6. PICK b : b = Number[j - 1]
  OBVIOUS
<1>7. PICK S : s \in Seq(S) /\ s # <<>> /\ Last(s) = Stem(f)[1]
  BY <1>3, PrefixKeyIs
<1>8. PICK T : t \in Seq(T) /\ t # <<>> /\ Last(t) = Stem(g)[1]
  BY <1>4, PrefixKeyIs
<1>9. PICK U : U = S \cup T \cup {a, b}
  OBVIOUS
<1>10. s \in Seq(U) /\ t \in Seq(U) /\ a \in U /\ b \in U
  BY <1>7, <1>8, <1>9, StackWiden
<1>11. Last(s) # b /\ Last(t) # a
  <2>1. a \in Range(Number) /\ b \in Range(Number)
    BY <1>1, <1>2, <1>5, <1>6 DEF Range
  <2> QED BY <1>7, <1>8, <2>1 DEF NumberedFile
<1>12. a # b
  <2>1. i # j
    BY <1>1, <1>2
  <2>2. i - 1 # j - 1
    BY <2>1
  <2> QED BY <1>1, <1>2, <1>5, <1>6, <2>2, NamesAssumption DEF IsInjective
<1>13. Last(Append(s, a)) = a /\ Last(Append(t, b)) = b
  BY <1>10, StackPush
<1>14. (Prefix(f) = s /\ s # t) \/ Prefix(f) = Append(s, a)
  <2>1. Prefix(f) = IF \E h \in Visited \ {f} : PrefixKey(h) = s THEN Append(s, a) ELSE s
    BY <1>1, <1>3, <1>5 DEF Prefix
  <2>2. CASE \E h \in Visited \ {f} : PrefixKey(h) = s
    BY <2>1, <2>2
  <2>3. CASE ~\E h \in Visited \ {f} : PrefixKey(h) = s
    <3>1. s # t
      BY <1>4, <2>3
    <3>2. Prefix(f) = s
      BY <2>1, <2>3
    <3> QED BY <3>1, <3>2
  <2> QED BY <2>2, <2>3
<1>15. Prefix(g) = t \/ Prefix(g) = Append(t, b)
  BY <1>2, <1>4, <1>6 DEF Prefix
<1>16. CASE Prefix(f) = s /\ s # t
  <2>1. s = Append(t, b)
    BY <1>15, <1>16
  <2> QED BY <1>11, <1>13, <2>1
<1>17. CASE Prefix(f) = Append(s, a)
  <2>1. CASE Prefix(g) = t
    BY <1>11, <1>13, <1>17, <2>1
  <2>2. CASE Prefix(g) = Append(t, b)
    BY <1>12, <1>13, <1>17, <2>2
  <2> QED BY <1>15, <2>1, <2>2
<1> QED BY <1>14, <1>16, <1>17

\* Two declarations with one merged name both keep the bare one, if no file is
\* called by a number.
LEMMA ClashIsBare ==
    ASSUME OrderInv, ~NumberedFile, NEW x, NEW y, x.file \in Visited, y.file \in Visited,
           x.file # y.file, Merged(x) = Merged(y)
    PROVE  KeepsBareName(x) /\ KeepsBareName(y) /\ x.name = y.name
<1>1. x.name = y.name
  <2>1. Last(Merged(x)) = x.name /\ Last(Merged(y)) = y.name
    BY MergedIs
  <2> QED BY <2>1
<1>2. KeepsBareName(x) <=> KeepsBareName(y)
  <2>1. KeepsBareName(x) => Len(Merged(x)) = 1
    BY MergedIs
  <2>2. KeepsBareName(y) => Len(Merged(y)) = 1
    BY MergedIs
  <2>3. ~KeepsBareName(x) => Len(Merged(x)) # 1
    BY MergedIs
  <2>4. ~KeepsBareName(y) => Len(Merged(y)) # 1
    BY MergedIs
  <2> QED BY <2>1, <2>2, <2>3, <2>4
<1>3. CASE ~KeepsBareName(x)
  <2>1. PICK s : s = Prefix(x.file)
    OBVIOUS
  <2>2. PICK t : t = Prefix(y.file)
    OBVIOUS
  <2>3. PICK a : a = x.name
    OBVIOUS
  <2>4. PICK S : s \in Seq(S)
    BY <2>1, PrefixIs
  <2>5. PICK T : t \in Seq(T)
    BY <2>2, PrefixIs
  <2>6. PICK U : U = S \cup T \cup {a}
    OBVIOUS
  <2>7. s \in Seq(U) /\ t \in Seq(U) /\ a \in U
    BY <2>4, <2>5, <2>6, StackWiden
  <2>8. Append(s, a) = Append(t, a)
    <3>1. Merged(x) = Append(s, a)
      BY <1>3, <2>1, <2>3 DEF Merged
    <3>2. Merged(y) = Append(t, a)
      BY <1>1, <1>2, <1>3, <2>2, <2>3 DEF Merged
    <3> QED BY <3>1, <3>2
  <2>9. s = t
    BY <2>7, <2>8, AppendApart
  <2> QED BY <2>1, <2>2, <2>9, PrefixesApart
<1> QED BY <1>1, <1>2, <1>3

\* Then one of them is an extern fn.
LEMMA BareClashIsExtern ==
    ASSUME OrderInv, NEW space \in {FnSpace, LetSpace}, NEW x \in space, NEW y \in space, x.file # y.file,
           KeepsBareName(x), KeepsBareName(y), x.name = y.name,
           ~(x.ns = "extern" /\ y.ns = "extern")
    PROVE  /\ x \in FnSpace /\ y \in FnSpace
           /\ \/ x.ns = "extern" /\ (y.pub \/ IsEntryPoint(y))
              \/ y.ns = "extern" /\ (x.pub \/ IsEntryPoint(x))
<1>1. x \in prog.decls /\ y \in prog.decls /\ x.file \in Visited /\ y.file \in Visited /\ prog \in Programs
  BY DEF FnSpace, LetSpace, OrderInv, Typed
<1>2. Len(sortedPaths) # 1
  <2>1. sortedPaths \in Seq(Files)
    BY DEF OrderInv, Typed
  <2> SUFFICES ASSUME Len(sortedPaths) = 1
               PROVE  FALSE
    OBVIOUS
  <2>2. DOMAIN sortedPaths = 1..1 /\ \A k \in 1..1 : k = 1
    BY <2>1, LenProperties
  <2> QED BY <1>1, <2>2 DEF Visited, Range
<1>3. /\ x.ns = "extern" \/ (x.file = Entry /\ IsEntryPoint(x)) \/ (x.pub /\ ~IsEntryPoint(x) /\
            ~\E z \in FnSpace : z.file # x.file /\ z.pub /\ z.name = x.name)
      /\ y.ns = "extern" \/ (y.file = Entry /\ IsEntryPoint(y)) \/ (y.pub /\ ~IsEntryPoint(y) /\
            ~\E z \in FnSpace : z.file # y.file /\ z.pub /\ z.name = y.name)
  BY <1>2 DEF KeepsBareName
<1>4. x.ns # "let" /\ y.ns # "let"
  BY <1>1, <1>3, Declared DEF IsEntryPoint
<1>5. x \in FnSpace /\ y \in FnSpace
  BY <1>1, <1>4 DEF FnSpace
<1>6. CASE x.ns = "extern"
  BY <1>3, <1>5, <1>6
<1>7. CASE y.ns = "extern"
  BY <1>3, <1>5, <1>7
<1>8. CASE x.ns # "extern" /\ y.ns # "extern"
  <2>1. x.ns = "fn" /\ y.ns = "fn"
    BY <1>1, <1>4, <1>8, Declared
  <2>2. IsEntryPoint(x) <=> IsEntryPoint(y)
    BY <2>1 DEF IsEntryPoint
  <2> QED BY <1>3, <1>5, <1>8, <2>2
<1> QED BY <1>6, <1>7, <1>8

\* What a failed merge shows.
LEMMA FailedMerge ==
    ASSUME OrderInv, MergeFails
    PROVE  \/ \E x, y \in FnSpace : /\ x.ns = "extern" /\ y # x /\ y.name = x.name
                                    /\ y.ns = "extern" \/ y.pub \/ IsEntryPoint(y)
           \/ NumberedFile
<1>1. CASE \E x, y \in FnSpace : /\ x.ns = "extern" /\ y.ns = "extern"
                                 /\ x.name = y.name /\ x.sig # y.sig
  BY <1>1
<1>2. CASE ~NumberedFile /\ \E space \in {FnSpace, LetSpace} : \E x, y \in space :
               x.file # y.file /\ Merged(x) = Merged(y) /\ ~(x.ns = "extern" /\ y.ns = "extern")
  <2>1. PICK space \in {FnSpace, LetSpace} : \E x, y \in space :
               x.file # y.file /\ Merged(x) = Merged(y) /\ ~(x.ns = "extern" /\ y.ns = "extern")
    BY <1>2
  <2>2. PICK x \in space, y \in space :
               x.file # y.file /\ Merged(x) = Merged(y) /\ ~(x.ns = "extern" /\ y.ns = "extern")
    BY <2>1
  <2>3. x.file \in Visited /\ y.file \in Visited
    BY DEF FnSpace, LetSpace
  <2>4. KeepsBareName(x) /\ KeepsBareName(y) /\ x.name = y.name
    BY <1>2, <2>2, <2>3, ClashIsBare
  <2>5. /\ x \in FnSpace /\ y \in FnSpace
        /\ \/ x.ns = "extern" /\ (y.pub \/ IsEntryPoint(y))
           \/ y.ns = "extern" /\ (x.pub \/ IsEntryPoint(x))
    BY <2>2, <2>4, BareClashIsExtern
  <2>6. x # y
    BY <2>2
  <2> QED BY <2>4, <2>5, <2>6
<1> QED BY <1>1, <1>2 DEF MergeFails

-------------------------------------------------------------------------------
(* Loading a file.                                                          *)

\* What loading file f brings in by its imports.
LEMMA ImportedIs ==
    ASSUME OrderInv, TablesInv, NEW f \in Visited, NEW u \in 1..Len(prog.uses[f]),
           prog.uses[f][u].to \in DOMAIN snapshots
    PROVE  /\ \A n \in DOMAIN Imported(prog.uses[f][u]) :
                 \/ Held(n, Imported(prog.uses[f][u])[n])
                 \/ n \in Aliases(f) /\ Imported(prog.uses[f][u])[n].kind = "module"
           /\ prog.uses[f][u].as # None => prog.uses[f][u].as \in DOMAIN Imported(prog.uses[f][u])
<1>1. PICK use : use = prog.uses[f][u]
  OBVIOUS
<1>2. u \in DOMAIN prog.uses[f]
  BY ListedFile
<1>3. CASE use.as # None
  <2>1. Imported(use) = [n \in {use.as} |-> Thing("module", use.to, n)]
    BY <1>3 DEF Imported
  <2>2. use.as \in Aliases(f)
    BY <1>1, <1>2, <1>3 DEF Aliases, Range
  <2>3. \A n \in {use.as} : Thing("module", use.to, n).kind = "module"
    BY DEF Thing
  <2> QED BY <1>1, <2>1, <2>2, <2>3
<1>4. CASE use.as = None
  <2>1. PICK S : S = {x.name : x \in Exported(use.to)} \cap DOMAIN snapshots[use.to]
    OBVIOUS
  <2>2. Imported(use) = [n \in S |-> snapshots[use.to][n]]
    BY <1>4, <2>1 DEF Imported, Restrict
  <2>3. \A n \in S : Held(n, snapshots[use.to][n])
    BY <1>1, <2>1 DEF TablesInv, TablesIn
  <2> QED BY <1>1, <1>4, <2>2, <2>3
<1> QED BY <1>3, <1>4

\* The tables after it.
LEMMA LoadTables ==
    ASSUME OrderInv, TablesInv, loaded \in Nat, loaded < Len(sortedPaths),
           NEW f, f = sortedPaths[loaded + 1],
           NEW imported, imported = [k \in DOMAIN prog.uses[f] |-> Imported(prog.uses[f][k])],
           NEW lets, lets = [n \in LetNames(f) |-> Thing("let", f, n)],
           NEW table, table = Laid(<<globals, Laid(imported), lets>>),
           NEW snaps,
           snaps = [g \in DOMAIN snapshots \cup {f} |-> IF g = f THEN table ELSE snapshots[g]]
    PROVE  TablesIn(table, snaps, loaded + 1)
<1>1. /\ sortedPaths \in Seq(Files) /\ Len(sortedPaths) \in Nat
      /\ DOMAIN sortedPaths = 1..Len(sortedPaths) /\ loaded + 1 \in 1..Len(sortedPaths)
  <2>1. sortedPaths \in Seq(Files)
    BY DEF OrderInv, Typed
  <2>2. Len(sortedPaths) \in Nat /\ DOMAIN sortedPaths = 1..Len(sortedPaths)
    BY <2>1, LenProperties
  <2> QED BY <2>1, <2>2
<1>2. f \in Visited
  BY <1>1 DEF Visited, Range
<1>3. PICK m \in Nat : m = Len(prog.uses[f]) /\ DOMAIN prog.uses[f] = 1..m
  BY <1>2, ListedFile
<1>4. \A u \in 1..m : prog.uses[f][u].to \in DOMAIN snapshots
  <2> SUFFICES ASSUME NEW u \in 1..m
               PROVE  prog.uses[f][u].to \in DOMAIN snapshots
    OBVIOUS
  <2>1. Among(prog.uses[f][u].to, sortedPaths, (loaded + 1) - 1)
    BY <1>1, <1>3 DEF OrderInv, Settled, SettledIn
  <2>2. PICK k \in 1..loaded : sortedPaths[k] = prog.uses[f][u].to
    BY <2>1 DEF Among
  <2> QED BY <2>2 DEF TablesInv, TablesIn
<1>5. /\ DOMAIN imported = 1..m
      /\ \A u \in 1..m : imported[u] = Imported(prog.uses[f][u])
  BY <1>3
<1>6. PICK i : i = Laid(imported)
  OBVIOUS
<1>7. /\ \A n : n \in DOMAIN i <=> \E u \in 1..m : n \in DOMAIN imported[u]
      /\ \A n \in DOMAIN i : \E u \in 1..m : n \in DOMAIN imported[u] /\ i[n] = imported[u][n]
  <2>1. PICK t : t = imported
    OBVIOUS
  <2>2. DOMAIN t = 1..m /\ i = Laid(t)
    BY <1>5, <1>6, <2>1
  <2>3. \A n : n \in DOMAIN Laid(t) <=> \E u \in 1..m : n \in DOMAIN t[u]
    BY <2>2, LaidIs
  <2>4. \A n \in DOMAIN Laid(t) :
            \E u \in 1..m : /\ n \in DOMAIN t[u] /\ Laid(t)[n] = t[u][n]
                            /\ \A j \in 1..m : j > u => n \notin DOMAIN t[j]
    BY <2>2, LaidIs
  <2>5. /\ \A n : n \in DOMAIN i <=> \E u \in 1..m : n \in DOMAIN t[u]
        /\ \A n \in DOMAIN i : \E u \in 1..m : n \in DOMAIN t[u] /\ i[n] = t[u][n]
    BY <2>2, <2>3, <2>4
  <2> QED BY <2>1, <2>5
<1>8. \A n \in DOMAIN i : Held(n, i[n]) \/ (n \in Aliases(f) /\ i[n].kind = "module")
  <2> SUFFICES ASSUME NEW n \in DOMAIN i
               PROVE  Held(n, i[n]) \/ (n \in Aliases(f) /\ i[n].kind = "module")
    OBVIOUS
  <2>1. PICK u \in 1..m : n \in DOMAIN imported[u] /\ i[n] = imported[u][n]
    BY <1>7
  <2>2. PICK v : v = i[n]
    OBVIOUS
  <2>3. n \in DOMAIN Imported(prog.uses[f][u]) /\ v = Imported(prog.uses[f][u])[n]
    BY <1>5, <2>1, <2>2
  <2>4. Held(n, v) \/ (n \in Aliases(f) /\ v.kind = "module")
    BY <1>2, <1>3, <1>4, <2>3, ImportedIs
  <2> QED BY <2>2, <2>4
<1>9. \A n \in Aliases(f) : n \in DOMAIN i
  <2> SUFFICES ASSUME NEW n \in Aliases(f)
               PROVE  n \in DOMAIN i
    OBVIOUS
  <2>1. PICK u \in 1..m : prog.uses[f][u].as = n /\ n # None
    BY <1>3 DEF Aliases, Range
  <2>2. n \in DOMAIN Imported(prog.uses[f][u])
    BY <1>2, <1>3, <1>4, <2>1, ImportedIs
  <2> QED BY <1>5, <1>7, <2>2
<1>10. /\ DOMAIN lets = LetNames(f)
       /\ \A n \in LetNames(f) : lets[n] = Thing("let", f, n)
  OBVIOUS
<1>11. table = Laid(<<globals, i, lets>>)
  BY <1>6
<1>12. ASSUME NEW n
       PROVE  /\ n \in DOMAIN table <=> n \in DOMAIN globals \/ n \in DOMAIN i \/ n \in DOMAIN lets
              /\ n \in DOMAIN lets => table[n] = lets[n]
              /\ n \in DOMAIN i /\ n \notin DOMAIN lets => table[n] = i[n]
              /\ n \in DOMAIN globals /\ n \notin DOMAIN i /\ n \notin DOMAIN lets => table[n] = globals[n]
  <2>1. PICK l : l = lets
    OBVIOUS
  <2>2. PICK t : t = Laid(<<globals, i, l>>)
    OBVIOUS
  <2>3. PICK o : o = globals
    OBVIOUS
  <2>4. /\ n \in DOMAIN t <=> n \in DOMAIN o \/ n \in DOMAIN i \/ n \in DOMAIN l
        /\ n \in DOMAIN l => t[n] = l[n]
        /\ n \in DOMAIN i /\ n \notin DOMAIN l => t[n] = i[n]
        /\ n \in DOMAIN o /\ n \notin DOMAIN i /\ n \notin DOMAIN l => t[n] = o[n]
    BY <2>2, <2>3, LaidThree
  <2>5. table = t
    BY <1>11, <2>1, <2>2
  <2> QED BY <2>1, <2>3, <2>4, <2>5
<1>13. \A n \in DOMAIN table : Held(n, table[n])
  <2> SUFFICES ASSUME NEW n \in DOMAIN table
               PROVE  Held(n, table[n])
    OBVIOUS
  <2>1. CASE n \in DOMAIN lets
    <3>1. table[n] = Thing("let", f, n) /\ n \in LetNames(f)
      BY <1>10, <1>12, <2>1
    <3> QED BY <1>2, <3>1 DEF Held
  <2>2. CASE n \in DOMAIN i /\ n \notin DOMAIN lets
    <3>1. table[n] = i[n] /\ n \notin LetNames(f)
      BY <1>10, <1>12, <2>2
    <3>2. CASE Held(n, i[n])
      BY <3>1, <3>2
    <3>3. CASE n \in Aliases(f) /\ i[n].kind = "module"
      BY <1>2, <3>1, <3>3 DEF Held
    <3> QED BY <1>8, <2>2, <3>2, <3>3
  <2>3. CASE n \in DOMAIN globals /\ n \notin DOMAIN i /\ n \notin DOMAIN lets
    <3>1. table[n] = globals[n]
      BY <1>12, <2>3
    <3>2. Held(n, globals[n])
      BY <2>3 DEF TablesInv, TablesIn
    <3> QED BY <3>1, <3>2
  <2> QED BY <1>12, <2>1, <2>2, <2>3
<1>14. /\ DOMAIN snaps = DOMAIN snapshots \cup {f}
       /\ \A g \in DOMAIN snaps : snaps[g] = IF g = f THEN table ELSE snapshots[g]
  OBVIOUS
<1>15. \A g \in DOMAIN snaps : \A n \in DOMAIN snaps[g] : Held(n, snaps[g][n])
  <2> SUFFICES ASSUME NEW g \in DOMAIN snaps, NEW n \in DOMAIN snaps[g]
               PROVE  Held(n, snaps[g][n])
    OBVIOUS
  <2>1. CASE g = f
    BY <1>13, <1>14, <2>1
  <2>2. CASE g # f
    <3>1. g \in DOMAIN snapshots /\ snaps[g] = snapshots[g]
      BY <1>14, <2>2
    <3> QED BY <3>1 DEF TablesInv, TablesIn
  <2> QED BY <2>1, <2>2
<1>16. \A k \in 1..(loaded + 1) :
           /\ sortedPaths[k] \in DOMAIN snaps
           /\ \A n \in LetNames(sortedPaths[k]) \cup Aliases(sortedPaths[k]) : n \in DOMAIN table
  <2> SUFFICES ASSUME NEW k \in 1..(loaded + 1)
               PROVE  /\ sortedPaths[k] \in DOMAIN snaps
                      /\ \A n \in LetNames(sortedPaths[k]) \cup Aliases(sortedPaths[k]) : n \in DOMAIN table
    OBVIOUS
  <2>1. CASE k \in 1..loaded
    <3>1. /\ sortedPaths[k] \in DOMAIN snapshots
          /\ \A n \in LetNames(sortedPaths[k]) \cup Aliases(sortedPaths[k]) : n \in DOMAIN globals
      BY <2>1 DEF TablesInv, TablesIn
    <3> QED BY <1>12, <1>14, <3>1
  <2>2. CASE k \notin 1..loaded
    <3>1. k = loaded + 1
      BY <2>2
    <3>2. sortedPaths[k] = f
      BY <3>1
    <3>3. \A n \in LetNames(f) \cup Aliases(f) : n \in DOMAIN table
      BY <1>9, <1>10, <1>12
    <3> QED BY <1>14, <3>2, <3>3
  <2> QED BY <2>1, <2>2
<1> QED BY <1>13, <1>15, <1>16 DEF TablesIn

\* The tables do not depend on anything else that moves after the resolver.
LEMMA TablesMoved ==
    ASSUME prog' = prog, sortedPaths' = sortedPaths, TablesIn(globals', snapshots', loaded')
    PROVE  TablesInv'
BY DEF TablesInv, TablesIn, Held, LetNames, Own, Aliases, Visited

\* Loading a file leaves them as they must be.
LEMMA LoadTablesInv ==
    ASSUME OrderInv, TablesInv, loaded \in Nat, Load
    PROVE  TablesInv'
<1>1. PICK f : f = sortedPaths[loaded + 1]
  OBVIOUS
<1>2. PICK imported : imported = [k \in DOMAIN prog.uses[f] |-> Imported(prog.uses[f][k])]
  OBVIOUS
<1>3. PICK lets : lets = [n \in LetNames(f) |-> Thing("let", f, n)]
  OBVIOUS
<1>4. PICK table : table = Laid(<<globals, Laid(imported), lets>>)
  OBVIOUS
<1>5. PICK snaps : snaps = [g \in DOMAIN snapshots \cup {f} |-> IF g = f THEN table ELSE snapshots[g]]
  OBVIOUS
<1>6. /\ loaded < Len(sortedPaths) /\ loaded' = loaded + 1
      /\ prog' = prog /\ sortedPaths' = sortedPaths
      /\ globals' = table /\ snapshots' = snaps
  <2>1. /\ loaded < Len(sortedPaths) /\ loaded' = loaded + 1
        /\ prog' = prog /\ sortedPaths' = sortedPaths
    BY DEF Load, resolver
  <2>2. globals' = table
    BY <1>1, <1>2, <1>3, <1>4 DEF Load
  <2>3. snapshots' = [g \in DOMAIN snapshots \cup {f} |-> IF g = f THEN globals' ELSE snapshots[g]]
    BY <1>1 DEF Load
  <2> QED BY <1>5, <2>1, <2>2, <2>3
<1>7. TablesIn(table, snaps, loaded + 1)
  BY <1>1, <1>2, <1>3, <1>4, <1>5, <1>6, LoadTables
<1> QED BY <1>6, <1>7, TablesMoved

-------------------------------------------------------------------------------
(* The invariant.                                                           *)

\* The entry file is the first on the way, and is listed in the end.
EntryInv ==
    /\ outcome = "resolving" => pathStack[1].file = Entry
    /\ outcome = "resolved" => Entry \in Visited

\* What each phase begins with.
PhaseInv ==
    /\ phase \notin {"front", "refused"} => outcome = "resolved"
    /\ loaded \in Nat /\ loaded <= Len(sortedPaths)
    /\ phase \in {"front", "refused", "merge", "unmerged"} => loaded = 0
    /\ phase = "front" => globals = <<>> /\ snapshots = <<>>
    /\ phase \notin {"run", "over"} => frames = <<>> /\ last = NoReference
    /\ phase = "run" => /\ frames # <<>>
                        /\ Interpreted => loaded = Len(sortedPaths)
                        /\ ~Interpreted => ~MergeFails
    /\ phase = "unmerged" => MergeFails

NamesInv ==
    /\ OrderInv /\ EntryInv /\ PhaseInv
    /\ FrameInv /\ TablesInv
    /\ InterpFollowsText /\ JitFollowsText

\* Nothing the rules of names depend on moves after the resolver.
LEMMA MergeStill ==
    ASSUME prog' = prog, sortedPaths' = sortedPaths
    PROVE  MergeFails' <=> MergeFails
<1>1. Visited' = Visited /\ FnSpace' = FnSpace /\ LetSpace' = LetSpace
  BY DEF Visited, FnSpace, LetSpace
<1>2. \A f : PrefixKey(f)' = PrefixKey(f)
  BY <1>1 DEF PrefixKey, Stem
<1>3. \A f : Prefix(f)' = Prefix(f)
  BY <1>1, <1>2 DEF Prefix
<1>4. \A x : KeepsBareName(x)' = KeepsBareName(x)
  BY <1>1 DEF KeepsBareName, IsEntryPoint
<1>5. \A x : Merged(x)' = Merged(x)
  BY <1>3, <1>4 DEF Merged
<1> QED BY <1>1, <1>5 DEF MergeFails

\* Before a reference has been made there is none to go astray.
LEMMA NoneStray ==
    ASSUME last' = NoReference
    PROVE  InterpFollowsText' /\ JitFollowsText'
BY DEF InterpFollowsText, JitFollowsText, NoReference

LEMMA EmptyFrames ==
    ASSUME frames' = <<>>
    PROVE  FrameInv'
<1>1. frames' \in Seq(prog'.decls) /\ Len(frames') = 0
  BY EmptySeq
<1> QED BY <1>1 DEF FrameInv

LEMMA EmptyTables ==
    ASSUME globals' = <<>>, snapshots' = <<>>, loaded' = 0
    PROVE  TablesInv'
<1>1. DOMAIN globals' = {} /\ DOMAIN snapshots' = {} /\ 1..loaded' = {}
  OBVIOUS
<1> QED BY <1>1 DEF TablesInv, TablesIn

\* A program begins before its first reference.
LEMMA InitNamesInv == Init => NamesInv
<1> SUFFICES ASSUME Init
             PROVE  NamesInv
  OBVIOUS
<1>1. /\ phase = "front" /\ loaded = 0 /\ globals = <<>> /\ snapshots = <<>> /\ frames = <<>>
      /\ last = NoReference /\ sortedPaths = <<>>
  BY DEF Init, ResolverInit
<1>2. OrderInv
  BY InitOrderInv
<1>3. EntryInv
  <2>1. outcome # "resolved"
    BY DEF Init, ResolverInit
  <2>2. outcome = "resolving" => pathStack = <<[file |-> Entry, next |-> 1]>>
    BY DEF Init, ResolverInit
  <2>3. outcome = "resolving" => pathStack[1].file = Entry
    BY <2>2
  <2> QED BY <2>1, <2>3 DEF EntryInv
<1>4. PhaseInv
  <2>1. Len(sortedPaths) = 0
    BY <1>1, EmptySeq
  <2> QED BY <1>1, <2>1 DEF PhaseInv
<1>5. FrameInv
  <2>1. frames \in Seq(prog.decls) /\ Len(frames) = 0
    BY <1>1, EmptySeq
  <2> QED BY <2>1 DEF FrameInv
<1>6. TablesInv
  <2>1. DOMAIN globals = {} /\ DOMAIN snapshots = {} /\ 1..loaded = {}
    BY <1>1
  <2> QED BY <2>1 DEF TablesInv, TablesIn
<1>7. InterpFollowsText /\ JitFollowsText
  BY <1>1 DEF InterpFollowsText, JitFollowsText, NoReference
<1> QED BY <1>2, <1>3, <1>4, <1>5, <1>6, <1>7 DEF NamesInv

\* The resolver ends with the entry file.
LEMMA ResolveEntryInv ==
    ASSUME OrderInv, EntryInv, Resolve
    PROVE  EntryInv'
<1>1. outcome = "resolving"
  BY DEF Resolve, CloseCycle, UnreadableUse, SkipVisited, Descend, LeaveFile, AtUse
<1>2. /\ Len(pathStack) \in Nat \ {0} /\ pathStack[1].file = Entry /\ Top = pathStack[Len(pathStack)]
      /\ pathStack \in Seq(Frame) /\ pathStack # <<>> /\ sortedPaths \in Seq(Files) /\ Top.file \in Files
  BY <1>1, TopTyped DEF EntryInv, OrderInv, Typed
<1>3. Advanced \in Seq(Frame) /\ Len(Advanced) = Len(pathStack) /\ Advanced[1].file = Entry
  BY <1>1, <1>2, AdvancedIs
<1>4. CASE CloseCycle \/ UnreadableUse
  BY <1>4 DEF CloseCycle, UnreadableUse, EntryInv
<1>5. CASE SkipVisited
  <2>1. pathStack' = Advanced /\ outcome' = outcome
    BY <1>5 DEF SkipVisited
  <2> QED BY <1>1, <1>3, <2>1 DEF EntryInv
<1>6. CASE Descend
  <2>1. PICK e : e = [file |-> Use.to, next |-> 1]
    OBVIOUS
  <2>2. pathStack' = Append(Advanced, e) /\ outcome' = outcome
    BY <1>6, <2>1 DEF Descend
  <2>3. Append(Advanced, e)[1] = Advanced[1]
    BY <1>2, <1>3, AppendProperties
  <2>4. pathStack'[1].file = Entry
    BY <1>3, <2>2, <2>3
  <2> QED BY <1>1, <2>2, <2>4 DEF EntryInv
<1>7. CASE LeaveFile
  <2>1. /\ pathStack' = Front(pathStack) /\ sortedPaths' = Append(sortedPaths, Top.file)
        /\ outcome' = IF Len(pathStack) = 1 THEN "resolved" ELSE outcome
    BY <1>7 DEF LeaveFile, Listed
  <2>2. CASE Len(pathStack) = 1
    <3>1. Top.file = Entry /\ outcome' = "resolved"
      BY <1>2, <2>1, <2>2
    <3>2. /\ sortedPaths' \in Seq(Files) /\ sortedPaths'[Len(sortedPaths) + 1] = Entry
          /\ Len(sortedPaths') = Len(sortedPaths) + 1 /\ Len(sortedPaths) \in Nat
      BY <1>2, <2>1, <3>1, StackPush
    <3>3. Len(sortedPaths) + 1 \in DOMAIN sortedPaths'
      BY <3>2, LenProperties
    <3>4. Entry \in Visited'
      BY <3>2, <3>3 DEF Visited, Range
    <3> QED BY <3>1, <3>4 DEF EntryInv
  <2>3. CASE Len(pathStack) # 1
    <3>1. pathStack'[1] = pathStack[1]
      <4>1. \A i \in 1..(Len(pathStack) - 1) : Front(pathStack)[i] = pathStack[i]
        BY <1>2, StackPop
      <4>2. PICK n \in Nat \ {0} : n = Len(pathStack)
        BY <1>2
      <4>3. 1 \in 1..(n - 1)
        BY <2>3, <4>2
      <4> QED BY <2>1, <4>1, <4>2, <4>3
    <3>2. outcome' = "resolving"
      BY <1>1, <2>1, <2>3
    <3> QED BY <1>2, <3>1, <3>2 DEF EntryInv
  <2> QED BY <2>2, <2>3
<1> QED BY <1>4, <1>5, <1>6, <1>7 DEF Resolve

LEMMA ResolveNamesInv ==
    ASSUME NamesInv, ResolveStep
    PROVE  NamesInv'
<1>1. /\ phase = "front" /\ Resolve
      /\ UNCHANGED <<phase, loaded, globals, snapshots, frames, last>>
  BY DEF ResolveStep, interp
<1>2. /\ loaded = 0 /\ globals = <<>> /\ snapshots = <<>> /\ frames = <<>> /\ last = NoReference
  BY <1>1 DEF NamesInv, PhaseInv
<1>3. OrderInv'
  BY StepOrderInv DEF NamesInv, Next
<1>4. EntryInv'
  BY <1>1, ResolveEntryInv DEF NamesInv
<1>5. PhaseInv'
  <2>1. Len(sortedPaths') \in Nat
    <3>1. sortedPaths' \in Seq(Files')
      BY <1>3 DEF OrderInv, Typed
    <3> QED BY <3>1, LenProperties
  <2>2. loaded' \in Nat /\ loaded' <= Len(sortedPaths')
    BY <1>1, <1>2, <2>1
  <2>3. phase' = "front" /\ loaded' = 0 /\ globals' = <<>> /\ snapshots' = <<>> /\ frames' = <<>> /\ last' = NoReference'
    BY <1>1, <1>2 DEF NoReference
  <2> QED BY <2>2, <2>3 DEF PhaseInv
<1>6. FrameInv' /\ TablesInv' /\ InterpFollowsText' /\ JitFollowsText'
  BY <1>1, <1>2, NoneStray, EmptyFrames, EmptyTables
<1> QED BY <1>3, <1>4, <1>5, <1>6 DEF NamesInv

\* The verdict of the checker.
LEMMA CheckNamesInv ==
    ASSUME NamesInv, Check
    PROVE  NamesInv'
<1>1. /\ phase = "front" /\ outcome # "resolving"
      /\ \/ outcome = "resolved" /\ phase' \in {"load", "merge"}
         \/ phase' = "refused"
      /\ UNCHANGED <<prog, pathStack, sortedPaths, outcome, loaded, globals, snapshots, frames, last>>
  BY DEF Check, interp, resolver
<1>2. /\ loaded = 0 /\ globals = <<>> /\ snapshots = <<>> /\ frames = <<>> /\ last = NoReference
      /\ loaded <= Len(sortedPaths)
  BY <1>1 DEF NamesInv, PhaseInv
<1>3. OrderInv'
  BY StepOrderInv DEF NamesInv, Next
<1>4. EntryInv'
  BY <1>1 DEF NamesInv, EntryInv, Visited
<1>5. PhaseInv'
  BY <1>1, <1>2 DEF PhaseInv, NoReference
<1>6. FrameInv' /\ TablesInv' /\ InterpFollowsText' /\ JitFollowsText'
  BY <1>1, <1>2, NoneStray, EmptyFrames, EmptyTables
<1> QED BY <1>3, <1>4, <1>5, <1>6 DEF NamesInv

\* One file more for the interpreter.
LEMMA LoadNamesInv ==
    ASSUME NamesInv, Load
    PROVE  NamesInv'
<1>1. /\ phase = "load" /\ loaded < Len(sortedPaths) /\ loaded' = loaded + 1
      /\ UNCHANGED <<prog, pathStack, sortedPaths, outcome, phase, frames, last>>
  BY DEF Load, resolver
<1>2. /\ frames = <<>> /\ last = NoReference /\ loaded \in Nat /\ outcome = "resolved"
  BY <1>1 DEF NamesInv, PhaseInv
<1>3. OrderInv'
  BY StepOrderInv DEF NamesInv, Next
<1>4. EntryInv'
  BY <1>1 DEF NamesInv, EntryInv, Visited
<1>5. PhaseInv'
  <2>1. Len(sortedPaths) \in Nat
    <3>1. sortedPaths \in Seq(Files)
      BY DEF NamesInv, OrderInv, Typed
    <3> QED BY <3>1, LenProperties
  <2>2. loaded' \in Nat /\ loaded' <= Len(sortedPaths')
    BY <1>1, <1>2, <2>1
  <2>3. phase' = "load" /\ outcome' = "resolved" /\ frames' = <<>> /\ last' = NoReference'
    BY <1>1, <1>2 DEF NoReference
  <2> QED BY <2>2, <2>3 DEF PhaseInv
<1>6. TablesInv'
  BY <1>2, LoadTablesInv DEF NamesInv
<1>7. FrameInv' /\ InterpFollowsText' /\ JitFollowsText'
  BY <1>1, <1>2, NoneStray, EmptyFrames
<1> QED BY <1>3, <1>4, <1>5, <1>6, <1>7 DEF NamesInv

\* The tables and the entry file keep, while the files do.
LEMMA OthersStill ==
    ASSUME NamesInv, UNCHANGED <<prog, resolver, interp>>
    PROVE  OrderInv' /\ EntryInv' /\ TablesInv'
<1>1. UNCHANGED <<prog, pathStack, sortedPaths, outcome, loaded, globals, snapshots>>
  BY DEF resolver, interp
<1>2. OrderInv'
  BY <1>1 DEF NamesInv, OrderInv, Typed, Once, Passed, Settled
<1>3. EntryInv'
  BY <1>1 DEF NamesInv, EntryInv, Visited
<1>4. TablesInv'
  <2>1. TablesIn(globals', snapshots', loaded')
    BY <1>1 DEF NamesInv, TablesInv
  <2> QED BY <1>1, <2>1, TablesMoved
<1> QED BY <1>2, <1>3, <1>4

\* The main the interpreter looks up is the entry file's, if it has one.
LEMMA InterpMain ==
    ASSUME OrderInv, Entry \in Visited, NEW x \in {Fns(Entry)[key] : key \in DOMAIN Fns(Entry) \cap {<<None, "main">>}}
    PROVE  /\ x \in prog.decls /\ x.ns = "fn" /\ x.file \in Visited
           /\ MainDeclared => TheFn(x) = Thing("fn", Entry, "main")
<1>1. PICK K : K = {"fn"}
  OBVIOUS
<1>2. PICK table : table = Laid(<<Imports(Entry), Table(Own(Entry, K), None)>>)
  OBVIOUS
<1>3. Fns(Entry) = table
  BY <1>1, <1>2 DEF Fns
<1>4. PICK n : n = "main"
  OBVIOUS
<1>5. PICK q : q = None
  OBVIOUS
<1>6. <<q, n>> \in DOMAIN table /\ x = table[<<q, n>>]
  BY <1>3, <1>4, <1>5
<1>7. prog \in Programs
  BY DEF OrderInv, Typed
<1>8. CASE \E y \in prog.decls : y.file = Entry /\ y.ns \in K /\ y.name = n
  <2>1. PICK y \in prog.decls : y.file = Entry /\ y.ns \in K /\ y.name = n
    BY <1>8
  <2>2. x = y
    BY <1>2, <1>5, <1>6, <2>1, FunctionsIs
  <2>3. x \in prog.decls /\ x.ns = "fn" /\ x.file = Entry /\ x.name = "main"
    BY <1>1, <1>4, <2>1, <2>2
  <2>4. TheFn(x) = Thing("fn", Entry, "main")
    BY <2>3, TheFnIs
  <2> QED BY <2>3, <2>4
<1>9. CASE ~\E y \in prog.decls : y.file = Entry /\ y.ns \in K /\ y.name = n
  <2>1. <<q, n>> \in DOMAIN Imports(Entry)
    BY <1>2, <1>6, <1>9, FunctionsIs
  <2>2. table[<<q, n>>] = Imports(Entry)[<<q, n>>]
    BY <1>2, <1>9, <2>1, FunctionsIs
  <2>3. x \in prog.decls /\ x.ns = "fn" /\ x.file \in Visited
    BY <1>6, <2>1, <2>2, ImportsIs
  <2>4. ~MainDeclared
    BY <1>1, <1>4, <1>9 DEF MainDeclared, Own
  <2> QED BY <2>3, <2>4
<1> QED BY <1>8, <1>9

\* The main of a merged program is the entry file's.
LEMMA JitMain ==
    ASSUME OrderInv, Entry \in Visited, NEW x \in FnSpace, x.ns = "fn", Merged(x) = <<"main">>
    PROVE  /\ x \in prog.decls /\ x.file \in Visited /\ MainDeclared
           /\ TheFn(x) = Thing("fn", Entry, "main")
<1>1. x \in prog.decls /\ x.file \in Visited
  BY DEF FnSpace
<1>2. Len(Merged(x)) = 1 /\ Last(Merged(x)) = "main"
  BY DEF Last
<1>3. KeepsBareName(x) /\ x.name = "main"
  BY <1>1, <1>2, MergedIs
<1>4. IsEntryPoint(x)
  BY <1>3, NamesAssumption DEF IsEntryPoint
<1>5. x.file = Entry
  <2>1. CASE Len(sortedPaths) = 1
    <3>1. sortedPaths \in Seq(Files)
      BY DEF OrderInv, Typed
    <3>2. DOMAIN sortedPaths = 1..1 /\ \A k \in 1..1 : k = 1
      BY <2>1, <3>1, LenProperties
    <3> QED BY <1>1, <3>2 DEF Visited, Range
  <2>2. CASE Len(sortedPaths) # 1
    BY <1>3, <1>4, <2>2 DEF KeepsBareName
  <2> QED BY <2>1, <2>2
<1>6. TheFn(x) = Thing("fn", Entry, "main")
  BY <1>3, <1>5, TheFnIs
<1>7. MainDeclared
  BY <1>1, <1>3, <1>5 DEF MainDeclared, Own
<1> QED BY <1>1, <1>6, <1>7

\* A program that starts, or has nothing to start with.
LEMMA StartNamesInv ==
    ASSUME NamesInv, UNCHANGED <<prog, resolver, interp>>, outcome = "resolved",
           frames = <<>>, last = NoReference, NEW mains,
           Started(mains),
           \A x \in mains : /\ x \in prog.decls /\ x.ns = "fn" /\ x.file \in Visited
                            /\ MainDeclared => TheFn(x) = Thing("fn", Entry, "main")
                            /\ ~Interpreted => MainDeclared,
           Interpreted => loaded = Len(sortedPaths),
           ~Interpreted => ~MergeFails
    PROVE  NamesInv'
<1>1. OrderInv' /\ EntryInv' /\ TablesInv'
  BY OthersStill
<1>2. UNCHANGED <<prog, pathStack, sortedPaths, outcome, loaded, globals, snapshots>>
  BY DEF resolver, interp
<1>3. /\ loaded \in Nat /\ loaded <= Len(sortedPaths)
  BY DEF NamesInv, PhaseInv
<1>4. MergeFails' <=> MergeFails
  BY <1>2, MergeStill
<1>5. Interpreted' <=> Interpreted
  BY <1>2 DEF Interpreted
<1>6. MainDeclared' <=> MainDeclared
  BY <1>2 DEF MainDeclared, Own
<1>7. CASE mains = {}
  <2>1. phase' = "over" /\ frames' = <<>> /\ last' = NoReference
    BY <1>7 DEF Started
  <2>2. PhaseInv'
    BY <1>2, <1>3, <2>1 DEF PhaseInv
  <2>3. FrameInv' /\ InterpFollowsText' /\ JitFollowsText'
    BY <2>1, NoneStray, EmptyFrames
  <2> QED BY <1>1, <2>2, <2>3 DEF NamesInv
<1>8. CASE mains # {}
  <2>1. PICK x \in mains :
            /\ phase' = "run"
            /\ frames' = <<x>>
            /\ last' = [NoReference EXCEPT
                            !.want = IF MainDeclared THEN Thing("fn", Entry, "main") ELSE Nothing,
                            !.got = TheFn(x)]
    BY <1>8 DEF Started
  <2>2. /\ x \in prog.decls /\ x.ns = "fn" /\ x.file \in Visited
        /\ MainDeclared => TheFn(x) = Thing("fn", Entry, "main")
        /\ ~Interpreted => MainDeclared
    OBVIOUS
  <2>3. frames' \in Seq(prog.decls) /\ Len(frames') = 1 /\ frames'[1] = x /\ frames' # <<>>
    <3>1. PICK D : D = prog.decls
      OBVIOUS
    <3>2. x \in D
      BY <3>1
    <3>3. <<x>> \in Seq(D) /\ Len(<<x>>) = 1 /\ <<x>>[1] = x /\ <<x>> # <<>>
      BY <3>2
    <3> QED BY <2>1, <3>1, <3>3
  <2>4. FrameInv'
    <3>1. \A d \in 1..Len(frames') : frames'[d] = x
      BY <2>3
    <3>2. Visited' = Visited
      BY <1>2 DEF Visited
    <3> QED BY <1>2, <2>2, <2>3, <3>1, <3>2 DEF FrameInv
  <2>5. PhaseInv'
    BY <1>2, <1>3, <1>4, <1>5, <2>1, <2>3 DEF PhaseInv
  <2>6. last'.depth = 0 /\ (MainDeclared => last'.got = last'.want)
    BY <2>1, <2>2 DEF NoReference
  <2>7. InterpFollowsText'
    BY <1>6, <2>6 DEF InterpFollowsText
  <2>8. JitFollowsText'
    BY <1>5, <2>2, <2>6 DEF JitFollowsText
  <2> QED BY <1>1, <2>4, <2>5, <2>7, <2>8 DEF NamesInv
<1> QED BY <1>7, <1>8

LEMMA StartInterpNamesInv ==
    ASSUME NamesInv, StartInterp
    PROVE  NamesInv'
<1>1. PICK mains : mains = {Fns(Entry)[key] : key \in DOMAIN Fns(Entry) \cap {<<None, "main">>}}
  OBVIOUS
<1>2. /\ phase = "load" /\ loaded = Len(sortedPaths)
      /\ Started(mains) /\ UNCHANGED <<prog, resolver, interp>>
  BY <1>1 DEF StartInterp
<1>3. /\ frames = <<>> /\ last = NoReference /\ outcome = "resolved"
      /\ OrderInv /\ Entry \in Visited
  BY <1>2 DEF NamesInv, PhaseInv, EntryInv
<1>4. Interpreted
  <2>1. sortedPaths \in Seq(Files)
    BY <1>3 DEF OrderInv, Typed
  <2>2. PICK n \in Nat : n = Len(sortedPaths) /\ DOMAIN sortedPaths = 1..n
    BY <2>1, LenProperties
  <2>3. n # 0
    BY <1>3, <2>2 DEF Visited, Range
  <2> QED BY <1>2, <2>2, <2>3 DEF Interpreted
<1>5. \A x \in mains : /\ x \in prog.decls /\ x.ns = "fn" /\ x.file \in Visited
                       /\ MainDeclared => TheFn(x) = Thing("fn", Entry, "main")
                       /\ ~Interpreted => MainDeclared
  BY <1>1, <1>3, <1>4, InterpMain
<1> QED BY <1>2, <1>3, <1>4, <1>5, StartNamesInv

LEMMA MergeNamesInv ==
    ASSUME NamesInv, Merge
    PROVE  NamesInv'
<1>1. phase = "merge" /\ UNCHANGED <<prog, resolver, interp>>
  BY DEF Merge
<1>2. /\ frames = <<>> /\ last = NoReference /\ outcome = "resolved" /\ loaded = 0
      /\ OrderInv /\ Entry \in Visited
  BY <1>1 DEF NamesInv, PhaseInv, EntryInv
<1>3. ~Interpreted
  BY <1>2 DEF Interpreted
<1>4. CASE MergeFails
  <2>1. phase' = "unmerged" /\ frames' = <<>> /\ last' = NoReference
    BY <1>2, <1>4 DEF Merge
  <2>2. OrderInv' /\ EntryInv' /\ TablesInv'
    BY <1>1, OthersStill
  <2>3. UNCHANGED <<prog, sortedPaths, outcome, loaded>>
    BY <1>1 DEF resolver, interp
  <2>4. MergeFails'
    BY <1>4, <2>3, MergeStill
  <2>5. loaded <= Len(sortedPaths)
    BY DEF NamesInv, PhaseInv
  <2>6. PhaseInv'
    BY <1>2, <2>1, <2>3, <2>4, <2>5 DEF PhaseInv, NoReference
  <2>7. FrameInv' /\ InterpFollowsText' /\ JitFollowsText'
    BY <2>1, NoneStray, EmptyFrames
  <2> QED BY <2>2, <2>6, <2>7 DEF NamesInv
<1>5. CASE ~MergeFails
  <2>1. PICK mains : mains = {x \in FnSpace : x.ns = "fn" /\ Merged(x) = <<"main">>}
    OBVIOUS
  <2>2. Started(mains)
    BY <1>5, <2>1 DEF Merge
  <2>3. \A x \in mains : /\ x \in prog.decls /\ x.ns = "fn" /\ x.file \in Visited
                         /\ MainDeclared => TheFn(x) = Thing("fn", Entry, "main")
                         /\ ~Interpreted => MainDeclared
    BY <1>2, <2>1, JitMain
  <2> QED BY <1>1, <1>2, <1>3, <1>5, <2>2, <2>3, StartNamesInv
<1> QED BY <1>4, <1>5

\* The function a reached declaration stands for.
LEMMA DeclOfIs ==
    ASSUME prog \in Programs, NEW x \in prog.decls, x.ns = "fn"
    PROVE  DeclOf(TheFn(x)) = x
<1>1. TheFn(x).at = x.file /\ TheFn(x).name = x.name
  BY TheFnIs
<1>2. PICK y : y = DeclOf(TheFn(x))
  OBVIOUS
<1>3. y \in prog.decls /\ y.file = x.file /\ y.name = x.name
  BY <1>1, <1>2 DEF DeclOf
<1>4. y = x
  BY <1>3, Declared
<1> QED BY <1>2, <1>4

\* A reference made in a run.
LEMMA ReferNamesInv ==
    ASSUME NamesInv, phase = "run", NEW q \in {None} \cup Aliases(Executing.file), NEW name, NEW call,
           Refer(q, name, call)
    PROVE  NamesInv'
<1>1. PICK got : got = IF Interpreted THEN InterpReaches(q, name) ELSE JitReaches(q, name, call)
  OBVIOUS
<1>2. PICK want : want = Means(q, name)
  OBVIOUS
<1>3. PICK n : n = Len(frames)
  OBVIOUS
<1>4. /\ WellTyped(q, name, call) /\ UNCHANGED <<prog, resolver, interp>>
      /\ last' = [q |-> q, name |-> name, depth |-> n, want |-> want, got |-> got]
      /\ phase' \in {"run", "over"}
      /\ \/ frames' = frames
         \/ got.kind = "fn" /\ frames' = Append(frames, DeclOf(got))
  BY <1>1, <1>2, <1>3 DEF Refer
<1>5. /\ OrderInv /\ FrameInv /\ TablesInv /\ frames # <<>> /\ outcome = "resolved"
      /\ loaded \in Nat /\ loaded <= Len(sortedPaths)
      /\ Interpreted => loaded = Len(sortedPaths)
      /\ ~Interpreted => ~MergeFails
  BY DEF NamesInv, PhaseInv
<1>6. OrderInv' /\ EntryInv' /\ TablesInv'
  BY <1>4, OthersStill
<1>7. UNCHANGED <<prog, sortedPaths, outcome, loaded>>
  BY <1>4 DEF resolver, interp
<1>8. /\ Visited' = Visited /\ (MergeFails' <=> MergeFails) /\ (Interpreted' <=> Interpreted)
  BY <1>7, MergeStill DEF Visited, Interpreted
<1>9. n \in Nat \ {0} /\ Executing = frames[n] /\ frames \in Seq(prog.decls)
  BY <1>3, <1>5, ExecutingIs DEF FrameInv
<1>10. prog \in Programs
  BY <1>5 DEF OrderInv, Typed
<1>11. got.kind = "fn" => /\ DeclOf(got) \in prog.decls /\ DeclOf(got).ns = "fn"
                          /\ DeclOf(got).file \in Visited
  <2> SUFFICES ASSUME got.kind = "fn"
               PROVE  DeclOf(got) \in prog.decls /\ DeclOf(got).ns = "fn" /\ DeclOf(got).file \in Visited
    OBVIOUS
  <2>1. CASE Interpreted
    <3>1. PICK x \in prog.decls : x.ns = "fn" /\ x.file \in Visited /\ InterpReaches(q, name) = TheFn(x)
      BY <1>1, <1>5, <2>1, InterpCallee
    <3> QED BY <1>1, <1>10, <2>1, <3>1, DeclOfIs
  <2>2. CASE ~Interpreted
    <3>1. PICK x \in prog.decls : x.ns = "fn" /\ x.file \in Visited /\ JitReaches(q, name, call) = TheFn(x)
      BY <1>1, <2>2, JitCallee
    <3> QED BY <1>1, <1>10, <2>2, <3>1, DeclOfIs
  <2> QED BY <2>1, <2>2
<1>12. /\ frames' \in Seq(prog.decls) /\ frames' # <<>>
       /\ \A d \in 1..n : frames'[d] = frames[d]
       /\ \A d \in 1..Len(frames') : frames'[d].ns = "fn" /\ frames'[d].file \in Visited
  <2>1. \A d \in 1..n : frames[d].ns = "fn" /\ frames[d].file \in Visited
    BY <1>3, <1>5 DEF FrameInv
  <2>2. CASE frames' = frames
    BY <1>3, <1>5, <1>9, <2>1, <2>2
  <2>3. CASE got.kind = "fn" /\ frames' = Append(frames, DeclOf(got))
    <3>1. PICK x \in prog.decls : x = DeclOf(got) /\ x.ns = "fn" /\ x.file \in Visited
      BY <1>11, <2>3
    <3>2. /\ frames' \in Seq(prog.decls) /\ frames' # <<>> /\ Len(frames') = n + 1
          /\ \A d \in 1..n : frames'[d] = frames[d]
          /\ frames'[n + 1] = x
      BY <1>3, <1>9, <2>3, <3>1, StackPush
    <3>3. \A d \in 1..(n + 1) : d \in 1..n \/ d = n + 1
      BY <1>9
    <3> QED BY <2>1, <3>1, <3>2, <3>3
  <2> QED BY <1>4, <2>2, <2>3
<1>13. FrameInv'
  BY <1>7, <1>8, <1>12 DEF FrameInv
<1>14. PhaseInv'
  BY <1>4, <1>5, <1>7, <1>8, <1>12 DEF PhaseInv
<1>15. PICK w : w = IF q = None THEN name ELSE q
  OBVIOUS
<1>16. PICK f : f = Executing.file
  OBVIOUS
<1>17. Word' = w /\ last'.depth = n /\ frames'[n].file = f /\ last'.want = want /\ last'.got = got
       /\ last'.q = q /\ last'.name = name /\ frames'[n] = Executing
  <2>1. n \in 1..n
    BY <1>9
  <2> QED BY <1>4, <1>9, <1>12, <1>15, <1>16, <2>1 DEF Word
<1>18. InterpFollowsText'
  <2> SUFFICES ASSUME Interpreted
               PROVE  InterpFollowsText'
    BY <1>8 DEF InterpFollowsText
  <2>1. \/ got = want
        \/ \E d \in 1..(n - 1) : w \in DOMAIN frames[d].local
        \/ \E g \in Visited \ {f} : w \in Aliases(g) \cup LetNames(g)
        \/ want.kind = "extern" /\ got.kind = "fn"
    <3>1. got = InterpReaches(q, name)
      BY <1>1
    <3>2. q \in {None} \cup Aliases(f) /\ loaded = Len(sortedPaths)
      BY <1>5, <1>16
    <3>3. \/ InterpReaches(q, name) = Means(q, name)
          \/ \E d \in 1..(Len(frames) - 1) : w \in DOMAIN frames[d].local
          \/ \E g \in Visited \ {f} : w \in Aliases(g) \cup LetNames(g)
          \/ Means(q, name).kind = "extern" /\ InterpReaches(q, name).kind = "fn"
      BY <1>4, <1>5, <1>15, <1>16, <3>2, InterpReached
    <3> QED BY <1>2, <1>3, <3>1, <3>3
  <2>2. CASE got = want
    BY <1>17, <2>2 DEF InterpFollowsText
  <2>3. CASE \E d \in 1..(n - 1) : w \in DOMAIN frames[d].local
    <3>1. PICK d \in 1..(n - 1) : w \in DOMAIN frames[d].local
      BY <2>3
    <3>2. d \in 1..n
      BY <1>9
    <3>3. w \in DOMAIN frames'[d].local
      BY <1>12, <3>1, <3>2
    <3>4. BoundByCaller'
      BY <1>17, <3>3 DEF BoundByCaller
    <3> QED BY <3>4 DEF InterpFollowsText
  <2>4. CASE \E g \in Visited \ {f} : w \in Aliases(g) \cup LetNames(g)
    <3>1. PICK g \in Visited \ {f} : w \in Aliases(g) \cup LetNames(g)
      BY <2>4
    <3>2. w \in (Aliases(g) \cup LetNames(g))'
      BY <1>7, <3>1 DEF Aliases, LetNames, Own
    <3>3. HeldElsewhere'
      BY <1>8, <1>9, <1>17, <3>1, <3>2 DEF HeldElsewhere
    <3> QED BY <3>3 DEF InterpFollowsText
  <2>5. CASE want.kind = "extern" /\ got.kind = "fn"
    BY <1>17, <2>5 DEF InterpFollowsText
  <2> QED BY <2>1, <2>2, <2>3, <2>4, <2>5
<1>19. JitFollowsText'
  <2> SUFFICES ASSUME ~Interpreted
               PROVE  JitFollowsText'
    BY <1>8 DEF JitFollowsText
  <2>1. \/ got = want
        \/ q # None /\ name \in DOMAIN Executing.local
        \/ want.kind = "let" /\ got.kind = "fn"
    <3>1. got = JitReaches(q, name, call)
      BY <1>1
    <3> QED BY <1>2, <1>4, <1>5, <3>1, JitReached
  <2> QED BY <1>17, <2>1 DEF JitFollowsText
<1> QED BY <1>6, <1>13, <1>14, <1>18, <1>19 DEF NamesInv

\* A function that returns.
LEMMA ReturnNamesInv ==
    ASSUME NamesInv, Return
    PROVE  NamesInv'
<1>1. /\ phase = "run" /\ frames # <<>> /\ frames' = Front(frames)
      /\ phase' = (IF Len(frames) = 1 THEN "over" ELSE phase)
      /\ last' = NoReference /\ UNCHANGED <<prog, resolver, interp>>
  BY DEF Return
<1>2. UNCHANGED <<prog, sortedPaths, outcome, loaded>>
  BY <1>1 DEF resolver, interp
<1>3. /\ Visited' = Visited /\ (MergeFails' <=> MergeFails) /\ (Interpreted' <=> Interpreted)
  BY <1>2, MergeStill DEF Visited, Interpreted
<1>4. OrderInv' /\ EntryInv' /\ TablesInv'
  BY <1>1, OthersStill
<1>5. /\ frames \in Seq(prog.decls)
      /\ \A d \in 1..Len(frames) : frames[d].ns = "fn" /\ frames[d].file \in Visited
  BY DEF NamesInv, FrameInv
<1>6. PICK n \in Nat \ {0} : n = Len(frames)
  BY <1>1, <1>5, StackPop
<1>7. /\ frames' \in Seq(prog.decls) /\ Len(frames') = n - 1
      /\ \A d \in 1..(n - 1) : frames'[d] = frames[d]
  BY <1>1, <1>5, <1>6, StackPop
<1>8. FrameInv'
  <2>1. \A d \in 1..(n - 1) : d \in 1..n
    BY <1>6
  <2> QED BY <1>2, <1>3, <1>5, <1>6, <1>7, <2>1 DEF FrameInv
<1>9. PhaseInv'
  <2>1. /\ outcome = "resolved" /\ loaded \in Nat /\ loaded <= Len(sortedPaths)
        /\ Interpreted => loaded = Len(sortedPaths)
        /\ ~Interpreted => ~MergeFails
    BY <1>1 DEF NamesInv, PhaseInv
  <2>2. CASE n = 1
    <3>1. phase' = "over"
      BY <1>1, <1>6, <2>2
    <3> QED BY <1>2, <2>1, <3>1 DEF PhaseInv
  <2>3. CASE n # 1
    <3>1. phase' = "run"
      BY <1>1, <1>6, <2>3
    <3>2. frames' # <<>>
      <4>1. Len(frames') # 0
        BY <1>6, <1>7, <2>3
      <4> QED BY <4>1, EmptySeq
    <3> QED BY <1>2, <1>3, <2>1, <3>1, <3>2 DEF PhaseInv
  <2> QED BY <2>2, <2>3
<1> QED BY <1>1, <1>4, <1>8, <1>9, NoneStray DEF NamesInv

LEMMA StutterNamesInv ==
    ASSUME NamesInv, UNCHANGED vars
    PROVE  NamesInv'
<1>1. /\ UNCHANGED <<prog, resolver, interp>> /\ UNCHANGED <<phase, frames, last>>
  BY DEF vars
<1>2. UNCHANGED <<prog, sortedPaths, outcome, loaded, globals, snapshots>>
  BY <1>1 DEF resolver, interp
<1>3. OrderInv' /\ EntryInv' /\ TablesInv'
  BY <1>1, OthersStill
<1>4. MergeFails' <=> MergeFails
  BY <1>2, MergeStill
<1>5. PhaseInv'
  BY <1>1, <1>2, <1>4 DEF NamesInv, PhaseInv, Interpreted, NoReference
<1>6. FrameInv'
  BY <1>1, <1>2 DEF NamesInv, FrameInv, Visited
<1>7. InterpFollowsText' /\ JitFollowsText'
  BY <1>1, <1>2 DEF NamesInv, InterpFollowsText, JitFollowsText, Interpreted, BoundByCaller,
     HeldElsewhere, MainDeclared, Word, Visited, Aliases, LetNames, Own
<1> QED BY <1>3, <1>5, <1>6, <1>7 DEF NamesInv

\* Every step keeps what names stand for.
LEMMA StepNamesInv == NamesInv /\ [Next]_vars => NamesInv'
<1> SUFFICES ASSUME NamesInv, [Next]_vars
             PROVE  NamesInv'
  OBVIOUS
<1>1. ASSUME phase = "run", NEW q \in {None} \cup Aliases(Executing.file), NEW name \in Words,
             NEW call \in BOOLEAN, Refer(q, name, call)
      PROVE  NamesInv'
  BY <1>1, ReferNamesInv
<1> QED BY <1>1, ResolveNamesInv, CheckNamesInv, LoadNamesInv, StartInterpNamesInv, MergeNamesInv,
           ReturnNamesInv, StutterNamesInv DEF Next

-------------------------------------------------------------------------------

\* The interpreter, which keeps one table of constants and aliases for all files and
\* looks names up as it runs, reaches what the checker found for every reference, in
\* any program of any number of files, but for the exceptions the property names.
THEOREM InterpreterFollowsText == Spec => []InterpFollowsText
<1>1. NamesInv => InterpFollowsText
  BY DEF NamesInv
<1> QED BY <1>1, InitNamesInv, StepNamesInv, PTL DEF Spec

\* So does the merged program the JIT compiles, whatever the files are called and
\* whatever they declare.
THEOREM MergedFollowsText == Spec => []JitFollowsText
<1>1. NamesInv => JitFollowsText
  BY DEF NamesInv
<1> QED BY <1>1, InitNamesInv, StepNamesInv, PTL DEF Spec

\* A merge that fails has met an extern fn of a name another declaration keeps, or a
\* file called by a number.
THEOREM OnlyExternsRefused == Spec => []MergeRefusesOnlyExterns
<1>1. NamesInv => MergeRefusesOnlyExterns
  BY FailedMerge DEF NamesInv, PhaseInv, MergeRefusesOnlyExterns
<1> QED BY <1>1, InitNamesInv, StepNamesInv, PTL DEF Spec
=================================================================================
