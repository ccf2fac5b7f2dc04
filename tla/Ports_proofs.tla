----------------------------- MODULE Ports_proofs -----------------------------
(***************************************************************************)
(* Theorems about Ports, for every set of foreign functions, any number of *)
(* ports and calls and pipes of any capacity: whose answer a call gets,    *)
(* and what a close leaves behind.                                         *)
(***************************************************************************)
EXTENDS Ports, SequenceTheorems, TLAPS

Request == [n : Nat, f : Functions]
Line == [n : Nat, child : Nat, kind : {"ok", "err", "perr", "stray"}]
Answer == Line \cup {NoCall.line}
ChildT ==
    [in : Seq(Request), out : Seq(Line), open : BOOLEAN,
     state : {"waiting", "writing", "exited", "hung"}, left : Seq(Line),
     then : {"waiting", "exited", "hung"}, noisy : BOOLEAN]
Tags == {"none", "nil", "port-call", "port-protocol", "port-closed"}
Asked == [handle : Nat, child : Nat, req : [n : Nat, f : Functions \cup {0}]]

Typed ==
    /\ children \in Seq(ChildT)
    /\ handles \in Seq([id : Nat, child : Nat])
    /\ nextId \in Nat /\ calls \in Nat
    /\ phase \in {"idle", "writing", "reading", "closing", "over"}
    /\ asked \in Asked
    /\ last \in [asked : Asked, tag : Tags, line : Answer]

Started == 1..Len(children)
Minted == 1..Len(handles)

\* An id names one child as long as it is open, and is never minted again.
Registry ==
    /\ \A h \in Minted : handles[h].id < nextId /\ handles[h].child \in Started
    /\ \A id \in DOMAIN ports : id \in Nat /\ id < nextId /\ ports[id] \in Started
    /\ \A h \in Minted : handles[h].id \in DOMAIN ports => ports[handles[h].id] = handles[h].child
    /\ \A i, j \in DOMAIN ports : ports[i] = ports[j] => i = j

\* The call or close under way is for the child of its handle.
Peered ==
    phase \in {"writing", "reading", "closing"} =>
        /\ asked.handle \in Minted /\ asked.child \in Started
        /\ asked.child = handles[asked.handle].child
        /\ phase # "closing" => asked.req \in Request /\ asked.req.n = calls

Asking(c) == phase = "reading" /\ asked.child = c

\* Everything in a child's pipes stems from a request already made to it.
Past(c) ==
    LET x == children[c] IN
    /\ \A k \in 1..Len(x.in) : x.in[k].n <= calls
    /\ \A k \in 1..Len(x.left) : x.left[k].n <= calls /\ x.left[k].child = c
    /\ \A k \in 1..Len(x.out) : x.out[k].n <= calls /\ x.out[k].child = c

Fits(line, r) ==
    /\ line.n = r.n
    /\ line.kind = CASE r.f.ends = "ok" -> "ok" [] r.f.ends = "raises" -> "err" [] OTHER -> "perr"

\* A child that has not printed holds the request being made or its response, or
\* nothing, and it is about to end only while that request is waited for.
Paired(c) ==
    LET x == children[c] IN
    ~x.noisy =>
        /\ IF Asking(c)
           THEN /\ Len(x.in) + Len(x.left) + Len(x.out) <= 1
                /\ \A k \in 1..Len(x.in) : x.in[k] = asked.req
                /\ \A k \in 1..Len(x.left) : Fits(x.left[k], asked.req)
                /\ \A k \in 1..Len(x.out) : Fits(x.out[k], asked.req)
           ELSE x.in = <<>> /\ x.left = <<>> /\ x.out = <<>>
        /\ x.state = "writing" /\ x.then # "waiting" =>
              Asking(c) /\ x.in = <<>> /\ x.left = <<>> /\ x.out = <<>>
        /\ x.state = "exited" => x.in = <<>>

Settled(c) == children[c].state \in {"waiting", "exited"} => children[c].left = <<>>

\* A child outside the registry has been waited for, or is being waited for.
Kept(c) ==
    phase # "over" =>
        /\ (\E id \in DOMAIN ports : ports[id] = c) => children[c].open
        /\ (~\E id \in DOMAIN ports : ports[id] = c) =>
              children[c].state = "exited" \/ (phase = "closing" /\ asked.child = c)

Answers ==
    last.line.n # 0 => last.asked.handle \in Minted /\ last.line.child \in Started

Inv ==
    /\ Typed /\ Registry /\ Peered /\ Answers /\ AnswersItsRequest
    /\ \A c \in Started : Past(c) /\ Paired(c) /\ Settled(c) /\ Kept(c)

-------------------------------------------------------------------------------

\* Where three counts make at most one, one of them leaves nothing for the others.
LEMMA AtMostOne ==
    ASSUME NEW i \in Nat \ {0}, NEW j \in Nat, NEW k \in Nat, i + j + k <= 1
    PROVE  i = 1 /\ j = 0 /\ k = 0
OBVIOUS

LEMMA OnlyMiddle ==
    ASSUME NEW i \in Nat, NEW j \in Nat \ {0}, NEW k \in Nat, i + j + k <= 1
    PROVE  j = 1 /\ i = 0 /\ k = 0
OBVIOUS

LEMMA SumOfOne ==
    ASSUME NEW i, NEW j, NEW k, i = 0, j = 0, k = 1
    PROVE  i + j + k <= 1
OBVIOUS

LEMMA Single ==
    ASSUME NEW S, NEW e \in S
    PROVE  <<e>> \in Seq(S) /\ Len(<<e>>) = 1 /\ \A k \in 1..Len(<<e>>) : <<e>>[k] = e
OBVIOUS

\* No port is open at the start.
LEMMA InitInv == Init => Inv
<1> SUFFICES ASSUME Init
             PROVE  Inv
  OBVIOUS
<1>1. children = <<>> /\ handles = <<>> /\ Len(children) = 0 /\ Len(handles) = 0
  BY DEF Init
<1>2. Started = {} /\ Minted = {} /\ DOMAIN ports = {}
  BY <1>1 DEF Init, Started, Minted
<1>3. Typed
  <2>1. Nobody \in Asked
    BY DEF Nobody, Asked
  <2>2. NoCall \in [asked : Asked, tag : Tags, line : Answer]
    BY <2>1 DEF NoCall, Answer, Tags
  <2>3. children \in Seq(ChildT) /\ handles \in Seq([id : Nat, child : Nat])
    BY <1>1, EmptySeq
  <2> QED BY <2>1, <2>2, <2>3 DEF Init, Typed
<1> QED BY <1>1, <1>2, <1>3 DEF Init, Inv, Registry, Peered, Answers, AnswersItsRequest, NoCall

\* One child of the sequence replaced.
LEMMA Replaced ==
    ASSUME children \in Seq(ChildT), NEW c \in Started, NEW y \in ChildT,
           children' = [children EXCEPT ![c] = y]
    PROVE  /\ children' \in Seq(ChildT)
           /\ Started' = Started
           /\ children'[c] = y
           /\ \A d \in Started : d # c => children'[d] = children[d]
BY ExceptSeq DEF Started

LEMMA Domains ==
    ASSUME Typed
    PROVE  /\ DOMAIN children = Started /\ DOMAIN handles = Minted
           /\ \A c \in Started : children[c] \in ChildT
           /\ \A h \in Minted : handles[h] \in [id : Nat, child : Nat]
BY LenProperties, ElementOfSeq DEF Typed, Started, Minted

\* What a child's step may leave alone: the program and the other children.
LEMMA ChildStep ==
    ASSUME Inv, NEW c \in Started, NEW y \in ChildT,
           children' = [children EXCEPT ![c] = y],
           UNCHANGED <<ports, nextId, handles, program>>,
           y.open = children[c].open, children[c].noisy => y.noisy,
           children[c].state # "exited",
           Past(c)', Paired(c)', Settled(c)'
    PROVE  Inv'
<1>1. /\ children' \in Seq(ChildT) /\ Started' = Started /\ children'[c] = y
      /\ \A d \in Started : d # c => children'[d] = children[d]
  BY Replaced DEF Inv, Typed
<1>2. Minted' = Minted /\ UNCHANGED <<ports, nextId, handles, phase, asked, calls, last>>
  BY DEF program, Minted
<1>3. Typed'
  BY <1>1, <1>2 DEF Inv, Typed
<1>4. Registry' /\ Peered' /\ Answers'
  BY <1>1, <1>2 DEF Inv, Registry, Peered, Answers
<1>5. AnswersItsRequest'
  <2>1. \A d \in Started : children[d].noisy => children'[d].noisy
    BY <1>1
  <2>2. last.line.n # 0 => last.line.child \in Started
    BY DEF Inv, Answers
  <2> QED BY <1>2, <2>1, <2>2 DEF Inv, AnswersItsRequest, Noisy
<1>6. ASSUME NEW d \in Started
      PROVE  Past(d)' /\ Paired(d)' /\ Settled(d)' /\ Kept(d)'
  <2>1. CASE d = c
    <3>1. Kept(c)'
      BY <1>1, <1>2 DEF Inv, Kept
    <3> QED BY <2>1, <3>1
  <2>2. CASE d # c
    <3>1. children'[d] = children[d]
      BY <1>1, <2>2
    <3>2. Past(d) /\ Paired(d) /\ Settled(d) /\ Kept(d)
      BY DEF Inv
    <3>3. Past(d)'
      BY <1>2, <3>1, <3>2 DEF Past
    <3>4. Paired(d)'
      BY <1>2, <3>1, <3>2 DEF Paired, Asking
    <3>5. Settled(d)' /\ Kept(d)'
      BY <1>2, <3>1, <3>2 DEF Settled, Kept
    <3> QED BY <3>3, <3>4, <3>5
  <2> QED BY <2>1, <2>2
<1> QED BY <1>1, <1>3, <1>4, <1>5, <1>6 DEF Inv

\* The child takes one request.
LEMMA ServeInv == ASSUME Inv, NEW c \in Started, Serve(c) PROVE Inv'
<1> DEFINE x == children[c]
           r == Head(x.in)
           y == [x EXCEPT !.in = Tail(@), !.state = "writing", !.left = Lines(c, r),
                          !.then = After(r.f), !.noisy = @ \/ r.f.prints > 0]
<1>1. x \in ChildT /\ Past(c) /\ Paired(c) /\ Settled(c)
  BY Domains DEF Inv
<1>2. /\ x.state = "waiting" /\ x.in # <<>> /\ x.in \in Seq(Request)
      /\ children' = [children EXCEPT ![c] = y]
      /\ UNCHANGED <<ports, nextId, handles, program>>
  BY <1>1 DEF Serve, ChildT
<1>3. /\ r \in Request /\ r = x.in[1] /\ 1 \in 1..Len(x.in)
      /\ Tail(x.in) \in Seq(Request) /\ Len(Tail(x.in)) = Len(x.in) - 1 /\ Len(x.in) \in Nat
      /\ \A k \in 1..Len(Tail(x.in)) : Tail(x.in)[k] = x.in[k + 1] /\ k + 1 \in 1..Len(x.in)
  <2>1. Len(x.in) \in Nat \ {0}
    BY <1>2, EmptySeq, LenProperties
  <2>2. 1 \in 1..Len(x.in) /\ \A k \in 1..(Len(x.in) - 1) : k + 1 \in 1..Len(x.in)
    BY <2>1
  <2>3. Head(x.in) = x.in[1]
    BY <1>2 
  <2> QED BY <1>2, <2>1, <2>2, <2>3, HeadTailProperties
<1> DEFINE ls == Lines(c, r)
<1>4. /\ ls \in Seq(Line) /\ Len(ls) \in Nat
      /\ \A k \in 1..Len(ls) : ls[k].n = r.n /\ ls[k].child = c
      /\ r.f.prints = 0 => Len(ls) <= 1 /\ \A k \in 1..Len(ls) : Fits(ls[k], r)
      /\ r.f.prints = 0 /\ After(r.f) # "waiting" => ls = <<>>
  <2> DEFINE line(kind) == [n |-> r.n, child |-> c, kind |-> kind]
             own == [i \in 1..r.f.prints |-> line("stray")]
             response == CASE r.f.ends = "ok"        -> <<line("ok")>>
                           [] r.f.ends = "raises"    -> <<line("err")>>
                           [] r.f.ends = "malformed" -> <<line("perr")>>
                           [] OTHER                  -> <<>>
  <2>1. ls = own \o response
    BY DEF Lines
  <2>2. r.f \in Functions /\ r.n \in Nat /\ c \in Nat /\ r.f.prints \in Nat
    BY <1>3, PortsAssumption DEF Request, Started
  <2>3. \A kind \in {"ok", "err", "perr", "stray"} : line(kind) \in Line
    BY <2>2 DEF Line
  <2>4. own \in Seq(Line) /\ Len(own) = r.f.prints /\ \A k \in 1..Len(own) : own[k] = line("stray")
    <3> HIDE DEF line
    <3> QED BY <2>2, <2>3, IsASeq
  <2>5. /\ response \in Seq(Line) /\ Len(response) \in Nat /\ Len(response) <= 1
        /\ \A k \in 1..Len(response) :
              /\ response[k].n = r.n /\ response[k].child = c
              /\ Fits(response[k], r)
        /\ After(r.f) # "waiting" => response = <<>>
    <3>1. CASE r.f.ends = "ok"
      <4>1. response = <<line("ok")>> /\ line("ok") \in Line /\ After(r.f) = "waiting"
        BY <2>3, <3>1 DEF After
      <4>2. line("ok").n = r.n /\ line("ok").child = c /\ Fits(line("ok"), r)
        BY <3>1 DEF Fits
      <4> HIDE DEF line, response
      <4> QED BY <4>1, <4>2, Single
    <3>2. CASE r.f.ends = "raises"
      <4>1. response = <<line("err")>> /\ line("err") \in Line /\ After(r.f) = "waiting"
        BY <2>3, <3>2 DEF After
      <4>2. line("err").n = r.n /\ line("err").child = c /\ Fits(line("err"), r)
        BY <3>2 DEF Fits
      <4> HIDE DEF line, response
      <4> QED BY <4>1, <4>2, Single
    <3>3. CASE r.f.ends = "malformed"
      <4>1. response = <<line("perr")>> /\ line("perr") \in Line /\ After(r.f) = "waiting"
        BY <2>3, <3>3 DEF After
      <4>2. line("perr").n = r.n /\ line("perr").child = c /\ Fits(line("perr"), r)
        BY <3>3 DEF Fits
      <4> HIDE DEF line, response
      <4> QED BY <4>1, <4>2, Single
    <3>4. CASE r.f.ends \notin {"ok", "raises", "malformed"}
      <4>1. response = <<>>
        BY <3>4
      <4> HIDE DEF response
      <4> QED BY <4>1, EmptySeq
    <3> QED BY <3>1, <3>2, <3>3, <3>4
  <2>6. /\ ls \in Seq(Line) /\ Len(ls) = Len(own) + Len(response)
        /\ \A k \in 1..Len(ls) : ls[k] = IF k <= Len(own) THEN own[k] ELSE response[k - Len(own)]
    <3>1. own \in Seq(Line) /\ response \in Seq(Line)
      BY <2>4, <2>5
    <3> HIDE DEF own, response, ls
    <3> QED BY <2>1, <3>1, ConcatProperties
  <2>7. r.f.prints = 0 => ls = response
    <3>1. r.f.prints = 0 => own = <<>>
      BY <2>4, EmptySeq
    <3> HIDE DEF own, response
    <3> QED BY <2>1, <2>5, <3>1, ConcatEmptySeq
  <2>8. \A k \in 1..Len(ls) : ls[k].n = r.n /\ ls[k].child = c
    <3> SUFFICES ASSUME NEW k \in 1..Len(ls)
                 PROVE  ls[k].n = r.n /\ ls[k].child = c
      OBVIOUS
    <3>1. CASE k <= Len(own)
      <4>1. ls[k] = line("stray")
        <5> HIDE DEF own, response, line, ls
        <5> QED BY <2>2, <2>4, <2>5, <2>6, <3>1
      <4> QED BY <4>1
    <3>2. CASE ~(k <= Len(own))
      <4>1. ls[k] = response[k - Len(own)] /\ k - Len(own) \in 1..Len(response)
        <5>1. Len(own) \in Nat /\ Len(response) \in Nat /\ k \in 1..(Len(own) + Len(response))
          BY <2>2, <2>4, <2>5, <2>6
        <5>2. ls[k] = response[k - Len(own)]
          BY <2>6, <3>2
        <5> HIDE DEF own, response, line, ls
        <5>3. k - Len(own) \in 1..Len(response)
          BY <5>1, <3>2
        <5> QED BY <5>2, <5>3
      <4> HIDE DEF own, response, line, ls
      <4> QED BY <2>5, <4>1
    <3> QED BY <3>1, <3>2
  <2> HIDE DEF own, response, line, ls
  <2> QED BY <2>2, <2>4, <2>5, <2>6, <2>7, <2>8
<1>5. After(r.f) \in {"waiting", "exited", "hung"}
  BY DEF After
<1>6. /\ y \in ChildT /\ y.in = Tail(x.in) /\ y.out = x.out /\ y.open = x.open
      /\ y.state = "writing" /\ y.left = ls /\ y.then = After(r.f)
      /\ y.noisy = (x.noisy \/ r.f.prints > 0)
  <2> HIDE DEF ls, r
  <2> QED BY <1>1, <1>3, <1>4, <1>5 DEF ChildT, ls
<1> HIDE DEF y, ls, r
<1>7. children'[c] = y /\ UNCHANGED <<phase, asked, calls>>
  BY <1>2, <1>6, Replaced DEF Inv, Typed, program
<1>8. Past(c)'
  <2>1. r.n <= calls
    BY <1>1, <1>3 DEF Past
  <2>2. \A k \in 1..Len(Tail(x.in)) : Tail(x.in)[k].n <= calls
    BY <1>1, <1>3 DEF Past
  <2>3. \A k \in 1..Len(ls) : ls[k].n <= calls /\ ls[k].child = c
    BY <1>4, <2>1
  <2>4. \A k \in 1..Len(x.out) : x.out[k].n <= calls /\ x.out[k].child = c
    BY <1>1 DEF Past
  <2> QED BY <1>6, <1>7, <2>2, <2>3, <2>4 DEF Past
<1>9. Paired(c)'
  <2>1. CASE y.noisy
    BY <1>7, <2>1 DEF Paired
  <2>2. CASE ~y.noisy
    <3>1. ~x.noisy /\ r.f.prints = 0
      <4>1. r.f.prints \in Nat
        BY <1>3, PortsAssumption DEF Request
      <4>2. ~x.noisy /\ ~(r.f.prints > 0)
        BY <1>6, <2>2, Zenon
      <4>3. r.f.prints = 0
        BY <4>1, <4>2
      <4> QED BY <4>2, <4>3
    <3>2. Asking(c) /\ Len(x.in) + Len(x.left) + Len(x.out) <= 1 /\ r = asked.req
      BY <1>1, <1>2, <1>3, <3>1 DEF Paired
    <3>3. Len(x.in) = 1 /\ Len(x.out) = 0 /\ x.out = <<>>
      <4>1. Len(x.in) \in Nat \ {0} /\ Len(x.left) \in Nat /\ Len(x.out) \in Nat
        BY <1>1, <1>3, LenProperties DEF ChildT
      <4>2. Len(x.in) = 1 /\ Len(x.out) = 0
        BY <3>2, <4>1, AtMostOne
      <4> QED BY <1>1, <4>2, EmptySeq DEF ChildT
    <3>4. y.in = <<>> /\ Len(y.in) = 0
      BY <1>3, <1>6, <3>3, EmptySeq
    <3>5. \A k \in 1..Len(ls) : Fits(ls[k], asked.req)
      BY <1>4, <3>1, <3>2
    <3>6. y.then # "waiting" => y.left = <<>>
      BY <1>4, <1>6, <3>1
    <3>7. Len(y.left) <= 1 /\ Len(y.left) \in Nat
      BY <1>4, <1>6, <3>1
    <3>8. Asking(c)'
      BY <1>7, <3>2 DEF Asking
    <3>9. y.out = <<>> /\ Len(y.out) = 0
      BY <1>6, <3>3
    <3>10. 0 + Len(y.left) + 0 <= 1
      BY <3>7
    <3>11. \A k \in 1..0 : FALSE
      OBVIOUS
    <3> DEFINE z == children'[c]
    <3>12. /\ Len(z.in) + Len(z.left) + Len(z.out) <= 1
           /\ \A k \in 1..Len(z.in) : z.in[k] = asked.req
           /\ \A k \in 1..Len(z.left) : Fits(z.left[k], asked.req)
           /\ \A k \in 1..Len(z.out) : Fits(z.out[k], asked.req)
           /\ z.state = "writing"
           /\ z.then # "waiting" => z.in = <<>> /\ z.left = <<>> /\ z.out = <<>>
      BY <1>6, <1>7, <3>4, <3>5, <3>6, <3>9, <3>10, <3>11
    <3> QED BY <1>7, <3>8, <3>12 DEF Paired, Fits
  <2> QED BY <2>1, <2>2
<1>10. Settled(c)'
  BY <1>6, <1>7 DEF Settled
<1> QED BY <1>1, <1>2, <1>6, <1>8, <1>9, <1>10, ChildStep

\* The child writes one line.
LEMMA SayInv == ASSUME Inv, NEW c \in Started, Say(c) PROVE Inv'
<1> DEFINE x == children[c]
<1>1. x \in ChildT /\ Past(c) /\ Paired(c) /\ Settled(c)
  BY Domains DEF Inv
<1>2. /\ x.state = "writing" /\ x.left # <<>> /\ x.left \in Seq(Line) /\ x.out \in Seq(Line)
      /\ UNCHANGED <<ports, nextId, handles, program>>
  BY <1>1 DEF Say, ChildT
<1>3. CASE phase = "over"
  <2> DEFINE y == [x EXCEPT !.state = "exited", !.left = <<>>]
  <2>1. children' = [children EXCEPT ![c] = y]
    BY <1>3 DEF Say
  <2>2. /\ y \in ChildT /\ y.in = x.in /\ y.out = x.out /\ y.open = x.open
        /\ y.state = "exited" /\ y.left = <<>> /\ (x.noisy <=> y.noisy)
    BY <1>1, EmptySeq DEF ChildT
  <2> HIDE DEF y
  <2>3. children'[c] = y /\ UNCHANGED <<phase, asked, calls>>
    BY <1>2, <2>1, <2>2, Replaced DEF Inv, Typed, program
  <2>4. x.noisy
    BY <1>1, <1>2, <1>3 DEF Paired, Asking
  <2>5. Past(c)' /\ Settled(c)'
    BY <1>1, <2>2, <2>3, EmptySeq DEF Past, Settled
  <2>6. Paired(c)'
    BY <2>2, <2>3, <2>4 DEF Paired
  <2> QED BY <1>2, <2>1, <2>2, <2>5, <2>6, ChildStep
<1>4. CASE phase # "over"
  <2> DEFINE e == Head(x.left)
             y == [x EXCEPT !.left = Tail(@), !.out = Append(@, e)]
  <2>1. children' = [children EXCEPT ![c] = y]
    BY <1>4 DEF Say
  <2>2. /\ e \in Line /\ e = x.left[1] /\ Len(x.left) \in Nat \ {0}
        /\ Tail(x.left) \in Seq(Line) /\ Len(Tail(x.left)) = Len(x.left) - 1
        /\ \A k \in 1..Len(Tail(x.left)) : Tail(x.left)[k] = x.left[k + 1]
        /\ \A k \in 1..(Len(x.left) - 1) : k + 1 \in 1..Len(x.left)
    <3>1. Len(x.left) \in Nat \ {0}
      BY <1>2, EmptySeq, LenProperties
    <3>2. Head(x.left) = x.left[1]
      BY <1>2
    <3>3. \A k \in 1..(Len(x.left) - 1) : k + 1 \in 1..Len(x.left)
      BY <3>1
    <3> QED BY <1>2, <3>1, <3>2, <3>3, HeadTailProperties
  <2> HIDE DEF e
  <2>3. /\ Append(x.out, e) \in Seq(Line) /\ Len(Append(x.out, e)) = Len(x.out) + 1
        /\ \A k \in 1..Len(x.out) : Append(x.out, e)[k] = x.out[k]
        /\ Append(x.out, e)[Len(x.out) + 1] = e /\ Len(x.out) \in Nat
    BY <1>2, <2>2, AppendProperties, LenProperties
  <2>4. /\ y \in ChildT /\ y.in = x.in /\ y.out = Append(x.out, e) /\ y.open = x.open
        /\ y.state = "writing" /\ y.then = x.then /\ y.left = Tail(x.left) /\ (x.noisy <=> y.noisy)
    BY <1>1, <1>2, <2>2, <2>3 DEF ChildT
  <2> HIDE DEF y
  <2>5. children'[c] = y /\ UNCHANGED <<phase, asked, calls>>
    BY <1>2, <2>1, <2>4, Replaced DEF Inv, Typed, program
  <2>6. 1 \in 1..Len(x.left) /\ \A k \in 1..(Len(x.out) + 1) : k \in 1..Len(x.out) \/ k = Len(x.out) + 1
    BY <2>2, <2>3
  <2>7. Past(c)'
    <3>1. \A k \in 1..Len(y.left) : y.left[k].n <= calls /\ y.left[k].child = c
      BY <1>1, <2>2, <2>4 DEF Past
    <3>2. \A k \in 1..Len(y.out) : y.out[k].n <= calls /\ y.out[k].child = c
      BY <1>1, <2>2, <2>3, <2>4, <2>6 DEF Past
    <3> QED BY <1>1, <2>4, <2>5, <3>1, <3>2 DEF Past
  <2>8. Paired(c)'
    <3>1. CASE x.noisy
      BY <2>4, <2>5, <3>1 DEF Paired
    <3>2. CASE ~x.noisy
      <4>1. /\ Asking(c) /\ Len(x.in) + Len(x.left) + Len(x.out) <= 1
            /\ \A k \in 1..Len(x.left) : Fits(x.left[k], asked.req)
            /\ x.then = "waiting"
        BY <1>1, <1>2, <3>2 DEF Paired
      <4>2. Len(x.left) = 1 /\ Len(x.in) = 0 /\ Len(x.out) = 0
        <5>1. Len(x.in) \in Nat
          BY <1>1, LenProperties DEF ChildT
        <5>2. Len(x.left) \in Nat \ {0} /\ Len(x.out) \in Nat
          BY <2>2, <2>3
        <5>3. Len(x.in) + Len(x.left) + Len(x.out) <= 1
          BY <4>1
        <5> HIDE DEF x
        <5> QED BY <5>1, <5>2, <5>3, OnlyMiddle
      <4>3. Fits(e, asked.req)
        BY <2>2, <2>6, <4>1
      <4>4. Len(y.in) = 0 /\ Len(y.left) = 0 /\ Len(y.out) = 1 /\ y.out[1] = e
        BY <2>2, <2>3, <2>4, <4>2
      <4>5. \A k \in 1..1 : k = 1
        OBVIOUS
      <4>6. Asking(c)'
        BY <2>5, <4>1 DEF Asking
      <4> DEFINE z == children'[c]
      <4>8. \A k \in 1..0 : FALSE
        OBVIOUS
      <4>9. z = y
        BY <2>5
      <4> HIDE DEF z
      <4>7. /\ Len(z.in) + Len(z.left) + Len(z.out) <= 1
            /\ \A k \in 1..Len(z.in) : z.in[k] = asked.req
            /\ \A k \in 1..Len(z.left) : Fits(z.left[k], asked.req)
            /\ \A k \in 1..Len(z.out) : Fits(z.out[k], asked.req)
            /\ z.state = "writing" /\ z.then = "waiting"
        <5>1. Len(z.in) + Len(z.left) + Len(z.out) <= 1
          BY <4>4, <4>9, SumOfOne, Zenon
        <5>2. \A k \in 1..Len(z.out) : Fits(z.out[k], asked.req)
          BY <4>3, <4>4, <4>5, <4>9
        <5> QED BY <2>4, <4>1, <4>4, <4>8, <4>9, <5>1, <5>2
      <4> QED BY <2>5, <4>6, <4>7 DEF Paired, Fits, z
    <3> QED BY <3>1, <3>2
  <2>9. Settled(c)'
    BY <2>4, <2>5 DEF Settled
  <2> QED BY <1>1, <1>2, <2>1, <2>4, <2>7, <2>8, <2>9, ChildStep
<1> QED BY <1>3, <1>4

\* The two steps that change the state of a child alone.
LEMMA StateInv ==
    ASSUME Inv, NEW c \in Started, Resume(c) \/ EndOfInput(c)
    PROVE  Inv'
<1> DEFINE x == children[c]
<1>1. x \in ChildT /\ Past(c) /\ Paired(c) /\ Settled(c)
  BY Domains DEF Inv
<1>2. PICK st \in {"waiting", "exited", "hung"} :
          /\ children' = [children EXCEPT ![c] = [x EXCEPT !.state = st]]
          /\ x.state # "exited" /\ x.left = <<>>
          /\ \/ x.state = "writing" /\ st = x.then
             \/ x.in = <<>> /\ st = "exited"
  <2>1. CASE Resume(c)
    BY <1>1, <2>1 DEF Resume, ChildT
  <2>2. CASE EndOfInput(c)
    BY <1>1, <2>2 DEF EndOfInput, Settled
  <2> QED BY <2>1, <2>2
<1> DEFINE y == [x EXCEPT !.state = st]
<1>3. UNCHANGED <<ports, nextId, handles, program>>
  BY DEF Resume, EndOfInput
<1>4. /\ y \in ChildT /\ y.in = x.in /\ y.out = x.out /\ y.open = x.open
      /\ y.state = st /\ y.then = x.then /\ y.left = x.left /\ (x.noisy <=> y.noisy)
  BY <1>1 DEF ChildT
<1> HIDE DEF y
<1>5. children'[c] = y /\ UNCHANGED <<phase, asked, calls>>
  BY <1>2, <1>3, <1>4, Replaced DEF Inv, Typed, program, y
<1>6. Past(c)' /\ Settled(c)'
  BY <1>1, <1>2, <1>4, <1>5 DEF Past, Settled
<1>7. Paired(c)'
  BY <1>1, <1>2, <1>4, <1>5 DEF Paired, Asking
<1> QED BY <1>1, <1>2, <1>3, <1>4, <1>6, <1>7, ChildStep DEF y

-------------------------------------------------------------------------------
(* The program's steps. *)

\* A step that answers nothing leaves the last answer as it was.
LEMMA SameAnswer ==
    ASSUME Inv, last' = last,
           \A d \in Started : d \in Started' /\ (children'[d].noisy <=> children[d].noisy),
           \A h \in Minted : h \in Minted' /\ handles'[h] = handles[h]
    PROVE  Answers' /\ AnswersItsRequest'
<1>1. Answers'
  BY DEF Inv, Answers
<1>2. AnswersItsRequest'
  BY DEF Inv, Answers, AnswersItsRequest, Noisy
<1> QED BY <1>1, <1>2

LEMMA Numbers ==
    ASSUME NEW s, s \in Seq(Request) \/ s \in Seq(Line)
    PROVE  \A k \in 1..Len(s) : s[k].n \in Nat
<1> SUFFICES ASSUME NEW k \in 1..Len(s)
             PROVE  s[k].n \in Nat
  OBVIOUS
<1>1. s[k] \in Request \/ s[k] \in Line
  BY ElementOfSeq
<1> QED BY <1>1 DEF Request, Line

\* Outside a read, what a child holds does not depend on the call under way.
LEMMA NotAsking ==
    ASSUME Inv, NEW c \in Started, phase # "reading", phase' # "reading",
           children'[c] = children[c], calls \in Nat, calls' \in Nat, calls <= calls'
    PROVE  Past(c)' /\ Paired(c)' /\ Settled(c)'
<1> DEFINE x == children[c]
<1>1. x \in ChildT /\ Past(c) /\ Paired(c) /\ Settled(c)
  BY Domains DEF Inv
<1>2. ~Asking(c) /\ ~Asking(c)'
  BY DEF Asking
<1>3. Paired(c)' /\ Settled(c)'
  BY <1>1, <1>2 DEF Paired, Settled
<1>4. \A k \in 1..Len(x.in) : x.in[k].n \in Nat
  <2>1. x.in \in Seq(Request)
    BY <1>1 DEF ChildT
  <2> HIDE DEF x
  <2> QED BY <2>1, Numbers
<1>5. \A k \in 1..Len(x.left) : x.left[k].n \in Nat
  <2>1. x.left \in Seq(Line)
    BY <1>1 DEF ChildT
  <2> HIDE DEF x
  <2> QED BY <2>1, Numbers
<1>6. \A k \in 1..Len(x.out) : x.out[k].n \in Nat
  <2>1. x.out \in Seq(Line)
    BY <1>1 DEF ChildT
  <2> HIDE DEF x
  <2> QED BY <2>1, Numbers
<1>7. \A n \in Nat : n <= calls => n <= calls'
  OBVIOUS
<1>8. Past(c)'
  BY <1>1, <1>4, <1>5, <1>6, <1>7 DEF Past
<1> QED BY <1>3, <1>8

\* A port is opened under an identifier nothing bears yet.
LEMMA OpenInv == ASSUME Inv, Open PROVE Inv'
<1> DEFINE new == Len(children) + 1
           minted == [id |-> nextId, child |-> new]
<1>1. /\ phase = "idle" /\ UNCHANGED <<phase, asked, calls, last>>
      /\ children' = Append(children, NewChild)
      /\ ports' = [id \in DOMAIN ports \cup {nextId} |-> IF id = nextId THEN new ELSE ports[id]]
      /\ handles' = Append(handles, minted) /\ nextId' = nextId + 1
  BY DEF Open, program, MintedId
<1>2. /\ children \in Seq(ChildT) /\ Len(children) \in Nat /\ nextId \in Nat /\ calls \in Nat
      /\ handles \in Seq([id : Nat, child : Nat]) /\ Len(handles) \in Nat
  BY LenProperties DEF Inv, Typed
<1>3. NewChild \in ChildT
  BY EmptySeq DEF NewChild, ChildT
<1>4. /\ children' \in Seq(ChildT) /\ Started' = Started \cup {new}
      /\ \A c \in Started : children'[c] = children[c] /\ c # new
      /\ children'[new] = NewChild
  <2>1. /\ children' \in Seq(ChildT) /\ Len(children') = new /\ children'[new] = NewChild
        /\ \A c \in Started : children'[c] = children[c]
    BY <1>1, <1>2, <1>3, AppendProperties DEF Started
  <2>2. 1..new = (1..Len(children)) \cup {new} /\ \A c \in 1..Len(children) : c # new
    BY <1>2
  <2> QED BY <2>1, <2>2 DEF Started
<1>5. /\ handles' \in Seq([id : Nat, child : Nat]) /\ Minted' = Minted \cup {Len(handles) + 1}
      /\ \A h \in Minted : handles'[h] = handles[h]
      /\ handles'[Len(handles) + 1] = minted
  <2>1. minted \in [id : Nat, child : Nat]
    BY <1>2
  <2>2. /\ handles' \in Seq([id : Nat, child : Nat]) /\ Len(handles') = Len(handles) + 1
        /\ handles'[Len(handles) + 1] = minted
        /\ \A h \in Minted : handles'[h] = handles[h]
    <3> HIDE DEF minted
    <3> QED BY <1>1, <1>2, <2>1, AppendProperties DEF Minted
  <2>3. 1..(Len(handles) + 1) = (1..Len(handles)) \cup {Len(handles) + 1}
    BY <1>2
  <2> QED BY <2>2, <2>3 DEF Minted
<1>6. Typed'
  BY <1>1, <1>2, <1>4, <1>5 DEF Inv, Typed
<1>7. /\ \A h \in Minted : handles[h].id \in Nat /\ handles[h].id < nextId
      /\ \A id \in DOMAIN ports : id \in Nat /\ id < nextId /\ ports[id] \in Started
  BY Domains DEF Inv, Registry
<1>8. /\ DOMAIN ports' = DOMAIN ports \cup {nextId} /\ ports'[nextId] = new
      /\ \A id \in DOMAIN ports : ports'[id] = ports[id] /\ id # nextId
      /\ \A h \in Minted : handles[h].id # nextId
  BY <1>1, <1>2, <1>7
<1>9. Registry'
  <2>1. \A n \in Nat : n < nextId => n < nextId'
    BY <1>1, <1>2
  <2>2. nextId < nextId' /\ nextId \in Nat
    BY <1>1, <1>2
  <2>3. \A h \in Minted' : handles'[h].id < nextId' /\ handles'[h].child \in Started'
    <3> SUFFICES ASSUME NEW h \in Minted'
                 PROVE  handles'[h].id < nextId' /\ handles'[h].child \in Started'
      OBVIOUS
    <3>1. CASE h \in Minted
      BY <1>4, <1>5, <1>7, <2>1, <3>1 DEF Inv, Registry
    <3>2. CASE h = Len(handles) + 1
      BY <1>4, <1>5, <2>2, <3>2
    <3> QED BY <1>5, <3>1, <3>2
  <2>4. \A id \in DOMAIN ports' : id \in Nat /\ id < nextId' /\ ports'[id] \in Started'
    BY <1>4, <1>7, <1>8, <2>1, <2>2
  <2>5. \A h \in Minted' : handles'[h].id \in DOMAIN ports' => ports'[handles'[h].id] = handles'[h].child
    <3> SUFFICES ASSUME NEW h \in Minted', handles'[h].id \in DOMAIN ports'
                 PROVE  ports'[handles'[h].id] = handles'[h].child
      OBVIOUS
    <3>1. CASE h \in Minted
      <4>1. handles'[h] = handles[h] /\ handles[h].id \in DOMAIN ports
        BY <1>5, <1>8, <3>1
      <4> QED BY <1>8, <3>1, <4>1 DEF Inv, Registry
    <3>2. CASE h = Len(handles) + 1
      BY <1>5, <1>8, <3>2
    <3> QED BY <1>5, <3>1, <3>2
  <2>6. \A i, j \in DOMAIN ports' : ports'[i] = ports'[j] => i = j
    <3> HIDE DEF new
    <3> QED BY <1>4, <1>7, <1>8 DEF Inv, Registry
  <2> QED BY <2>3, <2>4, <2>5, <2>6 DEF Registry
<1>10. Peered' /\ Answers' /\ AnswersItsRequest'
  BY <1>1, <1>4, <1>5, SameAnswer DEF Peered
<1>11. ASSUME NEW c \in Started'
       PROVE  Past(c)' /\ Paired(c)' /\ Settled(c)' /\ Kept(c)'
  <2>1. CASE c \in Started
    <3>4. calls \in Nat /\ calls' \in Nat /\ calls <= calls' /\ phase # "reading" /\ phase' # "reading"
      BY <1>1, <1>2
    <3>5. children'[c] = children[c]
      BY <1>4, <2>1
    <3>1. Past(c)' /\ Paired(c)' /\ Settled(c)'
      BY <2>1, <3>4, <3>5, NotAsking, Zenon
    <3>2. (\E id \in DOMAIN ports' : ports'[id] = c) <=> (\E id \in DOMAIN ports : ports[id] = c)
      <4> HIDE DEF new
      <4> QED BY <1>4, <1>8, <2>1
    <3>3. Kept(c)'
      BY <1>1, <1>4, <2>1, <3>2 DEF Inv, Kept
    <3> QED BY <3>1, <3>3
  <2>2. CASE c = new
    <3>1. \A k \in 1..0 : FALSE
      OBVIOUS
    <3>2. children'[c] = NewChild /\ ~Asking(c)'
      BY <1>1, <1>4, <2>2 DEF Asking
    <3> DEFINE z == children'[c]
    <3>5. z.in = <<>> /\ z.left = <<>> /\ z.out = <<>> /\ z.state = "waiting"
      BY <3>2 DEF NewChild
    <3>6. Len(z.in) = 0 /\ Len(z.left) = 0 /\ Len(z.out) = 0
      BY <3>5, EmptySeq
    <3>7. Past(c)'
      BY <3>1, <3>6 DEF Past
    <3>8. Settled(c)'
      BY <3>5 DEF Settled
    <3>9. Paired(c)'
      BY <3>2, <3>5 DEF Paired, Fits
    <3>3. Past(c)' /\ Paired(c)' /\ Settled(c)'
      BY <3>7, <3>8, <3>9
    <3>4. Kept(c)'
      BY <1>8, <2>2, <3>2 DEF Kept, NewChild
    <3> QED BY <3>3, <3>4
  <2> QED BY <1>4, <2>1, <2>2
<1> QED BY <1>6, <1>9, <1>10, <1>11 DEF Inv

\* A step of the program that leaves the registry and the children alone, and reads nothing.
LEMMA Bystander ==
    ASSUME Inv, UNCHANGED <<ports, nextId, handles, children>>,
           phase # "reading", phase' # "reading", calls' \in Nat, calls <= calls',
           Typed', Peered', Answers', AnswersItsRequest', \A c \in Started : Kept(c)'
    PROVE  Inv'
<1>1. Started' = Started /\ Minted' = Minted /\ UNCHANGED <<children, handles, ports, nextId>>
  BY DEF Started, Minted
<1>2. Registry'
  BY <1>1 DEF Inv, Registry
<1>3. \A c \in Started : children'[c] = children[c]
  BY <1>1
<1>4. calls \in Nat
  BY DEF Inv, Typed
<1>5. \A c \in Started : Past(c)' /\ Paired(c)' /\ Settled(c)'
  BY <1>3, <1>4, NotAsking, Zenon
<1> QED BY <1>1, <1>2, <1>5 DEF Inv

LEMMA CallStaleInv ==
    ASSUME Inv, NEW h \in Minted, NEW f \in Functions, CallStale(h, f)
    PROVE  Inv'
<1> DEFINE req == [n |-> calls + 1, f |-> f]
<1>1. /\ phase = "idle" /\ UNCHANGED <<ports, nextId, handles, children>> /\ phase' = "idle"
      /\ calls' = calls + 1 /\ asked' = [handle |-> h, child |-> 0, req |-> req]
      /\ last' = [asked |-> asked', tag |-> "port-closed", line |-> NoCall.line]
  BY DEF CallStale, Answered
<1>2. calls \in Nat /\ calls' \in Nat /\ calls <= calls' /\ h \in Nat
  BY <1>1 DEF Inv, Typed, Minted
<1>3. req \in [n : Nat, f : Functions \cup {0}]
  BY <1>2
<1>4. asked' \in Asked
  <2> HIDE DEF req
  <2> QED BY <1>1, <1>2, <1>3 DEF Asked
<1>5. last' \in [asked : Asked, tag : Tags, line : Answer] /\ last'.line.n = 0
  BY <1>1, <1>4 DEF Tags, Answer, NoCall
<1>6. Typed'
  BY <1>1, <1>2, <1>4, <1>5 DEF Inv, Typed
<1>7. Peered' /\ Answers' /\ AnswersItsRequest'
  BY <1>1, <1>5 DEF Peered, Answers, AnswersItsRequest
<1>8. \A c \in Started : Kept(c)'
  BY <1>1 DEF Inv, Kept
<1> QED BY <1>1, <1>2, <1>6, <1>7, <1>8, Bystander

\* A call on an open port posts its request; on a closed one it is refused.
LEMMA CallInv ==
    ASSUME Inv, NEW h \in Minted, NEW f \in Functions, Call(h, f)
    PROVE  Inv'
<1> DEFINE req == [n |-> calls + 1, f |-> f]
           peer == ports[handles[h].id]
<1>1. /\ phase = "idle" /\ UNCHANGED <<ports, nextId, handles, children, last>> /\ phase' = "writing"
      /\ handles[h].id \in DOMAIN ports
      /\ calls' = calls + 1 /\ asked' = [handle |-> h, child |-> peer, req |-> req]
  BY DEF Call
<1>2. calls \in Nat /\ calls' \in Nat /\ calls <= calls' /\ h \in Nat
  BY <1>1 DEF Inv, Typed, Minted
<1>3. peer \in Started /\ peer \in Nat /\ peer = handles[h].child
  BY <1>1 DEF Inv, Registry, Started
<1>4. req \in Request /\ req \in [n : Nat, f : Functions \cup {0}] /\ req.n = calls'
  BY <1>1, <1>2 DEF Request
<1>5. asked' \in Asked /\ asked'.handle = h /\ asked'.child = peer /\ asked'.req = req
  <2> HIDE DEF req, peer
  <2> QED BY <1>1, <1>2, <1>3, <1>4 DEF Asked
<1>6. Typed'
  BY <1>1, <1>2, <1>5 DEF Inv, Typed
<1>7. Peered'
  <2> HIDE DEF req, peer
  <2> QED BY <1>1, <1>3, <1>4, <1>5 DEF Peered, Started, Minted
<1>8. Answers' /\ AnswersItsRequest'
  BY <1>1, SameAnswer DEF Started, Minted
<1>9. \A c \in Started : Kept(c)'
  BY <1>1 DEF Inv, Kept
<1> QED BY <1>1, <1>2, <1>6, <1>7, <1>8, <1>9, Bystander

\* close waits for the child.
LEMMA ReapInv == ASSUME Inv, Reap PROVE Inv'
<1>1. /\ phase = "closing" /\ children[asked.child].state = "exited" /\ phase' = "idle"
      /\ UNCHANGED <<ports, nextId, children, handles, asked, calls, last>>
  BY DEF Reap, Peer
<1>2. calls' \in Nat /\ calls <= calls'
  BY <1>1 DEF Inv, Typed
<1>3. Typed' /\ Peered'
  BY <1>1 DEF Inv, Typed, Peered
<1>4. Answers' /\ AnswersItsRequest'
  BY <1>1, SameAnswer DEF Started, Minted
<1>5. \A c \in Started : Kept(c)'
  BY <1>1 DEF Inv, Kept
<1> QED BY <1>1, <1>2, <1>3, <1>4, <1>5, Bystander

\* A step of the program that replaces the state of the child it is talking to.
LEMMA PeerStep ==
    ASSUME Inv, NEW p \in Started, NEW y \in ChildT,
           children' = [children EXCEPT ![p] = y],
           UNCHANGED <<handles, nextId, calls>>,
           asked.child = p \/ phase = "idle", asked'.child = p, phase' # "over",
           y.noisy <=> children[p].noisy,
           Typed', Registry', Peered', Answers', AnswersItsRequest',
           Past(p)', Paired(p)', Settled(p)', \A c \in Started : Kept(c)'
    PROVE  Inv'
<1>1. /\ Started' = Started /\ children'[p] = y
      /\ \A d \in Started : d # p => children'[d] = children[d]
  BY Replaced DEF Inv, Typed
<1>2. ASSUME NEW d \in Started, d # p
      PROVE  Past(d)' /\ Paired(d)' /\ Settled(d)'
  <2>1. children'[d] = children[d] /\ Past(d) /\ Paired(d) /\ Settled(d)
    BY <1>1, <1>2 DEF Inv
  <2>2. ~Asking(d) /\ ~Asking(d)'
    BY <1>2 DEF Asking
  <2>3. Past(d)'
    BY <2>1 DEF Past
  <2>4. Paired(d)'
    BY <2>1, <2>2 DEF Paired
  <2>5. Settled(d)'
    BY <2>1 DEF Settled
  <2> QED BY <2>3, <2>4, <2>5
<1>3. \A d \in Started : Past(d)' /\ Paired(d)' /\ Settled(d)'
  BY <1>2
<1> QED BY <1>1, <1>3 DEF Inv

\* The caller writes its request into the pipe.
LEMMA WriteInv == ASSUME Inv, Write PROVE Inv'
<1>1. /\ phase = "writing" /\ UNCHANGED <<ports, nextId, handles, asked, calls>>
  BY DEF Write
<1>0. PICK p \in Started : p = asked.child
  BY <1>1 DEF Inv, Peered
<1> DEFINE x == children[p]
<1>2. /\ p = asked.child /\ asked.handle \in Minted /\ p = handles[asked.handle].child
      /\ asked.req \in Request /\ asked.req.n = calls /\ calls \in Nat
  BY <1>0, <1>1 DEF Inv, Peered, Typed
<1>3. x \in ChildT /\ Past(p) /\ Paired(p) /\ Settled(p) /\ ~Asking(p)
  BY <1>1, <1>2, Domains DEF Inv, Asking
<1>4. CASE x.state = "exited"
  <2>1. /\ UNCHANGED children /\ phase' = "idle"
        /\ last' = [asked |-> asked, tag |-> "port-protocol", line |-> NoCall.line]
    BY <1>1, <1>2, <1>4 DEF Write, Answered, Peer
  <2>2. last' \in [asked : Asked, tag : Tags, line : Answer] /\ last'.line.n = 0
    BY <2>1 DEF Inv, Typed, Tags, Answer, NoCall
  <2>3. Typed'
    BY <1>1, <2>1, <2>2 DEF Inv, Typed
  <2>4. Peered' /\ Answers' /\ AnswersItsRequest'
    BY <2>1, <2>2 DEF Peered, Answers, AnswersItsRequest
  <2>5. \A c \in Started : Kept(c)'
    BY <1>1, <2>1 DEF Inv, Kept
  <2>6. calls' \in Nat /\ calls <= calls'
    BY <1>1, <1>2
  <2> QED BY <1>1, <2>1, <2>3, <2>4, <2>5, <2>6, Bystander
<1>5. CASE x.state # "exited"
  <2> DEFINE y == [x EXCEPT !.in = Append(@, asked.req)]
  <2>1. children' = [children EXCEPT ![p] = y] /\ phase' = "reading" /\ last' = last
    BY <1>2, <1>5 DEF Write, Peer
  <2>2. /\ x.in \in Seq(Request) /\ Len(x.in) \in Nat
        /\ Append(x.in, asked.req) \in Seq(Request) /\ Len(Append(x.in, asked.req)) = Len(x.in) + 1
        /\ \A k \in 1..Len(x.in) : Append(x.in, asked.req)[k] = x.in[k]
        /\ Append(x.in, asked.req)[Len(x.in) + 1] = asked.req
        /\ \A k \in 1..(Len(x.in) + 1) : k \in 1..Len(x.in) \/ k = Len(x.in) + 1
    <3>1. x.in \in Seq(Request)
      BY <1>3 DEF ChildT
    <3> HIDE DEF x
    <3>2. Len(x.in) \in Nat
      BY <3>1, LenProperties
    <3>3. \A k \in 1..(Len(x.in) + 1) : k \in 1..Len(x.in) \/ k = Len(x.in) + 1
      BY <3>2
    <3> QED BY <1>2, <3>1, <3>2, <3>3, AppendProperties
  <2>3. /\ y \in ChildT /\ y.in = Append(x.in, asked.req) /\ y.out = x.out /\ y.open = x.open
        /\ y.state = x.state /\ y.then = x.then /\ y.left = x.left /\ (y.noisy <=> x.noisy)
    BY <1>3, <2>2 DEF ChildT
  <2> HIDE DEF y
  <2>4. /\ children' \in Seq(ChildT) /\ Started' = Started /\ Minted' = Minted /\ children'[p] = y
        /\ \A d \in Started : d # p => children'[d] = children[d]
    BY <1>1, <1>2, <2>1, <2>3, Replaced DEF Inv, Typed, Minted
  <2>5. Typed'
    BY <1>1, <2>1, <2>4 DEF Inv, Typed
  <2>6. Registry'
    BY <1>1, <2>4 DEF Inv, Registry
  <2>7. Peered'
    BY <1>1, <1>2, <2>4 DEF Inv, Peered
  <2>8. \A d \in Started : (children'[d].noisy <=> children[d].noisy)
                          /\ (children'[d].open <=> children[d].open)
                          /\ children'[d].state = children[d].state
    BY <2>3, <2>4
  <2>9. Answers' /\ AnswersItsRequest'
    BY <1>1, <2>1, <2>4, <2>8, SameAnswer
  <2>10. \A c \in Started : Kept(c)'
    BY <1>1, <2>1, <2>8 DEF Inv, Kept
  <2>11. Past(p)'
    <3>1. calls <= calls
      BY <1>2
    <3>2. \A k \in 1..Len(y.in) : y.in[k].n <= calls
      <4>1. \A k \in 1..Len(x.in) : x.in[k].n <= calls
        BY <1>3 DEF Past
      <4> HIDE DEF x
      <4> QED BY <1>2, <2>2, <2>3, <3>1, <4>1
    <3> QED BY <1>1, <1>3, <2>3, <2>4, <3>2 DEF Past
  <2>12. Settled(p)'
    BY <1>3, <2>3, <2>4 DEF Settled
  <2>13. Paired(p)'
    <3>1. CASE x.noisy
      BY <2>3, <2>4, <3>1 DEF Paired
    <3>2. CASE ~x.noisy
      <4>1. x.in = <<>> /\ x.left = <<>> /\ x.out = <<>> /\ ~(x.state = "writing" /\ x.then # "waiting")
        BY <1>3, <3>2 DEF Paired
      <4>2. Len(x.in) = 0 /\ Len(y.left) = 0 /\ Len(y.out) = 0
        BY <2>3, <4>1, EmptySeq
      <4>3. Len(y.in) = 1 /\ y.in[1] = asked.req
        BY <2>2, <2>3, <4>2
      <4>4. Len(y.in) + Len(y.left) + Len(y.out) <= 1
        <5>1. \A i, j, k : i = 1 /\ j = 0 /\ k = 0 => i + j + k <= 1
          OBVIOUS
        <5> QED BY <4>2, <4>3, <5>1, Zenon
      <4>5. (\A k \in 1..0 : FALSE) /\ (\A k \in 1..1 : k = 1)
        OBVIOUS
      <4>6. Asking(p)' /\ asked'.req = asked.req
        BY <1>1, <1>2, <2>1 DEF Asking
      <4> DEFINE z == children'[p]
      <4>7. z = y
        BY <2>4
      <4> HIDE DEF z
      <4>8. \A k \in 1..Len(z.in) : z.in[k] = asked.req
        BY <4>3, <4>5, <4>7
      <4>9. /\ \A k \in 1..Len(z.left) : Fits(z.left[k], asked.req)
            /\ \A k \in 1..Len(z.out) : Fits(z.out[k], asked.req)
        BY <4>2, <4>5, <4>7
      <4>10. Len(z.in) + Len(z.left) + Len(z.out) <= 1
        BY <4>4, <4>7
      <4>11. ~(z.state = "writing" /\ z.then # "waiting") /\ z.state # "exited"
        BY <1>5, <2>3, <4>1, <4>7
      <4> QED BY <1>1, <4>6, <4>8, <4>9, <4>10, <4>11 DEF Paired, Fits, z
    <3> QED BY <3>1, <3>2
  <2>14. asked'.child = p /\ phase' # "over" /\ UNCHANGED <<handles, nextId, calls>>
    BY <1>1, <1>2, <2>1
  <2> QED BY <1>2, <2>1, <2>3, <2>5, <2>6, <2>7, <2>9, <2>10, <2>11, <2>12, <2>13, <2>14, PeerStep
<1> QED BY <1>4, <1>5

\* The caller takes the next line as its answer.
LEMMA ReadInv == ASSUME Inv, Read PROVE Inv'
<1>1. /\ phase = "reading" /\ phase' = "idle" /\ UNCHANGED <<ports, nextId, handles, asked, calls>>
  BY DEF Read, Answered
<1>2. PICK p \in Started : p = asked.child
  BY <1>1 DEF Inv, Peered
<1> DEFINE x == children[p]
<1>3. /\ p = asked.child /\ asked.handle \in Minted /\ p = handles[asked.handle].child
      /\ asked.req \in Request /\ asked.req.n = calls /\ calls \in Nat
  BY <1>1, <1>2 DEF Inv, Peered, Typed
<1>4. x \in ChildT /\ Past(p) /\ Paired(p) /\ Settled(p) /\ Asking(p) /\ ~Asking(p)'
  BY <1>1, <1>2, Domains DEF Inv, Asking
<1>5. ASSUME x.out # <<>>, last' = [asked |-> asked, tag |-> TagOf(Head(x.out)), line |-> Head(x.out)],
             children' = [children EXCEPT ![p].out = Tail(@)]
      PROVE  Inv'
  <2> DEFINE e == Head(x.out)
             y == [x EXCEPT !.out = Tail(@)]
  <2>1. /\ x.out \in Seq(Line) /\ Len(x.out) \in Nat \ {0} /\ e = x.out[1] /\ e \in Line
        /\ Tail(x.out) \in Seq(Line) /\ Len(Tail(x.out)) = Len(x.out) - 1
        /\ \A k \in 1..Len(Tail(x.out)) : Tail(x.out)[k] = x.out[k + 1]
        /\ 1 \in 1..Len(x.out) /\ \A k \in 1..(Len(x.out) - 1) : k + 1 \in 1..Len(x.out)
    <3>1. x.out \in Seq(Line)
      BY <1>4 DEF ChildT
    <3> HIDE DEF x
    <3>2. Len(x.out) \in Nat \ {0}
      BY <1>5, <3>1, EmptySeq, LenProperties
    <3>3. 1 \in 1..Len(x.out) /\ \A k \in 1..(Len(x.out) - 1) : k + 1 \in 1..Len(x.out)
      BY <3>2
    <3>4. Head(x.out) = x.out[1]
      BY <3>1
    <3> QED BY <1>5, <3>1, <3>2, <3>3, <3>4, HeadTailProperties
  <2>2. /\ y \in ChildT /\ y.in = x.in /\ y.out = Tail(x.out) /\ y.open = x.open
        /\ y.state = x.state /\ y.then = x.then /\ y.left = x.left /\ (y.noisy <=> x.noisy)
    <3> HIDE DEF e
    <3> QED BY <1>4, <2>1 DEF ChildT
  <2>3. children' = [children EXCEPT ![p] = y]
    BY <1>5
  <2> HIDE DEF y
  <2>4. /\ children' \in Seq(ChildT) /\ Started' = Started /\ Minted' = Minted /\ children'[p] = y
        /\ \A d \in Started : d # p => children'[d] = children[d]
    BY <1>1, <1>2, <2>2, <2>3, Replaced DEF Inv, Typed, Minted
  <2>5. TagOf(e) \in Tags /\ e.n <= calls /\ e.child = p
    <3>1. e.kind \in {"ok", "err", "perr", "stray"}
      <4> HIDE DEF e
      <4> QED BY <2>1 DEF Line
    <3>2. TagOf(e) \in Tags
      <4> HIDE DEF e
      <4> QED BY <3>1 DEF TagOf, Tags
    <3>3. \A k \in 1..Len(x.out) : x.out[k].n <= calls /\ x.out[k].child = p
      BY <1>4 DEF Past
    <3> QED BY <2>1, <3>2, <3>3
  <2>6. Typed'
    <3>1. last' \in [asked : Asked, tag : Tags, line : Answer]
      <4>1. last' = [asked |-> asked, tag |-> TagOf(e), line |-> e]
        BY <1>5
      <4> HIDE DEF e
      <4> QED BY <2>1, <2>5, <4>1 DEF Inv, Typed, Answer
    <3> QED BY <1>1, <2>4, <3>1 DEF Inv, Typed
  <2>7. Registry' /\ Peered' /\ Answers'
    <3>1. Registry'
      BY <1>1, <2>4 DEF Inv, Registry
    <3>2. Peered'
      BY <1>1 DEF Peered
    <3>3. Answers'
      <4>1. last'.asked.handle = asked.handle /\ last'.line.child = p
        BY <1>5, <2>5
      <4> QED BY <1>2, <1>3, <2>4, <4>1 DEF Answers
    <3> QED BY <3>1, <3>2, <3>3
  <2>8. \A d \in Started : (children'[d].noisy <=> children[d].noisy)
                          /\ (children'[d].open <=> children[d].open)
                          /\ children'[d].state = children[d].state
    BY <2>2, <2>4
  <2>9. ~x.noisy => /\ Fits(e, asked.req) /\ x.in = <<>> /\ x.left = <<>> /\ Tail(x.out) = <<>>
                    /\ ~(x.state = "writing" /\ x.then # "waiting")
    <3> SUFFICES ASSUME ~x.noisy
                 PROVE  /\ Fits(e, asked.req) /\ x.in = <<>> /\ x.left = <<>> /\ Tail(x.out) = <<>>
                        /\ ~(x.state = "writing" /\ x.then # "waiting")
      OBVIOUS
    <3>1. /\ Len(x.in) + Len(x.left) + Len(x.out) <= 1
          /\ \A k \in 1..Len(x.out) : Fits(x.out[k], asked.req)
          /\ ~(x.state = "writing" /\ x.then # "waiting")
      BY <1>4, <1>5 DEF Paired
    <3>2. x.in \in Seq(Request) /\ x.left \in Seq(Line)
      BY <1>4 DEF ChildT
    <3>3. Fits(e, asked.req)
      BY <2>1, <3>1
    <3> HIDE DEF x, e
    <3>4. Len(x.in) \in Nat /\ Len(x.left) \in Nat
      BY <3>2, LenProperties
    <3>5. Len(x.in) = 0 /\ Len(x.left) = 0 /\ Len(x.out) = 1
      <4>1. \A i, j \in Nat : \A k \in Nat \ {0} : i + j + k <= 1 => i = 0 /\ j = 0 /\ k = 1
        OBVIOUS
      <4> QED BY <2>1, <3>1, <3>4, <4>1
    <3>6. Len(Tail(x.out)) = 0
      BY <2>1, <3>5
    <3> QED BY <2>1, <3>1, <3>2, <3>3, <3>5, <3>6, EmptySeq
  <2>10. AnswersItsRequest'
    <3>1. last'.asked = asked /\ last'.line = e /\ last'.tag = TagOf(e)
      BY <1>5
    <3>2. handles'[asked.handle].child = p /\ e.child = p /\ e.n <= asked.req.n
      BY <1>1, <1>3, <2>5
    <3>3. ~Noisy(p)' => ~x.noisy
      <4>1. p # 0
        BY <1>2 DEF Started
      <4>2. children'[p].noisy <=> x.noisy
        BY <2>2, <2>4, Zenon
      <4> QED BY <4>1, <4>2 DEF Noisy
    <3>4. Fits(e, asked.req) =>
            /\ e.n = asked.req.n
            /\ TagOf(e) = CASE asked.req.f.ends = "ok" -> "nil"
                             [] asked.req.f.ends = "raises" -> "port-call"
                             [] OTHER -> "port-protocol"
      <4> HIDE DEF e
      <4> QED BY DEF Fits, TagOf
    <3>5. /\ last'.asked.req.n = asked.req.n /\ last'.asked.req.f.ends = asked.req.f.ends
          /\ last'.asked.handle = asked.handle /\ last'.line.child = p /\ last'.line.n = e.n
      BY <3>1, <3>2
    <3> HIDE DEF e, x
    <3> QED BY <2>9, <3>1, <3>2, <3>3, <3>4, <3>5 DEF AnswersItsRequest, Noisy
  <2>11. \A c \in Started : Kept(c)'
    BY <1>1, <2>8 DEF Inv, Kept
  <2>12. Past(p)'
    <3>1. \A k \in 1..Len(Tail(x.out)) : Tail(x.out)[k].n <= calls /\ Tail(x.out)[k].child = p
      <4>1. \A k \in 1..Len(x.out) : x.out[k].n <= calls /\ x.out[k].child = p
        BY <1>4 DEF Past
      <4> HIDE DEF x, e
      <4> QED BY <2>1, <4>1
    <3> HIDE DEF e
    <3> QED BY <1>1, <1>4, <2>2, <2>4, <3>1 DEF Past
  <2>13. Settled(p)'
    BY <1>4, <2>2, <2>4 DEF Settled
  <2>14. Paired(p)'
    <3>1. CASE x.noisy
      BY <2>2, <2>4, <3>1 DEF Paired
    <3>2. CASE ~x.noisy
      <4>1. /\ y.in = <<>> /\ y.left = <<>> /\ y.out = <<>>
            /\ ~(y.state = "writing" /\ y.then # "waiting")
        BY <2>2, <2>9, <3>2
      <4> HIDE DEF x, e
      <4> QED BY <1>4, <2>4, <4>1 DEF Paired
    <3> QED BY <3>1, <3>2
  <2>15. asked'.child = p /\ phase' # "over" /\ UNCHANGED <<handles, nextId, calls>>
    BY <1>1, <1>3
  <2> QED BY <1>2, <1>3, <2>2, <2>3, <2>6, <2>7, <2>8, <2>10, <2>11, <2>12, <2>13, <2>14, <2>15, PeerStep
<1>6. ASSUME x.out = <<>>, x.state = "exited", UNCHANGED children,
             last' = [asked |-> asked, tag |-> "port-protocol", line |-> NoCall.line]
      PROVE  Inv'
  <2>1. Started' = Started /\ Minted' = Minted
    BY <1>1, <1>6 DEF Started, Minted
  <2>2. last' \in [asked : Asked, tag : Tags, line : Answer] /\ last'.line.n = 0
    BY <1>6 DEF Inv, Typed, Tags, Answer, NoCall
  <2>3. Typed' /\ Registry'
    BY <1>1, <1>6, <2>1, <2>2 DEF Inv, Typed, Registry
  <2>4. Peered' /\ Answers' /\ AnswersItsRequest'
    BY <1>1, <2>2 DEF Peered, Answers, AnswersItsRequest
  <2>5. ASSUME NEW d \in Started
        PROVE  Past(d)' /\ Paired(d)' /\ Settled(d)' /\ Kept(d)'
    <3>1. Past(d) /\ Paired(d) /\ Settled(d) /\ Kept(d) /\ ~Asking(d)'
      BY <1>1 DEF Inv, Asking
    <3>2. Past(d)' /\ Settled(d)' /\ Kept(d)'
      BY <1>1, <1>6, <3>1 DEF Past, Settled, Kept
    <3>3. CASE d = p
      <4>1. x.in = <<>> \/ x.noisy
        BY <1>4, <1>6 DEF Paired
      <4>2. x.left = <<>>
        BY <1>4, <1>6 DEF Settled
      <4> QED BY <1>6, <3>1, <3>2, <3>3, <4>1, <4>2 DEF Paired
    <3>4. CASE d # p
      BY <1>2, <1>6, <3>1, <3>2, <3>4 DEF Paired, Asking
    <3> QED BY <3>3, <3>4
  <2> QED BY <2>1, <2>3, <2>4, <2>5 DEF Inv
<1> QED BY <1>1, <1>3, <1>5, <1>6 DEF Read, Answered, Peer

\* close removes the port before it waits.
LEMMA CloseInv == ASSUME Inv, NEW h \in Minted, Close(h) PROVE Inv'
<1>1. /\ phase = "idle" /\ phase' = "closing" /\ UNCHANGED <<nextId, handles, calls, last>>
      /\ handles[h].id \in DOMAIN ports
  BY DEF Close
<1>2. PICK p \in Started : p = ports[handles[h].id]
  BY <1>1 DEF Inv, Registry
<1> DEFINE x == children[p]
           y == [x EXCEPT !.open = FALSE]
<1>3. /\ children' = [children EXCEPT ![p] = y]
      /\ ports' = [id \in DOMAIN ports \ {handles[h].id} |-> ports[id]]
      /\ asked' = [Nobody EXCEPT !.handle = h, !.child = p]
  BY <1>2 DEF Close
<1>4. x \in ChildT /\ Past(p) /\ Paired(p) /\ Settled(p) /\ ~Asking(p) /\ ~Asking(p)'
  BY <1>1, <1>2, Domains DEF Inv, Asking
<1>5. /\ y \in ChildT /\ y.in = x.in /\ y.out = x.out /\ y.state = x.state
      /\ y.then = x.then /\ y.left = x.left /\ (y.noisy <=> x.noisy)
  BY <1>4 DEF ChildT
<1> HIDE DEF y
<1>6. /\ children' \in Seq(ChildT) /\ Started' = Started /\ Minted' = Minted /\ children'[p] = y
      /\ \A d \in Started : d # p => children'[d] = children[d]
  BY <1>1, <1>2, <1>3, <1>5, Replaced DEF Inv, Typed, Minted
<1>7. h \in Nat /\ p \in Nat /\ handles[h].child = p
  BY <1>1, <1>2 DEF Inv, Registry, Started, Minted
<1>8. asked' \in Asked /\ asked'.handle = h /\ asked'.child = p
  BY <1>3, <1>7 DEF Asked, Nobody
<1>9. Typed'
  BY <1>1, <1>6, <1>8 DEF Inv, Typed
<1>10. /\ DOMAIN ports' = DOMAIN ports \ {handles[h].id}
       /\ \A id \in DOMAIN ports' : id \in DOMAIN ports /\ ports'[id] = ports[id]
  BY <1>3
<1>11. Registry'
  BY <1>1, <1>6, <1>10 DEF Inv, Registry
<1>12. Peered'
  BY <1>1, <1>6, <1>7, <1>8 DEF Peered
<1>13. \A d \in Started : (children'[d].noisy <=> children[d].noisy) /\ children'[d].state = children[d].state
  BY <1>5, <1>6
<1>14. Answers' /\ AnswersItsRequest'
  BY <1>1, <1>6, <1>13, SameAnswer
<1>15. ASSUME NEW d \in Started
       PROVE  Kept(d)'
  <2>1. CASE d = p
    <3>1. ~\E id \in DOMAIN ports' : ports'[id] = p
      BY <1>1, <1>2, <1>10 DEF Inv, Registry
    <3> QED BY <1>1, <1>8, <2>1, <3>1 DEF Kept
  <2>2. CASE d # p
    <3>1. (\E id \in DOMAIN ports' : ports'[id] = d) <=> (\E id \in DOMAIN ports : ports[id] = d)
      BY <1>2, <1>10, <2>2
    <3> QED BY <1>1, <1>6, <2>2, <3>1 DEF Inv, Kept
  <2> QED BY <2>1, <2>2
<1>16. Past(p)' /\ Settled(p)'
  BY <1>1, <1>4, <1>5, <1>6 DEF Past, Settled
<1>17. Paired(p)'
  BY <1>4, <1>5, <1>6 DEF Paired
<1>18. UNCHANGED <<handles, nextId, calls>> /\ phase' # "over"
  BY <1>1
<1> QED BY <1>1, <1>2, <1>3, <1>5, <1>8, <1>9, <1>11, <1>12, <1>14, <1>15, <1>16, <1>17, <1>18, PeerStep

\* The program ends and its children with it.
LEMMA FinishInv == ASSUME Inv, Finish PROVE Inv'
<1>1. /\ phase = "idle" /\ phase' = "over"
      /\ UNCHANGED <<ports, nextId, handles, asked, calls, last>>
      /\ children' = [c \in Started |-> [children[c] EXCEPT !.open = FALSE]]
  BY Domains DEF Finish, Inv
<1>2. ASSUME NEW c \in Started
      PROVE  LET x == children[c]
                 y == children'[c]
             IN  /\ y \in ChildT /\ y.in = x.in /\ y.out = x.out /\ y.state = x.state
                 /\ y.then = x.then /\ y.left = x.left /\ (y.noisy <=> x.noisy)
  <2> DEFINE x == children[c]
             y == [x EXCEPT !.open = FALSE]
  <2>1. x \in ChildT
    BY Domains DEF Inv
  <2>2. /\ y \in ChildT /\ y.in = x.in /\ y.out = x.out /\ y.state = x.state
        /\ y.then = x.then /\ y.left = x.left /\ (y.noisy <=> x.noisy)
    BY <2>1 DEF ChildT
  <2>3. children'[c] = y
    BY <1>1
  <2> HIDE DEF y
  <2> QED BY <2>2, <2>3
<1>3. children' \in Seq(ChildT) /\ Started' = Started /\ Minted' = Minted
  <2>1. Len(children) \in Nat /\ Started = 1..Len(children)
    BY LenProperties DEF Inv, Typed, Started
  <2> DEFINE g(c) == [children[c] EXCEPT !.open = FALSE]
  <2>2. children' = [c \in 1..Len(children) |-> g(c)] /\ \A c \in 1..Len(children) : g(c) \in ChildT
    <3>1. \A c \in Started : children'[c] = g(c) /\ children'[c] \in ChildT
      BY <1>1, <1>2
    <3> QED BY <1>1, <2>1, <3>1
  <2> HIDE DEF g
  <2>3. children' \in Seq(ChildT) /\ Len(children') = Len(children)
    BY <2>1, <2>2, IsASeq, LenProperties
  <2> QED BY <1>1, <2>3 DEF Started, Minted
<1>4. Typed' /\ Registry' /\ Peered'
  BY <1>1, <1>3 DEF Inv, Typed, Registry, Peered
<1>5. Answers' /\ AnswersItsRequest'
  BY <1>1, <1>2, <1>3, SameAnswer
<1>6. ASSUME NEW c \in Started
      PROVE  Past(c)' /\ Paired(c)' /\ Settled(c)' /\ Kept(c)'
  <2>1. Past(c) /\ Paired(c) /\ Settled(c) /\ ~Asking(c) /\ ~Asking(c)'
    BY <1>1 DEF Inv, Asking
  <2>2. /\ children'[c].in = children[c].in /\ children'[c].out = children[c].out
        /\ children'[c].state = children[c].state /\ children'[c].then = children[c].then
        /\ children'[c].left = children[c].left /\ (children'[c].noisy <=> children[c].noisy)
    BY <1>2
  <2>3. Past(c)' /\ Settled(c)' /\ Kept(c)'
    BY <1>1, <2>1, <2>2 DEF Past, Settled, Kept
  <2>4. Paired(c)'
    BY <2>1, <2>2 DEF Paired
  <2> QED BY <2>3, <2>4
<1> QED BY <1>3, <1>4, <1>5, <1>6 DEF Inv

-------------------------------------------------------------------------------

\* Every step keeps the invariant.
LEMMA StepInv == Inv /\ [Next]_vars => Inv'
<1> SUFFICES ASSUME Inv, [Next]_vars
             PROVE  Inv'
  OBVIOUS
<1>1. DOMAIN handles = Minted /\ DOMAIN children = Started
  BY Domains DEF Inv
<1>2. ASSUME NEW c \in Started, Child(c)
      PROVE  Inv'
  BY <1>2, ServeInv, SayInv, StateInv DEF Child
<1>3. ASSUME NEW h \in Minted, Close(h) \/ \E f \in Functions : Call(h, f) \/ CallStale(h, f)
      PROVE  Inv'
  BY <1>3, CloseInv, CallInv, CallStaleInv
<1>4. CASE Program
  BY <1>1, <1>3, <1>4, OpenInv, WriteInv, ReadInv, ReapInv, FinishInv DEF Program
<1>5. CASE UNCHANGED vars
  <2>1. /\ UNCHANGED <<ports, nextId, children, handles, phase, asked, calls, last>>
        /\ Started' = Started /\ Minted' = Minted
    BY <1>5 DEF vars, program, Started, Minted
  <2>2. Typed' /\ Registry' /\ Peered' /\ Answers' /\ AnswersItsRequest'
    BY <2>1, SameAnswer DEF Inv, Typed, Registry, Peered
  <2>3. ASSUME NEW c \in Started
        PROVE  Past(c)' /\ Paired(c)' /\ Settled(c)' /\ Kept(c)'
    <3>1. Past(c)' /\ Settled(c)' /\ Kept(c)'
      BY <2>1 DEF Inv, Past, Settled, Kept
    <3>2. Paired(c) /\ (Asking(c)' <=> Asking(c))
      BY <2>1 DEF Inv, Asking
    <3>3. Paired(c)'
      BY <2>1, <3>2 DEF Paired
    <3> QED BY <3>1, <3>3
  <2> QED BY <2>1, <2>2, <2>3 DEF Inv
<1> QED BY <1>1, <1>2, <1>4, <1>5 DEF Next

\* The invariant both theorems follow from.
LEMMA Always == Spec => []Inv
<1>1. Init /\ [][Next]_vars => []Inv
  BY InitInv, StepInv, PTL
<1> QED BY <1>1, PTL DEF Spec

LEMMA ReapedInv == Inv => ClosedIsReaped
<1> SUFFICES ASSUME Inv, phase = "idle", NEW c \in DOMAIN children
             PROVE  IF c \in Range(ports) THEN children[c].open ELSE children[c].state = "exited"
  BY DEF ClosedIsReaped
<1>1. c \in Started /\ Kept(c)
  BY Domains DEF Inv
<1>2. c \in Range(ports) <=> \E id \in DOMAIN ports : ports[id] = c
  BY DEF Range
<1> QED BY <1>1, <1>2 DEF Kept

\* Whose answer a call gets: the child's the handle was opened for, to this very
\* request unless that port's functions have printed, and never a later one's.
THEOREM AnswersOwn == Spec => []AnswersItsRequest
<1>1. Inv => AnswersItsRequest
  BY DEF Inv
<1> QED BY <1>1, Always, PTL

\* A close that has returned has reaped its child, whatever the child's functions
\* did, and no other child is touched by it.
THEOREM ReapedOnClose == Spec => []ClosedIsReaped
BY ReapedInv, Always, PTL

===============================================================================
