-------------------------------- MODULE Ports --------------------------------
(***************************************************************************)
(* Process ports: PortRegistry (ports.rs), the builtins over it, and the   *)
(* loop of the child each port starts (py/port_harness.py).                *)
(*                                                                         *)
(* The program is sequential and blocks in a call or a close; each child   *)
(* runs on its own.  The two talk through two pipes of bounded capacity,   *)
(* a request or a response to the line.  A foreign function may write to   *)
(* its standard output, the pipe the responses use, may end the child      *)
(* (`sys.exit` is no `Exception`), and may never return.                   *)
(***************************************************************************)
EXTENDS Integers, SequencesExt

CONSTANTS
    Functions,   \* what can be called: lines written and how the call ends
    MaxPorts,    \* bound: children started
    MaxCalls,    \* bound: calls made
    InCap,       \* requests a child's input pipe holds
    OutCap       \* lines a child's output pipe holds

ASSUME PortsAssumption ==
    /\ \A f \in Functions :
          /\ f.prints \in Nat
          /\ f.ends \in {"ok", "raises", "malformed", "exits", "hangs"}
    /\ {MaxPorts, MaxCalls} \subseteq Nat /\ {InCap, OutCap} \subseteq Nat \ {0}

VARIABLES
    ports,       \* PortRegistry::ports: the open ids and the child of each
    nextId,      \* PortRegistry::next_id
    children,    \* every child started, in order
    handles,     \* history: the child each handle was minted for
    phase,       \* "idle", "writing", "reading", "closing" or "over"
    asked,       \* the handle, child and request of the call or close under way
    calls,       \* history: calls made, which numbers the requests
    last         \* history: the last call that returned

program == <<phase, asked, calls, last>>
vars == <<ports, nextId, children, handles, program>>

Nobody == [handle |-> 0, child |-> 0, req |-> [n |-> 0, f |-> 0]]
NoCall == [asked |-> Nobody, tag |-> "none", line |-> [n |-> 0, child |-> 0, kind |-> "none"]]

NewChild ==
    [in |-> <<>>, out |-> <<>>, open |-> TRUE, state |-> "waiting",
     left |-> <<>>, then |-> "waiting", noisy |-> FALSE]

Init ==
    /\ ports = <<>> /\ nextId = 1
    /\ children = <<>>
    /\ handles = <<>>
    /\ phase = "idle" /\ asked = Nobody /\ calls = 0 /\ last = NoCall

-----------------------------------------------------------------------------
(* The program. *)

\* Slip: the id after the number of open ports, so a closed one's comes back.
MintedIdReused == Cardinality(DOMAIN ports) + 1

\* The id handed out with a handle: the counter never goes back.
MintedId == nextId

\* port_open that succeeds; where it fails it changes nothing.
Open ==
    /\ phase = "idle" /\ Len(children) < MaxPorts
    /\ children' = Append(children, NewChild)
    /\ ports' = [id \in DOMAIN ports \cup {MintedId} |->
                    IF id = MintedId THEN Len(children) + 1 ELSE ports[id]]
    /\ handles' = Append(handles, [id |-> MintedId, child |-> Len(children) + 1])
    /\ nextId' = nextId + 1
    /\ UNCHANGED program

Answered(tag, line) ==
    /\ last' = [asked |-> asked', tag |-> tag, line |-> line]
    /\ phase' = "idle"

\* port_call on a handle that is not open is answered without a child.
CallStale(h, f) ==
    /\ phase = "idle" /\ calls < MaxCalls
    /\ handles[h].id \notin DOMAIN ports
    /\ calls' = calls + 1
    /\ asked' = [handle |-> h, child |-> 0, req |-> [n |-> calls', f |-> f]]
    /\ Answered("port-closed", NoCall.line)
    /\ UNCHANGED <<ports, nextId, children, handles>>

Call(h, f) ==
    /\ phase = "idle" /\ calls < MaxCalls
    /\ handles[h].id \in DOMAIN ports
    /\ calls' = calls + 1
    /\ asked' = [handle |-> h, child |-> ports[handles[h].id], req |-> [n |-> calls', f |-> f]]
    /\ phase' = "writing"
    /\ UNCHANGED <<ports, nextId, children, handles, last>>

Peer == children[asked.child]

\* The request goes into the pipe, waiting for room; a pipe nobody reads is an error.
Write ==
    /\ phase = "writing"
    /\ UNCHANGED <<ports, nextId, handles, asked, calls>>
    /\ \/ /\ Peer.state = "exited"
          /\ Answered("port-protocol", NoCall.line)
          /\ UNCHANGED children
       \/ /\ Peer.state # "exited" /\ Len(Peer.in) < InCap
          /\ children' = [children EXCEPT ![asked.child].in = Append(@, asked.req)]
          /\ phase' = "reading"
          /\ UNCHANGED last

\* The tag a line earns, whoever wrote it.  A stray line is taken to be no JSON object.
TagOf(line) ==
    CASE line.kind = "ok"   -> "nil"
      [] line.kind = "err"  -> "port-call"
      [] line.kind \in {"perr", "stray"} -> "port-protocol"

\* One line is read, and it is the answer; the end of the pipe is an error.
Read ==
    /\ phase = "reading"
    /\ UNCHANGED <<ports, nextId, handles, asked, calls>>
    /\ \/ /\ Peer.out # <<>>
          /\ Answered(TagOf(Head(Peer.out)), Head(Peer.out))
          /\ children' = [children EXCEPT ![asked.child].out = Tail(@)]
       \/ /\ Peer.out = <<>> /\ Peer.state = "exited"
          /\ Answered("port-protocol", NoCall.line)
          /\ UNCHANGED children

\* Slip: the input pipe is dropped after the wait.
CloseWaitsFirst(h) ==
    /\ phase = "idle" /\ handles[h].id \in DOMAIN ports
    /\ ports' = [id \in DOMAIN ports \ {handles[h].id} |-> ports[id]]
    /\ asked' = [Nobody EXCEPT !.handle = h, !.child = ports[handles[h].id]]
    /\ phase' = "closing"
    /\ UNCHANGED <<nextId, children, handles, calls, last>>

\* port_close: the id is gone at once, the input pipe is dropped, and the child is waited for.
Close(h) ==
    /\ phase = "idle" /\ handles[h].id \in DOMAIN ports
    /\ LET c == ports[handles[h].id] IN
        /\ ports' = [id \in DOMAIN ports \ {handles[h].id} |-> ports[id]]
        /\ children' = [children EXCEPT ![c].open = FALSE]
        /\ asked' = [Nobody EXCEPT !.handle = h, !.child = c]
        /\ phase' = "closing"
    /\ UNCHANGED <<nextId, handles, calls, last>>

\* Slip: the child is not waited for.
ReapNobody ==
    /\ phase = "closing"
    /\ phase' = "idle"
    /\ UNCHANGED <<ports, nextId, children, handles, asked, calls, last>>

Reap ==
    /\ phase = "closing" /\ Peer.state = "exited"
    /\ phase' = "idle"
    /\ UNCHANGED <<ports, nextId, children, handles, asked, calls, last>>

\* Slip: the input pipes outlive the registry.
FinishLeaks ==
    /\ phase = "idle"
    /\ phase' = "over"
    /\ UNCHANGED <<ports, nextId, children, handles, asked, calls, last>>

\* The program ends: its ends of every pipe close and no child is waited for.
Finish ==
    /\ phase = "idle"
    /\ phase' = "over"
    /\ children' = [c \in DOMAIN children |-> [children[c] EXCEPT !.open = FALSE]]
    /\ UNCHANGED <<ports, nextId, handles, asked, calls, last>>

-----------------------------------------------------------------------------
(* A child. *)

\* The lines one request brings about: the function's own, then the response if there is one.
Lines(c, r) ==
    LET line(kind) == [n |-> r.n, child |-> c, kind |-> kind]
        response == CASE r.f.ends = "ok"        -> <<line("ok")>>
                      [] r.f.ends = "raises"    -> <<line("err")>>
                      [] r.f.ends = "malformed" -> <<line("perr")>>
                      [] OTHER                  -> <<>>
    IN  [i \in 1..r.f.prints |-> line("stray")] \o response

\* What the child does after them: the loop goes on, the interpreter exits, or it hangs.
After(f) ==
    CASE f.ends = "exits" -> "exited"
      [] f.ends = "hangs" -> "hung"
      [] OTHER            -> "waiting"

\* The loop takes a request and runs the function.
Serve(c) ==
    /\ children[c].state = "waiting" /\ children[c].in # <<>>
    /\ LET r == Head(children[c].in) IN
        children' = [children EXCEPT
            ![c].in = Tail(@), ![c].state = "writing",
            ![c].left = Lines(c, r), ![c].then = After(r.f),
            ![c].noisy = @ \/ r.f.prints > 0]
    /\ UNCHANGED <<ports, nextId, handles, program>>

\* Writing the next line waits for room in the pipe, and fails when nobody holds the other end.
Say(c) ==
    /\ children[c].state = "writing" /\ children[c].left # <<>>
    /\ children' =
         IF phase = "over"
         THEN [children EXCEPT ![c].state = "exited", ![c].left = <<>>]
         ELSE [children EXCEPT ![c].left = Tail(@), ![c].out = Append(@, Head(children[c].left))]
    /\ phase = "over" \/ Len(children[c].out) < OutCap
    /\ UNCHANGED <<ports, nextId, handles, program>>

Resume(c) ==
    /\ children[c].state = "writing" /\ children[c].left = <<>>
    /\ children' = [children EXCEPT ![c].state = children[c].then]
    /\ UNCHANGED <<ports, nextId, handles, program>>

\* The loop ends at the end of the input pipe.
EndOfInput(c) ==
    /\ children[c].state = "waiting" /\ children[c].in = <<>> /\ ~children[c].open
    /\ children' = [children EXCEPT ![c].state = "exited"]
    /\ UNCHANGED <<ports, nextId, handles, program>>

Child(c) == Serve(c) \/ Say(c) \/ Resume(c) \/ EndOfInput(c)

Program ==
    \/ Open \/ Write \/ Read \/ Reap \/ Finish
    \/ \E h \in DOMAIN handles :
          \/ Close(h)
          \/ \E f \in Functions : Call(h, f) \/ CallStale(h, f)

Next == Program \/ \E c \in DOMAIN children : Child(c)

\* The operating system runs every child that can run, and the program while
\* it is inside a builtin.  Nothing makes the program call, close or finish.
Spec ==
    /\ Init /\ [][Next]_vars
    /\ WF_vars(Write) /\ WF_vars(Read) /\ WF_vars(Reap)
    /\ \A c \in 1..MaxPorts : WF_vars(c \in DOMAIN children /\ Child(c))

-----------------------------------------------------------------------------
(* Properties. *)

Noisy(c) == c # 0 /\ children[c].noisy
Hung(c) == c # 0 /\ children[c].state = "hung"

\* A call is answered by the child its handle was opened for, and with the
\* response to this very request, unless a function called on that port has
\* written to standard output: from then on the lines lag behind the requests
\* and a call gets the answer to an earlier one.  Never that of a later one.
AnswersItsRequest ==
    LET r == last.asked.req IN
    last.line.n # 0 =>
        /\ last.line.child = handles[last.asked.handle].child
        /\ last.line.n <= r.n
        /\ ~Noisy(last.line.child) =>
             /\ last.line.n = r.n
             /\ last.tag = CASE r.f.ends = "ok"     -> "nil"
                             [] r.f.ends = "raises" -> "port-call"
                             [] OTHER               -> "port-protocol"

\* When a close has returned, its child has been reaped: outside a builtin, a
\* child that is in no port of the registry has exited, and a port whose id is
\* in the registry still has its input pipe, so that it can be called.
ClosedIsReaped ==
    phase = "idle" => \A c \in DOMAIN children :
        IF c \in Range(ports) THEN children[c].open ELSE children[c].state = "exited"

\* A builtin returns: the request is written, one line or the end of the pipe is
\* read, the closed child exits.  There is no timeout, so a function that never
\* returns holds the call, or the close, for ever; and where the children's
\* output pipe is full of lines nobody reads, a write or a close may wait for
\* ever, while a read still returns.
Returns ==
    phase \in {"writing", "reading", "closing"} ~>
        \/ phase = "idle"
        \/ Hung(asked.child)
        \/ phase # "reading" /\ Noisy(asked.child)

\* Once the program has ended, no child runs on but one whose function hangs:
\* each sees the end of its input or a broken output pipe.
ChildrenEnd ==
    phase = "over" ~> \A c \in DOMAIN children : children[c].state = "exited" \/ Hung(c)
===============================================================================
