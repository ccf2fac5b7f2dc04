------------------------------- MODULE MCPorts -------------------------------
(* Ports with a function of each kind. *)
EXTENDS Ports

Fn(prints, ends) == [prints |-> prints, ends |-> ends]
EachKind == {Fn(0, "ok"), Fn(0, "raises"), Fn(0, "malformed"), Fn(0, "hangs"), Fn(1, "exits"), Fn(2, "ok")}
===============================================================================
