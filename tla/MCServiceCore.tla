-------------------------- MODULE MCServiceCore --------------------------
(* Instances of ServiceCore.                                               *)
EXTENDS ServiceCore, TLC

Frame(i, p) == [id |-> i, payload |-> p]

(* Every payload, at ids 0 and 1: a request in order or out of order at    *)
(* each point of a connection that lives for Hello and one more request.   *)
EveryFrame == [id : 0..1, payload : Payloads \ {"garbage"}]
                \cup {Frame(0, "garbage")}

(* Connections that open, then call twice. *)
CallFrames == {Frame(0, "hello"), Frame(1, "predict"), Frame(2, "reset")}

Interchangeable == Permutations(Connections)
=============================================================================
