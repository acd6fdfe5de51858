--------------------------- MODULE RemotePolicy ---------------------------
(***************************************************************************)
(* What a caller of the remote client (python/wam/remote.py) relies on:    *)
(* a predict or reset that returns ran on the model during the call, one   *)
(* that raises may have run or not, and every call ends.                   *)
(***************************************************************************)
CONSTANT Clients

VARIABLE call   \* of each client: "returned" or "raised" between calls,
                \* "called", "ran" and "lost" inside one

Begin(k) == /\ call[k] \in {"returned", "raised"}
            /\ call' = [call EXCEPT ![k] = "called"]

Run(k) == call[k] = "called" /\ call' = [call EXCEPT ![k] = "ran"]

Return(k) == call[k] = "ran" /\ call' = [call EXCEPT ![k] = "returned"]

(* The server is gone: whatever ran, the caller will not hear of it.       *)
Lose(k) == /\ call[k] \in {"called", "ran"}
           /\ call' = [call EXCEPT ![k] = "lost"]

Raise(k) == /\ call[k] \in {"called", "ran", "lost"}
            /\ call' = [call EXCEPT ![k] = "raised"]

(* connect() and close() run nothing.                                      *)
Manage(k) == /\ call[k] \in {"returned", "raised"}
             /\ \E end \in {"returned", "raised"} :
                  call' = [call EXCEPT ![k] = end]

Init == call = [k \in Clients |-> "returned"]

Next == \E k \in Clients :
          \/ Begin(k) \/ Run(k) \/ Return(k) \/ Lose(k) \/ Raise(k)
          \/ Manage(k)

(* What a call may do, and that it ends.                                   *)
Safety == Init /\ [][Next]_call

Spec == Safety /\ \A k \in Clients : WF_call(Return(k) \/ Raise(k))
=============================================================================
