----------------------------- MODULE RpcSystem -----------------------------
(***************************************************************************)
(* Remote clients (python/wam/remote.py, Client) against the server of     *)
(* ServiceCore.  A client is a blocking state machine: it opens a socket,  *)
(* says Hello, then exchanges one request for one response at a time.  A   *)
(* socket is a connection of ServiceCore, whose peer actions the client's  *)
(* methods perform; a client that reconnects takes a new one.              *)
(***************************************************************************)
EXTENDS ServiceCore

CONSTANTS Clients,       \* Client objects
          NoSocket,      \* Client.socket is None
          LastId,        \* bound on request_id
          Interrupts     \* whether recv() may be interrupted (Ctrl-C)

(* Every request a client can send: Hello, and ids up to the bound; a call *)
(* that connects first counts from 1 again.                                *)
ClientFrames ==
  {[id |-> 0, payload |-> "hello"]}
    \cup [id : 0..LastId + 1, payload : {"predict", "reset", "close"}]

ASSUME ClientAssumption == /\ NoSocket \notin Connections
                           /\ LastId \in Nat \ {0} /\ Interrupts \in BOOLEAN
                           /\ ClientFrames \subseteq Frames

Methods == {"connect", "predict", "reset", "close"}

VARIABLES
  socket,      \* a connection, or NoSocket
  request_id,
  method,      \* the method the caller is in, or "none"
  exchange,    \* how far it is: "none", "connected" (Hello not sent yet),
               \* or the payload whose response recv() waits for
  raised,      \* the last call ended in an exception
  stale,       \* history: sockets on which a call returned the response to
               \* an earlier, interrupted one
  ran          \* history: sockets whose last request ran to its end

history == <<stale, ran>>
local == <<socket, request_id, method, exchange, raised>>
allvars == <<vars, local, history>>

ClientTypeOK ==
  /\ TypeOK
  /\ socket \in [Clients -> Connections \cup {NoSocket}]
  /\ request_id \in [Clients -> 0..LastId + 1]
  /\ method \in [Clients -> Methods \cup {"none"}]
  /\ exchange \in [Clients -> {"none", "connected", "hello"} \cup Methods]
  /\ raised \in [Clients -> BOOLEAN]
  /\ stale \subseteq Connections /\ ran \subseteq Connections

ClientInit ==
  /\ Init
  /\ socket = [k \in Clients |-> NoSocket]
  /\ request_id = [k \in Clients |-> 0]
  /\ method = [k \in Clients |-> "none"]
  /\ exchange = [k \in Clients |-> "none"]
  /\ raised = [k \in Clients |-> FALSE]
  /\ stale = {} /\ ran = {}

-----------------------------------------------------------------------------
(* How a call ends.                                                        *)

Ends(k, fails) ==
  /\ method' = [method EXCEPT ![k] = "none"]
  /\ exchange' = [exchange EXCEPT ![k] = "none"]
  /\ raised' = [raised EXCEPT ![k] = fails]

(* socket.close(), of a socket that may be closed already; socket = None.  *)
CloseSocket(k) ==
  /\ IF peer[socket[k]] = "open" THEN PeerLeave(socket[k]) ELSE UNCHANGED vars
  /\ socket' = [socket EXCEPT ![k] = NoSocket]

(* An exception.  close() closes the socket in a finally, any other method *)
(* leaves it in place, dead or alive.                                      *)
Raise(k) ==
  /\ Ends(k, TRUE)
  /\ IF method[k] = "close" THEN CloseSocket(k) ELSE UNCHANGED <<vars, socket>>
  /\ UNCHANGED <<request_id, history>>

-----------------------------------------------------------------------------
(* The caller enters a method.  connect() with a socket, close() without   *)
(* one and reset() without one end at once and change nothing.             *)
Call(k, m) ==
  /\ method[k] = "none" /\ request_id[k] <= LastId
  /\ m = "connect" => socket[k] = NoSocket
  /\ m \in {"reset", "close"} => socket[k] # NoSocket
  /\ method' = [method EXCEPT ![k] = m]
  /\ raised' = [raised EXCEPT ![k] = FALSE]
  /\ UNCHANGED <<vars, socket, request_id, exchange, history>>

Connecting(k) == /\ method[k] \in {"connect", "predict"}
                 /\ socket[k] = NoSocket

Open(k) == \E s \in Connections :
  /\ Connecting(k)
  /\ Connect(s)
  /\ socket' = [socket EXCEPT ![k] = s]
  /\ exchange' = [exchange EXCEPT ![k] = "connected"]
  /\ UNCHANGED <<request_id, method, raised, history>>

(* TimeoutError: nobody accepts, or the instance has no socket left.       *)
GiveUp(k) ==
  /\ Connecting(k)
  /\ stopping \/ \A s \in Connections : peer[s] # "new"
  /\ Raise(k)

(* Hello has id 0, every other request the client's counter.               *)
Sends(k, id, payload) ==
  /\ PeerSend(socket[k], [id |-> id, payload |-> payload])
  /\ exchange' = [exchange EXCEPT ![k] = payload]
  /\ ran' = ran \ {socket[k]}
  /\ UNCHANGED <<socket, request_id, method, raised, stale>>

SendHello(k) == exchange[k] = "connected" /\ Sends(k, 0, "hello")

AboutToSend(k) == /\ method[k] \in {"predict", "reset", "close"}
                  /\ exchange[k] = "none" /\ socket[k] # NoSocket

SendRequest(k) == AboutToSend(k) /\ Sends(k, request_id[k], method[k])

(* predict checks its images before it sends.                              *)
BadInput(k) == method[k] = "predict" /\ AboutToSend(k) /\ Raise(k)

(* The socket is closed: by the network, or by the server's close frame.   *)
Dead(s) == peer[s] = "left" \/ pc[s] \in {"hangup", "done"}

SendFails(k) ==
  /\ exchange[k] = "connected" \/ AboutToSend(k)
  /\ Dead(socket[k])
  /\ Raise(k)

-----------------------------------------------------------------------------
(* The response.                                                           *)

Awaits(k) == exchange[k] \in {"hello"} \cup Methods

SentId(k) == IF exchange[k] = "hello" THEN 0 ELSE request_id[k]

Reads(k) == Awaits(k) /\ outbox[socket[k]] # <<>>

Response(k) == Head(outbox[socket[k]])

Consumes(k) == IF method[k] = "close" THEN CloseSocket(k)
                                      ELSE PeerReceive(socket[k]) /\ UNCHANGED socket

(* mutant: only a result counts *)
CountOnSuccess(k) ==
  request_id' = [request_id EXCEPT ![k] =
                   IF /\ exchange[k] \in {"predict", "reset"}
                      /\ Response(k).kind = exchange[k] THEN @ + 1 ELSE @]

(* The counter of predict and reset moves with any response that has its   *)
(* id, before the payload is looked at.                                    *)
Counts(k) ==
  request_id' = [request_id EXCEPT ![k] =
                   IF exchange[k] \in {"predict", "reset"} THEN @ + 1 ELSE @]

WrongId(k) ==
  /\ Reads(k) /\ Response(k).id # SentId(k)
  /\ Consumes(k) /\ Ends(k, TRUE)
  /\ UNCHANGED <<request_id, history>>

Accepted(k) ==
  /\ Reads(k)
  /\ Response(k).id = SentId(k) /\ Response(k).kind = exchange[k]
  /\ Consumes(k)
  /\ IF exchange[k] = "hello"
       THEN /\ request_id' = [request_id EXCEPT ![k] = 1]
            /\ IF method[k] = "connect"
                 THEN Ends(k, FALSE)
                 ELSE /\ exchange' = [exchange EXCEPT ![k] = "none"]
                      /\ UNCHANGED <<method, raised>>
       ELSE Counts(k) /\ Ends(k, FALSE)
  /\ stale' = IF Len(asked[socket[k]]) > 1 THEN stale \cup {socket[k]} ELSE stale
  /\ UNCHANGED ran

(* RemoteError: a fatal one closes the socket, any other keeps it.         *)
Refused(k) ==
  /\ Reads(k)
  /\ Response(k).id = SentId(k) /\ Response(k).kind # exchange[k]
  /\ IF Response(k).kind = "fatal" THEN CloseSocket(k) ELSE Consumes(k)
  /\ Counts(k) /\ Ends(k, TRUE)
  /\ UNCHANGED history

(* ConnectionClosed from recv(), after everything received was read.       *)
Lost(k) ==
  /\ Awaits(k) /\ Dead(socket[k]) /\ outbox[socket[k]] = <<>>
  /\ Raise(k)

(* KeyboardInterrupt out of recv(): the response is still to come.  As     *)
(* long as Window leaves room for another request.                         *)
Interrupt(k) == /\ Interrupts /\ Awaits(k) /\ Len(asked[socket[k]]) < Window
                /\ Raise(k)

(* The network fails, under a call or between two.                         *)
Disconnect(k) ==
  /\ socket[k] # NoSocket /\ peer[socket[k]] = "open"
  /\ PeerLeave(socket[k])
  /\ IF exchange[k] = "none"
       THEN UNCHANGED <<socket, method, exchange, raised>>
       ELSE /\ Ends(k, TRUE)
            /\ socket' = [socket EXCEPT ![k] =
                            IF method[k] = "close" THEN NoSocket ELSE @]
  /\ UNCHANGED <<request_id, history>>

-----------------------------------------------------------------------------
(* What a call in progress does next.                                      *)
Proceed(k) ==
  \/ Open(k) \/ GiveUp(k) \/ SendHello(k) \/ SendRequest(k) \/ BadInput(k)
  \/ SendFails(k) \/ WrongId(k) \/ Accepted(k) \/ Refused(k) \/ Lost(k)

(* The client is not involved.                                             *)
Serves == /\ UNCHANGED <<local, stale>>
          /\ ran' = ran \cup {s \in Connections :
                                /\ pc[s] = "inflight"
                                /\ worker[s] = "native" /\ worker'[s] = "ok"}

Server == /\ (\E s \in Connections : Worker(s) \/ Handler(s)) \/ Stop
          /\ Serves

(* Every caller is out of the client, and the server has nothing to do.    *)
Idle ==
  /\ \A k \in Clients : method[k] = "none"
  /\ \A s \in Connections : /\ ~Running(s)
                            /\ pc[s] \in {"idle", "done"}
                                 \/ (pc[s] = "recv" /\ inbox[s] = <<>>)
  /\ UNCHANGED allvars

ClientNext == \/ \E k \in Clients : \/ \E m \in Methods : Call(k, m)
                                    \/ Proceed(k) \/ Interrupt(k)
                                    \/ Disconnect(k)
              \/ Server
              \/ Idle

RpcSpec == ClientInit /\ [][ClientNext]_allvars

RpcFairness ==
  /\ \A s \in Connections : /\ WF_allvars(Handler(s) /\ Serves)
                            /\ WF_allvars(Worker(s) /\ Serves)
  /\ \A k \in Clients : WF_allvars(Proceed(k))

FairRpcSpec == RpcSpec /\ RpcFairness

-----------------------------------------------------------------------------
(* Properties                                                              *)

(* Whatever went wrong before, a client and a server that have nothing     *)
(* under way agree on the id of the next request: request_id (remote.py)   *)
(* is expected_request_id (core.py) of its connection.                     *)
IdsAgree ==
  \A k \in Clients : LET s == socket[k] IN
    (s # NoSocket /\ exchange[k] = "none") =>
      (peer[s] = "open" /\ asked[s] = <<>> /\ session[s] = "open"
         /\ pc[s] \notin {"hangup", "done"}
       => request_id[k] = expected[s])

(* An interrupted call can make a later one return the response it left    *)
(* behind; then the server refuses the repeated id, and no call on that    *)
(* socket returns any more.                                                *)
OneStaleResponse ==
  [][\A k \in Clients :
       (/\ method[k] \in {"predict", "reset"} /\ method'[k] = "none"
        /\ ~raised'[k]) => socket[k] \notin stale]_allvars

(* What has become of the call a client is in.  A request runs when its    *)
(* native call returns a result.                                           *)
CallOf(k) ==
  IF method[k] \notin {"predict", "reset"}
    THEN IF raised[k] THEN "raised" ELSE "returned"
  ELSE IF exchange[k] # method[k] THEN "called"
  ELSE IF socket[k] \in ran THEN "ran"
  ELSE IF pc[socket[k]] = "done" THEN "lost" ELSE "called"

(* Without interrupts the client implements RemotePolicy: what it returns  *)
(* ran, in the call that returns it, and every call ends.                  *)
Policy == INSTANCE RemotePolicy WITH call <- [k \in Clients |-> CallOf(k)]

ImplementsPolicy == Policy!Spec
=============================================================================
