-------------------------- MODULE RpcSystemProofs --------------------------
(***************************************************************************)
(* Clients and server together, for any number of clients, connections and *)
(* requests.  Each step of a client is one of a peer that ServiceCore      *)
(* allows, or none of the server's, so ServiceInv holds here as well.  On  *)
(* top of it, LinkInv says of each socket what the client counts and what  *)
(* the server expects while a request is under way; IdsAgree is what is    *)
(* left of it between two requests.  With interrupts a socket carries      *)
(* several requests, and CountedInv, RiseInv and StaleInv bound the ids of *)
(* what is under way; OneStaleResponse follows from them.                  *)
(***************************************************************************)
EXTENDS RpcSystem, ServiceCoreProofs

Methodical == {"hello", "predict", "reset", "close"}

(* The state of the clients on their own. *)
LocalTypes ==
  /\ socket \in [Clients -> Connections \cup {NoSocket}]
  /\ request_id \in [Clients -> 0..LastId + 1]
  /\ method \in [Clients -> Methods \cup {"none"}]
  /\ exchange \in [Clients -> {"none", "connected"} \cup Methodical]
  /\ raised \in [Clients -> BOOLEAN]

LocalOf(k) ==
  /\ method[k] = "none" => exchange[k] = "none"
  /\ method[k] # "none" => request_id[k] <= LastId
  /\ exchange[k] \in {"connected", "hello"} => method[k] \in {"connect", "predict"}
  /\ exchange[k] \in {"predict", "reset", "close"} => method[k] = exchange[k]
  /\ exchange[k] # "none" => socket[k] # NoSocket

(* A socket in use was opened, by this client alone. *)
OwnSocket(k) ==
  socket[k] # NoSocket =>
    /\ peer[socket[k]] # "new"
    /\ \A j \in Clients : socket[j] = socket[k] => j = k

HistoryTypes == stale \subseteq Connections /\ ran \subseteq Connections

LocalInv == /\ LocalTypes /\ HistoryTypes
            /\ \A k \in Clients : LocalOf(k) /\ OwnSocket(k)

(* A peer that has not connected has no session, and a connection without  *)
(* a session has counted nothing.                                          *)
FreshOf(c) ==
  /\ peer[c] = "new" => session[c] = "none"
  /\ pc[c] = "idle" => peer[c] = "new"
  /\ session[c] = "none" => expected[c] = 0

FreshInv == \A c \in Connections : FreshOf(c)

-----------------------------------------------------------------------------
(* What a step of a client may do to its own variables. *)
NewLocal(k, x, i, m, e, r) ==
  /\ socket' = [socket EXCEPT ![k] = x]
  /\ request_id' = [request_id EXCEPT ![k] = i]
  /\ method' = [method EXCEPT ![k] = m]
  /\ exchange' = [exchange EXCEPT ![k] = e]
  /\ raised' = [raised EXCEPT ![k] = r]

GoodLocal(k, x, i, m, e, r) ==
  /\ \/ x \in {socket[k], NoSocket}
     \/ x \in Connections /\ peer[x] = "new" /\ peer'[x] = "open"
  /\ i \in 0..LastId + 1 /\ m \in Methods \cup {"none"}
  /\ e \in {"none", "connected"} \cup Methodical /\ r \in BOOLEAN
  /\ m = "none" => e = "none"
  /\ m # "none" => i <= LastId
  /\ e \in {"connected", "hello"} => m \in {"connect", "predict"}
  /\ e \in {"predict", "reset", "close"} => m = e
  /\ e # "none" => x # NoSocket

ClientStep(k) ==
  \/ \E m \in Methods : Call(k, m)
  \/ Proceed(k) \/ Interrupt(k) \/ Disconnect(k)

(* It is a step of the peer behind its socket, or of none. *)
PeerStep(k) ==
  \/ \E c \in Connections : Peer(c) /\ (c = socket[k] \/ peer[c] = "new")
  \/ UNCHANGED vars

(* What a client sends is within the server's bounds. *)
LEMMA SentFrames ==
  ASSUME LocalTypes, NEW k \in Clients
  PROVE  /\ [id |-> 0, payload |-> "hello"] \in Frames
         /\ \A p \in {"predict", "reset", "close"} :
              [id |-> request_id[k], payload |-> p] \in Frames
BY ClientAssumption DEF LocalTypes, ClientFrames

(* An exception ends the call, and with close() the socket. *)
LEMMA RaiseForm ==
  ASSUME LocalTypes, NEW k \in Clients, Raise(k), LocalOf(k),
         method[k] = "close" => socket[k] # NoSocket
  PROVE  /\ PeerStep(k)
         /\ \E x \in {socket[k], NoSocket} :
              /\ NewLocal(k, x, request_id[k], "none", "none", TRUE)
              /\ method[k] = "close" => x = NoSocket
              /\ method[k] # "close" => UNCHANGED vars
<1>1. /\ method' = [method EXCEPT ![k] = "none"]
      /\ exchange' = [exchange EXCEPT ![k] = "none"]
      /\ raised' = [raised EXCEPT ![k] = TRUE]
      /\ request_id' = [request_id EXCEPT ![k] = request_id[k]]
  BY DEF Raise, Ends, LocalTypes
<1>2. CASE method[k] = "close"
  <2>1. socket[k] \in Connections
    BY <1>2 DEF LocalTypes
  <2>2. /\ PeerLeave(socket[k]) \/ UNCHANGED vars
        /\ socket' = [socket EXCEPT ![k] = NoSocket]
    BY <1>2 DEF Raise, CloseSocket
  <2>3. QED
    BY <1>1, <1>2, <2>1, <2>2 DEF NewLocal, PeerStep, Peer
<1>3. CASE method[k] # "close"
  <2>1. UNCHANGED vars /\ socket' = [socket EXCEPT ![k] = socket[k]]
    BY <1>3 DEF Raise, LocalTypes
  <2>2. QED
    BY <1>1, <1>3, <2>1 DEF NewLocal, PeerStep
<1>4. QED
  BY <1>2, <1>3

(* Every step of a client is such a change of its own variables. *)
LEMMA ClientForm ==
  ASSUME TypeOK, LocalInv, NEW k \in Clients, ClientStep(k)
  PROVE  /\ PeerStep(k)
         /\ HistoryTypes'
         /\ \E x, i, m, e, r :
              NewLocal(k, x, i, m, e, r) /\ GoodLocal(k, x, i, m, e, r)
<1>1. /\ LocalTypes /\ LocalOf(k) /\ HistoryTypes
      /\ socket[k] \in Connections \cup {NoSocket}
      /\ request_id[k] \in 0..LastId + 1
      /\ method[k] \in Methods \cup {"none"}
      /\ exchange[k] \in {"none", "connected"} \cup Methodical
      /\ raised[k] \in BOOLEAN
  BY DEF LocalInv, LocalTypes
<1>2. /\ socket = [socket EXCEPT ![k] = socket[k]]
      /\ request_id = [request_id EXCEPT ![k] = request_id[k]]
      /\ method = [method EXCEPT ![k] = method[k]]
      /\ exchange = [exchange EXCEPT ![k] = exchange[k]]
      /\ raised = [raised EXCEPT ![k] = raised[k]]
  BY <1>1 DEF LocalTypes
<1>3. CASE Raise(k) /\ (method[k] = "close" => socket[k] # NoSocket)
  <2>1. /\ PeerStep(k)
        /\ \E x \in {socket[k], NoSocket} :
             NewLocal(k, x, request_id[k], "none", "none", TRUE)
    BY <1>1, <1>3, RaiseForm
  <2>2. HistoryTypes'
    BY <1>1, <1>3 DEF Raise, history, HistoryTypes
  <2>3. \A x \in {socket[k], NoSocket} :
          GoodLocal(k, x, request_id[k], "none", "none", TRUE)
    BY <1>1 DEF GoodLocal
  <2>4. QED
    BY <2>1, <2>2, <2>3
<1>4. CASE \E m \in Methods : Call(k, m)
  <2>1. PICK m \in Methods : Call(k, m)
    BY <1>4
  <2>2. NewLocal(k, socket[k], request_id[k], m, exchange[k], FALSE)
    BY <1>2, <2>1 DEF Call, NewLocal
  <2>3. GoodLocal(k, socket[k], request_id[k], m, exchange[k], FALSE)
    BY <1>1, <2>1, ClientAssumption DEF Call, GoodLocal, LocalOf, Methods
  <2>4. PeerStep(k) /\ HistoryTypes'
    BY <1>1, <2>1 DEF Call, PeerStep, history, HistoryTypes
  <2>5. QED
    BY <2>2, <2>3, <2>4
<1>5. CASE Open(k)
  <2>1. PICK s \in Connections :
          /\ Connecting(k) /\ Connect(s)
          /\ socket' = [socket EXCEPT ![k] = s]
          /\ exchange' = [exchange EXCEPT ![k] = "connected"]
          /\ UNCHANGED <<request_id, method, raised, history>>
    BY <1>5 DEF Open
  <2>2. NewLocal(k, s, request_id[k], method[k], "connected", raised[k])
    BY <1>2, <2>1 DEF NewLocal
  <2>3. peer[s] = "new" /\ peer'[s] = "open"
    BY <2>1 DEF Connect, TypeOK
  <2>4. GoodLocal(k, s, request_id[k], method[k], "connected", raised[k])
    BY <1>1, <2>1, <2>3, ClientAssumption DEF Connecting, GoodLocal, LocalOf
  <2>5. PeerStep(k) /\ HistoryTypes'
    BY <1>1, <2>1, <2>3 DEF PeerStep, Peer, history, HistoryTypes
  <2>6. QED
    BY <2>2, <2>4, <2>5
<1>6. CASE GiveUp(k) \/ BadInput(k)
  BY <1>3, <1>6 DEF GiveUp, BadInput, Connecting
<1>7. CASE SendFails(k) \/ Lost(k) \/ Interrupt(k)
  BY <1>1, <1>3, <1>7 DEF SendFails, AboutToSend, Lost, Interrupt, Awaits, LocalOf, Methods
<1>8. CASE SendHello(k) \/ SendRequest(k)
  <2>1. PICK id \in 0..LastId + 1, payload \in Methodical :
          /\ Sends(k, id, payload)
          /\ [id |-> id, payload |-> payload] \in Frames
          /\ IF payload = "hello" THEN exchange[k] = "connected" ELSE method[k] = payload
          /\ socket[k] # NoSocket
    <3>1. CASE SendHello(k)
      <4>1. /\ Sends(k, 0, "hello") /\ exchange[k] = "connected"
            /\ socket[k] # NoSocket /\ 0 \in 0..LastId + 1
            /\ [id |-> 0, payload |-> "hello"] \in Frames
        <5>1. Sends(k, 0, "hello") /\ exchange[k] = "connected"
          BY <3>1 DEF SendHello
        <5>2. socket[k] # NoSocket
          BY <1>1, <5>1 DEF LocalOf
        <5>3. 0 \in 0..LastId + 1
          BY ClientAssumption
        <5>4. QED
          BY <1>1, <5>1, <5>2, <5>3, SentFrames
      <4>2. QED
        BY <4>1 DEF Methodical
    <3>2. CASE SendRequest(k)
      <4>1. /\ Sends(k, request_id[k], method[k]) /\ socket[k] # NoSocket
            /\ method[k] \in {"predict", "reset", "close"}
        BY <3>2 DEF SendRequest, AboutToSend
      <4>2. [id |-> request_id[k], payload |-> method[k]] \in Frames
        BY <1>1, <4>1, SentFrames
      <4>3. QED
        BY <1>1, <4>1, <4>2 DEF Methodical
    <3>3. QED
      BY <1>8, <3>1, <3>2
  <2>2. NewLocal(k, socket[k], request_id[k], method[k], payload, raised[k])
    BY <1>2, <2>1 DEF Sends, NewLocal
  <2>3. GoodLocal(k, socket[k], request_id[k], method[k], payload, raised[k])
    <3>1. method[k] # "none" /\ payload # "none" /\ payload # "connected"
      BY <1>1, <2>1 DEF LocalOf, Methodical
    <3>2. request_id[k] <= LastId
      BY <1>1, <3>1 DEF LocalOf
    <3>3. payload = "hello" => method[k] \in {"connect", "predict"}
      BY <1>1, <2>1 DEF LocalOf
    <3>4. payload # "hello" => method[k] = payload
      BY <2>1
    <3>5. QED
      BY <1>1, <2>1, <3>1, <3>2, <3>3, <3>4 DEF GoodLocal, Methodical
  <2>4. PeerStep(k)
    <3>1. /\ socket[k] \in Connections
          /\ PeerSend(socket[k], [id |-> id, payload |-> payload])
      BY <1>1, <2>1 DEF Sends
    <3>2. \E f \in Frames : PeerSend(socket[k], f)
      BY <2>1, <3>1, Zenon
    <3>3. Peer(socket[k])
      BY <3>2 DEF Peer
    <3>4. QED
      BY <3>1, <3>3 DEF PeerStep
  <2>5. HistoryTypes'
    BY <1>1, <2>1 DEF Sends, HistoryTypes
  <2>6. QED
    BY <2>2, <2>3, <2>4, <2>5
<1>9. ASSUME Reads(k)
      PROVE  /\ socket[k] \in Connections
             /\ exchange[k] \in Methodical /\ method[k] # "none"
  BY <1>1, <1>9 DEF Reads, Awaits, LocalOf, Methodical, Methods
<1>9a. ASSUME Reads(k), Consumes(k) \/ CloseSocket(k)
       PROVE  /\ PeerStep(k)
              /\ \E x \in {socket[k], NoSocket} : socket' = [socket EXCEPT ![k] = x]
  <2>1. socket[k] \in Connections
    BY <1>9, <1>9a
  <2>2. ASSUME CloseSocket(k)
        PROVE  PeerStep(k) /\ socket' = [socket EXCEPT ![k] = NoSocket]
    BY <2>1, <2>2 DEF CloseSocket, PeerStep, Peer
  <2>3. ASSUME PeerReceive(socket[k]), UNCHANGED socket
        PROVE  PeerStep(k) /\ socket' = [socket EXCEPT ![k] = socket[k]]
    BY <1>2, <2>1, <2>3 DEF PeerStep, Peer
  <2>4. QED
    BY <1>9a, <2>2, <2>3 DEF Consumes
<1>10. CASE WrongId(k)
  <2>1. PICK x \in {socket[k], NoSocket} : socket' = [socket EXCEPT ![k] = x] /\ PeerStep(k)
    BY <1>9a, <1>10 DEF WrongId
  <2>2. NewLocal(k, x, request_id[k], "none", "none", TRUE)
    BY <1>2, <1>10, <2>1 DEF WrongId, Ends, NewLocal
  <2>3. GoodLocal(k, x, request_id[k], "none", "none", TRUE)
    BY <1>1 DEF GoodLocal
  <2>4. HistoryTypes'
    BY <1>1, <1>10 DEF WrongId, history, HistoryTypes
  <2>5. QED
    BY <2>1, <2>2, <2>3, <2>4
<1>11. ASSUME Reads(k), Counts(k)
       PROVE  \E i \in 0..LastId + 1 : request_id' = [request_id EXCEPT ![k] = i]
  <2>1. request_id[k] <= LastId /\ request_id[k] \in Nat /\ LastId \in Nat
    BY <1>1, <1>9, <1>11, ClientAssumption DEF LocalOf
  <2>2. CASE exchange[k] \in {"predict", "reset"}
    <3>1. request_id' = [request_id EXCEPT ![k] = request_id[k] + 1]
      BY <1>11, <2>2 DEF Counts
    <3>2. request_id[k] + 1 \in 0..LastId + 1
      BY <2>1
    <3>3. QED
      BY <3>1, <3>2
  <2>3. CASE exchange[k] \notin {"predict", "reset"}
    <3>1. request_id' = [request_id EXCEPT ![k] = request_id[k]]
      BY <1>11, <2>3 DEF Counts
    <3>2. QED
      BY <1>1, <3>1
  <2>4. QED
    BY <2>2, <2>3
<1>12. CASE Refused(k)
  <2>1. PICK x \in {socket[k], NoSocket} : socket' = [socket EXCEPT ![k] = x] /\ PeerStep(k)
    BY <1>9a, <1>12 DEF Refused
  <2>2. PICK i \in 0..LastId + 1 : request_id' = [request_id EXCEPT ![k] = i]
    BY <1>11, <1>12 DEF Refused
  <2>3. NewLocal(k, x, i, "none", "none", TRUE)
    BY <1>12, <2>1, <2>2 DEF Refused, Ends, NewLocal
  <2>4. GoodLocal(k, x, i, "none", "none", TRUE)
    BY <1>1 DEF GoodLocal
  <2>5. HistoryTypes'
    BY <1>1, <1>12 DEF Refused, history, HistoryTypes
  <2>6. QED
    BY <2>1, <2>3, <2>4, <2>5
<1>13. CASE Accepted(k)
  <2>1. PICK x \in {socket[k], NoSocket} : socket' = [socket EXCEPT ![k] = x] /\ PeerStep(k)
    BY <1>9a, <1>13 DEF Accepted
  <2>2. HistoryTypes'
    BY <1>1, <1>9, <1>13 DEF Accepted, HistoryTypes
  <2>3. CASE exchange[k] = "hello" /\ method[k] # "connect"
    <3>1. NewLocal(k, x, 1, method[k], "none", raised[k])
      BY <1>2, <1>13, <2>1, <2>3 DEF Accepted, NewLocal
    <3>2. GoodLocal(k, x, 1, method[k], "none", raised[k])
      BY <1>1, ClientAssumption DEF GoodLocal
    <3>3. QED
      BY <2>1, <2>2, <3>1, <3>2
  <2>4. CASE exchange[k] = "hello" /\ method[k] = "connect"
    <3>1. NewLocal(k, x, 1, "none", "none", FALSE)
      BY <1>13, <2>1, <2>4 DEF Accepted, Ends, NewLocal
    <3>2. GoodLocal(k, x, 1, "none", "none", FALSE)
      BY <1>1, ClientAssumption DEF GoodLocal
    <3>3. QED
      BY <2>1, <2>2, <3>1, <3>2
  <2>5. CASE exchange[k] # "hello"
    <3>1. PICK i \in 0..LastId + 1 : request_id' = [request_id EXCEPT ![k] = i]
      BY <1>11, <1>13, <2>5 DEF Accepted
    <3>2. NewLocal(k, x, i, "none", "none", FALSE)
      BY <1>13, <2>1, <2>5, <3>1 DEF Accepted, Ends, NewLocal
    <3>3. GoodLocal(k, x, i, "none", "none", FALSE)
      BY <1>1 DEF GoodLocal
    <3>4. QED
      BY <2>1, <2>2, <3>2, <3>3
  <2>6. QED
    BY <2>3, <2>4, <2>5
<1>14. CASE Disconnect(k)
  <2>1. /\ socket[k] \in Connections /\ PeerLeave(socket[k])
        /\ UNCHANGED <<request_id, history>>
    BY <1>1, <1>14 DEF Disconnect
  <2>2. PeerStep(k) /\ HistoryTypes'
    BY <1>1, <2>1 DEF PeerStep, Peer, history, HistoryTypes
  <2>3. CASE exchange[k] = "none"
    <3>1. NewLocal(k, socket[k], request_id[k], method[k], exchange[k], raised[k])
      BY <1>2, <1>14, <2>1, <2>3 DEF Disconnect, NewLocal
    <3>2. GoodLocal(k, socket[k], request_id[k], method[k], exchange[k], raised[k])
      BY <1>1, <2>3 DEF GoodLocal, LocalOf
    <3>3. QED
      BY <2>2, <3>1, <3>2
  <2>4. CASE exchange[k] # "none"
    <3>1. PICK x \in {socket[k], NoSocket} : socket' = [socket EXCEPT ![k] = x]
      BY <1>14, <2>4 DEF Disconnect
    <3>2. NewLocal(k, x, request_id[k], "none", "none", TRUE)
      BY <1>2, <1>14, <2>1, <2>4, <3>1 DEF Disconnect, Ends, NewLocal
    <3>3. GoodLocal(k, x, request_id[k], "none", "none", TRUE)
      BY <1>1 DEF GoodLocal
    <3>4. QED
      BY <2>2, <3>2, <3>3
  <2>5. QED
    BY <2>3, <2>4
<1>15. QED
  BY <1>4, <1>5, <1>6, <1>7, <1>8, <1>10, <1>12, <1>13, <1>14 DEF ClientStep, Proceed

-----------------------------------------------------------------------------
(* What a step leaves alone.                                               *)

(* Connections other than the one a peer acts on.                          *)
LEMMA PeerFrame ==
  ASSUME TypeOK, NEW c \in Connections, NEW d \in Connections, Peer(c), d # c
  PROVE  /\ peer'[d] = peer[d] /\ asked'[d] = asked[d] /\ inbox'[d] = inbox[d]
         /\ outbox'[d] = outbox[d] /\ pc'[d] = pc[d]
<1>1. CASE Connect(c)
  BY <1>1 DEF Connect, TypeOK
<1>2. CASE \E f \in Frames : PeerSend(c, f)
  BY <1>2 DEF PeerSend, TypeOK
<1>3. CASE PeerReceive(c)
  BY <1>3 DEF PeerReceive, TypeOK
<1>4. CASE PeerLeave(c)
  BY <1>4 DEF PeerLeave, TypeOK
<1> QED BY <1>1, <1>2, <1>3, <1>4 DEF Peer

(* No peer touches what the handlers keep, or un-connects.                 *)
LEMMA PeerKeeps ==
  ASSUME TypeOK, NEW c \in Connections, Peer(c)
  PROVE  /\ UNCHANGED <<session, expected, closed, response>>
         /\ \A d \in Connections : peer'[d] = "new" => peer[d] = "new"
<1>1. CASE Connect(c)
  BY <1>1 DEF Connect, TypeOK, conn, serving
<1>2. CASE \E f \in Frames : PeerSend(c, f)
  BY <1>2 DEF PeerSend, TypeOK, conn, serving
<1>3. CASE PeerReceive(c)
  BY <1>3 DEF PeerReceive, TypeOK, conn, serving
<1>4. CASE PeerLeave(c)
  BY <1>4 DEF PeerLeave, TypeOK, conn, serving
<1> QED BY <1>1, <1>2, <1>3, <1>4 DEF Peer

(* The server's own steps are not seen by peers until a response arrives.  *)
ServerStep == (\E c \in Connections : Worker(c) \/ Handler(c)) \/ Stop

LEMMA WorkerKeeps ==
  ASSUME NEW c \in Connections, Worker(c)
  PROVE  UNCHANGED <<wire, pc, conn, serving>>
BY DEF Worker, WorkerEnter, WorkerRefuse, WorkerReturn

LEMMA ServerKeeps ==
  ASSUME ServerStep
  PROVE  UNCHANGED <<peer, asked>>
<1>1. ASSUME NEW c \in Connections, Worker(c) PROVE UNCHANGED <<peer, asked>>
  BY <1>1, WorkerKeeps DEF wire
<1>2. ASSUME NEW c \in Connections, Handler(c) PROVE UNCHANGED <<peer, asked>>
  <2>1. CASE RejectFrame(c) \/ RejectId(c) \/ RejectFirst(c) \/ Hello(c)
               \/ CloseRequest(c) \/ RejectPayload(c)
    BY <2>1 DEF RejectFrame, RejectId, RejectFirst, Hello, CloseRequest,
                RejectPayload, Reply
  <2>2. CASE Execute(c) \/ Acquire(c) \/ Resume(c) \/ ResumeCrashed(c)
    BY <2>2 DEF Execute, Acquire, Resume, ResumeCrashed, wire
  <2>3. CASE Send(c) \/ Hangup(c) \/ ConnectionLost(c) \/ Cancel(c)
    BY <2>3 DEF Send, Hangup, ConnectionLost, Cancel, wire
  <2> QED BY <1>2, <2>1, <2>2, <2>3 DEF Handler
<1>3. ASSUME Stop PROVE UNCHANGED <<peer, asked>>
  BY <1>3 DEF Stop, wire
<1> QED BY <1>1, <1>2, <1>3 DEF ServerStep

(* Every step of the composition is one of ServiceCore.                    *)
LEMMA Serving ==
  ASSUME TypeOK, LocalInv, [ClientNext]_allvars
  PROVE  /\ [Next]_vars
         /\ \/ /\ UNCHANGED <<vars, local>> /\ HistoryTypes'
            \/ ServerStep /\ UNCHANGED local /\ HistoryTypes'
            \/ \E k \in Clients : ClientStep(k)
<1>1. ASSUME NEW k \in Clients, ClientStep(k) PROVE [Next]_vars
  BY <1>1, ClientForm DEF PeerStep, Next
<1>2. ASSUME Server PROVE Next /\ ServerStep /\ UNCHANGED local /\ HistoryTypes'
  <2>1. ServerStep /\ UNCHANGED local
    BY <1>2 DEF Server, ServerStep, Serves
  <2>2. Next
    BY <2>1 DEF ServerStep, Next
  <2>3. HistoryTypes'
    BY <1>2 DEF Server, Serves, LocalInv, HistoryTypes
  <2> QED BY <2>1, <2>2, <2>3
<1>3. ASSUME UNCHANGED allvars
      PROVE  UNCHANGED vars /\ UNCHANGED local /\ HistoryTypes'
  BY <1>3 DEF allvars, history, LocalInv, HistoryTypes
<1>4. CASE \E k \in Clients : ClientStep(k)
  BY <1>1, <1>4
<1>5. CASE Server
  BY <1>2, <1>5
<1>6. CASE Idle \/ UNCHANGED allvars
  BY <1>3, <1>6 DEF Idle
<1> QED BY <1>4, <1>5, <1>6 DEF ClientNext, ClientStep

-----------------------------------------------------------------------------
(* The invariant of the clients' own state.                                *)

LEMMA LocalStep ==
  ASSUME TypeOK, LocalInv, [ClientNext]_allvars
  PROVE  LocalInv'
<1>1. CASE UNCHANGED local /\ HistoryTypes'
             /\ \A c \in Connections : peer'[c] = "new" => peer[c] = "new"
  <2>1. UNCHANGED <<socket, request_id, method, exchange, raised>>
    BY <1>1 DEF local
  <2>2. LocalTypes' /\ \A k \in Clients : LocalOf(k)'
    BY <2>1 DEF LocalInv, LocalTypes, LocalOf
  <2>3. ASSUME NEW k \in Clients PROVE OwnSocket(k)'
    BY <1>1, <2>1 DEF LocalInv, LocalTypes, OwnSocket
  <2> QED BY <1>1, <2>2, <2>3 DEF LocalInv
<1>2. ASSUME NEW k \in Clients, ClientStep(k) PROVE LocalInv'
  <2>1. PICK x, i, m, e, r :
          NewLocal(k, x, i, m, e, r) /\ GoodLocal(k, x, i, m, e, r)
    BY <1>2, ClientForm
  <2>2. HistoryTypes' /\ PeerStep(k)
    BY <1>2, ClientForm
  <2>3. \A c \in Connections : peer'[c] = "new" => peer[c] = "new"
    BY <2>2, PeerKeeps DEF PeerStep, vars, wire
  <2>4. LocalTypes /\ socket[k] \in Connections \cup {NoSocket}
    BY DEF LocalInv, LocalTypes
  <2>5. LocalTypes'
    BY <2>1, <2>4 DEF NewLocal, GoodLocal, LocalTypes
  <2>6. /\ socket'[k] = x /\ request_id'[k] = i /\ method'[k] = m
        /\ exchange'[k] = e
        /\ \A j \in Clients \ {k} :
             /\ socket'[j] = socket[j] /\ request_id'[j] = request_id[j]
             /\ method'[j] = method[j] /\ exchange'[j] = exchange[j]
    BY <2>1, <2>4 DEF NewLocal, LocalTypes
  <2>7. ASSUME NEW j \in Clients PROVE LocalOf(j)'
    BY <2>1, <2>6 DEF LocalInv, LocalOf, GoodLocal
  <2>8. ASSUME NEW j \in Clients PROVE OwnSocket(j)'
    <3>1. /\ socket[j] # NoSocket => socket[j] \in Connections
          /\ \A n \in Clients : OwnSocket(n)
      BY <2>4 DEF LocalInv, LocalTypes
    <3>2. CASE x \in {socket[k], NoSocket}
      BY <2>3, <2>6, <3>1, <3>2, <2>4 DEF OwnSocket
    <3>3. CASE x \in Connections /\ peer[x] = "new" /\ peer'[x] = "open"
      BY <2>3, <2>6, <3>1, <3>3, <2>4, ClientAssumption DEF OwnSocket
    <3> QED BY <2>1, <3>2, <3>3 DEF GoodLocal
  <2> QED BY <2>2, <2>5, <2>7, <2>8 DEF LocalInv
<1>3. CASE ServerStep /\ UNCHANGED local /\ HistoryTypes'
  BY <1>1, <1>3, ServerKeeps
<1>4. CASE UNCHANGED <<vars, local>> /\ HistoryTypes'
  BY <1>1, <1>4 DEF vars, wire
<1> QED BY <1>2, <1>3, <1>4, Serving

-----------------------------------------------------------------------------
(* What a handler's step is to the client behind its connection.           *)

(* It answers the first frame received: finally, or refusing a Hello, or   *)
(* opening the session the Hello asks for.                                 *)
AnswersFrame(c) ==
  /\ pc[c] = "recv" /\ pc'[c] = "send" /\ outbox'[c] = outbox[c]
  /\ inbox[c] # <<>>
  /\ \/ /\ closed'[c] /\ session'[c] = session[c]
        /\ session[c] = "none" => expected'[c] = expected[c]
     \/ /\ session[c] = "none" /\ session'[c] = "none"
        /\ expected'[c] = expected[c]
     \/ /\ Head(inbox[c]).payload = "hello"
        /\ session[c] = "none" /\ session'[c] = "open"
        /\ expected'[c] = expected[c] + 1 /\ response'[c].kind = "hello"

(* It goes on serving a request, and has nothing to say yet.               *)
GoesOn(c) ==
  /\ pc[c] \in {"recv", "acquire"} /\ pc'[c] \in {"acquire", "inflight"}
  /\ UNCHANGED <<outbox, session, expected, closed>>

(* The call it waited for has returned.                                    *)
AnswersCall(c) ==
  /\ pc[c] = "inflight" /\ pc'[c] = "send" /\ UNCHANGED <<outbox, session>>
  /\ expected'[c] = expected[c] + 1

(* Its response leaves, and the loop runs on.                              *)
SendsOn(c) ==
  /\ pc[c] = "send" /\ pc'[c] = "recv"
  /\ outbox'[c] = Append(outbox[c], response[c])
  /\ UNCHANGED <<session, expected, closed>>

(* It will not be heard of again.                                          *)
Ending(c) ==
  /\ pc'[c] \in {"hangup", "done"} /\ expected'[c] = expected[c]
  /\ session'[c] = "none" => session[c] = "none"

LEMMA HandlerForm ==
  ASSUME TypeOK, HandlerInv, NEW c \in Connections, Handler(c)
  PROVE  /\ pc[c] # "idle"
         /\ \/ AnswersFrame(c) \/ GoesOn(c) \/ AnswersCall(c)
            \/ SendsOn(c) \/ Ending(c)
<1>1. CASE RejectFrame(c) \/ RejectId(c) \/ RejectFirst(c)
  BY <1>1 DEF RejectFrame, RejectId, RejectFirst, Reply, AnswersFrame, TypeOK
<1>2. CASE Hello(c)
  BY <1>2 DEF Hello, InOrder, Reply, AnswersFrame, TypeOK
<1>3. CASE CloseRequest(c) \/ RejectPayload(c)
  BY <1>3 DEF CloseRequest, RejectPayload, InOrder, Reply, AnswersFrame, TypeOK
<1>4. CASE Execute(c)
  BY <1>4 DEF Execute, StartWorker, GoesOn, TypeOK, conn
<1>5. CASE Acquire(c)
  BY <1>5 DEF Acquire, StartWorker, GoesOn, TypeOK, wire, conn
<1>6. CASE Resume(c)
  BY <1>6 DEF Resume, AnswersCall, TypeOK, wire
<1>7. CASE ResumeCrashed(c) \/ Hangup(c) \/ ConnectionLost(c) \/ Cancel(c)
  BY <1>7 DEF ResumeCrashed, Hangup, ConnectionLost, Cancel, AwaitsPeer,
              Retire, FreeSession, Ending, TypeOK
<1>8. CASE Send(c)
  BY <1>8 DEF Send, NextAwait, Retire, FreeSession, SendsOn, Ending, TypeOK
<1> QED BY <1>1, <1>2, <1>3, <1>4, <1>5, <1>6, <1>7, <1>8 DEF Handler

LEMMA OtherHandlers ==
  ASSUME TypeOK, NEW c \in Connections, NEW d \in Connections, Handler(c),
         d # c
  PROVE  /\ pc'[d] = pc[d] /\ outbox'[d] = outbox[d]
         /\ session'[d] = session[d] /\ expected'[d] = expected[d]
         /\ closed'[d] = closed[d] /\ response'[d] = response[d]
<1>1. CASE RejectFrame(c) \/ RejectId(c) \/ RejectFirst(c)
  BY <1>1 DEF RejectFrame, RejectId, RejectFirst, Reply, TypeOK
<1>2. CASE Hello(c)
  BY <1>2 DEF Hello, Reply, TypeOK
<1>3. CASE CloseRequest(c) \/ RejectPayload(c)
  BY <1>3 DEF CloseRequest, RejectPayload, Reply, TypeOK
<1>4. CASE Execute(c)
  BY <1>4 DEF Execute, StartWorker, TypeOK, conn
<1>5. CASE Acquire(c)
  BY <1>5 DEF Acquire, StartWorker, TypeOK, wire, conn, serving
<1>6. CASE Resume(c)
  BY <1>6 DEF Resume, TypeOK, wire
<1>7. CASE ResumeCrashed(c) \/ Hangup(c) \/ ConnectionLost(c) \/ Cancel(c)
  BY <1>7 DEF ResumeCrashed, Hangup, ConnectionLost, Cancel, Retire,
              FreeSession, TypeOK, wire, serving
<1>8. CASE Send(c)
  BY <1>8 DEF Send, Retire, FreeSession, TypeOK
<1> QED BY <1>1, <1>2, <1>3, <1>4, <1>5, <1>6, <1>7, <1>8 DEF Handler

(* Before a peer connects its handler has no session, and until Hello is   *)
(* accepted the server expects id 0.                                       *)
LEMMA FreshStep ==
  ASSUME ServiceInv, FreshInv, [Next]_vars
  PROVE  FreshInv'
<1> SUFFICES ASSUME NEW d \in Connections PROVE FreshOf(d)'
  BY DEF FreshInv
<1>0. TypeOK /\ HandlerInv /\ FreshOf(d) /\ WireOf(d)
  BY DEF ServiceInv, WireInv, FreshInv
<1>1. ASSUME NEW c \in Connections, Peer(c) PROVE FreshOf(d)'
  <2>1. /\ UNCHANGED <<session, expected>>
        /\ peer'[d] = "new" => peer[d] = "new"
    BY <1>0, <1>1, PeerKeeps
  <2>2. pc'[d] = "idle" => peer'[d] = "new"
    <3>1. CASE d # c
      BY <1>0, <1>1, <3>1, PeerFrame DEF FreshOf
    <3>2. CASE d = c /\ Connect(c)
      BY <1>0, <3>2 DEF Connect, TypeOK
    <3>3. CASE d = c /\ ~Connect(c)
      <4>1. peer[c] = "open" /\ pc' = pc
        BY <1>1, <3>3 DEF Peer, PeerSend, PeerReceive, PeerLeave
      <4> QED BY <1>0, <3>3, <4>1 DEF FreshOf
    <3> QED BY <3>1, <3>2, <3>3
  <2> QED BY <1>0, <2>1, <2>2 DEF FreshOf
<1>2. ASSUME NEW c \in Connections, Worker(c) PROVE FreshOf(d)'
  BY <1>0, <1>2, WorkerKeeps DEF FreshOf, wire, conn
<1>3. ASSUME NEW c \in Connections, Handler(c) PROVE FreshOf(d)'
  <2>1. peer'[d] = peer[d]
    BY <1>3, ServerKeeps DEF ServerStep
  <2>2. CASE d # c
    BY <1>0, <1>3, <2>1, <2>2, OtherHandlers DEF FreshOf
  <2>3. CASE d = c
    BY <1>0, <1>3, <2>1, <2>3, HandlerForm
    DEF FreshOf, WireOf, AnswersFrame, GoesOn, AnswersCall, SendsOn, Ending,
        HandlerInv, HandlerOf
  <2> QED BY <2>2, <2>3
<1>4. ASSUME Stop PROVE FreshOf(d)'
  BY <1>0, <1>4 DEF Stop, FreshOf, wire, conn
<1>5. ASSUME UNCHANGED vars PROVE FreshOf(d)'
  BY <1>0, <1>5 DEF FreshOf, vars, wire, conn
<1> QED BY <1>1, <1>2, <1>3, <1>4, <1>5 DEF Next, Finished

SystemInv == ServiceInv /\ LocalInv /\ FreshInv

LEMMA SystemInit == ASSUME ClientInit PROVE SystemInv
<1>1. ServiceInv /\ FreshInv
  BY InvInit DEF ClientInit, Init, FreshInv, FreshOf
<1>2. LocalInv
  BY ClientAssumption
  DEF ClientInit, LocalInv, LocalTypes, HistoryTypes, LocalOf, OwnSocket
<1> QED BY <1>1, <1>2 DEF SystemInv

LEMMA SystemStep == ASSUME SystemInv, [ClientNext]_allvars PROVE SystemInv'
<1>1. TypeOK
  BY DEF SystemInv, ServiceInv
<1>2. [Next]_vars
  BY <1>1, Serving DEF SystemInv
<1> QED BY <1>1, <1>2, InvStep, LocalStep, FreshStep DEF SystemInv

(* Whatever the clients do, the server keeps what ServiceCoreProofs shows  *)
(* of it for peers free to send anything, and no two clients share a       *)
(* socket.                                                                 *)
THEOREM SystemInvariance == RpcSpec => []SystemInv
BY SystemInit, SystemStep, PTL DEF RpcSpec

(* Client and server stay well typed together: what a client sends is a    *)
(* frame the server's bounds allow, and its counter stays in its range.    *)
THEOREM ClientTypeCorrect == RpcSpec => []ClientTypeOK
<1>1. SystemInv => ClientTypeOK
  BY DEF SystemInv, ServiceInv, LocalInv, LocalTypes, HistoryTypes,
         ClientTypeOK, Methodical, Methods
<1> QED BY <1>1, SystemInvariance, PTL

-----------------------------------------------------------------------------
(* What the client counts and what the server expects.                     *)

(* A peer that would still be answered. *)
Live(s) == peer[s] = "open" /\ pc[s] \notin {"hangup", "done"}

Answered(s) == pc[s] = "send" \/ outbox[s] # <<>>

Answer(s) == IF pc[s] = "send" THEN response[s] ELSE Head(outbox[s])

(* The client of s counts id and is in exchange e.  Between two requests   *)
(* nothing is under way and the two ends agree; during one, the server has *)
(* counted it just when it has answered it.                                *)
LinkOf(s, id, e) ==
  Live(s) =>
    /\ e = "none" => asked[s] = <<>> /\ (session[s] = "open" => expected[s] = id)
    /\ e = "connected" => asked[s] = <<>> /\ session[s] # "open"
    /\ e \in Methodical =>
         /\ asked[s] = <<[id |-> IF e = "hello" THEN 0 ELSE id, payload |-> e]>>
         /\ session[s] = "open" =>
              IF Answered(s)
                THEN \/ closed[s]
                     \/ IF e = "hello"
                          THEN expected[s] = 1 /\ Answer(s).kind = "hello"
                          ELSE expected[s] = id + 1
                ELSE e # "hello" /\ expected[s] = id

ClientLink(k) ==
  socket[k] # NoSocket => LinkOf(socket[k], request_id[k], exchange[k])

LinkInv == \A k \in Clients : ClientLink(k)

LEMMA LinkFrame ==
  ASSUME NEW s \in Connections, NEW id, NEW e, LinkOf(s, id, e),
         peer'[s] = peer[s], asked'[s] = asked[s], outbox'[s] = outbox[s],
         pc'[s] = pc[s], session'[s] = session[s], expected'[s] = expected[s],
         closed'[s] = closed[s], response'[s] = response[s]
  PROVE  LinkOf(s, id, e)'
BY DEF LinkOf, Live, Answered, Answer

(* How many frames of a live peer are under way. *)
LEMMA Underway ==
  ASSUME ServiceInv, FreshInv, NEW s \in Connections, Live(s)
  PROVE  /\ pc[s] \in {"recv", "acquire", "inflight", "send"}
         /\ Len(asked[s]) = Taken(s) + Len(inbox[s])
         /\ Len(outbox[s]) \in Nat /\ Len(inbox[s]) \in Nat
         /\ asked[s] \in Seq(Requests) /\ inbox[s] \in Seq(Requests)
         /\ outbox[s] \in Seq(Responses)
<1>1. TypeOK /\ WireOf(s) /\ FreshOf(s)
  BY DEF ServiceInv, WireInv, FreshInv
<1>2. pc[s] \in {"recv", "acquire", "inflight", "send"}
  BY <1>1 DEF Live, FreshOf, TypeOK
<1>3. Len(asked[s]) = Taken(s) + Len(inbox[s])
  BY <1>1, <1>2 DEF Live, WireOf, Follows
<1> QED BY <1>1, <1>2, <1>3 DEF TypeOK

(* The server's steps keep the link. *)
LEMMA LinkServes ==
  ASSUME ServiceInv, FreshInv, ServerStep, NEW s \in Connections,
         NEW id \in Nat, NEW e \in {"none", "connected"} \cup Methodical,
         LinkOf(s, id, e)
  PROVE  LinkOf(s, id, e)'
<1>0. TypeOK /\ HandlerInv /\ FreshOf(s) /\ WireOf(s) /\ HandlerOf(s)
  BY DEF ServiceInv, FreshInv, WireInv, HandlerInv
<1>1. UNCHANGED <<peer, asked>>
  BY ServerKeeps
<1>2. CASE UNCHANGED <<wire, pc, conn, serving>>
  BY <1>2, LinkFrame DEF wire, conn, serving
<1>3. ASSUME NEW c \in Connections, Handler(c), c # s PROVE LinkOf(s, id, e)'
  BY <1>0, <1>1, <1>3, OtherHandlers, LinkFrame
<1>4. ASSUME Handler(s) PROVE LinkOf(s, id, e)'
  <2> SUFFICES ASSUME Live(s)' PROVE LinkOf(s, id, e)'
    BY DEF LinkOf
  <2>1. \/ AnswersFrame(s) \/ GoesOn(s) \/ AnswersCall(s) \/ SendsOn(s)
    BY <1>0, <1>4, HandlerForm DEF Ending, Live
  <2>2. Live(s)
    BY <1>1, <2>1 DEF Live, AnswersFrame, GoesOn, AnswersCall, SendsOn
  <2>3. /\ Len(asked[s]) = Taken(s) + Len(inbox[s])
        /\ Len(outbox[s]) \in Nat /\ Len(inbox[s]) \in Nat
        /\ asked[s] \in Seq(Requests) /\ inbox[s] \in Seq(Requests)
        /\ outbox[s] \in Seq(Responses)
    BY <2>2, Underway
  <2>4. CASE GoesOn(s)
    BY <1>1, <2>2, <2>4 DEF GoesOn, LinkOf, Live, Answered, Answer
  <2>5. ASSUME Taken(s) + Len(inbox[s]) # 0
        PROVE  /\ e \in Methodical /\ Len(asked[s]) = 1
               /\ asked[s][1].payload = e
               /\ asked[s] = <<[id |-> IF e = "hello" THEN 0 ELSE id, payload |-> e]>>
    <3>1. asked[s] # <<>>
      BY <2>3, <2>5
    <3>2. asked[s] = <<[id |-> IF e = "hello" THEN 0 ELSE id, payload |-> e]>> /\ e \in Methodical
      BY <2>2, <3>1 DEF LinkOf
    <3> QED BY <3>2
  <2>6. CASE AnswersFrame(s)
    <3>1. Taken(s) = Len(outbox[s]) /\ Len(inbox[s]) # 0
      BY <2>3, <2>6 DEF Taken, AnswersFrame
    <3>2. /\ e \in Methodical /\ Len(asked[s]) = 1 /\ Len(inbox[s]) = 1
          /\ asked[s][1].payload = e /\ Len(outbox[s]) = 0
      <4>1. \A a, b \in Nat : b # 0 => /\ a + b # 0
                                       /\ (a + b = 1 => a = 0 /\ b = 1)
        OBVIOUS
      <4>2. Taken(s) + Len(inbox[s]) # 0
        BY <2>3, <3>1, <4>1
      <4> QED BY <2>3, <2>5, <3>1, <4>1, <4>2
    <3>3. Head(inbox[s]) = asked[s][1]
      <4>1. inbox[s][1] = asked[s][Taken(s) + 1]
        BY <1>0, <2>2, <2>6, <3>2 DEF WireOf, Live, Follows, AnswersFrame
      <4> QED BY <2>3, <3>1, <3>2, <4>1
    <3>4. Answered(s)' /\ Answer(s)' = response'[s]
      BY <2>6 DEF AnswersFrame, Answered, Answer
    <3>5. e = "hello" \/ Head(inbox[s]).payload # "hello"
      BY <3>2, <3>3
    <3>6. asked'[s] = <<[id |-> IF e = "hello" THEN 0 ELSE id, payload |-> e]>>
      BY <1>1, <2>5, <3>1, <3>2
    <3>7. session'[s] = "open" => closed'[s] \/ (e = "hello" /\ expected'[s] = 1
                                                   /\ response'[s].kind = "hello")
      BY <1>0, <2>6, <3>5 DEF AnswersFrame, FreshOf
    <3>8. e \notin {"none", "connected"}
      BY <3>2 DEF Methodical
    <3> QED BY <3>4, <3>6, <3>7, <3>8 DEF LinkOf
  <2>7. CASE AnswersCall(s)
    <3>1. Taken(s) = Len(outbox[s]) + 1 /\ session[s] = "open"
      BY <1>0, <2>7 DEF Taken, AnswersCall, HandlerOf
    <3>2. /\ e \in Methodical /\ Len(outbox[s]) = 0
          /\ asked[s] = <<[id |-> IF e = "hello" THEN 0 ELSE id, payload |-> e]>>
      <4>1. \A a, b \in Nat : /\ (a + 1) + b # 0
                              /\ ((a + 1) + b = 1 => a = 0)
        OBVIOUS
      <4>2. Taken(s) + Len(inbox[s]) # 0
        BY <2>3, <3>1, <4>1
      <4> QED BY <2>3, <2>5, <3>1, <4>1, <4>2
    <3>3. ~Answered(s) /\ Answered(s)'
      BY <2>3, <2>7, <3>2 DEF AnswersCall, Answered
    <3>4. e # "hello" /\ expected[s] = id
      BY <2>2, <3>1, <3>2, <3>3 DEF LinkOf
    <3>5. expected'[s] = id + 1
      BY <2>7, <3>4 DEF AnswersCall
    <3>6. e \notin {"none", "connected"}
      BY <3>2 DEF Methodical
    <3> QED BY <1>1, <3>2, <3>3, <3>4, <3>5, <3>6 DEF LinkOf
  <2>8. CASE SendsOn(s)
    <3>1. Taken(s) = Len(outbox[s]) + 1
      BY <2>8 DEF Taken, SendsOn
    <3>2. /\ e \in Methodical /\ Len(outbox[s]) = 0
          /\ asked[s] = <<[id |-> IF e = "hello" THEN 0 ELSE id, payload |-> e]>>
      <4>1. \A a, b \in Nat : /\ (a + 1) + b # 0
                              /\ ((a + 1) + b = 1 => a = 0)
        OBVIOUS
      <4>2. Taken(s) + Len(inbox[s]) # 0
        BY <2>3, <3>1, <4>1
      <4> QED BY <2>3, <2>5, <3>1, <4>1, <4>2
    <3>3. outbox'[s] = <<response[s]>>
      <4>1. outbox[s] = <<>>
        BY <2>3, <3>2
      <4> QED BY <2>8, <4>1 DEF SendsOn
    <3>4. /\ Answered(s) /\ Answered(s)'
          /\ Answer(s) = response[s] /\ Answer(s)' = response[s]
      BY <2>8, <3>3 DEF SendsOn, Answered, Answer
    <3>5. e \notin {"none", "connected"}
      BY <3>2 DEF Methodical
    <3> QED BY <1>1, <2>2, <2>8, <3>2, <3>4, <3>5 DEF SendsOn, LinkOf
  <2> QED BY <2>1, <2>4, <2>6, <2>7, <2>8
<1>5. CASE Stop
  BY <1>2, <1>5 DEF Stop
<1> QED BY <1>2, <1>3, <1>4, <1>5, WorkerKeeps DEF ServerStep

(* A live peer that reads finds the answer to its only request, under the  *)
(* id of it and not a final one, and the server has counted as it will.    *)
LEMMA Reading ==
  ASSUME ServiceInv, LocalInv, FreshInv, NEW k \in Clients, ClientLink(k),
         Reads(k), Live(socket[k]), NEW s \in Connections, s = socket[k]
  PROVE  /\ Tail(asked[s]) = <<>>
         /\ Response(k).id = SentId(k) /\ Response(k).kind \notin Final
         /\ session[s] = "open" =>
              IF exchange[k] = "hello"
                THEN expected[s] = 1 /\ Response(k).kind = "hello"
                ELSE expected[s] = request_id[k] + 1
<1>1. exchange[k] \in Methodical /\ s # NoSocket
  BY ClientAssumption DEF Reads, Awaits, LocalInv, LocalTypes, LocalOf,
                          Methodical, Methods
<1>2. /\ asked[s] = <<[id |-> SentId(k), payload |-> exchange[k]]>>
      /\ Tail(asked[s]) = <<>> /\ Len(asked[s]) = 1
  <2>1. asked[s] = <<[id |-> SentId(k), payload |-> exchange[k]]>>
    BY <1>1 DEF ClientLink, LinkOf, SentId
  <2>2. \A f : Tail(<<f>>) = <<>> /\ Len(<<f>>) = 1
    OBVIOUS
  <2> QED BY <2>1, <2>2
<1>3. /\ pc[s] \in {"recv", "acquire", "inflight", "send"}
      /\ Len(asked[s]) = Taken(s) + Len(inbox[s])
      /\ Len(outbox[s]) \in Nat /\ Len(inbox[s]) \in Nat
      /\ outbox[s] \in Seq(Responses)
  BY Underway
<1>4. outbox[s] # <<>> /\ Len(outbox[s]) # 0
  BY <1>3 DEF Reads
<1>5. pc[s] = "recv"
  <2>1. \A a, b \in Nat : a # 0 => (a + 1) + b # 1
    OBVIOUS
  <2>2. Taken(s) # Len(outbox[s]) + 1
    BY <1>2, <1>3, <1>4, <2>1
  <2> QED BY <1>3, <2>2 DEF Taken
<1>6. 1 \in 1..Len(outbox[s]) /\ outbox[s][1] = Response(k)
  BY <1>3, <1>4 DEF Response
<1>7. ~closed[s] /\ Response(k).kind \notin Final
  BY <1>5, <1>6 DEF ServiceInv, FinalInv, FinalOf
<1>8. Response(k).id = SentId(k)
  <2>1. asked[s][1] = [id |-> SentId(k), payload |-> exchange[k]]
    BY <1>2
  <2>2. asked[s][1].payload = "garbage" \/ Response(k).id = asked[s][1].id
    BY <1>6 DEF ServiceInv, AnswersInOrder
  <2> QED BY <1>1, <2>1, <2>2 DEF Methodical
<1>9. Answered(s) /\ Answer(s) = Response(k)
  BY <1>4, <1>5 DEF Answered, Answer, Response
<1>10. session[s] = "open" =>
         IF exchange[k] = "hello"
           THEN expected[s] = 1 /\ Response(k).kind = "hello"
           ELSE expected[s] = request_id[k] + 1
  BY <1>1, <1>7, <1>9 DEF ClientLink, LinkOf
<1> QED BY <1>2, <1>7, <1>8, <1>10

(* A socket that is given up, or whose peer is dead, links nothing.        *)
LEMMA LinkEnds ==
  ASSUME TypeOK, LocalInv, NEW k \in Clients,
         \/ socket'[k] = NoSocket
         \/ socket'[k] = socket[k] /\ socket[k] # NoSocket /\ ~Live(socket[k])'
  PROVE  ClientLink(k)'
BY DEF ClientLink, LinkOf, Live

(* Whichever way the response is taken, the two ends agree again. *)
LEMMA LinkAfterRead ==
  ASSUME ServiceInv, LocalInv, FreshInv, NEW k \in Clients, ClientLink(k),
         Accepted(k) \/ Refused(k) \/ WrongId(k)
  PROVE  ClientLink(k)'
<1>0. TypeOK /\ Reads(k)
  BY DEF ServiceInv, Accepted, Refused, WrongId
<1>1. PICK s \in Connections : s = socket[k] /\ s # NoSocket
  BY <1>0, ClientAssumption
  DEF Reads, Awaits, LocalInv, LocalTypes, LocalOf, Methodical, Methods
<1>2. exchange[k] \in Methodical
  BY <1>0 DEF Reads, Awaits, LocalInv, LocalTypes, Methodical, Methods
<1>3. CASE CloseSocket(k)
  BY <1>0, <1>3, LinkEnds DEF CloseSocket, LocalInv, LocalTypes
<1>4. CASE ~CloseSocket(k)
  <2>1. PeerReceive(s) /\ UNCHANGED socket /\ method[k] # "close"
    BY <1>1, <1>4 DEF Accepted, Refused, WrongId, Consumes
  <2>2. /\ UNCHANGED <<peer, pc, session, expected>>
        /\ asked'[s] = Tail(asked[s])
    BY <1>0, <2>1 DEF PeerReceive, TypeOK, conn
  <2>3. socket'[k] = s
    BY <1>1, <2>1
  <2>4. CASE ~Live(s)
    BY <1>0, <1>1, <2>2, <2>3, <2>4, LinkEnds DEF Live
  <2>5. CASE Live(s)
    <3>1. /\ Tail(asked[s]) = <<>>
          /\ Response(k).id = SentId(k) /\ Response(k).kind \notin Final
          /\ session[s] = "open" =>
               IF exchange[k] = "hello"
                 THEN expected[s] = 1 /\ Response(k).kind = "hello"
                 ELSE expected[s] = request_id[k] + 1
      BY <1>0, <1>1, <2>5, Reading
    <3>2. exchange'[k] = "none"
      BY DEF Accepted, Refused, WrongId, Ends, LocalInv, LocalTypes
    <3>3. exchange[k] # "close"
      BY <2>1 DEF LocalInv, LocalOf
    <3>4. session[s] = "open" => request_id'[k] = expected[s]
      <4>1. request_id \in [Clients -> 0..LastId + 1]
        BY DEF LocalInv, LocalTypes
      <4>2. CASE Accepted(k)
        BY <1>2, <3>1, <3>3, <4>1, <4>2 DEF Accepted, Counts, Methodical
      <4>3. CASE Refused(k)
        BY <1>2, <3>1, <3>3, <4>1, <4>3 DEF Refused, Counts, Methodical
      <4>4. CASE WrongId(k)
        BY <3>1, <4>4 DEF WrongId
      <4> QED BY <4>2, <4>3, <4>4
    <3> QED
      BY <2>2, <2>3, <3>1, <3>2, <3>4 DEF ClientLink, LinkOf, Methodical
  <2> QED BY <2>4, <2>5
<1> QED BY <1>3, <1>4

(* Neither do the steps of a client that is never interrupted.             *)
LEMMA LinkSteps ==
  ASSUME ServiceInv, LocalInv, FreshInv, NEW k \in Clients, ClientLink(k),
         ClientStep(k), ~Interrupts
  PROVE  ClientLink(k)'
<1>0. /\ TypeOK /\ LocalTypes /\ LocalOf(k)
      /\ socket[k] \in Connections \cup {NoSocket}
      /\ exchange[k] \in {"none", "connected"} \cup Methodical
  BY DEF ServiceInv, LocalInv, LocalTypes
<1>1. CASE UNCHANGED vars /\ socket'[k] = socket[k]
             /\ (socket[k] # NoSocket => ~Live(socket[k]))
  <2>1. ~Live(socket[k])' \/ socket'[k] = NoSocket
    BY <1>1 DEF Live, vars, wire
  <2> QED BY <1>0, <1>1, <2>1, LinkEnds
<1>2. CASE UNCHANGED vars /\ socket'[k] = socket[k]
             /\ request_id'[k] = request_id[k] /\ exchange'[k] = exchange[k]
  BY <1>2 DEF vars, wire, conn, serving, ClientLink, LinkOf, Live, Answered,
              Answer
<1>3. CASE \E m \in Methods : Call(k, m)
  BY <1>2, <1>3 DEF Call
<1>4. CASE Open(k)
  <2>1. PICK s \in Connections :
          /\ Connect(s) /\ socket'[k] = s /\ exchange'[k] = "connected"
    BY <1>0, <1>4 DEF Open, LocalTypes
  <2>2. asked'[s] = <<>> /\ session'[s] # "open"
    BY <2>1 DEF Connect, conn, ServiceInv, WireInv, WireOf, FreshInv, FreshOf
  <2> QED BY <2>1, <2>2 DEF ClientLink, LinkOf, Methodical
<1>5. ASSUME Raise(k) PROVE \/ socket'[k] = NoSocket
                            \/ /\ UNCHANGED vars /\ socket' = socket
                               /\ request_id' = request_id
                               /\ exchange'[k] = "none"
  BY <1>0, <1>5 DEF Raise, Ends, CloseSocket, LocalTypes
<1>6. CASE GiveUp(k) \/ BadInput(k)
  <2>1. exchange[k] = "none" \/ socket[k] = NoSocket
    BY <1>6 DEF GiveUp, BadInput, Connecting, AboutToSend
  <2>2. CASE socket'[k] = NoSocket
    BY <1>0, <2>2, LinkEnds
  <2>3. CASE UNCHANGED vars /\ socket' = socket /\ request_id' = request_id
               /\ exchange'[k] = "none"
    BY <1>1, <1>2, <2>1, <2>3
  <2> QED BY <1>5, <1>6, <2>2, <2>3 DEF GiveUp, BadInput
<1>7. CASE SendFails(k) \/ Lost(k)
  <2>1. ~Live(socket[k]) /\ Raise(k)
    BY <1>7 DEF SendFails, Lost, Dead, Live
  <2>2. CASE socket'[k] = NoSocket
    BY <1>0, <2>2, LinkEnds
  <2> QED BY <1>1, <1>5, <2>1, <2>2
<1>8. CASE SendHello(k) \/ SendRequest(k)
  <2>1. PICK id, payload :
          /\ Sends(k, id, payload) /\ payload \in Methodical
          /\ \/ exchange[k] = "connected" /\ payload = "hello" /\ id = 0
             \/ /\ exchange[k] = "none" /\ payload # "hello"
                /\ id = request_id[k]
          /\ socket[k] \in Connections
    <3>1. CASE SendHello(k)
      BY <1>0, <3>1 DEF SendHello, LocalOf, Methodical
    <3>2. CASE SendRequest(k)
      BY <1>0, <3>2 DEF SendRequest, AboutToSend, Methodical
    <3> QED BY <1>8, <3>1, <3>2
  <2>2. PICK s \in Connections : s = socket[k]
    BY <2>1
  <2>3. /\ asked'[s] = Append(asked[s], [id |-> id, payload |-> payload])
        /\ UNCHANGED <<peer, outbox, pc, session, expected, closed, response>>
        /\ socket'[k] = s /\ request_id'[k] = request_id[k]
        /\ exchange'[k] = payload
    BY <1>0, <2>1, <2>2 DEF Sends, PeerSend, conn, serving, TypeOK, LocalTypes
  <2> SUFFICES ASSUME Live(s) PROVE ClientLink(k)'
    BY <1>0, <2>2, <2>3, LinkEnds, ClientAssumption DEF Live
  <2>4. /\ asked[s] = <<>>
        /\ session[s] = "open" => exchange[k] = "none" /\ expected[s] = request_id[k]
    BY <2>1, <2>2, ClientAssumption DEF ClientLink, LinkOf
  <2>5. ~Answered(s)
    <3>1. /\ Len(asked[s]) = Taken(s) + Len(inbox[s])
          /\ Len(outbox[s]) \in Nat /\ Len(inbox[s]) \in Nat
          /\ outbox[s] \in Seq(Responses)
      BY Underway
    <3>2. Len(asked[s]) = 0
      BY <2>4
    <3>3. \A a, b \in Nat : (a + 1) + b # 0 /\ (a + b = 0 => a = 0)
      OBVIOUS
    <3>4. Taken(s) = Len(outbox[s]) /\ Len(outbox[s]) = 0
      BY <3>1, <3>2, <3>3 DEF Taken
    <3>5. Taken(s) = Len(outbox[s]) + 1 => Len(outbox[s]) # 0
      BY <3>1, <3>4
    <3> QED BY <3>1, <3>4, <3>5 DEF Answered, Taken
  <2>6. ~Answered(s)'
    BY <2>3, <2>5 DEF Answered
  <2>7. asked'[s] = <<[id |-> id, payload |-> payload]>>
    BY <2>3, <2>4
  <2> QED
    BY <2>1, <2>3, <2>4, <2>6, <2>7 DEF ClientLink, LinkOf, Methodical
<1>9. CASE Accepted(k) \/ Refused(k) \/ WrongId(k)
  BY <1>9, LinkAfterRead
<1>10. CASE Disconnect(k)
  <2>1. /\ socket[k] \in Connections /\ PeerLeave(socket[k])
        /\ socket'[k] \in {socket[k], NoSocket}
    BY <1>0, <1>10 DEF Disconnect, LocalTypes
  <2>2. peer'[socket[k]] = "left"
    BY <1>0, <2>1 DEF PeerLeave, TypeOK
  <2>3. CASE socket'[k] = NoSocket
    BY <1>0, <2>3, LinkEnds
  <2>4. CASE socket'[k] = socket[k]
    <3>1. ~Live(socket[k])'
      BY <2>2, <2>4 DEF Live
    <3> QED BY <1>0, <2>1, <2>4, <3>1, LinkEnds, ClientAssumption
  <2> QED BY <2>1, <2>3, <2>4
<1> QED
  BY <1>3, <1>4, <1>6, <1>7, <1>8, <1>9, <1>10
  DEF ClientStep, Proceed, Interrupt

(* A client's step does not reach another client's socket.                 *)
LEMMA LinkOthers ==
  ASSUME TypeOK, LocalInv, NEW k \in Clients, ClientStep(k),
         NEW j \in Clients, j # k, ClientLink(j)
  PROVE  ClientLink(j)'
<1>1. PICK x, i, m, e, r :
        NewLocal(k, x, i, m, e, r) /\ GoodLocal(k, x, i, m, e, r)
  BY ClientForm
<1>2. /\ socket'[j] = socket[j] /\ request_id'[j] = request_id[j]
      /\ exchange'[j] = exchange[j]
      /\ socket[j] \in Connections \cup {NoSocket}
  BY <1>1 DEF NewLocal, LocalInv, LocalTypes
<1> SUFFICES ASSUME NEW s \in Connections, s = socket[j], s # NoSocket
             PROVE  ClientLink(j)'
  BY <1>2 DEF ClientLink
<1>3. peer[s] # "new" /\ socket[k] # s
  BY DEF LocalInv, OwnSocket
<1>4. PeerStep(k)
  BY ClientForm
<1>5. /\ peer'[s] = peer[s] /\ asked'[s] = asked[s] /\ outbox'[s] = outbox[s]
      /\ pc'[s] = pc[s] /\ session'[s] = session[s]
      /\ expected'[s] = expected[s] /\ closed'[s] = closed[s]
      /\ response'[s] = response[s]
  <2>1. ASSUME NEW c \in Connections, Peer(c), c # s PROVE <1>5!:
    BY <2>1, PeerFrame, PeerKeeps
  <2>2. CASE UNCHANGED vars
    BY <2>2 DEF vars, wire, conn, serving
  <2> QED BY <1>3, <1>4, <2>1, <2>2 DEF PeerStep
<1> QED
  BY <1>2, <1>5 DEF ClientLink, LinkOf, Live, Answered, Answer

LEMMA LinkStep ==
  ASSUME SystemInv, LinkInv, [ClientNext]_allvars, ~Interrupts
  PROVE  LinkInv'
<1>0. TypeOK /\ ServiceInv /\ LocalInv /\ FreshInv
  BY DEF SystemInv, ServiceInv
<1> SUFFICES ASSUME NEW j \in Clients PROVE ClientLink(j)'
  BY DEF LinkInv
<1>1. /\ ClientLink(j) /\ socket[j] \in Connections \cup {NoSocket}
      /\ request_id[j] \in Nat
      /\ exchange[j] \in {"none", "connected"} \cup Methodical
  BY <1>0, ClientAssumption DEF LinkInv, LocalInv, LocalTypes
<1>2. ASSUME NEW k \in Clients, ClientStep(k) PROVE ClientLink(j)'
  BY <1>0, <1>1, <1>2, LinkSteps, LinkOthers
<1>3. CASE ServerStep /\ UNCHANGED local
  <2>1. PICK id \in Nat, e \in {"none", "connected"} \cup Methodical,
             s \in Connections \cup {NoSocket} :
          id = request_id[j] /\ e = exchange[j] /\ s = socket[j]
    BY <1>1
  <2>2. request_id'[j] = id /\ exchange'[j] = e /\ socket'[j] = s
    BY <1>3, <2>1 DEF local
  <2>3. CASE s # NoSocket
    <3>1. LinkOf(s, id, e)
      BY <1>1, <2>1, <2>3 DEF ClientLink
    <3>2. LinkOf(s, id, e)'
      BY <1>0, <1>3, <2>3, <3>1, LinkServes
    <3> QED BY <2>2, <3>2 DEF ClientLink, LinkOf
  <2> QED BY <2>2, <2>3 DEF ClientLink
<1>4. CASE UNCHANGED <<vars, local>>
  BY <1>1, <1>4 DEF vars, wire, conn, serving, local, ClientLink, LinkOf, Live,
                    Answered, Answer
<1> QED BY <1>0, <1>2, <1>3, <1>4, Serving

(* Unless a call is interrupted, whatever fails, times out or disconnects, *)
(* a client and a server with nothing under way agree on the next id.      *)
THEOREM IdsStayInStep == ~Interrupts => (RpcSpec => []IdsAgree)
<1> SUFFICES ASSUME ~Interrupts PROVE RpcSpec => []IdsAgree
  OBVIOUS
<1>1. ClientInit => LinkInv
  BY DEF ClientInit, LinkInv, ClientLink
<1>2. SystemInv /\ LinkInv /\ [ClientNext]_allvars => LinkInv'
  BY LinkStep
<1>3. SystemInv /\ LinkInv => IdsAgree
  BY DEF LinkInv, ClientLink, LinkOf, Live, IdsAgree
<1> QED BY <1>1, <1>2, <1>3, SystemInvariance, PTL DEF RpcSpec

-----------------------------------------------------------------------------
(* What a client returns ran: the step simulation of RemotePolicy.         *)

(* Without an interrupt a client has one request under way while it waits  *)
(* for an answer and none otherwise, unless the server hung up on it.      *)
AskedOf(s, e) ==
  peer[s] = "open" =>
    \/ pc[s] \in {"hangup", "done"} /\ outbox[s] = <<>>
    \/ Len(asked[s]) = IF e \in Methodical THEN 1 ELSE 0

AskedInv ==
  \A k \in Clients : socket[k] # NoSocket => AskedOf(socket[k], exchange[k])

(* The result of a call that is on its way ran.                            *)
Results == {"predict", "reset"}

RanOf(s) ==
  /\ pc[s] = "inflight" /\ worker[s] = "ok" => s \in ran
  /\ pc[s] = "send" /\ response[s].kind \in Results => s \in ran
  /\ \A i \in 1..Len(outbox[s]) : outbox[s][i].kind \in Results => s \in ran

RanInv == \A s \in Connections : RanOf(s)

LEMMA HandlerEnds ==
  ASSUME TypeOK, NEW s \in Connections, Handler(s), pc[s] \in {"hangup", "done"}
  PROVE  pc'[s] = "done" /\ outbox'[s] = outbox[s]
<1>1. Hangup(s) \/ Cancel(s)
  BY DEF Handler, RejectFrame, RejectId, RejectFirst, Hello, CloseRequest,
         RejectPayload, Reply, Execute, Acquire, Resume, ResumeCrashed, Send,
         ConnectionLost, AwaitsPeer
<1> QED BY <1>1 DEF Hangup, Cancel, Retire, TypeOK, wire

LEMMA AskedServes ==
  ASSUME TypeOK, ServerStep, NEW s \in Connections, NEW e, AskedOf(s, e)
  PROVE  AskedOf(s, e)'
<1>1. UNCHANGED <<peer, asked>>
  BY ServerKeeps
<1>2. CASE pc'[s] = pc[s] /\ outbox'[s] = outbox[s]
  BY <1>1, <1>2 DEF AskedOf
<1>3. ASSUME NEW c \in Connections, Worker(c) PROVE AskedOf(s, e)'
  BY <1>2, <1>3, WorkerKeeps DEF wire
<1>4. ASSUME NEW c \in Connections, Handler(c) PROVE AskedOf(s, e)'
  <2>1. CASE c # s
    BY <1>2, <1>4, <2>1, OtherHandlers
  <2>2. CASE c = s
    BY <1>1, <1>4, <2>2, HandlerEnds DEF AskedOf
  <2> QED BY <2>1, <2>2
<1>5. CASE Stop
  BY <1>2, <1>5 DEF Stop, wire
<1> QED BY <1>3, <1>4, <1>5 DEF ServerStep

(* A step of the client of s.                                              *)
LEMMA AskedSteps ==
  ASSUME ServiceInv, LocalInv, NEW k \in Clients, ClientStep(k), ~Interrupts,
         socket[k] # NoSocket => AskedOf(socket[k], exchange[k])
  PROVE  socket'[k] # NoSocket => AskedOf(socket[k], exchange[k])'
<1>0. /\ TypeOK /\ LocalTypes /\ LocalOf(k)
      /\ socket[k] \in Connections \cup {NoSocket}
      /\ exchange[k] \in {"none", "connected"} \cup Methodical
  BY DEF ServiceInv, LocalInv, LocalTypes
<1>1. CASE UNCHANGED <<vars, socket>> /\ exchange'[k] = exchange[k]
  BY <1>1 DEF vars, wire, AskedOf
<1>2. ASSUME Raise(k) PROVE \/ socket'[k] = NoSocket
                            \/ UNCHANGED <<vars, socket>> /\ exchange'[k] = "none"
  BY <1>0, <1>2 DEF Raise, Ends, CloseSocket, LocalTypes
<1>3. CASE \E m \in Methods : Call(k, m)
  BY <1>1, <1>3 DEF Call
<1>4. CASE Open(k)
  <2>1. PICK s \in Connections :
          /\ Connect(s) /\ socket'[k] = s /\ exchange'[k] = "connected"
    BY <1>0, <1>4 DEF Open, LocalTypes
  <2>2. Len(asked'[s]) = 0
    BY <2>1 DEF Connect, ServiceInv, WireInv, WireOf
  <2> QED BY <2>1, <2>2 DEF AskedOf, Methodical
<1>5. CASE GiveUp(k) \/ BadInput(k) \/ SendFails(k)
  <2>1. Raise(k) /\ (socket[k] = NoSocket \/ exchange[k] \in {"none", "connected"})
    BY <1>5 DEF GiveUp, BadInput, SendFails, Connecting, AboutToSend
  <2> QED BY <1>0, <1>2, <2>1 DEF vars, wire, AskedOf, Methodical
<1>6. CASE Lost(k)
  <2>1. /\ Raise(k) /\ outbox[socket[k]] = <<>>
        /\ peer[socket[k]] = "left" \/ pc[socket[k]] \in {"hangup", "done"}
    BY <1>6 DEF Lost, Dead
  <2> QED BY <1>0, <1>2, <2>1 DEF vars, wire, AskedOf
<1>7. CASE SendHello(k) \/ SendRequest(k)
  <2>1. PICK id, payload :
          /\ Sends(k, id, payload) /\ payload \in Methodical
          /\ exchange[k] \in {"none", "connected"} /\ socket[k] # NoSocket
          /\ [id |-> id, payload |-> payload] \in Requests
    BY <1>0, <1>7, SentFrames, ServiceAssumption DEF SendHello, SendRequest, AboutToSend, LocalOf, Methodical
  <2>2. PICK s \in Connections : s = socket[k]
    BY <1>0, <2>1
  <2>3. /\ asked'[s] = Append(asked[s], [id |-> id, payload |-> payload])
        /\ UNCHANGED <<peer, outbox, pc>>
        /\ socket'[k] = s /\ exchange'[k] = payload /\ asked[s] \in Seq(Requests)
    BY <1>0, <2>1, <2>2 DEF Sends, PeerSend, TypeOK, LocalTypes
  <2>4. Len(asked'[s]) = Len(asked[s]) + 1
    BY <2>1, <2>3
  <2>5. exchange[k] \notin Methodical
    BY <2>1 DEF Methodical
  <2>6. /\ UNCHANGED <<peer, outbox, pc>> /\ payload \in Methodical
        /\ socket'[k] = s /\ exchange'[k] = payload
    BY <2>1, <2>3
  <2>7. CASE peer[s] = "open" /\ Len(asked[s]) = 0
    BY <2>4, <2>6, <2>7 DEF AskedOf
  <2>8. CASE peer[s] = "open" /\ pc[s] \in {"hangup", "done"} /\ outbox[s] = <<>>
    BY <2>6, <2>8 DEF AskedOf
  <2>9. CASE peer[s] # "open"
    BY <2>6, <2>9 DEF AskedOf
  <2> QED BY <2>1, <2>2, <2>5, <2>7, <2>8, <2>9 DEF AskedOf
<1>8. CASE Accepted(k) \/ Refused(k) \/ WrongId(k)
  <2>1. /\ Reads(k) /\ exchange'[k] = "none"
        /\ CloseSocket(k) \/ (PeerReceive(socket[k]) /\ UNCHANGED socket)
    BY <1>0, <1>8 DEF Accepted, Refused, WrongId, Consumes, Ends, LocalTypes
  <2>2. exchange[k] \in Methodical /\ socket[k] \in Connections /\ socket[k] # NoSocket
    BY <1>0, <2>1 DEF Reads, Awaits, Methodical, Methods, LocalOf
  <2>3. PICK s \in Connections : s = socket[k]
    BY <2>2
  <2>4. CASE CloseSocket(k)
    BY <1>0, <2>4 DEF CloseSocket, LocalTypes
  <2>5. CASE PeerReceive(s) /\ UNCHANGED socket
    <3>1. /\ asked'[s] = Tail(asked[s]) /\ peer'[s] = "open" /\ peer[s] = "open"
          /\ asked[s] \in Seq(Requests) /\ outbox[s] # <<>>
      BY <1>0, <2>5 DEF PeerReceive, TypeOK
    <3>2. Len(asked[s]) = 1
      BY <2>2, <2>3, <3>1 DEF AskedOf
    <3>3. Len(asked'[s]) = 0
      BY <3>1, <3>2
    <3> QED BY <2>1, <2>3, <2>5, <3>3 DEF AskedOf, Methodical
  <2> QED BY <2>1, <2>3, <2>4, <2>5
<1>9. CASE Disconnect(k)
  <2>1. /\ socket[k] \in Connections /\ PeerLeave(socket[k])
        /\ socket'[k] \in {socket[k], NoSocket}
    BY <1>0, <1>9 DEF Disconnect, LocalTypes
  <2>2. peer'[socket[k]] = "left"
    BY <1>0, <2>1 DEF PeerLeave, TypeOK
  <2> QED BY <2>1, <2>2 DEF AskedOf
<1> QED
  BY <1>3, <1>4, <1>5, <1>6, <1>7, <1>8, <1>9
  DEF ClientStep, Proceed, Interrupt

LEMMA AskedStep ==
  ASSUME SystemInv, AskedInv, [ClientNext]_allvars, ~Interrupts
  PROVE  AskedInv'
<1>0. TypeOK /\ ServiceInv /\ LocalInv /\ LocalTypes
  BY DEF SystemInv, ServiceInv, LocalInv
<1> SUFFICES ASSUME NEW j \in Clients, socket'[j] # NoSocket
             PROVE  AskedOf(socket[j], exchange[j])'
  BY DEF AskedInv
<1>1. socket[j] # NoSocket => AskedOf(socket[j], exchange[j])
  BY DEF AskedInv
<1>2. ASSUME NEW k \in Clients, ClientStep(k) PROVE AskedOf(socket[j], exchange[j])'
  <2>1. CASE k = j
    BY <1>0, <1>1, <1>2, <2>1, AskedSteps
  <2>2. CASE k # j
    <3>1. PICK x, i, m, e, r :
            NewLocal(k, x, i, m, e, r) /\ GoodLocal(k, x, i, m, e, r)
      BY <1>0, <1>2, ClientForm
    <3>2. /\ socket'[j] = socket[j] /\ exchange'[j] = exchange[j]
          /\ socket[j] \in Connections \cup {NoSocket}
      BY <1>0, <2>2, <3>1 DEF NewLocal, LocalTypes
    <3>3. PICK s \in Connections : s = socket[j] /\ s # NoSocket
      BY <3>2
    <3>4. peer[s] # "new" /\ socket[k] # s
      BY <1>0, <2>2, <3>3 DEF LocalInv, OwnSocket
    <3>5. /\ peer'[s] = peer[s] /\ asked'[s] = asked[s] /\ outbox'[s] = outbox[s]
          /\ pc'[s] = pc[s]
      <4>1. PeerStep(k)
        BY <1>0, <1>2, ClientForm
      <4>2. ASSUME NEW c \in Connections, Peer(c), c # s PROVE <3>5!:
        BY <1>0, <4>2, PeerFrame
      <4>3. CASE UNCHANGED vars
        BY <4>3 DEF vars, wire
      <4> QED BY <3>4, <4>1, <4>2, <4>3 DEF PeerStep
    <3> QED BY <1>1, <3>2, <3>3, <3>5 DEF AskedOf
  <2> QED BY <2>1, <2>2
<1>3. CASE ServerStep /\ UNCHANGED local
  <2>1. socket'[j] = socket[j] /\ exchange'[j] = exchange[j] /\ socket[j] \in Connections
    BY <1>0, <1>3 DEF local, LocalTypes
  <2>2. PICK s, e : s \in Connections /\ s = socket[j] /\ e = exchange[j] /\ s # NoSocket
    BY <2>1
  <2>3. AskedOf(s, e)'
    BY <1>0, <1>1, <1>3, <2>2, AskedServes
  <2> QED BY <2>1, <2>2, <2>3 DEF AskedOf
<1>4. CASE UNCHANGED <<vars, local>>
  BY <1>1, <1>4 DEF vars, wire, local, AskedOf
<1> QED BY <1>0, <1>2, <1>3, <1>4, Serving

(* A step of one connection leaves the native calls of the others alone.   *)
LEMMA OtherWorkers ==
  ASSUME TypeOK, NEW c \in Connections, NEW d \in Connections, d # c,
         Worker(c) \/ Handler(c)
  PROVE  worker'[d] = worker[d]
<1>0. CASE Worker(c)
  BY <1>0 DEF Worker, WorkerEnter, WorkerRefuse, WorkerReturn, TypeOK
<1>1. CASE RejectFrame(c) \/ RejectId(c) \/ RejectFirst(c) \/ Hello(c)
             \/ CloseRequest(c) \/ RejectPayload(c)
  BY <1>1 DEF RejectFrame, RejectId, RejectFirst, Hello, CloseRequest,
              RejectPayload, Reply, execution
<1>2. CASE Execute(c) \/ Acquire(c) \/ Resume(c) \/ ResumeCrashed(c)
  BY <1>2 DEF Execute, Acquire, StartWorker, Resume, ResumeCrashed, TypeOK
<1>3. CASE Send(c) \/ Hangup(c) \/ ConnectionLost(c) \/ Cancel(c)
  BY <1>3 DEF Send, Hangup, ConnectionLost, Cancel, execution
<1> QED BY <1>0, <1>1, <1>2, <1>3 DEF Handler

(* A call runs before its result is on its way, and a client sends when    *)
(* nothing is.                                                             *)
LEMMA RanServes ==
  ASSUME SystemInv, Server, NEW s \in Connections, RanOf(s)
  PROVE  RanOf(s)'
<1>0. TypeOK /\ ran \subseteq ran' /\ HandlerOf(s)
  BY DEF SystemInv, ServiceInv, HandlerInv, Server, Serves
<1>1. CASE /\ pc'[s] = pc[s] /\ worker'[s] = worker[s]
           /\ response'[s] = response[s] /\ outbox'[s] = outbox[s]
  BY <1>0, <1>1 DEF RanOf
<1>2. ASSUME NEW c \in Connections, Worker(c) PROVE RanOf(s)'
  <2>1. UNCHANGED <<pc, response, outbox>>
    BY <1>2, WorkerKeeps DEF wire, serving
  <2>2. CASE c # s
    <3>1. worker'[s] = worker[s]
      BY <1>0, <1>2, <2>2, OtherWorkers
    <3> QED BY <1>1, <2>1, <3>1
  <2>3. CASE c = s
    <3>1. worker'[s] = "ok" => worker[s] = "native"
      BY <1>0, <1>2, <2>3 DEF Worker, WorkerEnter, WorkerRefuse, WorkerReturn, TypeOK
    <3>2. pc[s] = "inflight" /\ worker'[s] = "ok" => s \in ran'
      BY <3>1 DEF Server, Serves
    <3> QED BY <1>0, <2>1, <3>2 DEF RanOf
  <2> QED BY <2>2, <2>3
<1>3. ASSUME NEW c \in Connections, Handler(c) PROVE RanOf(s)'
  <2>1. CASE c # s
    <3>1. worker'[s] = worker[s]
      BY <1>0, <1>3, <2>1, OtherWorkers
    <3> QED BY <1>0, <1>1, <1>3, <2>1, <3>1, OtherHandlers
  <2>2. CASE c = s
    <3>1. CASE RejectFrame(s) \/ RejectId(s) \/ RejectFirst(s) \/ Hello(s)
                 \/ CloseRequest(s) \/ RejectPayload(s)
      <4>1. PICK f, id, kind :
              Reply(s, f, id, kind) /\ kind \in {"hello", "close", "error", "fatal"}
        BY <3>1 DEF RejectFrame, RejectId, RejectFirst, Hello, CloseRequest,
                    RejectPayload
      <4>2. /\ pc'[s] = "send" /\ response'[s].kind \notin Results
            /\ outbox' = outbox
        BY <1>0, <4>1 DEF Reply, TypeOK, Results
      <4> QED BY <1>0, <4>2 DEF RanOf
    <3>2. CASE Execute(s)
      <4>1. /\ outbox' = outbox /\ pc'[s] \in {"acquire", "inflight"}
            /\ pc'[s] = "inflight" => worker'[s] = "prep"
        BY <1>0, <3>2 DEF Execute, StartWorker, TypeOK
      <4> QED BY <1>0, <4>1 DEF RanOf
    <3>3. CASE Acquire(s)
      <4>1. outbox' = outbox /\ pc'[s] = "inflight" /\ worker'[s] = "prep"
        BY <1>0, <3>3 DEF Acquire, StartWorker, TypeOK, wire
      <4> QED BY <1>0, <4>1 DEF RanOf
    <3>4. CASE Resume(s)
      <4>1. /\ pc[s] = "inflight" /\ pc'[s] = "send" /\ outbox' = outbox
            /\ response'[s].kind = ResultKind(request[s], worker[s])
            /\ worker[s] \in Outcomes
        BY <1>0, <3>4 DEF Resume, TypeOK, wire, Handled, Outcomes
      <4>2. response'[s].kind \in Results => worker[s] = "ok"
        BY <4>1 DEF ResultKind, Results, Outcomes
      <4> QED BY <1>0, <4>1, <4>2 DEF RanOf
    <3>5. CASE ResumeCrashed(s) \/ Hangup(s) \/ ConnectionLost(s) \/ Cancel(s)
      <4>1. pc'[s] = "done" /\ outbox' = outbox
        BY <1>0, <3>5 DEF ResumeCrashed, Hangup, ConnectionLost, Cancel, Retire,
                          TypeOK, wire
      <4> QED BY <1>0, <4>1 DEF RanOf
    <3>6. CASE Send(s)
      <4>1. /\ pc[s] = "send" /\ pc'[s] \in {"done", "hangup", "recv"}
            /\ outbox'[s] = Append(outbox[s], response[s])
            /\ outbox[s] \in Seq(Responses) /\ response[s] \in Responses
        BY <1>0, <3>6 DEF Send, NextAwait, Retire, TypeOK, HandlerOf
      <4>2. PICK r \in Responses : r = response[s]
        BY <4>1
      <4>3. \A i \in 1..Len(outbox'[s]) :
              outbox'[s][i] = r \/ (i \in 1..Len(outbox[s]) /\ outbox'[s][i] = outbox[s][i])
        BY <4>1, <4>2
      <4> QED BY <1>0, <4>1, <4>2, <4>3 DEF RanOf
    <3> QED BY <1>3, <2>2, <3>1, <3>2, <3>3, <3>4, <3>5, <3>6 DEF Handler
  <2> QED BY <2>1, <2>2
<1>4. CASE Stop
  BY <1>1, <1>4 DEF Stop, wire, serving, execution
<1> QED BY <1>2, <1>3, <1>4 DEF Server

LEMMA RanSteps ==
  ASSUME SystemInv, AskedInv, RanInv, NEW k \in Clients, ClientStep(k)
  PROVE  RanInv'
<1>0. TypeOK /\ ServiceInv /\ LocalInv /\ LocalTypes /\ LocalOf(k)
  BY DEF SystemInv, ServiceInv, LocalInv
<1> SUFFICES ASSUME NEW s \in Connections PROVE RanOf(s)'
  BY DEF RanInv
<1>1. RanOf(s) /\ outbox[s] \in Seq(Responses)
  BY <1>0 DEF RanInv, TypeOK
(* A step without a request: at most something is read, or dropped.        *)
<1>2. ASSUME ran' = ran, UNCHANGED vars \/ \E c \in Connections : Peer(c)
      PROVE  RanOf(s)'
  <2>1. CASE UNCHANGED vars
    BY <1>1, <1>2, <2>1 DEF vars, wire, serving, execution, RanOf
  <2>2. ASSUME NEW c \in Connections, Peer(c)
        PROVE  /\ UNCHANGED <<response, worker>>
               /\ pc'[s] = pc[s] \/ pc'[s] = "recv"
               /\ \/ outbox'[s] = outbox[s] \/ outbox'[s] = <<>>
                  \/ outbox[s] # <<>> /\ outbox'[s] = Tail(outbox[s])
    <3>1. CASE Connect(c)
      BY <1>0, <3>1 DEF Connect, TypeOK, serving, execution
    <3>2. CASE \E f \in Frames : PeerSend(c, f)
      BY <3>2 DEF PeerSend, serving, execution
    <3>3. CASE PeerReceive(c) \/ PeerLeave(c)
      BY <1>0, <3>3 DEF PeerReceive, PeerLeave, TypeOK, serving, execution
    <3> QED BY <2>2, <3>1, <3>2, <3>3 DEF Peer
  <2>3. CASE \E c \in Connections : Peer(c)
    <3>1. /\ UNCHANGED <<response, worker>>
          /\ pc'[s] = pc[s] \/ pc'[s] = "recv"
          /\ \/ outbox'[s] = outbox[s] \/ outbox'[s] = <<>>
             \/ outbox[s] # <<>> /\ outbox'[s] = Tail(outbox[s])
      BY <2>2, <2>3
    <3>2. \A i \in 1..Len(outbox'[s]) : \E j \in 1..Len(outbox[s]) :
            outbox'[s][i] = outbox[s][j]
      <4>1. CASE outbox'[s] = outbox[s] \/ outbox'[s] = <<>>
        BY <4>1
      <4>2. CASE outbox[s] # <<>> /\ outbox'[s] = Tail(outbox[s])
        <5>1. PICK q \in Seq(Responses) : q = outbox[s] /\ q # <<>>
          BY <1>1, <4>2
        <5>2. \A i \in 1..Len(Tail(q)) : i + 1 \in 1..Len(q) /\ Tail(q)[i] = q[i + 1]
          BY <5>1
        <5> QED BY <4>2, <5>1, <5>2
      <4> QED BY <3>1, <4>1, <4>2
    <3> QED BY <1>1, <1>2, <3>1, <3>2 DEF RanOf
  <2> QED BY <1>2, <2>1, <2>3
<1>3. CASE SendHello(k) \/ SendRequest(k)
  <2>1. PICK id, payload :
          /\ Sends(k, id, payload)
          /\ exchange[k] \in {"none", "connected"} /\ socket[k] # NoSocket
    BY <1>0, <1>3 DEF SendHello, SendRequest, AboutToSend, LocalOf
  <2>2. UNCHANGED <<pc, response, worker, outbox>> /\ ran' = ran \ {socket[k]}
    BY <2>1 DEF Sends, PeerSend, serving, execution
  <2>3. CASE s # socket[k]
    BY <1>1, <2>2, <2>3 DEF RanOf
  <2>4. CASE s = socket[k]
    <3>1. peer[s] = "open" /\ pc[s] # "done"
      BY <2>1, <2>4 DEF Sends, PeerSend
    <3>2. AskedOf(s, exchange[k]) /\ exchange[k] \notin Methodical
      BY <2>1, <2>4 DEF AskedInv, Methodical
    <3>3. CASE pc[s] = "hangup" /\ outbox[s] = <<>>
      BY <2>2, <3>3 DEF RanOf
    <3>4. CASE Len(asked[s]) = 0
      <4>1. Len(asked[s]) = Taken(s) + Len(inbox[s])
        BY <1>0, <3>1 DEF ServiceInv, WireInv, WireOf, Follows
      <4>2. Len(outbox[s]) \in Nat /\ Len(inbox[s]) \in Nat
        BY <1>0 DEF TypeOK
      <4>3. \A a, b \in Nat : (a + 1) + b # 0 /\ (a + b = 0 => a = 0)
        OBVIOUS
      <4>4. pc[s] \notin {"inflight", "send"} /\ Len(outbox[s]) = 0
        BY <3>4, <4>1, <4>2, <4>3 DEF Taken
      <4> QED BY <2>2, <4>4 DEF RanOf
    <3> QED BY <3>1, <3>2, <3>3, <3>4 DEF AskedOf
  <2> QED BY <2>3, <2>4
<1>4. CASE ~(SendHello(k) \/ SendRequest(k))
  <2>1. UNCHANGED vars \/ \E c \in Connections : Peer(c)
    BY <1>0, ClientForm DEF PeerStep
  <2>2. ran' = ran
    BY <1>4 DEF ClientStep, Call, Proceed, Open, GiveUp, BadInput, SendFails,
                WrongId, Accepted, Refused, Lost, Interrupt, Disconnect, Raise,
                history
  <2> QED BY <1>2, <2>1, <2>2
<1> QED BY <1>3, <1>4

LEMMA RanStep ==
  ASSUME SystemInv, AskedInv, RanInv, [ClientNext]_allvars
  PROVE  RanInv'
<1>1. CASE \E k \in Clients : ClientStep(k)
  BY <1>1, RanSteps
<1>2. CASE Server
  BY <1>2, RanServes DEF RanInv
<1>3. CASE Idle \/ UNCHANGED allvars
  BY <1>3 DEF Idle, allvars, vars, wire, serving, execution, history, RanInv, RanOf
<1> QED BY <1>1, <1>2, <1>3 DEF ClientNext, ClientStep

(* What RemotePolicy lets a call turn into. *)
Allowed(x, y) ==
  \/ x = y
  \/ x \in {"returned", "raised"} /\ y \in {"called", "returned", "raised"}
  \/ x = "called" /\ y = "ran"
  \/ x = "ran" /\ y = "returned"
  \/ x \in {"called", "ran"} /\ y = "lost"
  \/ x \in {"called", "ran", "lost"} /\ y = "raised"

AllCalls == [k \in Clients |-> CallOf(k)]

LEMMA OneCall ==
  ASSUME NEW k \in Clients, Allowed(CallOf(k), CallOf(k)'),
         \A j \in Clients : j # k => CallOf(j)' = CallOf(j)
  PROVE  [Policy!Next]_AllCalls
<1>1. PICK x, y : x = CallOf(k) /\ y = CallOf(k)'
  OBVIOUS
<1>2. AllCalls[k] = x
  BY <1>1 DEF AllCalls
<1>3. AllCalls' = [AllCalls EXCEPT ![k] = y]
  BY <1>1 DEF AllCalls
<1>4. CASE x = y
  <2>1. AllCalls' = AllCalls
    BY <1>1, <1>4 DEF AllCalls
  <2> QED BY <2>1
<1>5. CASE x # y
  <2>1. Allowed(x, y)
    BY <1>1
  <2>2. CASE x \in {"returned", "raised"}
    BY <1>2, <1>3, <1>5, <2>1, <2>2
    DEF Allowed, AllCalls, Policy!Next, Policy!Begin, Policy!Manage
  <2>3. CASE x \in {"called", "ran", "lost"}
    BY <1>2, <1>3, <1>5, <2>1, <2>3
    DEF Allowed, AllCalls, Policy!Next, Policy!Run, Policy!Return, Policy!Lose,
        Policy!Raise
  <2>4. x \in {"returned", "raised", "called", "ran", "lost"}
    BY <1>5, <2>1 DEF Allowed
  <2> QED BY <2>2, <2>3, <2>4
<1> QED BY <1>4, <1>5

LEMMA CallValues ==
  ASSUME NEW k \in Clients
  PROVE  CallOf(k) \in {"returned", "raised", "called", "ran", "lost"}
BY DEF CallOf

LEMMA CallSteps ==
  ASSUME SystemInv, RanInv, NEW k \in Clients, ClientStep(k), ~Interrupts
  PROVE  Allowed(CallOf(k), CallOf(k)')
<1>0. /\ TypeOK /\ LocalTypes /\ LocalOf(k)
      /\ method[k] \in Methods \cup {"none"}
      /\ exchange[k] \in {"none", "connected"} \cup Methodical
  BY DEF SystemInv, ServiceInv, LocalInv, LocalTypes
<1>1. ASSUME Ends(k, TRUE) PROVE Allowed(CallOf(k), CallOf(k)')
  <2>1. method'[k] = "none" /\ raised'[k]
    BY <1>0, <1>1 DEF Ends, LocalTypes
  <2>2. CallOf(k)' = "raised"
    BY <2>1 DEF CallOf
  <2> QED BY <2>2, CallValues DEF Allowed
<1>2. ASSUME Ends(k, FALSE), CallOf(k) \in {"returned", "raised", "ran"}
      PROVE  Allowed(CallOf(k), CallOf(k)')
  <2>1. method'[k] = "none" /\ ~raised'[k]
    BY <1>0, <1>2 DEF Ends, LocalTypes
  <2>2. CallOf(k)' = "returned"
    BY <2>1 DEF CallOf
  <2> QED BY <1>2, <2>2 DEF Allowed
<1>3. ASSUME method[k] \notin {"predict", "reset"}
      PROVE  CallOf(k) \in {"returned", "raised"}
  BY <1>3 DEF CallOf
<1>4. CASE \E m \in Methods : Call(k, m)
  <2>1. /\ method[k] = "none" /\ exchange'[k] = "none"
        /\ method'[k] \in Methods /\ ~raised'[k]
    BY <1>0, <1>4 DEF Call, LocalOf, LocalTypes
  <2>2. CallOf(k)' \in {"called", "returned"}
    BY <2>1 DEF CallOf
  <2> QED BY <1>3, <2>1, <2>2 DEF Allowed
(* The call goes on and has not sent its request yet.                      *)
<1>5. ASSUME method'[k] = method[k], raised'[k] = raised[k],
             exchange[k] \notin {"predict", "reset"},
             exchange'[k] \notin {"predict", "reset"}
      PROVE  Allowed(CallOf(k), CallOf(k)')
  <2>1. CallOf(k)' = CallOf(k)
    BY <1>5 DEF CallOf
  <2> QED BY <2>1 DEF Allowed
<1>6. CASE Open(k)
  <2>1. exchange[k] = "none" /\ exchange'[k] = "connected" /\ UNCHANGED <<method, raised>>
    BY <1>0, <1>6 DEF Open, Connecting, LocalOf, LocalTypes
  <2> QED BY <1>5, <2>1
<1>7. CASE GiveUp(k) \/ BadInput(k) \/ SendFails(k) \/ Lost(k)
  BY <1>1, <1>7 DEF GiveUp, BadInput, SendFails, Lost, Raise
<1>8. CASE SendHello(k)
  <2>1. /\ exchange[k] = "connected" /\ exchange'[k] = "hello"
        /\ UNCHANGED <<method, raised>>
    BY <1>0, <1>8 DEF SendHello, Sends, LocalTypes
  <2> QED BY <1>5, <2>1
<1>9. CASE SendRequest(k)
  <2>1. /\ exchange[k] = "none" /\ exchange'[k] = method[k]
        /\ UNCHANGED <<method, raised, socket, pc>>
        /\ ran' = ran \ {socket[k]} /\ pc[socket[k]] # "done"
    BY <1>0, <1>9 DEF SendRequest, AboutToSend, Sends, PeerSend, LocalTypes
  <2>2. CASE method[k] \in {"predict", "reset"}
    <3>1. CallOf(k) = "called" /\ CallOf(k)' = "called"
      BY <2>1, <2>2 DEF CallOf
    <3> QED BY <3>1 DEF Allowed
  <2>3. CASE method[k] \notin {"predict", "reset"}
    BY <1>5, <2>1, <2>3
  <2> QED BY <2>2, <2>3
<1>10. CASE Refused(k) \/ WrongId(k)
  BY <1>1, <1>10 DEF Refused, WrongId
<1>11. CASE Accepted(k)
  <2>1. CASE exchange[k] = "hello"
    <3>1. CASE method[k] = "connect"
      BY <1>2, <1>3, <1>11, <2>1, <3>1 DEF Accepted
    <3>2. CASE method[k] # "connect"
      <4>1. exchange'[k] = "none" /\ UNCHANGED <<method, raised>>
        BY <1>0, <1>11, <2>1, <3>2 DEF Accepted, LocalTypes
      <4> QED BY <1>5, <2>1, <4>1
    <3> QED BY <3>1, <3>2
  <2>2. CASE exchange[k] # "hello"
    <3>1. Ends(k, FALSE) /\ Reads(k) /\ Response(k).kind = exchange[k]
      BY <1>11, <2>2 DEF Accepted
    <3>2. CASE method[k] \in {"predict", "reset"}
      <4>0. exchange[k] \in Methodical
        BY <1>0, <3>1 DEF Reads, Awaits, Methods, Methodical
      <4>1. exchange[k] = method[k] /\ socket[k] \in Connections
        <5>1. exchange[k] = method[k]
          BY <1>0, <2>2, <4>0 DEF Methodical, LocalOf
        <5>2. socket[k] # NoSocket
          BY <1>0, <4>0 DEF Methodical, LocalOf
        <5> QED BY <1>0, <5>1, <5>2 DEF LocalTypes
      <4>2. PICK s \in Connections : s = socket[k]
        BY <4>1
      <4>3. RanOf(s) /\ outbox[s] \in Seq(Responses) /\ outbox[s] # <<>>
        BY <1>0, <3>1, <4>2 DEF RanInv, TypeOK, Reads
      <4>4. 1 \in 1..Len(outbox[s]) /\ outbox[s][1].kind \in Results
        BY <3>1, <3>2, <4>1, <4>2, <4>3 DEF Response, Results
      <4>5. socket[k] \in ran
        BY <4>2, <4>3, <4>4 DEF RanOf
      <4>6. CallOf(k) = "ran"
        BY <3>2, <4>1, <4>5 DEF CallOf
      <4> QED BY <1>2, <3>1, <4>6
    <3>3. CASE method[k] \notin {"predict", "reset"}
      BY <1>2, <1>3, <3>1, <3>3
    <3> QED BY <3>2, <3>3
  <2> QED BY <2>1, <2>2
<1>12. CASE Disconnect(k)
  <2>1. CASE exchange[k] = "none"
    BY <1>5, <1>12, <2>1 DEF Disconnect
  <2>2. CASE exchange[k] # "none"
    BY <1>1, <1>12, <2>2 DEF Disconnect
  <2> QED BY <2>1, <2>2
<1> QED
  BY <1>4, <1>6, <1>7, <1>8, <1>9, <1>10, <1>11, <1>12
  DEF ClientStep, Proceed, Interrupt

(* What becomes of a call depends on its own connection.                   *)
LEMMA CallStays ==
  ASSUME LocalTypes, NEW j \in Clients, LocalOf(j),
         method'[j] = method[j], exchange'[j] = exchange[j],
         raised'[j] = raised[j], socket'[j] = socket[j],
         socket[j] \in Connections =>
           /\ socket[j] \in ran' <=> socket[j] \in ran
           /\ pc'[socket[j]] = pc[socket[j]]
  PROVE  CallOf(j)' = CallOf(j)
<1>1. CASE method[j] \in {"predict", "reset"} /\ exchange[j] = method[j]
  <2>1. socket[j] \in Connections
    BY <1>1 DEF LocalOf, LocalTypes
  <2> QED BY <1>1, <2>1 DEF CallOf
<1>2. CASE ~(method[j] \in {"predict", "reset"} /\ exchange[j] = method[j])
  BY <1>2 DEF CallOf
<1> QED BY <1>1, <1>2

(* A step of the server: the call on the connection that moves runs or is  *)
(* lost.                                                                   *)
LEMMA CallServed ==
  ASSUME SystemInv, Server, NEW k \in Clients, socket[k] \in Connections
  PROVE  Allowed(CallOf(k), CallOf(k)')
<1>0. TypeOK /\ LocalTypes /\ LocalOf(k)
  BY DEF SystemInv, ServiceInv, LocalInv
<1>1. /\ UNCHANGED <<socket, method, exchange, raised>>
      /\ ran' = ran \cup {s \in Connections : pc[s] = "inflight" /\ worker[s] = "native"
                                                /\ worker'[s] = "ok"}
  BY DEF Server, Serves, local
<1>2. PICK s \in Connections : s = socket[k]
  OBVIOUS
<1>3. pc[s] = "done" => pc'[s] = "done"
  <2>1. ASSUME NEW c \in Connections, Worker(c) PROVE pc' = pc
    BY <2>1, WorkerKeeps
  <2>2. ASSUME NEW c \in Connections, Handler(c) PROVE pc[s] = "done" => pc'[s] = "done"
    <3>1. CASE c # s
      BY <1>0, <2>2, <3>1, OtherHandlers
    <3>2. CASE c = s
      BY <1>0, <2>2, <3>2, HandlerEnds
    <3> QED BY <3>1, <3>2
  <2> QED BY <2>1, <2>2 DEF Server, Stop
<1>4. s \in ran' /\ s \notin ran => pc[s] # "done"
  BY <1>1
<1>5. CASE method[k] \in {"predict", "reset"} /\ exchange[k] = method[k]
  <2>1. CallOf(k) = IF s \in ran THEN "ran" ELSE IF pc[s] = "done" THEN "lost" ELSE "called"
    BY <1>2, <1>5 DEF CallOf
  <2>2. CallOf(k)' = IF s \in ran' THEN "ran"
                     ELSE IF pc'[s] = "done" THEN "lost" ELSE "called"
    BY <1>1, <1>2, <1>5 DEF CallOf
  <2> QED BY <1>1, <1>3, <1>4, <2>1, <2>2 DEF Allowed
<1>6. CASE ~(method[k] \in {"predict", "reset"} /\ exchange[k] = method[k])
  <2>1. CallOf(k)' = CallOf(k)
    BY <1>1, <1>6 DEF CallOf
  <2> QED BY <2>1 DEF Allowed
<1> QED BY <1>5, <1>6

(* The calls of the other clients do not notice it.                        *)
LEMMA CallOthers ==
  ASSUME SystemInv, NEW k \in Clients, NEW j \in Clients, j # k, ClientStep(k)
  PROVE  CallOf(j)' = CallOf(j)
<1>0. TypeOK /\ LocalInv /\ LocalTypes /\ LocalOf(j) /\ OwnSocket(j) /\ OwnSocket(k)
  BY DEF SystemInv, ServiceInv, LocalInv
<1>1. PeerStep(k) /\ \E x, i, m, e, r : NewLocal(k, x, i, m, e, r)
  BY <1>0, ClientForm
<1>2. /\ socket'[j] = socket[j] /\ method'[j] = method[j]
      /\ exchange'[j] = exchange[j] /\ raised'[j] = raised[j]
  BY <1>0, <1>1 DEF NewLocal, LocalTypes
<1>3. ran' \in {ran, ran \ {socket[k]}}
  BY DEF ClientStep, Proceed, Call, Open, GiveUp, SendHello, SendRequest, Sends,
         BadInput, SendFails, WrongId, Accepted, Refused, Lost, Interrupt,
         Disconnect, Raise, history
<1>4. ASSUME socket[j] \in Connections PROVE socket[j] # socket[k]
  BY <1>0, <1>4, ClientAssumption DEF OwnSocket
<1>5. ASSUME socket[j] \in Connections
      PROVE  /\ socket[j] \in ran' <=> socket[j] \in ran
             /\ pc'[socket[j]] = pc[socket[j]]
  <2>1. socket[j] \in ran' <=> socket[j] \in ran
    <3>1. PICK s, z : s = socket[j] /\ z = socket[k] /\ s # z
      BY <1>4, <1>5
    <3>2. ran' = ran \/ ran' = ran \ {z}
      BY <1>3, <3>1
    <3>3. s \in ran' <=> s \in ran
      BY <3>1, <3>2
    <3> QED BY <3>1, <3>3
  <2>2. CASE UNCHANGED vars
    BY <2>1, <2>2 DEF vars
  <2>3. CASE \E c \in Connections : Peer(c) /\ (c = socket[k] \/ peer[c] = "new")
    <3>1. PICK c \in Connections : Peer(c) /\ (c = socket[k] \/ peer[c] = "new")
      BY <2>3
    <3>2. peer[socket[j]] # "new"
      BY <1>0, <1>5, ClientAssumption DEF OwnSocket
    <3>3. socket[j] # c
      BY <1>4, <1>5, <3>1, <3>2
    <3> QED BY <1>0, <1>5, <2>1, <3>1, <3>3, PeerFrame
  <2> QED BY <1>1, <2>1, <2>2, <2>3 DEF PeerStep
<1> QED BY <1>0, <1>2, <1>5, CallStays

(* At most one client owns the connection a step of the server moves.      *)
LEMMA ServedOthers ==
  ASSUME SystemInv, NEW c \in Connections, Worker(c) \/ Handler(c), Serves,
         NEW j \in Clients, socket[j] # c
  PROVE  CallOf(j)' = CallOf(j)
<1>0. TypeOK /\ LocalTypes /\ LocalOf(j)
  BY DEF SystemInv, ServiceInv, LocalInv
<1>1. UNCHANGED <<socket, method, exchange, raised>>
  BY DEF Serves, local
<1>2. ASSUME socket[j] \in Connections
      PROVE  /\ socket[j] \in ran' <=> socket[j] \in ran
             /\ pc'[socket[j]] = pc[socket[j]]
  <2>1. PICK s \in Connections : s = socket[j] /\ s # c
    BY <1>2
  <2>2. worker'[s] = worker[s]
    BY <1>0, <2>1, OtherWorkers
  <2>3. pc'[s] = pc[s]
    BY <1>0, <2>1, WorkerKeeps, OtherHandlers
  <2>4. s \in ran' <=> s \in ran
    BY <2>2 DEF Serves
  <2> QED BY <2>1, <2>3, <2>4
<1> QED BY <1>0, <1>1, <1>2, CallStays

LEMMA PolicyStep ==
  ASSUME SystemInv, RanInv, [ClientNext]_allvars, ~Interrupts
  PROVE  [Policy!Next]_AllCalls
<1>0. LocalTypes /\ TypeOK /\ \A k \in Clients : LocalOf(k) /\ OwnSocket(k)
  BY DEF SystemInv, ServiceInv, LocalInv
<1>1. ASSUME \A j \in Clients : CallOf(j)' = CallOf(j)
      PROVE  [Policy!Next]_AllCalls
  <2>1. AllCalls' = AllCalls
    BY <1>1 DEF AllCalls
  <2> QED BY <2>1
<1>2. CASE \E k \in Clients : ClientStep(k)
  <2>1. PICK k \in Clients : ClientStep(k)
    BY <1>2
  <2>2. Allowed(CallOf(k), CallOf(k)')
    BY <2>1, CallSteps
  <2>3. \A j \in Clients : j # k => CallOf(j)' = CallOf(j)
    BY <2>1, CallOthers
  <2> QED BY <2>2, <2>3, OneCall
<1>3. CASE Server /\ Stop
  <2>1. UNCHANGED <<socket, method, exchange, raised, pc, worker>>
    BY <1>3 DEF Server, Serves, local, Stop, execution
  <2>2. ran' = ran
    BY <1>0, <1>3, <2>1 DEF Server, Serves
  <2>3. \A j \in Clients : CallOf(j)' = CallOf(j)
    BY <2>1, <2>2 DEF CallOf
  <2> QED BY <1>1, <2>3
<1>4. CASE Server /\ \E c \in Connections : Worker(c) \/ Handler(c)
  <2>1. PICK c \in Connections : Worker(c) \/ Handler(c)
    BY <1>4
  <2>2. Serves
    BY <1>4 DEF Server
  <2>3. CASE \E k \in Clients : socket[k] = c
    <3>1. PICK k \in Clients : socket[k] = c
      BY <2>3
    <3>2. Allowed(CallOf(k), CallOf(k)')
      BY <1>4, <3>1, CallServed
    <3>3. \A j \in Clients : j # k => socket[j] # c
      BY <1>0, <3>1, ClientAssumption DEF OwnSocket
    <3>4. \A j \in Clients : j # k => CallOf(j)' = CallOf(j)
      BY <2>1, <2>2, <3>3, ServedOthers
    <3> QED BY <3>2, <3>4, OneCall
  <2>4. CASE ~ \E k \in Clients : socket[k] = c
    <3>1. \A j \in Clients : CallOf(j)' = CallOf(j)
      BY <2>1, <2>2, <2>4, ServedOthers
    <3> QED BY <1>1, <3>1
  <2> QED BY <2>3, <2>4
<1>5. CASE Idle \/ UNCHANGED allvars
  <2>1. UNCHANGED <<socket, method, exchange, raised, pc, ran>>
    BY <1>5 DEF Idle, allvars, vars, wire, conn, serving, execution, history, local
  <2>2. \A j \in Clients : CallOf(j)' = CallOf(j)
    BY <2>1 DEF CallOf
  <2> QED BY <1>1, <2>2
<1> QED BY <1>2, <1>3, <1>4, <1>5 DEF ClientNext, ClientStep, Server

LEMMA PolicyInit ==
  ASSUME ClientInit
  PROVE  Policy!Init /\ AskedInv /\ RanInv
<1>1. Policy!Init
  BY DEF ClientInit, Policy!Init, CallOf
<1>2. AskedInv
  BY DEF ClientInit, AskedInv
<1>3. RanInv
  BY DEF ClientInit, Init, RanInv, RanOf
<1> QED BY <1>1, <1>2, <1>3

LEMMA PolicyInvariance ==
  ~Interrupts => (RpcSpec => [](SystemInv /\ AskedInv /\ RanInv))
<1> SUFFICES ASSUME ~Interrupts
             PROVE  RpcSpec => [](SystemInv /\ AskedInv /\ RanInv)
  OBVIOUS
<1>1. ClientInit => SystemInv /\ AskedInv /\ RanInv
  BY SystemInit, PolicyInit
<1>2. SystemInv /\ AskedInv /\ RanInv /\ [ClientNext]_allvars
        => (SystemInv /\ AskedInv /\ RanInv)'
  BY SystemStep, AskedStep, RanStep
<1> QED BY <1>1, <1>2, PTL DEF RpcSpec

(* RemotePolicy without its fairness: no call of a client (remote.py)      *)
(* returns a result unless its own request ran on the model while the call *)
(* was under way, whatever connections were lost, refused or reopened; an  *)
(* interrupted recv() is what breaks it.                                   *)
THEOREM ReturnedCallsRan == ~Interrupts => (RpcSpec => Policy!Safety)
<1> SUFFICES ASSUME ~Interrupts PROVE RpcSpec => Policy!Safety
  OBVIOUS
<1>1. ClientInit => Policy!Init
  BY PolicyInit
<1>2. SystemInv /\ AskedInv /\ RanInv /\ [ClientNext]_allvars
        => [Policy!Next]_AllCalls
  BY PolicyStep
<1> QED BY <1>1, <1>2, PolicyInvariance, PTL DEF RpcSpec, Policy!Safety, AllCalls

-----------------------------------------------------------------------------
(* A result has an id below the one the server expects next, and below any *)
(* later answer that is not fatal.                                         *)
CountedOf(c) ==
  /\ pc[c] \in {"acquire", "inflight"} => request[c].id = expected[c]
  /\ pc[c] = "send" =>
       /\ response[c].kind \in Results => response[c].id < expected[c]
       /\ response[c].kind # "fatal" =>
            \A i \in 1..Len(outbox[c]) :
              outbox[c][i].kind \in Results => outbox[c][i].id < response[c].id
  /\ \A i \in 1..Len(outbox[c]) : outbox[c][i].kind \in Results =>
       /\ outbox[c][i].id < expected[c]
       /\ \A j \in 1..Len(outbox[c]) :
            i < j /\ outbox[c][j].kind # "fatal" => outbox[c][i].id < outbox[c][j].id

CountedInv == \A c \in Connections : CountedOf(c)

LEMMA CountedFrame ==
  ASSUME NEW d \in Connections, CountedOf(d),
         pc'[d] = pc[d], request'[d] = request[d], response'[d] = response[d],
         expected'[d] = expected[d], outbox'[d] = outbox[d]
  PROVE  CountedOf(d)'
BY DEF CountedOf

(* What is read, or dropped, leaves a tail. *)
LEMMA CountedTail ==
  ASSUME TypeOK, NEW d \in Connections, CountedOf(d),
         pc'[d] = pc[d] \/ pc'[d] = "recv", request'[d] = request[d],
         response'[d] = response[d], expected'[d] = expected[d],
         \/ outbox'[d] = outbox[d] \/ outbox'[d] = <<>>
         \/ outbox[d] # <<>> /\ outbox'[d] = Tail(outbox[d])
  PROVE  CountedOf(d)'
<1>1. CASE outbox'[d] = outbox[d] \/ outbox'[d] = <<>>
  BY <1>1 DEF CountedOf
<1>2. CASE outbox[d] # <<>> /\ outbox'[d] = Tail(outbox[d])
  <2>1. PICK q \in Seq(Responses) : q = outbox[d] /\ q # <<>>
    BY <1>2 DEF TypeOK
  <2>2. outbox'[d] = Tail(q)
    BY <1>2, <2>1
  <2>3. \A i \in 1..Len(Tail(q)) : i + 1 \in 1..Len(q) /\ Tail(q)[i] = q[i + 1]
    BY <2>1
  <2>4. \A i, j \in 1..Len(Tail(q)) : i < j => i + 1 < j + 1
    BY <2>1
  <2> QED BY <2>1, <2>2, <2>3, <2>4 DEF CountedOf
<1> QED BY <1>1, <1>2

LEMMA CountedPeer ==
  ASSUME ServiceInv, CountedInv, NEW c \in Connections, Peer(c),
         NEW d \in Connections
  PROVE  CountedOf(d)'
<1>0. TypeOK /\ CountedOf(d)
  BY DEF ServiceInv, CountedInv
<1>1. CASE Connect(c)
  <2>1. /\ UNCHANGED <<request, response, expected, outbox>>
        /\ pc'[d] = pc[d] \/ pc'[d] = "recv"
    BY <1>0, <1>1 DEF Connect, TypeOK, conn, serving
  <2> QED BY <1>0, <2>1, CountedTail
<1>2. CASE \E f \in Frames : PeerSend(c, f)
  BY <1>0, <1>2, CountedFrame DEF PeerSend, conn, serving
<1>3. CASE PeerReceive(c) \/ PeerLeave(c)
  <2>1. /\ UNCHANGED <<request, response, expected, pc>>
        /\ \/ outbox'[d] = outbox[d] \/ outbox'[d] = <<>>
           \/ outbox[d] # <<>> /\ outbox'[d] = Tail(outbox[d])
    BY <1>0, <1>3 DEF PeerReceive, PeerLeave, TypeOK, conn, serving
  <2> QED BY <1>0, <2>1, CountedTail
<1> QED BY <1>1, <1>2, <1>3 DEF Peer

LEMMA ElsewhereKept ==
  ASSUME TypeOK, NEW c \in Connections, NEW d \in Connections, Handler(c), d # c
  PROVE  request'[d] = request[d] /\ inbox'[d] = inbox[d]
<1>1. CASE RejectFrame(c) \/ RejectId(c) \/ RejectFirst(c) \/ Hello(c)
             \/ CloseRequest(c) \/ RejectPayload(c)
  BY <1>1 DEF RejectFrame, RejectId, RejectFirst, Hello, CloseRequest,
              RejectPayload, Reply, TypeOK
<1>2. CASE Execute(c) \/ Acquire(c) \/ Resume(c) \/ ResumeCrashed(c)
  BY <1>2 DEF Execute, Acquire, Resume, ResumeCrashed, TypeOK, serving, wire
<1>3. CASE Send(c) \/ Hangup(c) \/ ConnectionLost(c) \/ Cancel(c)
  BY <1>3 DEF Send, Hangup, ConnectionLost, Cancel, serving, wire
<1> QED BY <1>1, <1>2, <1>3 DEF Handler

LEMMA OutboxIds ==
  ASSUME TypeOK, NEW d \in Connections
  PROVE  \A i \in 1..Len(outbox[d]) : outbox[d][i].id \in Nat
<1>1. PICK q \in Seq(Responses) : q = outbox[d]
  BY DEF TypeOK
<1>2. \A i \in 1..Len(q) : q[i] \in Responses
  BY <1>1
<1> QED BY <1>1, <1>2 DEF Responses

LEMMA CountedHandler ==
  ASSUME ServiceInv, CountedInv, NEW d \in Connections, Handler(d)
  PROVE  CountedOf(d)'
<1>0. TypeOK /\ CountedOf(d) /\ HandlerOf(d) /\ expected[d] \in Nat
  BY DEF ServiceInv, HandlerInv, CountedInv, TypeOK
<1>1. CASE Replying(d)
  <2>1. PICK f \in Frames, id \in Nat, kind \in {"hello", "close", "error", "fatal"} :
          /\ Reply(d, f, id, kind)
          /\ kind # "fatal" => id = expected[d]
          /\ \/ expected'[d] = expected[d]
             \/ expected'[d] = expected[d] + 1
    BY <1>0, <1>1, ServiceAssumption
    DEF Replying, RejectFrame, RejectId, RejectFirst, Hello, CloseRequest,
        RejectPayload, InOrder, TypeOK, Requests
  <2>2. /\ pc'[d] = "send" /\ outbox'[d] = outbox[d]
        /\ response'[d].id = id /\ response'[d].kind = kind
    BY <1>0, <2>1 DEF Reply, TypeOK
  <2>3. kind \notin Results
    BY <2>1 DEF Results
  <2>4. \A i \in 1..Len(outbox[d]) : outbox[d][i].kind \in Results =>
          outbox[d][i].id < expected'[d]
    <3>1. \A i \in 1..Len(outbox[d]) : outbox[d][i].id \in Nat
      BY <1>0, OutboxIds
    <3>2. \A a, b \in Nat : a < b => a < b + 1
      OBVIOUS
    <3> QED BY <1>0, <2>1, <3>1, <3>2 DEF CountedOf
  <2> QED BY <1>0, <2>1, <2>2, <2>3, <2>4 DEF CountedOf
<1>2. CASE Execute(d)
  <2>1. PICK f \in Frames : f.id = expected[d] /\ request' = [request EXCEPT ![d] = f]
    BY <1>2 DEF Execute, InOrder
  <2>2. /\ pc'[d] \in {"acquire", "inflight"} /\ UNCHANGED <<outbox, expected>>
    BY <1>0, <1>2 DEF Execute, StartWorker, TypeOK, conn
  <2>3. request'[d].id = expected[d]
    BY <1>0, <2>1 DEF TypeOK
  <2> QED BY <1>0, <2>2, <2>3 DEF CountedOf
<1>3. CASE Acquire(d)
  <2>1. /\ pc[d] = "acquire" /\ pc'[d] = "inflight" /\ UNCHANGED <<outbox, expected, request>>
    BY <1>0, <1>3 DEF Acquire, StartWorker, TypeOK, wire, conn, serving
  <2> QED BY <1>0, <2>1 DEF CountedOf
<1>4. CASE Resume(d)
  <2>1. /\ pc[d] = "inflight" /\ pc'[d] = "send" /\ outbox' = outbox
        /\ response'[d].id = request[d].id
        /\ expected'[d] = expected[d] + 1
    BY <1>0, <1>4 DEF Resume, TypeOK, wire
  <2>2. response'[d].id = expected[d]
    BY <1>0, <2>1 DEF CountedOf
  <2>3. \A i \in 1..Len(outbox[d]) : outbox[d][i].id \in Nat
    BY <1>0, OutboxIds
  <2>4. \A a, b \in Nat : a < b => a < b + 1
    OBVIOUS
  <2>5. expected[d] < expected[d] + 1
    BY <1>0
  <2> QED BY <1>0, <2>1, <2>2, <2>3, <2>4, <2>5 DEF CountedOf
<1>5. CASE ResumeCrashed(d) \/ Hangup(d) \/ ConnectionLost(d) \/ Cancel(d)
  <2>1. pc'[d] = "done" /\ UNCHANGED <<outbox, expected>>
    BY <1>0, <1>5 DEF ResumeCrashed, Hangup, ConnectionLost, Cancel, Retire,
                      TypeOK, wire
  <2> QED BY <1>0, <2>1 DEF CountedOf
<1>6. CASE Send(d)
  <2>1. /\ pc[d] = "send" /\ pc'[d] \in {"done", "hangup", "recv"}
        /\ outbox'[d] = Append(outbox[d], response[d])
        /\ outbox[d] \in Seq(Responses) /\ response[d] \in Responses
        /\ expected' = expected
    BY <1>0, <1>6 DEF Send, NextAwait, Retire, TypeOK, HandlerOf
  <2>2. PICK q \in Seq(Responses), r \in Responses : q = outbox[d] /\ r = response[d]
    BY <2>1
  <2>3. \A i \in 1..Len(Append(q, r)) :
          \/ i \in 1..Len(q) /\ Append(q, r)[i] = q[i]
          \/ i = Len(q) + 1 /\ Append(q, r)[i] = r
    BY <2>2
  <2>4. \A i \in 1..Len(q) : ~(Len(q) + 1 < i)
    BY <2>2
  <2>4a. ~(Len(q) + 1 < Len(q) + 1)
    BY <2>2
  <2>5. /\ r.kind \in Results => r.id < expected[d]
        /\ r.kind # "fatal" => \A i \in 1..Len(q) : q[i].kind \in Results => q[i].id < r.id
        /\ \A i \in 1..Len(q) : q[i].kind \in Results =>
             /\ q[i].id < expected[d]
             /\ \A j \in 1..Len(q) : i < j /\ q[j].kind # "fatal" => q[i].id < q[j].id
    BY <1>0, <2>1, <2>2 DEF CountedOf
  <2>6. outbox'[d] = Append(q, r)
    BY <2>1, <2>2
  <2>7. ASSUME NEW i \in 1..Len(Append(q, r)), Append(q, r)[i].kind \in Results
        PROVE  /\ Append(q, r)[i].id < expected[d]
               /\ \A j \in 1..Len(Append(q, r)) :
                    i < j /\ Append(q, r)[j].kind # "fatal"
                      => Append(q, r)[i].id < Append(q, r)[j].id
    BY <2>3, <2>4, <2>4a, <2>5, <2>7
  <2> QED BY <2>1, <2>6, <2>7 DEF CountedOf
<1> QED BY <1>1, <1>2, <1>3, <1>4, <1>5, <1>6 DEF Handler, Replying

LEMMA CountedStep ==
  ASSUME ServiceInv, CountedInv, [Next]_vars PROVE CountedInv'
<1> SUFFICES ASSUME NEW d \in Connections PROVE CountedOf(d)'
  BY DEF CountedInv
<1>0. TypeOK /\ CountedOf(d)
  BY DEF ServiceInv, CountedInv
<1>1. ASSUME NEW c \in Connections, Peer(c) PROVE CountedOf(d)'
  BY <1>1, CountedPeer
<1>2. ASSUME NEW c \in Connections, Worker(c) PROVE CountedOf(d)'
  BY <1>0, <1>2, WorkerKeeps, CountedFrame DEF wire, conn, serving
<1>3. ASSUME NEW c \in Connections, Handler(c) PROVE CountedOf(d)'
  <2>1. CASE c # d
    BY <1>0, <1>3, <2>1, OtherHandlers, ElsewhereKept, CountedFrame
  <2>2. CASE c = d
    BY <1>3, <2>2, CountedHandler
  <2> QED BY <2>1, <2>2
<1>4. CASE Stop \/ UNCHANGED vars
  BY <1>0, <1>4, CountedFrame DEF Stop, vars, wire, conn, serving
<1> QED BY <1>1, <1>2, <1>3, <1>4 DEF Next, Finished

-----------------------------------------------------------------------------
(* No result is on its way to the peer of s, and none will be: what the    *)
(* server does next ends the connection.                                   *)
DoomedOf(s) ==
  /\ \A i \in 1..Len(outbox[s]) : outbox[s][i].kind \notin Results
  /\ \/ peer[s] = "left"
     \/ pc[s] \in {"hangup", "done"}
     \/ pc[s] = "send" /\ response[s].kind = "fatal"
     \/ pc[s] = "recv" /\ inbox[s] # <<>> /\ Head(inbox[s]).id # expected[s]

LEMMA DoomedFrame ==
  ASSUME NEW d \in Connections, DoomedOf(d), peer'[d] = peer[d], pc'[d] = pc[d],
         inbox'[d] = inbox[d], outbox'[d] = outbox[d], response'[d] = response[d],
         expected'[d] = expected[d]
  PROVE  DoomedOf(d)'
BY DEF DoomedOf

LEMMA DoomedPeer ==
  ASSUME ServiceInv, NEW d \in Connections, DoomedOf(d), Peer(d)
  PROVE  DoomedOf(d)'
<1>0. TypeOK /\ WireOf(d) /\ UNCHANGED <<expected, response>>
  BY PeerKeeps DEF ServiceInv, WireInv
<1>1. CASE Connect(d)
  <2>1. peer[d] = "new" /\ pc[d] = "idle"
    BY <1>0, <1>1 DEF Connect, WireOf
  <2> QED BY <2>1 DEF DoomedOf
<1>2. CASE \E f \in Frames : PeerSend(d, f)
  <2>1. PICK f \in Frames : PeerSend(d, f)
    BY <1>2
  <2>2. PICK q \in Seq(Requests) : q = inbox[d]
    BY <1>0 DEF TypeOK
  <2>3. /\ UNCHANGED <<peer, outbox, pc>> /\ inbox'[d] = Append(q, f)
        /\ f \in Requests
    BY <1>0, <2>1, <2>2, ServiceAssumption DEF PeerSend, TypeOK
  <2>4. q # <<>> => Append(q, f) # <<>> /\ Head(Append(q, f)) = Head(q)
    BY <2>2, <2>3
  <2> QED BY <1>0, <2>2, <2>3, <2>4 DEF DoomedOf
<1>3. CASE PeerReceive(d)
  <2>1. PICK q \in Seq(Responses) : q = outbox[d]
    BY <1>0 DEF TypeOK
  <2>2. /\ UNCHANGED <<peer, inbox, pc>> /\ q # <<>> /\ outbox'[d] = Tail(q)
    BY <1>0, <1>3, <2>1 DEF PeerReceive, TypeOK
  <2>3. \A i \in 1..Len(Tail(q)) : i + 1 \in 1..Len(q) /\ Tail(q)[i] = q[i + 1]
    BY <2>1, <2>2
  <2> QED BY <1>0, <2>1, <2>2, <2>3 DEF DoomedOf
<1>4. CASE PeerLeave(d)
  <2>1. peer'[d] = "left" /\ outbox'[d] = <<>>
    BY <1>0, <1>4 DEF PeerLeave, TypeOK
  <2> QED BY <2>1 DEF DoomedOf
<1> QED BY <1>1, <1>2, <1>3, <1>4 DEF Peer

LEMMA DoomedHandler ==
  ASSUME ServiceInv, NEW d \in Connections, DoomedOf(d), Handler(d)
  PROVE  DoomedOf(d)'
<1>0. TypeOK /\ FinalOf(d) /\ WireOf(d) /\ HandlerOf(d) /\ peer'[d] = peer[d]
  BY ServerKeeps DEF ServiceInv, FinalInv, WireInv, HandlerInv, ServerStep
<1>1. CASE ResumeCrashed(d) \/ Hangup(d) \/ ConnectionLost(d) \/ Cancel(d)
  <2>1. pc'[d] = "done" /\ outbox' = outbox
    BY <1>0, <1>1 DEF ResumeCrashed, Hangup, ConnectionLost, Cancel, Retire,
                      TypeOK, wire
  <2> QED BY <2>1 DEF DoomedOf
<1>2. CASE Send(d)
  <2>1. /\ peer[d] = "open" /\ pc[d] = "send"
        /\ closed[d] => pc'[d] \in {"done", "hangup"}
        /\ outbox'[d] = Append(outbox[d], response[d])
        /\ outbox[d] \in Seq(Responses) /\ response[d] \in Responses
    BY <1>0, <1>2 DEF Send, NextAwait, Retire, TypeOK, HandlerOf
  <2>2. response[d].kind = "fatal"
    BY <2>1 DEF DoomedOf
  <2>3. pc'[d] \in {"done", "hangup"}
    BY <1>0, <2>1, <2>2 DEF FinalOf, Final
  <2>4. PICK q \in Seq(Responses), r \in Responses : q = outbox[d] /\ r = response[d]
    BY <2>1
  <2>5. \A i \in 1..Len(Append(q, r)) :
          (i \in 1..Len(q) /\ Append(q, r)[i] = q[i]) \/ Append(q, r)[i] = r
    BY <2>4
  <2>6. \A i \in 1..Len(outbox'[d]) : outbox'[d][i].kind \notin Results
    BY <2>1, <2>2, <2>4, <2>5 DEF DoomedOf, Results
  <2> QED BY <2>3, <2>6 DEF DoomedOf
<1>3. CASE RejectFrame(d) \/ RejectId(d)
  <2>1. PICK f, id : Reply(d, f, id, "fatal")
    BY <1>3 DEF RejectFrame, RejectId
  <2>2. /\ pc'[d] = "send" /\ outbox' = outbox /\ response'[d].kind = "fatal"
    BY <1>0, <2>1 DEF Reply, TypeOK
  <2> QED BY <2>2 DEF DoomedOf
<1>4. CASE Execute(d) \/ RejectFirst(d) \/ Hello(d) \/ CloseRequest(d) \/ RejectPayload(d)
  <2>1. pc[d] = "recv" /\ Head(inbox[d]).id = expected[d] /\ outbox' = outbox
    BY <1>4 DEF Execute, RejectFirst, Hello, CloseRequest, RejectPayload, InOrder, Reply
  <2>2. peer[d] = "left"
    BY <2>1 DEF DoomedOf
  <2> QED BY <1>0, <2>1, <2>2 DEF DoomedOf
<1>5. CASE Acquire(d) \/ Resume(d)
  <2>1. pc[d] \in {"acquire", "inflight"} /\ outbox' = outbox
    BY <1>5 DEF Acquire, Resume, wire
  <2>2. peer[d] = "left"
    BY <2>1 DEF DoomedOf
  <2> QED BY <1>0, <2>1, <2>2 DEF DoomedOf
<1> QED BY <1>1, <1>2, <1>3, <1>4, <1>5 DEF Handler

LEMMA DoomedStep ==
  ASSUME ServiceInv, [Next]_vars, NEW d \in Connections, DoomedOf(d)
  PROVE  DoomedOf(d)'
<1>0. TypeOK
  BY DEF ServiceInv
<1>1. ASSUME NEW c \in Connections, Peer(c) PROVE DoomedOf(d)'
  <2>1. CASE c # d
    BY <1>0, <1>1, <2>1, PeerFrame, PeerKeeps, DoomedFrame
  <2>2. CASE c = d
    BY <1>1, <2>2, DoomedPeer
  <2> QED BY <2>1, <2>2
<1>2. ASSUME NEW c \in Connections, Worker(c) PROVE DoomedOf(d)'
  BY <1>2, WorkerKeeps, DoomedFrame DEF wire, conn, serving
<1>3. ASSUME NEW c \in Connections, Handler(c) PROVE DoomedOf(d)'
  <2>1. CASE c # d
    <3>1. peer'[d] = peer[d]
      BY <1>3, ServerKeeps DEF ServerStep
    <3>2. inbox'[d] = inbox[d]
      BY <1>0, <1>3, <2>1, ElsewhereKept
    <3> QED BY <1>0, <1>3, <2>1, <3>1, <3>2, OtherHandlers, DoomedFrame
  <2>2. CASE c = d
    BY <1>3, <2>2, DoomedHandler
  <2> QED BY <2>1, <2>2
<1>4. CASE Stop \/ UNCHANGED vars
  BY <1>4, DoomedFrame DEF Stop, vars, wire, conn, serving
<1> QED BY <1>1, <1>2, <1>3, <1>4 DEF Next, Finished

-----------------------------------------------------------------------------
(* The requests of a client that are not answered yet: their ids do not    *)
(* fall, and none is above the client's counter.                           *)
RiseOf(s, id, e) ==
  /\ \A i \in 1..Len(asked[s]) :
       /\ asked[s][i].id <= id /\ asked[s][i].payload # "garbage"
       /\ \A j \in 1..Len(asked[s]) : i < j => asked[s][i].id <= asked[s][j].id
  /\ e = "connected" => Len(asked[s]) = 0
  /\ e = "hello" => Len(asked[s]) <= 1

RiseInv ==
  \A k \in Clients :
    socket[k] # NoSocket => RiseOf(socket[k], request_id[k], exchange[k])

StaleInv == \A s \in stale : DoomedOf(s)

LEMMA RiseEmpty ==
  ASSUME NEW s \in Connections, NEW id, NEW e, Len(asked'[s]) = 0
  PROVE  RiseOf(s, id, e)'
<1>1. 1..Len(asked'[s]) = {} /\ Len(asked'[s]) <= 1
  OBVIOUS
<1> QED BY <1>1 DEF RiseOf

LEMMA RiseKept ==
  ASSUME TypeOK, NEW s \in Connections, NEW id \in Nat, NEW id2 \in Nat, NEW e,
         NEW e2, RiseOf(s, id, e), id <= id2, e2 = e \/ e2 \notin {"connected", "hello"},
         \/ asked'[s] = asked[s]
         \/ asked[s] # <<>> /\ asked'[s] = Tail(asked[s])
  PROVE  /\ \A i \in 1..Len(asked'[s]) :
              /\ asked'[s][i].id <= id2 /\ asked'[s][i].payload # "garbage"
              /\ \A j \in 1..Len(asked'[s]) : i < j => asked'[s][i].id <= asked'[s][j].id
         /\ e2 = "connected" => Len(asked'[s]) = 0
         /\ e2 = "hello" => Len(asked'[s]) <= 1
<1>1. PICK q \in Seq(Requests) : q = asked[s]
  BY DEF TypeOK
<1>2. \A a, b, c \in Nat : a <= b /\ b <= c => a <= c
  OBVIOUS
<1>3. \A i \in 1..Len(q) : q[i].id \in Nat
  <2>1. \A i \in 1..Len(q) : q[i] \in Requests
    BY <1>1
  <2> QED BY <2>1 DEF Requests
<1>4. /\ \A i \in 1..Len(q) :
           /\ q[i].id <= id /\ q[i].payload # "garbage"
           /\ \A j \in 1..Len(q) : i < j => q[i].id <= q[j].id
      /\ e2 = "connected" => Len(q) = 0
      /\ e2 = "hello" => Len(q) <= 1
  BY <1>1 DEF RiseOf
<1>5. \A i \in 1..Len(q) : q[i].id <= id2
  BY <1>2, <1>3, <1>4
<1>6. CASE asked'[s] = asked[s]
  BY <1>1, <1>4, <1>5, <1>6
<1>7. CASE asked[s] # <<>> /\ asked'[s] = Tail(asked[s])
  <2>1. asked'[s] = Tail(q) /\ q # <<>>
    BY <1>1, <1>7
  <2>2. \A i \in 1..Len(Tail(q)) : i + 1 \in 1..Len(q) /\ Tail(q)[i] = q[i + 1]
    BY <1>1, <2>1
  <2>3. \A i, j \in 1..Len(Tail(q)) : i < j => i + 1 < j + 1
    BY <1>1
  <2>4. Len(Tail(q)) <= Len(q) /\ Len(q) # 0
    BY <1>1, <2>1
  <2> QED BY <1>1, <1>4, <1>5, <2>1, <2>2, <2>3, <2>4
<1> QED BY <1>6, <1>7

LEMMA RiseSteps ==
  ASSUME ServiceInv, LocalInv, NEW k \in Clients, ClientStep(k),
         socket[k] # NoSocket => RiseOf(socket[k], request_id[k], exchange[k])
  PROVE  socket'[k] # NoSocket => RiseOf(socket[k], request_id[k], exchange[k])'
<1>0. /\ TypeOK /\ LocalTypes /\ LocalOf(k)
      /\ socket[k] \in Connections \cup {NoSocket}
      /\ request_id[k] \in Nat
      /\ exchange[k] \in {"none", "connected"} \cup Methodical
  BY DEF ServiceInv, LocalInv, LocalTypes
<1>1. ASSUME UNCHANGED <<asked, socket, request_id>>,
             exchange'[k] \in {exchange[k], "none"}
      PROVE  socket'[k] # NoSocket => RiseOf(socket[k], request_id[k], exchange[k])'
  BY <1>1 DEF RiseOf
<1>2. ASSUME Raise(k)
      PROVE  socket'[k] # NoSocket => RiseOf(socket[k], request_id[k], exchange[k])'
  <2>1. \/ socket'[k] = NoSocket
        \/ UNCHANGED <<asked, socket, request_id>> /\ exchange'[k] = "none"
    BY <1>0, <1>2 DEF Raise, Ends, CloseSocket, LocalTypes, vars, wire
  <2> QED BY <1>1, <2>1
<1>3. CASE \E m \in Methods : Call(k, m)
  BY <1>1, <1>3 DEF Call, vars, wire
<1>4. CASE Open(k)
  <2>1. PICK s \in Connections : Connect(s) /\ socket'[k] = s
    BY <1>0, <1>4 DEF Open, LocalTypes
  <2>2. Len(asked'[s]) = 0
    BY <2>1 DEF Connect, ServiceInv, WireInv, WireOf
  <2> QED BY <2>1, <2>2, RiseEmpty DEF RiseOf
<1>5. CASE GiveUp(k) \/ BadInput(k) \/ SendFails(k) \/ Lost(k) \/ Interrupt(k)
  BY <1>2, <1>5 DEF GiveUp, BadInput, SendFails, Lost, Interrupt
<1>6. CASE SendHello(k) \/ SendRequest(k)
  <2>1. PICK id \in Nat, payload \in Methodical :
          /\ Sends(k, id, payload) /\ socket[k] # NoSocket
          /\ id <= request_id[k]
          /\ \/ payload = "hello" /\ exchange[k] = "connected"
             \/ payload # "hello" /\ id = request_id[k]
    <3>1. CASE SendHello(k)
      BY <1>0, <3>1 DEF SendHello, LocalOf, Methodical
    <3>2. CASE SendRequest(k)
      BY <1>0, <3>2 DEF SendRequest, AboutToSend, Methodical
    <3> QED BY <1>6, <3>1, <3>2
  <2>2. PICK s \in Connections : s = socket[k]
    BY <1>0, <2>1
  <2>3. PICK q \in Seq(Requests), f \in Requests :
          q = asked[s] /\ f = [id |-> id, payload |-> payload]
    BY <1>0, <2>1 DEF TypeOK, Requests, Payloads, Methodical
  <2>4. /\ asked'[s] = Append(q, f) /\ socket'[k] = s
        /\ exchange'[k] = payload /\ request_id'[k] = request_id[k]
    BY <1>0, <2>1, <2>2, <2>3 DEF Sends, PeerSend, TypeOK, LocalTypes
  <2>5. /\ \A i \in 1..Len(q) :
             /\ q[i].id <= request_id[k] /\ q[i].payload # "garbage"
             /\ \A j \in 1..Len(q) : i < j => q[i].id <= q[j].id
        /\ exchange[k] = "connected" => Len(q) = 0
    BY <2>1, <2>2, <2>3 DEF RiseOf
  <2>6. /\ f.id <= request_id[k] /\ f.payload # "garbage"
        /\ \A i \in 1..Len(q) : q[i].id <= f.id
    <3>1. CASE Len(q) = 0
      BY <2>1, <2>3, <3>1 DEF Methodical
    <3>2. CASE id = request_id[k]
      BY <2>1, <2>3, <2>5, <3>2 DEF Methodical
    <3> QED BY <2>1, <2>5, <3>1, <3>2
  <2>7. /\ \A i \in 1..Len(Append(q, f)) :
             \/ i \in 1..Len(q) /\ Append(q, f)[i] = q[i]
             \/ i = Len(q) + 1 /\ Append(q, f)[i] = f
        /\ \A i \in 1..Len(q) : ~(Len(q) + 1 < i)
        /\ ~(Len(q) + 1 < Len(q) + 1)
    BY <2>3
  <2>8. ASSUME NEW i \in 1..Len(Append(q, f))
        PROVE  /\ Append(q, f)[i].id <= request_id[k]
               /\ Append(q, f)[i].payload # "garbage"
               /\ \A j \in 1..Len(Append(q, f)) :
                    i < j => Append(q, f)[i].id <= Append(q, f)[j].id
    BY <2>5, <2>6, <2>7, <2>8
  <2>9. payload = "hello" => Len(Append(q, f)) <= 1
    BY <2>1, <2>3, <2>5
  <2>10. payload # "connected"
    BY DEF Methodical
  <2>11. (socket'[k] = s /\ exchange'[k] = payload
           /\ request_id'[k] = request_id[k] /\ asked'[s] = Append(q, f))
           => RiseOf(socket[k], request_id[k], exchange[k])'
    BY <2>8, <2>9, <2>10 DEF RiseOf
  <2> QED BY <2>4, <2>11
<1>7. CASE Accepted(k) \/ Refused(k) \/ WrongId(k)
  <2>1. /\ Reads(k)
        /\ exchange'[k] = "none"
        /\ CloseSocket(k) \/ (PeerReceive(socket[k]) /\ UNCHANGED socket)
    BY <1>0, <1>7 DEF Accepted, Refused, WrongId, Consumes, Ends, LocalTypes
  <2>2. exchange[k] \in Methodical /\ socket[k] \in Connections /\ socket[k] # NoSocket
    BY <1>0, <2>1 DEF Reads, Awaits, Methodical, Methods, LocalOf
  <2>3. PICK s, e, id : s = socket[k] /\ e = exchange[k] /\ id = request_id[k]
    OBVIOUS
  <2>3a. s \in Connections /\ id \in Nat /\ RiseOf(s, id, e)
    BY <1>0, <2>2, <2>3
  <2>4. CASE CloseSocket(k)
    BY <1>0, <2>4 DEF CloseSocket, LocalTypes
  <2>5. CASE PeerReceive(s) /\ UNCHANGED socket
    <3>1. PICK q \in Seq(Requests) : q = asked[s] /\ q # <<>>
      <4>1. /\ outbox[s] # <<>> /\ Len(outbox[s]) <= Len(asked[s])
            /\ outbox[s] \in Seq(Responses) /\ asked[s] \in Seq(Requests)
        BY <1>0, <2>3a, <2>5 DEF PeerReceive, ServiceInv, AnswersInOrder, TypeOK
      <4> QED BY <4>1
    <3>2. asked'[s] = Tail(q)
      BY <1>0, <2>3a, <2>5, <3>1 DEF PeerReceive, TypeOK
    <3>3. CASE e = "hello"
      <4>0. Len(q) <= 1
        BY <2>3a, <3>1, <3>3 DEF RiseOf
      <4>1. Len(q) = 1
        <5>1. Len(q) \in Nat /\ Len(q) # 0
          BY <3>1
        <5>2. \A n \in Nat : n # 0 /\ n <= 1 => n = 1
          OBVIOUS
        <5> QED BY <4>0, <5>1, <5>2
      <4>2. Len(asked'[s]) = 0
        BY <3>1, <3>2, <4>1
      <4>3. 1..Len(asked'[s]) = {}
        BY <4>2
      <4>4. socket'[k] = s
        BY <2>3, <2>5
      <4> QED BY <2>1, <4>3, <4>4 DEF RiseOf
    <3>4. CASE e # "hello"
      <4>1. request_id'[k] \in {id, id + 1}
        BY <1>0, <1>7, <2>3, <3>4 DEF Accepted, Refused, WrongId, Counts, LocalTypes
      <4>2. id <= request_id'[k] /\ request_id'[k] \in Nat
        BY <2>3a, <4>1
      <4>3. /\ \A i \in 1..Len(asked'[s]) :
                 /\ asked'[s][i].id <= request_id'[k] /\ asked'[s][i].payload # "garbage"
                 /\ \A j \in 1..Len(asked'[s]) : i < j => asked'[s][i].id <= asked'[s][j].id
        BY <1>0, <2>1, <2>3a, <3>1, <3>2, <4>2, RiseKept
      <4>4. socket'[k] = s
        BY <2>3, <2>5
      <4> QED BY <2>1, <4>3, <4>4 DEF RiseOf
    <3> QED BY <3>3, <3>4
  <2> QED BY <2>1, <2>3, <2>4, <2>5
<1>8. CASE Disconnect(k)
  <2>1. /\ socket[k] \in Connections /\ PeerLeave(socket[k])
        /\ socket'[k] \in {socket[k], NoSocket}
    BY <1>0, <1>8 DEF Disconnect, LocalTypes
  <2>2. Len(asked'[socket[k]]) = 0
    BY <1>0, <2>1 DEF PeerLeave, TypeOK
  <2>3. 1..Len(asked'[socket[k]]) = {}
    BY <2>2
  <2> QED BY <2>1, <2>2, <2>3 DEF RiseOf
<1> QED
  BY <1>3, <1>4, <1>5, <1>6, <1>7, <1>8 DEF ClientStep, Proceed

LEMMA RiseStep ==
  ASSUME SystemInv, RiseInv, [ClientNext]_allvars
  PROVE  RiseInv'
<1>0. TypeOK /\ ServiceInv /\ LocalInv /\ LocalTypes
  BY DEF SystemInv, ServiceInv, LocalInv
<1> SUFFICES ASSUME NEW j \in Clients, socket'[j] # NoSocket
             PROVE  RiseOf(socket[j], request_id[j], exchange[j])'
  BY DEF RiseInv
<1>1. socket[j] # NoSocket => RiseOf(socket[j], request_id[j], exchange[j])
  BY DEF RiseInv
<1>2. ASSUME NEW k \in Clients, ClientStep(k)
      PROVE  RiseOf(socket[j], request_id[j], exchange[j])'
  <2>1. CASE k = j
    BY <1>0, <1>1, <1>2, <2>1, RiseSteps
  <2>2. CASE k # j
    <3>1. PICK x, i, m, e, r :
            NewLocal(k, x, i, m, e, r) /\ GoodLocal(k, x, i, m, e, r)
      BY <1>0, <1>2, ClientForm
    <3>2. /\ socket'[j] = socket[j] /\ exchange'[j] = exchange[j]
          /\ request_id'[j] = request_id[j]
          /\ socket[j] \in Connections \cup {NoSocket}
      BY <1>0, <2>2, <3>1 DEF NewLocal, LocalTypes
    <3>3. PICK s \in Connections : s = socket[j] /\ s # NoSocket
      BY <3>2
    <3>4. peer[s] # "new" /\ socket[k] # s
      BY <1>0, <2>2, <3>3 DEF LocalInv, OwnSocket
    <3>5. asked'[s] = asked[s]
      <4>1. PeerStep(k)
        BY <1>0, <1>2, ClientForm
      <4>2. ASSUME NEW c \in Connections, Peer(c), c # s PROVE asked'[s] = asked[s]
        BY <1>0, <4>2, PeerFrame
      <4>3. CASE UNCHANGED vars
        BY <4>3 DEF vars, wire
      <4> QED BY <3>4, <4>1, <4>2, <4>3 DEF PeerStep
    <3> QED BY <1>1, <3>2, <3>3, <3>5 DEF RiseOf
  <2> QED BY <2>1, <2>2
<1>3. CASE ServerStep /\ UNCHANGED local
  <2>1. UNCHANGED <<asked, socket, request_id, exchange>>
    BY <1>3, ServerKeeps DEF local
  <2> QED BY <1>1, <2>1 DEF RiseOf
<1>4. CASE UNCHANGED <<vars, local>>
  BY <1>1, <1>4 DEF vars, wire, local, RiseOf
<1> QED BY <1>0, <1>2, <1>3, <1>4, Serving

-----------------------------------------------------------------------------
(* A result that answers the first of two requests under way is read under *)
(* the id both of them have.  The second cannot be answered but fatally.   *)
LEMMA StaleDooms ==
  ASSUME SystemInv, CountedInv, RiseInv, NEW k \in Clients, NEW s \in Connections,
         s = socket[k], Accepted(k), Len(asked[s]) > 1
  PROVE  DoomedOf(s)'
<1>0. /\ TypeOK /\ LocalTypes /\ LocalOf(k) /\ WireOf(s) /\ FinalOf(s) /\ FreshOf(s)
      /\ CountedOf(s) /\ AnswersInOrder /\ s # NoSocket
      /\ exchange[k] \in {"none", "connected"} \cup Methodical
      /\ RiseOf(s, request_id[k], exchange[k])
  BY ClientAssumption
  DEF SystemInv, ServiceInv, LocalInv, LocalTypes, WireInv, FinalInv, FreshInv,
      CountedInv, RiseInv
<1>1. PICK q \in Seq(Responses), a \in Seq(Requests), r \in Nat :
        q = outbox[s] /\ a = asked[s] /\ r = request_id[k]
  BY <1>0 DEF TypeOK, LocalTypes
<1>2. /\ Awaits(k) /\ q # <<>> /\ q[1].id = SentId(k) /\ q[1].kind = exchange[k]
      /\ Consumes(k)
  BY <1>0, <1>1 DEF Accepted, Reads, Response
<1>3. exchange[k] # "hello"
  <2>1. exchange[k] = "hello" => Len(asked[s]) <= 1 /\ Len(asked[s]) \in Nat
    BY <1>0, <1>1 DEF RiseOf
  <2> QED BY <2>1
<1>4. exchange[k] \in {"predict", "reset", "close"} /\ method[k] = exchange[k]
  BY <1>0, <1>2, <1>3 DEF Awaits, Methods, Methodical, LocalOf
<1>5. peer[s] = "open"
  BY <1>0, <1>1, <1>2 DEF WireOf, TypeOK
<1>6. CASE method[k] = "close"
  <2>1. PeerLeave(s)
    BY <1>2, <1>5, <1>6 DEF Consumes, CloseSocket
  <2>2. peer'[s] = "left" /\ outbox'[s] = <<>>
    BY <1>0, <2>1 DEF PeerLeave, TypeOK
  <2> QED BY <2>2 DEF DoomedOf
<1>7. CASE method[k] # "close"
  <2>1. PeerReceive(s) /\ q[1].kind \in Results /\ q[1].id = r
    BY <1>1, <1>2, <1>4, <1>7 DEF Consumes, SentId, Results
  <2>2. /\ outbox'[s] = Tail(q)
        /\ UNCHANGED <<peer, pc, inbox, expected, response>>
    BY <1>0, <1>1, <2>1 DEF PeerReceive, TypeOK, conn, serving
  <2>3. /\ \A i \in 1..Len(q) : q[i].id \in Nat
        /\ \A i \in 1..Len(a) : a[i].id \in Nat
        /\ 1 \in 1..Len(q) /\ 1 \in 1..Len(a) /\ 2 \in 1..Len(a)
    <3>1. \A i \in 1..Len(q) : q[i] \in Responses
      BY <1>1
    <3>2. \A i \in 1..Len(a) : a[i] \in Requests
      BY <1>1
    <3>3. Len(q) > 0 /\ Len(a) > 1 /\ Len(q) \in Nat /\ Len(a) \in Nat
      BY <1>1, <1>2
    <3> QED BY <3>1, <3>2, <3>3 DEF Responses, Requests
  <2>4. /\ Len(q) <= Len(a)
        /\ \A i \in 1..Len(q) : a[i].payload = "garbage" \/ q[i].id = a[i].id
    BY <1>0, <1>1 DEF AnswersInOrder
  <2>5. \A i \in 1..Len(a) :
          /\ a[i].id <= r /\ a[i].payload # "garbage"
          /\ \A j \in 1..Len(a) : i < j => a[i].id <= a[j].id
    BY <1>0, <1>1 DEF RiseOf
  <2>6. \A i \in 1..Len(a) : a[i].id = r
    <3>1. a[1].id = r
      BY <2>1, <2>3, <2>4, <2>5
    <3>2. \A x, y \in Nat : x <= y /\ y <= x => x = y
      OBVIOUS
    <3>3. \A i \in 1..Len(a) : i = 1 \/ 1 < i
      BY <1>1
    <3>4. ASSUME NEW i \in 1..Len(a), 1 < i PROVE a[i].id = r
      <4>1. a[i].id <= r /\ a[1].id <= a[i].id /\ a[i].id \in Nat
        BY <2>3, <2>5, <3>4
      <4> QED BY <1>1, <3>1, <3>2, <4>1
    <3> QED BY <3>1, <3>3, <3>4
  <2>7. \A i \in 1..Len(q) : i \in 1..Len(a)
    BY <1>1, <2>4
  <2>8. ASSUME NEW i \in 1..Len(q), 1 < i PROVE q[i].kind = "fatal"
    <3>1. q[i].id = r
      BY <2>4, <2>5, <2>6, <2>7
    <3>2. q[i].kind # "fatal" => q[1].id < q[i].id
      BY <1>0, <1>1, <2>1, <2>3, <2>8 DEF CountedOf
    <3>3. ~(r < r)
      BY <1>1
    <3> QED BY <2>1, <3>1, <3>2, <3>3
  <2>9. \A i \in 1..Len(outbox'[s]) : outbox'[s][i].kind \notin Results
    <3>1. \A i \in 1..Len(Tail(q)) :
            i + 1 \in 1..Len(q) /\ 1 < i + 1 /\ Tail(q)[i] = q[i + 1]
      BY <1>1, <1>2
    <3> QED BY <2>2, <2>8, <3>1 DEF Results
  <2>10. r < expected[s]
    BY <1>0, <1>1, <2>1, <2>3 DEF CountedOf
  <2>11. ~(r < r)
    BY <1>1
  <2>12. CASE Len(q) > 1
    <3>1. 2 \in 1..Len(q) /\ 1 < 2
      BY <1>1, <2>12
    <3>2. q[2].kind \in Final
      BY <2>8, <3>1 DEF Final
    <3>3. pc[s] \in {"hangup", "done"}
      BY <1>0, <1>1, <1>5, <3>1, <3>2 DEF FinalOf, FreshOf, TypeOK
    <3> QED BY <2>2, <2>9, <3>3 DEF DoomedOf
  <2>13. CASE Len(q) = 1
    <3>0. Len(q) + 1 = 2
      BY <2>13
    <3>1. CASE pc[s] = "send"
      <4>1. Answers(response[s], a[2])
        BY <1>0, <1>1, <1>5, <3>0, <3>1 DEF WireOf
      <4>2. response[s].id = r
        BY <2>3, <2>5, <2>6, <4>1 DEF Answers
      <4>3. response[s].kind # "fatal" => q[1].id < response[s].id
        BY <1>0, <1>1, <2>1, <2>3, <3>1 DEF CountedOf
      <4> QED BY <2>1, <2>2, <2>9, <2>11, <3>1, <4>2, <4>3 DEF DoomedOf
    <3>2. pc[s] \notin {"acquire", "inflight"}
      <4>1. ASSUME pc[s] \in {"acquire", "inflight"} PROVE FALSE
        <5>1. request[s] = a[2] /\ request[s].id = expected[s]
          BY <1>0, <1>1, <1>5, <3>0, <4>1 DEF WireOf, CountedOf
        <5> QED BY <2>3, <2>6, <2>10, <2>11, <5>1
      <4> QED BY <4>1
    <3>3. CASE pc[s] = "recv"
      <4>1. Follows(a, 1, inbox[s])
        BY <1>0, <1>1, <1>5, <2>13, <3>3 DEF WireOf, Taken
      <4>2. PICK b \in Seq(Requests) : b = inbox[s]
        BY <1>0 DEF TypeOK
      <4>3. Len(a) = 1 + Len(b) /\ \A i \in 1..Len(b) : a[1 + i] = b[i]
        BY <4>1, <4>2 DEF Follows
      <4>4. 1 \in 1..Len(b) /\ 1 + 1 = 2
        BY <1>1, <4>2, <4>3
      <4>5. b # <<>> /\ Head(b) = b[1]
        BY <4>2, <4>4
      <4>6. b[1] = a[2]
        BY <4>3, <4>4
      <4>7. Head(inbox[s]).id = r
        BY <2>3, <2>6, <4>2, <4>5, <4>6
      <4> QED BY <2>2, <2>9, <2>10, <2>11, <3>3, <4>2, <4>5, <4>7 DEF DoomedOf
    <3>4. pc[s] # "idle"
      BY <1>0, <1>5 DEF FreshOf
    <3>5. CASE pc[s] \in {"hangup", "done"}
      BY <2>2, <2>9, <3>5 DEF DoomedOf
    <3> QED BY <1>0, <3>1, <3>2, <3>3, <3>4, <3>5 DEF TypeOK
  <2>14. Len(q) = 1 \/ Len(q) > 1
    <3>1. Len(q) \in Nat /\ Len(q) # 0
      BY <1>1, <1>2
    <3>2. \A n \in Nat : n # 0 => n = 1 \/ n > 1
      OBVIOUS
    <3> QED BY <3>1, <3>2
  <2> QED BY <2>12, <2>13, <2>14
<1> QED BY <1>6, <1>7

LEMMA StaleStep ==
  ASSUME SystemInv, CountedInv, RiseInv, StaleInv, [ClientNext]_allvars
  PROVE  StaleInv'
<1>0. TypeOK /\ ServiceInv /\ LocalInv /\ LocalTypes /\ stale \subseteq Connections
  BY DEF SystemInv, ServiceInv, LocalInv, HistoryTypes
<1>1. [Next]_vars
  BY <1>0, Serving
<1>2. \A s \in stale : DoomedOf(s)'
  BY <1>0, <1>1, DoomedStep DEF StaleInv
<1>3. CASE stale' = stale
  BY <1>2, <1>3 DEF StaleInv
<1>4. ASSUME NEW k \in Clients, Accepted(k) PROVE StaleInv'
  <2>1. PICK s : s = socket[k]
    OBVIOUS
  <2>2. s \in Connections
    <3>1. exchange[k] # "none"
      BY <1>4 DEF Accepted, Reads, Awaits, Methods
    <3> QED BY <1>0, <2>1, <3>1 DEF LocalInv, LocalOf, LocalTypes
  <2>3. CASE Len(asked[s]) > 1
    <3>1. stale' = stale \cup {s}
      BY <1>4, <2>1, <2>3 DEF Accepted
    <3>2. DoomedOf(s)'
      BY <1>4, <2>1, <2>2, <2>3, StaleDooms
    <3> QED BY <1>2, <3>1, <3>2 DEF StaleInv
  <2>4. CASE ~(Len(asked[s]) > 1)
    BY <1>3, <1>4, <2>1, <2>4 DEF Accepted
  <2> QED BY <2>3, <2>4
<1>5. ASSUME NEW k \in Clients, ClientStep(k), ~Accepted(k) PROVE stale' = stale
  BY <1>5
  DEF ClientStep, Proceed, Call, Open, GiveUp, SendHello, SendRequest, Sends,
      BadInput, SendFails, WrongId, Refused, Lost, Interrupt, Disconnect, Raise,
      history
<1>6. CASE Server \/ Idle \/ UNCHANGED allvars
  BY <1>3, <1>6 DEF Server, Serves, Idle, allvars, history
<1> QED BY <1>3, <1>4, <1>5, <1>6 DEF ClientNext, ClientStep

LEMMA ReturnsFresh ==
  ASSUME SystemInv, StaleInv, [ClientNext]_allvars, NEW k \in Clients,
         method[k] \in {"predict", "reset"}, method'[k] = "none", ~raised'[k]
  PROVE  socket[k] \notin stale
<1>0. TypeOK /\ ServiceInv /\ LocalInv /\ LocalTypes /\ LocalOf(k)
      /\ exchange[k] \in {"none", "connected"} \cup Methodical
  BY DEF SystemInv, ServiceInv, LocalInv, LocalTypes
<1>1. ASSUME NEW j \in Clients, Ends(j, TRUE) PROVE FALSE
  <2>1. j = k
    BY <1>0, <1>1 DEF Ends, LocalTypes
  <2> QED BY <1>0, <1>1, <2>1 DEF Ends, LocalTypes
<1>2. ASSUME UNCHANGED method PROVE FALSE
  BY <1>2
<1>3. ASSUME NEW j \in Clients, Accepted(j) PROVE socket[k] \notin stale
  <2>1. method' = method \/ Ends(j, FALSE)
    BY <1>3 DEF Accepted
  <2>2. j = k /\ Ends(k, FALSE)
    BY <1>0, <1>2, <2>1 DEF Ends, LocalTypes
  <2>3. exchange[k] # "hello"
    BY <1>2, <1>3, <2>2 DEF Accepted
  <2>4. /\ Reads(k) /\ Response(k).kind = exchange[k]
        /\ exchange[k] = method[k]
    BY <1>0, <1>3, <2>2, <2>3 DEF Accepted, Reads, Awaits, Methods, Methodical, LocalOf
  <2>5. PICK s \in Connections : s = socket[k]
    BY <1>0, <2>4 DEF LocalOf, LocalTypes
  <2>6. PICK q \in Seq(Responses) : q = outbox[s] /\ q # <<>>
    BY <1>0, <2>4, <2>5 DEF Reads, TypeOK
  <2>7. 1 \in 1..Len(q) /\ Head(q) = q[1]
    BY <2>6
  <2>8. q[1].kind \in Results
    BY <2>4, <2>5, <2>6, <2>7 DEF Response, Results
  <2>9. ~DoomedOf(s)
    BY <2>6, <2>7, <2>8 DEF DoomedOf
  <2> QED BY <2>5, <2>9 DEF StaleInv
<1>4. ASSUME NEW j \in Clients, ClientStep(j), ~Accepted(j) PROVE FALSE
  <2>1. CASE \E m \in Methods : Call(j, m)
    BY <1>0, <2>1 DEF Call, LocalTypes
  <2>2. CASE Open(j) \/ SendHello(j) \/ SendRequest(j)
    BY <1>2, <2>2 DEF Open, SendHello, SendRequest, Sends
  <2>3. CASE \/ GiveUp(j) \/ BadInput(j) \/ SendFails(j) \/ WrongId(j)
             \/ Refused(j) \/ Lost(j) \/ Interrupt(j)
    BY <1>1, <2>3
    DEF GiveUp, BadInput, SendFails, WrongId, Refused, Lost, Interrupt, Raise
  <2>4. CASE Disconnect(j)
    BY <1>1, <1>2, <2>4 DEF Disconnect
  <2> QED BY <1>4, <2>1, <2>2, <2>3, <2>4 DEF ClientStep, Proceed
<1>5. CASE Server \/ Idle \/ UNCHANGED allvars
  BY <1>2, <1>5 DEF Server, Serves, Idle, allvars, local
<1> QED BY <1>3, <1>4, <1>5 DEF ClientNext, ClientStep

(* An interrupted recv() leaves a response behind, and one later call can  *)
(* take it for its own; that is the last call which returns on the socket. *)
(* Nothing is assumed of interrupts, and of the server only ServiceInv and *)
(* CountedInv, which is about its side of the socket alone.                *)
THEOREM StaleIsLast == RpcSpec => OneStaleResponse
<1> DEFINE Inv == SystemInv /\ CountedInv /\ RiseInv /\ StaleInv
           Fresh == \A k \in Clients :
                      (/\ method[k] \in {"predict", "reset"} /\ method'[k] = "none"
                       /\ ~raised'[k]) => socket[k] \notin stale
<1>1. ClientInit => Inv
  <2> SUFFICES ASSUME ClientInit PROVE Inv
    OBVIOUS
  <2>1. SystemInv
    BY SystemInit
  <2>2. /\ \A c \in Connections : outbox[c] = <<>> /\ pc[c] = "idle"
        /\ \A k \in Clients : socket[k] = NoSocket
        /\ stale = {}
    BY DEF ClientInit, Init
  <2> QED BY <2>1, <2>2 DEF CountedInv, CountedOf, RiseInv, StaleInv
<1>2. Inv /\ [ClientNext]_allvars => Inv'
  <2> SUFFICES ASSUME Inv, [ClientNext]_allvars PROVE Inv'
    OBVIOUS
  <2>1. TypeOK /\ ServiceInv /\ LocalInv
    BY DEF SystemInv, ServiceInv
  <2>2. [Next]_vars
    BY <2>1, Serving
  <2> QED BY <2>1, <2>2, SystemStep, CountedStep, RiseStep, StaleStep
<1>3. Inv /\ [ClientNext]_allvars => [Fresh]_allvars
  BY ReturnsFresh
<1> QED BY <1>1, <1>2, <1>3, PTL DEF RpcSpec, OneStaleResponse
=============================================================================
