---------------------------- MODULE ServiceCore ----------------------------
(***************************************************************************)
(* The inference server: python/wam/serving/core.py (ServiceCore,          *)
(* ServiceConnection) run by the transport python/wam/serving/websocket.py *)
(*                                                                         *)
(* One asyncio event loop runs a handler per WebSocket.  Code between two  *)
(* awaits is one step; the awaits are the values of pc.  predict and reset *)
(* run in worker threads (asyncio.to_thread), under an asyncio.Lock unless *)
(* the model declares concurrent_sessions.  The peers, the WebSocket       *)
(* library, asyncio and the native session behind wam_c_session_predict    *)
(* are the environment.                                                    *)
(***************************************************************************)
EXTENDS Naturals, Sequences

CONSTANTS Connections,   \* ServiceConnection objects, one per WebSocket
          Concurrent,    \* metadata["capabilities"]["concurrent_sessions"]
          Frames,        \* bound: what a peer may send; the ids in it
                         \* bound expected, a wrong id being fatal
          Window         \* bound: requests a peer leaves unanswered

(* A client envelope reduced to what handle() branches on.  "badhello" has *)
(* the wrong protocol version or environment, "none" has no payload set,   *)
(* "garbage" is a text frame, an oversized one or no protobuf at all.      *)
Payloads == {"hello", "badhello", "predict", "reset", "close", "none",
             "garbage"}
Requests == [id : Nat, payload : Payloads]

ASSUME ServiceAssumption == /\ Concurrent \in BOOLEAN
                            /\ Frames \subseteq Requests
                            /\ Window \in Nat

NoRequest  == [id |-> 0, payload |-> "empty"]
NoResponse == [id |-> 0, kind |-> "empty"]

(* "error" leaves the connection usable, "fatal" sets response.error.fatal *)
ResponseKinds == {"hello", "predict", "reset", "close", "error", "fatal"}
Responses == [id : Nat, kind : ResponseKinds]

(* How the function passed to execute() ends: a result, a ValueError, a    *)
(* WamError that _native_error maps to non-fatal or to fatal, any other    *)
(* exception.                                                              *)
Outcomes == {"ok", "value", "soft", "fatal", "crash"}

VARIABLES
  peer,      \* the peer's side: "new", "open" or "left"
  asked,     \* history: requests the peer sent and saw no answer to
  inbox,     \* frames the WebSocket library holds for recv()
  outbox,    \* responses sent and not yet read by the peer
  pc,        \* where the handler of the connection is suspended
  session,   \* "none", "open", or "freed" once the native session is gone
  expected,  \* expected_request_id
  closed,    \* ServiceConnection.closed
  request,   \* request served by execute(), the argument of its thread
  response,  \* response being sent
  locked,    \* inference_lock is held
  ahead,     \* waiters queued on inference_lock before this one
  worker,    \* thread of execute(): "none", "prep", "native" or an outcome
  stopping   \* asyncio.run is cancelling every task

wire == <<peer, asked, inbox, outbox>>
conn == <<session, expected, closed>>
serving == <<request, response>>
execution == <<locked, ahead, worker>>
vars == <<wire, pc, conn, serving, execution, stopping>>

TypeOK ==
  /\ peer \in [Connections -> {"new", "open", "left"}]
  /\ asked \in [Connections -> Seq(Requests)]
  /\ inbox \in [Connections -> Seq(Requests)]
  /\ outbox \in [Connections -> Seq(Responses)]
  /\ pc \in [Connections -> {"idle", "recv", "acquire", "inflight", "send",
                             "hangup", "done"}]
  /\ session \in [Connections -> {"none", "open", "freed"}]
  /\ expected \in [Connections -> Nat]
  /\ closed \in [Connections -> BOOLEAN]
  /\ request \in [Connections -> Requests \cup {NoRequest}]
  /\ response \in [Connections -> Responses \cup {NoResponse}]
  /\ locked \in BOOLEAN
  /\ ahead \in [Connections -> SUBSET Connections]
  /\ worker \in [Connections -> {"none", "prep", "native"} \cup Outcomes]
  /\ stopping \in BOOLEAN

Init ==
  /\ peer = [c \in Connections |-> "new"]
  /\ asked = [c \in Connections |-> <<>>]
  /\ inbox = [c \in Connections |-> <<>>]
  /\ outbox = [c \in Connections |-> <<>>]
  /\ pc = [c \in Connections |-> "idle"]
  /\ session = [c \in Connections |-> "none"]
  /\ expected = [c \in Connections |-> 0]
  /\ closed = [c \in Connections |-> FALSE]
  /\ request = [c \in Connections |-> NoRequest]
  /\ response = [c \in Connections |-> NoResponse]
  /\ locked = FALSE
  /\ ahead = [c \in Connections |-> {}]
  /\ worker = [c \in Connections |-> "none"]
  /\ stopping = FALSE

-----------------------------------------------------------------------------
(* The peers: free to send anything, to pipeline, and to leave any time.   *)

Connect(c) ==
  /\ peer[c] = "new" /\ ~stopping
  /\ peer' = [peer EXCEPT ![c] = "open"]
  /\ pc' = [pc EXCEPT ![c] = "recv"]
  /\ UNCHANGED <<asked, inbox, outbox, conn, serving, execution, stopping>>

PeerSend(c, f) ==
  /\ peer[c] = "open" /\ pc[c] # "done"
  /\ Len(asked[c]) < Window
  /\ inbox' = [inbox EXCEPT ![c] = Append(@, f)]
  /\ asked' = [asked EXCEPT ![c] = Append(@, f)]
  /\ UNCHANGED <<peer, outbox, pc, conn, serving, execution, stopping>>

PeerReceive(c) ==
  /\ peer[c] = "open" /\ outbox[c] # <<>>
  /\ outbox' = [outbox EXCEPT ![c] = Tail(@)]
  /\ asked' = [asked EXCEPT ![c] = Tail(@)]
  /\ UNCHANGED <<peer, inbox, pc, conn, serving, execution, stopping>>

PeerLeave(c) ==
  /\ peer[c] = "open"
  /\ peer' = [peer EXCEPT ![c] = "left"]
  /\ asked' = [asked EXCEPT ![c] = <<>>]
  /\ outbox' = [outbox EXCEPT ![c] = <<>>]
  /\ UNCHANGED <<inbox, pc, conn, serving, execution, stopping>>

-----------------------------------------------------------------------------
(* The handler, from recv() to the next await.                             *)

(* ServiceConnection.close(), then the handler returns.                    *)
ForgetSession(c) == UNCHANGED session    \* mutant: drops it without a free

FreeSession(c) ==
  session' = [session EXCEPT ![c] = IF @ = "open" THEN "freed" ELSE @]

Retire(c) ==
  /\ FreeSession(c)
  /\ closed' = [closed EXCEPT ![c] = TRUE]
  /\ pc' = [pc EXCEPT ![c] = "done"]

(* recv() returns f and the handler runs on to `await websocket.send`.     *)
Reply(c, f, id, kind) ==
  /\ ~stopping
  /\ pc[c] = "recv" /\ inbox[c] # <<>> /\ f = Head(inbox[c])
  /\ inbox' = [inbox EXCEPT ![c] = Tail(@)]
  /\ response' = [response EXCEPT ![c] = [id |-> id, kind |-> kind]]
  /\ pc' = [pc EXCEPT ![c] = "send"]
  /\ closed' = [closed EXCEPT ![c] = @ \/ kind \in {"fatal", "close"}]
  /\ UNCHANGED <<peer, asked, outbox, request, execution, stopping>>

AnyOrder(c, f) == f.payload # "garbage"  \* mutant: ids are not compared

InOrder(c, f) == f.payload # "garbage" /\ f.id = expected[c]

(* A text frame, an oversized frame or no protobuf: answered under the     *)
(* expected id, since the frame has none.                                  *)
RejectFrame(c) == \E f \in Frames :
  /\ f.payload = "garbage"
  /\ Reply(c, f, expected[c], "fatal")
  /\ UNCHANGED <<session, expected>>

(* mutant: answered under the id the server expects *)
RejectIdAsExpected(c) == \E f \in Frames :
  /\ f.payload # "garbage" /\ f.id # expected[c]
  /\ Reply(c, f, expected[c], "fatal")
  /\ UNCHANGED <<session, expected>>

RejectId(c) == \E f \in Frames :
  /\ f.payload # "garbage" /\ f.id # expected[c]
  /\ Reply(c, f, f.id, "fatal")
  /\ UNCHANGED <<session, expected>>

(* First message: not a Hello, or for another version or environment.      *)
RejectFirst(c) == \E f \in Frames :
  /\ InOrder(c, f) /\ session[c] = "none" /\ f.payload # "hello"
  /\ Reply(c, f, f.id, "fatal")
  /\ UNCHANGED <<session, expected>>

(* create_session runs on the event loop, without inference_lock, and may  *)
(* raise a WamError, which leaves session and the id as they were.         *)
Hello(c) == \E f \in Frames, kind \in {"hello", "error", "fatal"} :
  /\ InOrder(c, f) /\ session[c] = "none" /\ f.payload = "hello"
  /\ Reply(c, f, f.id, kind)
  /\ IF kind = "hello"
       THEN /\ session' = [session EXCEPT ![c] = "open"]
            /\ expected' = [expected EXCEPT ![c] = @ + 1]
       ELSE UNCHANGED <<session, expected>>

CloseRequest(c) == \E f \in Frames :
  /\ InOrder(c, f) /\ session[c] = "open" /\ f.payload = "close"
  /\ Reply(c, f, f.id, "close")
  /\ expected' = [expected EXCEPT ![c] = @ + 1]
  /\ UNCHANGED session

RejectPayload(c) == \E f \in Frames :
  /\ InOrder(c, f) /\ session[c] = "open"
  /\ f.payload \in {"hello", "badhello", "none"}
  /\ Reply(c, f, f.id, "fatal")
  /\ expected' = [expected EXCEPT ![c] = @ + 1]
  /\ UNCHANGED session

-----------------------------------------------------------------------------
(* ServiceCore.execute.  asyncio.Lock is FIFO: acquire() returns at once   *)
(* only when the lock is free and nobody waits; release() frees the lock   *)
(* and wakes the first waiter, which takes the lock when it resumes.       *)

Waiting == {c \in Connections : pc[c] = "acquire"}

(* mutant: looks at the queue and not at the lock *)
NobodyWaits == Concurrent \/ Waiting = {}

LockAvailable == Concurrent \/ (~locked /\ Waiting = {})

StartWorker(c) ==
  /\ pc' = [pc EXCEPT ![c] = "inflight"]
  /\ worker' = [worker EXCEPT ![c] = "prep"]
  /\ locked' = ~Concurrent

Execute(c) == \E f \in Frames :
  /\ ~stopping
  /\ pc[c] = "recv" /\ inbox[c] # <<>> /\ f = Head(inbox[c])
  /\ InOrder(c, f) /\ session[c] = "open" /\ f.payload \in {"predict", "reset"}
  /\ inbox' = [inbox EXCEPT ![c] = Tail(@)]
  /\ request' = [request EXCEPT ![c] = f]
  /\ IF LockAvailable
       THEN StartWorker(c) /\ UNCHANGED ahead
       ELSE /\ pc' = [pc EXCEPT ![c] = "acquire"]
            /\ ahead' = [ahead EXCEPT ![c] = Waiting]
            /\ UNCHANGED <<locked, worker>>
  /\ UNCHANGED <<peer, asked, outbox, conn, response, stopping>>

(* c is no longer queued on inference_lock. *)
LeaveBehind(c) ==                        \* mutant: c stays ahead of the rest
  ahead' = [ahead EXCEPT ![c] = {}]

LeaveQueue(c) == ahead' = [d \in Connections |->
                             IF d = c THEN {} ELSE ahead[d] \ {c}]

Acquire(c) ==
  /\ ~stopping
  /\ pc[c] = "acquire" /\ ~locked /\ ahead[c] = {}
  /\ LeaveQueue(c)
  /\ StartWorker(c)
  /\ UNCHANGED <<wire, conn, serving, stopping>>

(* In the thread.  Before the native call predict decodes, prepares the    *)
(* instruction and checks its inputs; both calls check that the Session    *)
(* is open and raise otherwise.                                            *)
WorkerEnter(c) ==
  /\ worker[c] = "prep" /\ session[c] = "open"
  /\ worker' = [worker EXCEPT ![c] = "native"]
  /\ UNCHANGED <<wire, pc, conn, serving, locked, ahead, stopping>>

WorkerRefuse(c) ==
  /\ worker[c] = "prep"
  /\ \/ request[c].payload = "predict"
        /\ worker' \in {[worker EXCEPT ![c] = o] : o \in {"value", "crash"}}
     \/ session[c] # "open" /\ worker' = [worker EXCEPT ![c] = "crash"]
  /\ UNCHANGED <<wire, pc, conn, serving, locked, ahead, stopping>>

WorkerReturn(c) ==
  /\ worker[c] = "native"
  /\ worker' \in {[worker EXCEPT ![c] = o] : o \in {"ok", "soft", "fatal",
                                                    "crash"}}
  /\ UNCHANGED <<wire, pc, conn, serving, locked, ahead, stopping>>

(* A ValueError is answered for predict only; reset has no such handler.   *)
Handled(f, outcome) == \/ outcome \in {"ok", "soft", "fatal"}
                       \/ outcome = "value" /\ f.payload = "predict"

(* mutant: an unmapped WamError is answered as it is *)
RawKind(f, outcome) == IF outcome = "ok" THEN f.payload ELSE outcome

(* mutant: an error is answered as a result *)
AlwaysResult(f, outcome) == f.payload

ResultKind(f, outcome) == CASE outcome = "ok" -> f.payload
                            [] outcome = "fatal" -> "fatal"
                            [] OTHER -> "error"

(* `async with` releases inference_lock whether or not an exception passes.*)
KeepLock == UNCHANGED locked             \* mutant: no release

ReleaseLock == locked' = FALSE

(* The coroutine resumes: the result is answered and the id consumed.      *)
Resume(c) ==
  /\ ~stopping
  /\ pc[c] = "inflight" /\ Handled(request[c], worker[c])
  /\ LET kind == ResultKind(request[c], worker[c]) IN
       /\ response' = [response EXCEPT ![c] = [id |-> request[c].id,
                                               kind |-> kind]]
       /\ closed' = [closed EXCEPT ![c] = @ \/ kind = "fatal"]
  /\ expected' = [expected EXCEPT ![c] = @ + 1]
  /\ request' = [request EXCEPT ![c] = NoRequest]
  /\ worker' = [worker EXCEPT ![c] = "none"]
  /\ ReleaseLock
  /\ pc' = [pc EXCEPT ![c] = "send"]
  /\ UNCHANGED <<wire, session, ahead, stopping>>

(* Any other exception leaves handle() and ends the handler unanswered.    *)
ResumeCrashed(c) ==
  /\ ~stopping
  /\ pc[c] = "inflight" /\ worker[c] \in Outcomes
  /\ ~Handled(request[c], worker[c])
  /\ request' = [request EXCEPT ![c] = NoRequest]
  /\ worker' = [worker EXCEPT ![c] = "none"]
  /\ ReleaseLock
  /\ Retire(c)
  /\ UNCHANGED <<wire, expected, response, ahead, stopping>>

-----------------------------------------------------------------------------
(* Sending, hanging up, and losing the peer.                               *)

(* After send() the loop runs on unless closed; a fatal error is followed  *)
(* by `await websocket.close(1002)`, a close response ends the handler.    *)
LoopOn(c) == "recv"                      \* mutant: never looks at closed

NextAwait(c) == IF closed[c] THEN "hangup" ELSE "recv"

Send(c) ==
  /\ ~stopping
  /\ pc[c] = "send" /\ peer[c] = "open"
  /\ outbox' = [outbox EXCEPT ![c] = Append(@, response[c])]
  /\ response' = [response EXCEPT ![c] = NoResponse]
  /\ IF response[c].kind = "close"
       THEN Retire(c)
       ELSE /\ pc' = [pc EXCEPT ![c] = NextAwait(c)]
            /\ UNCHANGED <<session, closed>>
  /\ UNCHANGED <<peer, asked, inbox, expected, request, execution,
                 stopping>>

Hangup(c) ==
  /\ ~stopping
  /\ pc[c] = "hangup"
  /\ Retire(c)
  /\ UNCHANGED <<wire, expected, serving, execution, stopping>>

(* recv() or send() raises ConnectionClosed; other awaits do not notice.   *)
OnlyRecvFails == {"recv"}                      \* mutant: send() ignores it
AnyAwaitFails == {"recv", "send", "inflight"}  \* mutant: ends a call as well

AwaitsPeer == {"recv", "send"}

ConnectionLost(c) ==
  /\ ~stopping
  /\ pc[c] \in AwaitsPeer /\ peer[c] = "left"
  /\ response' = [response EXCEPT ![c] = NoResponse]
  /\ Retire(c)
  /\ UNCHANGED <<wire, expected, request, execution, stopping>>

-----------------------------------------------------------------------------
(* Interrupted for good, asyncio.run cancels every task: each handler gets *)
(* CancelledError at its await, releases inference_lock, and runs its      *)
(* finally.  A thread started by to_thread is not stopped.                 *)

Stop ==
  /\ ~stopping
  /\ stopping' = TRUE
  /\ UNCHANGED <<wire, pc, conn, serving, execution>>

Cancel(c) ==
  /\ stopping /\ pc[c] \notin {"idle", "done"}
  /\ Retire(c)
  /\ locked' = (locked /\ pc[c] # "inflight")
  /\ LeaveQueue(c)
  /\ response' = [response EXCEPT ![c] = NoResponse]
  /\ UNCHANGED <<wire, expected, request, worker, stopping>>

-----------------------------------------------------------------------------
Peer(c) == Connect(c) \/ (\E f \in Frames : PeerSend(c, f))
             \/ PeerReceive(c) \/ PeerLeave(c)

Worker(c) == WorkerEnter(c) \/ WorkerRefuse(c) \/ WorkerReturn(c)

Handler(c) ==
  \/ RejectFrame(c) \/ RejectId(c) \/ RejectFirst(c) \/ Hello(c)
  \/ CloseRequest(c) \/ RejectPayload(c) \/ Execute(c) \/ Acquire(c)
  \/ Resume(c) \/ ResumeCrashed(c) \/ Send(c) \/ Hangup(c)
  \/ ConnectionLost(c) \/ Cancel(c)

(* Everybody gone: the only way to stop.                                   *)
Finished ==
  /\ \A c \in Connections : pc[c] \in {"idle", "done"}
  /\ \A c \in Connections : worker[c] \in {"none"} \cup Outcomes
  /\ stopping
  /\ UNCHANGED vars

Next == \/ \E c \in Connections : Peer(c) \/ Worker(c) \/ Handler(c)
        \/ Stop
        \/ Finished

Spec == Init /\ [][Next]_vars

(* The event loop runs every handler it can resume, and a native call ends;*)
(* nothing is assumed of the peers or of the operator.                     *)
Fairness == \A c \in Connections : WF_vars(Handler(c)) /\ WF_vars(Worker(c))

FairSpec == Spec /\ Fairness

-----------------------------------------------------------------------------
(* Properties                                                              *)

Running(c) == worker[c] \in {"prep", "native"}

(* A model without concurrent_sessions never runs two calls at once,       *)
(* whatever the interleaving of connections, crashes and cancellations     *)
(* (core.py, execute; tests/rpc/test_protocol.py asserts max_active == 1). *)
OneInference ==
  ~Concurrent => \A c, d \in Connections : Running(c) /\ Running(d) => c = d

(* inference_lock is held exactly while some handler awaits its thread: no *)
(* error path, lost peer or cancellation leaks it or frees it early.       *)
LockHeldWhileRunning ==
  ~Concurrent => (locked <=> \E c \in Connections : pc[c] = "inflight")

(* No handler frees the native session under a running wam_c_session_      *)
(* predict; only cancelling the tasks of a stopping server can.            *)
NoFreeUnderCall ==
  \A c \in Connections : worker[c] = "native" =>
    session[c] = "open" \/ (stopping /\ pc[c] = "done")

(* However the handler ends, it does not leave its native session behind   *)
(* (tests/rpc/test_protocol.py: every created session is closed).          *)
NoSessionLeak ==
  \A c \in Connections : pc[c] = "done" => session[c] # "open" /\ closed[c]

(* What a peer reads answers its requests in the order it sent them, one   *)
(* response each, and nothing follows a fatal error or a close.            *)
AnswersInOrder ==
  \A c \in Connections :
    /\ Len(outbox[c]) <= Len(asked[c])
    /\ \A i \in 1..Len(outbox[c]) :
         /\ asked[c][i].payload = "garbage" \/ outbox[c][i].id = asked[c][i].id
         /\ outbox[c][i].kind \in {"fatal", "close"} => i = Len(outbox[c])

(* Once closed, a connection neither serves a request nor counts one nor   *)
(* opens a session: frames already received are dropped.                   *)
ClosedIsFinal ==
  [][\A c \in Connections : closed[c] =>
       /\ closed'[c]
       /\ expected'[c] = expected[c] /\ Len(inbox'[c]) >= Len(inbox[c])
       /\ session'[c] = "open" => session[c] = "open"]_vars

(* A request accepted for execution is answered, or its handler ends: no   *)
(* wait on inference_lock lasts for ever.                                  *)
RequestsFinish ==
  \A c \in Connections :
    pc[c] \in {"acquire", "inflight"} ~> pc[c] \in {"send", "done"}

(* A peer that leaves, in whatever state, has its session reclaimed.       *)
SessionsReclaimed ==
  \A c \in Connections :
    peer[c] = "left" ~> pc[c] = "done" /\ session[c] # "open"
=============================================================================
