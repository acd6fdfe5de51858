------------------------- MODULE ServiceCoreProofs -------------------------
(***************************************************************************)
(* Safety of the inference server, for any number of connections, any      *)
(* frames and any window.  ServiceInv is inductive; it implies every       *)
(* invariant of ServiceCore, and ClosedIsFinal of every step.              *)
(***************************************************************************)
EXTENDS ServiceCore, TLAPS

(* Frames of c that are answered or being served.                          *)
Taken(c) ==
  IF pc[c] \in {"acquire", "inflight", "send"} THEN Len(outbox[c]) + 1
                                               ELSE Len(outbox[c])

(* t is the rest of s after its first n elements.                          *)
Follows(s, n, t) == /\ Len(s) = n + Len(t)
                    /\ \A i \in 1..Len(t) : s[n + i] = t[i]

Answers(r, f) == f.payload = "garbage" \/ r.id = f.id

(* The frames a listening peer has no answer to are, in order: those       *)
(* answered in the outbox, the one being served, those in the inbox.       *)
WireOf(c) ==
  /\ peer[c] = "new" => /\ pc[c] = "idle" /\ asked[c] = <<>>
                        /\ inbox[c] = <<>> /\ outbox[c] = <<>>
  /\ peer[c] = "left" => outbox[c] = <<>>
  /\ peer[c] = "open" /\ pc[c] # "done" =>
       Follows(asked[c], Taken(c), inbox[c])
  /\ peer[c] = "open" /\ pc[c] \in {"acquire", "inflight"} =>
       asked[c][Len(outbox[c]) + 1] = request[c]
  /\ peer[c] = "open" /\ pc[c] = "send" =>
       Answers(response[c], asked[c][Len(outbox[c]) + 1])

WireInv == \A c \in Connections : WireOf(c)

(* A final answer closes the connection, and a closed connection is not    *)
(* served.                                                                 *)
Final == {"fatal", "close"}

FinalOf(c) ==
  /\ pc[c] \in {"idle", "recv", "acquire", "inflight"} => ~closed[c]
  /\ pc[c] = "send" => (closed[c] <=> response[c].kind \in Final)
  /\ pc[c] \in {"recv", "acquire", "inflight", "send"} =>
       \A i \in 1..Len(outbox[c]) : outbox[c][i].kind \notin Final

FinalInv == \A c \in Connections : FinalOf(c)

(* What a suspended handler relies on when it resumes.                     *)
HandlerOf(c) ==
  /\ pc[c] \in {"acquire", "inflight"} =>
       /\ session[c] = "open"
       /\ request[c] \in Requests
       /\ request[c].payload \in {"predict", "reset"}
  /\ pc[c] = "send" => response[c] \in Responses
  /\ Running(c) => pc[c] = "inflight" \/ (stopping /\ pc[c] = "done")

HandlerInv == \A c \in Connections : HandlerOf(c)

(* The lock has at most one holder, and a worker's handler holds it.       *)
LockInv ==
  ~Concurrent => \A c, d \in Connections :
    pc[c] = "inflight" /\ pc[d] = "inflight" => c = d

ServiceInv == /\ TypeOK /\ WireInv /\ FinalInv /\ HandlerInv /\ LockInv
              /\ AnswersInOrder /\ OneInference /\ LockHeldWhileRunning
              /\ NoFreeUnderCall /\ NoSessionLeak

-----------------------------------------------------------------------------
(* The six ways a frame is answered without running the model.             *)
Replying(c) == \/ RejectFrame(c) \/ RejectId(c) \/ RejectFirst(c)
               \/ Hello(c) \/ CloseRequest(c) \/ RejectPayload(c)

(* Each of them is a Reply that answers its frame, opening a session only  *)
(* where there was none.                                                   *)
LEMMA ReplyForm ==
  ASSUME TypeOK, NEW c \in Connections, Replying(c)
  PROVE  \E f \in Frames, id \in Nat, kind \in ResponseKinds :
           /\ Reply(c, f, id, kind)
           /\ Answers([id |-> id, kind |-> kind], f)
           /\ expected' \in [Connections -> Nat]
           /\ \/ session' = session
              \/ /\ session[c] = "none"
                 /\ session' = [session EXCEPT ![c] = "open"]
<1> USE ServiceAssumption DEF TypeOK, Answers, ResponseKinds, Requests, InOrder
<1>1. CASE RejectFrame(c)
  BY <1>1 DEF RejectFrame
<1>2. CASE RejectId(c)
  BY <1>2 DEF RejectId
<1>3. CASE RejectFirst(c)
  BY <1>3 DEF RejectFirst
<1>4. CASE Hello(c)
  <2>1. PICK f \in Frames, kind \in {"hello", "error", "fatal"} :
          /\ InOrder(c, f) /\ session[c] = "none"
          /\ Reply(c, f, f.id, kind)
          /\ \/ /\ session' = [session EXCEPT ![c] = "open"]
                /\ expected' = [expected EXCEPT ![c] = @ + 1]
             \/ UNCHANGED <<session, expected>>
    BY <1>4 DEF Hello
  <2>2. expected' \in [Connections -> Nat]
    BY <2>1
  <2> QED BY <2>1, <2>2
<1>5. CASE CloseRequest(c) \/ RejectPayload(c)
  <2>1. PICK f \in Frames, kind \in {"close", "fatal"} :
          /\ Reply(c, f, f.id, kind)
          /\ expected' = [expected EXCEPT ![c] = @ + 1]
          /\ UNCHANGED session
    BY <1>5 DEF CloseRequest, RejectPayload
  <2>2. expected' \in [Connections -> Nat]
    BY <2>1
  <2> QED BY <2>1, <2>2
<1> QED BY <1>1, <1>2, <1>3, <1>4, <1>5 DEF Replying

(* What a thread may end with.                                             *)
LEMMA WorkerForm ==
  ASSUME NEW c \in Connections, WorkerRefuse(c) \/ WorkerReturn(c)
  PROVE  \E o \in Outcomes :
           /\ worker' = [worker EXCEPT ![c] = o]
           /\ worker[c] \in {"prep", "native"}
           /\ UNCHANGED <<wire, pc, conn, serving, locked, ahead, stopping>>
BY Zenon DEF WorkerRefuse, WorkerReturn, Outcomes

-----------------------------------------------------------------------------
(* Type correctness                                                        *)

LEMMA TypeInit == ASSUME Init PROVE TypeOK
<1>1. /\ peer \in [Connections -> {"new", "open", "left"}]
      /\ asked \in [Connections -> Seq(Requests)]
      /\ inbox \in [Connections -> Seq(Requests)]
      /\ outbox \in [Connections -> Seq(Responses)]
  BY DEF Init
<1>2. /\ pc \in [Connections -> {"idle", "recv", "acquire", "inflight",
                                 "send", "hangup", "done"}]
      /\ session \in [Connections -> {"none", "open", "freed"}]
      /\ expected \in [Connections -> Nat]
      /\ closed \in [Connections -> BOOLEAN]
  BY DEF Init
<1>3. /\ request \in [Connections -> Requests \cup {NoRequest}]
      /\ response \in [Connections -> Responses \cup {NoResponse}]
  BY DEF Init
<1>4. /\ locked \in BOOLEAN /\ stopping \in BOOLEAN
      /\ ahead \in [Connections -> SUBSET Connections]
      /\ worker \in [Connections -> {"none", "prep", "native"} \cup Outcomes]
  BY DEF Init
<1> QED BY <1>1, <1>2, <1>3, <1>4 DEF TypeOK

LEMMA TypeStep == ASSUME ServiceInv, [Next]_vars PROVE TypeOK'
<1> USE ServiceAssumption DEF ServiceInv
<1>1. ASSUME NEW c \in Connections, Connect(c) PROVE TypeOK'
  BY <1>1 DEF Connect, TypeOK, conn, serving, execution
<1>2. ASSUME NEW c \in Connections, NEW f \in Frames, PeerSend(c, f)
      PROVE TypeOK'
  BY <1>2 DEF PeerSend, TypeOK, conn, serving, execution
<1>3. ASSUME NEW c \in Connections, PeerReceive(c) PROVE TypeOK'
  <2>1. asked[c] # <<>> /\ outbox[c] # <<>>
    BY <1>3 DEF PeerReceive, AnswersInOrder, TypeOK
  <2>2. Tail(asked[c]) \in Seq(Requests) /\ Tail(outbox[c]) \in Seq(Responses)
    BY <2>1 DEF TypeOK
  <2> QED BY <1>3, <2>2 DEF PeerReceive, TypeOK, conn, serving, execution
<1>4. ASSUME NEW c \in Connections, PeerLeave(c) PROVE TypeOK'
  BY <1>4 DEF PeerLeave, TypeOK, conn, serving, execution
<1>5. ASSUME NEW c \in Connections, Replying(c) PROVE TypeOK'
  <2>1. PICK f \in Frames, id \in Nat, kind \in ResponseKinds :
          /\ Reply(c, f, id, kind)
          /\ expected' \in [Connections -> Nat]
          /\ \/ session' = session
             \/ session' = [session EXCEPT ![c] = "open"]
    BY <1>5, ReplyForm
  <2>2. [id |-> id, kind |-> kind] \in Responses
    BY DEF Responses
  <2>3. Tail(inbox[c]) \in Seq(Requests)
    BY <2>1 DEF Reply, TypeOK
  <2> QED BY <2>1, <2>2, <2>3 DEF Reply, TypeOK, execution
<1>6. ASSUME NEW c \in Connections, Execute(c) PROVE TypeOK'
  <2>1. PICK f \in Frames :
          /\ inbox[c] # <<>>
          /\ inbox' = [inbox EXCEPT ![c] = Tail(@)]
          /\ request' = [request EXCEPT ![c] = f]
          /\ \/ StartWorker(c) /\ UNCHANGED ahead
             \/ /\ pc' = [pc EXCEPT ![c] = "acquire"]
                /\ ahead' = [ahead EXCEPT ![c] = Waiting]
                /\ UNCHANGED <<locked, worker>>
          /\ UNCHANGED <<peer, asked, outbox, conn, response, stopping>>
    BY <1>6, Zenon DEF Execute
  <2>2. f \in Requests /\ Tail(inbox[c]) \in Seq(Requests)
    BY <2>1 DEF TypeOK
  <2>3. CASE StartWorker(c) /\ UNCHANGED ahead
    BY <2>1, <2>2, <2>3 DEF StartWorker, TypeOK, conn
  <2>4. CASE UNCHANGED <<locked, worker>> /\ pc' = [pc EXCEPT ![c] = "acquire"]
               /\ ahead' = [ahead EXCEPT ![c] = Waiting]
    BY <2>1, <2>2, <2>4 DEF Waiting, TypeOK, conn
  <2> QED BY <2>1, <2>3, <2>4
<1>7. ASSUME NEW c \in Connections, Acquire(c) PROVE TypeOK'
  BY <1>7 DEF Acquire, StartWorker, LeaveQueue, TypeOK, wire, conn, serving
<1>8. ASSUME NEW c \in Connections, WorkerEnter(c) PROVE TypeOK'
  BY <1>8 DEF WorkerEnter, TypeOK, wire, conn, serving
<1>9. ASSUME NEW c \in Connections, WorkerRefuse(c) \/ WorkerReturn(c)
      PROVE TypeOK'
  <2>1. PICK o \in Outcomes :
          /\ worker' = [worker EXCEPT ![c] = o]
          /\ UNCHANGED <<wire, pc, conn, serving, locked, ahead, stopping>>
    BY <1>9, WorkerForm
  <2> QED BY <2>1 DEF TypeOK, wire, conn, serving
<1>10. ASSUME NEW c \in Connections, Resume(c) PROVE TypeOK'
  <2> DEFINE kind == ResultKind(request[c], worker[c])
  <2>1. request[c] \in Requests /\ request[c].payload \in {"predict", "reset"}
    BY <1>10 DEF Resume, HandlerInv, HandlerOf
  <2>2. kind \in ResponseKinds
    BY <2>1 DEF ResultKind, ResponseKinds
  <2>3. [id |-> request[c].id, kind |-> kind] \in Responses
    BY <2>1, <2>2 DEF Responses, Requests
  <2> HIDE DEF kind
  <2>4. closed' = [closed EXCEPT ![c] = @ \/ kind = "fatal"]
    BY <1>10 DEF Resume, kind
  <2>5. response' = [response EXCEPT ![c] = [id |-> request[c].id,
                                             kind |-> kind]]
    BY <1>10 DEF Resume, kind
  <2>6. /\ expected' = [expected EXCEPT ![c] = @ + 1]
        /\ request' = [request EXCEPT ![c] = NoRequest]
        /\ worker' = [worker EXCEPT ![c] = "none"]
        /\ pc' = [pc EXCEPT ![c] = "send"]
        /\ locked' = FALSE
        /\ UNCHANGED <<wire, session, ahead, stopping>>
    BY <1>10 DEF Resume, ReleaseLock
  <2>7. closed' \in [Connections -> BOOLEAN] /\ locked' \in BOOLEAN
    BY <2>4, <2>6 DEF TypeOK
  <2>8. response' \in [Connections -> Responses \cup {NoResponse}]
    BY <2>3, <2>5 DEF TypeOK
  <2>9. /\ request' \in [Connections -> Requests \cup {NoRequest}]
        /\ worker' \in [Connections -> {"none", "prep", "native"} \cup Outcomes]
        /\ expected' \in [Connections -> Nat]
    BY <2>6 DEF TypeOK
  <2> QED BY <2>6, <2>7, <2>8, <2>9 DEF TypeOK, wire
<1>11. ASSUME NEW c \in Connections, ResumeCrashed(c) PROVE TypeOK'
  BY <1>11 DEF ResumeCrashed, Retire, FreeSession, ReleaseLock, TypeOK, wire
<1>12. ASSUME NEW c \in Connections, Send(c) PROVE TypeOK'
  <2>1. response[c] \in Responses
    BY <1>12 DEF Send, HandlerInv, HandlerOf
  <2>2. Append(outbox[c], response[c]) \in Seq(Responses)
    BY <2>1 DEF TypeOK
  <2>3. CASE response[c].kind = "close"
    BY <1>12, <2>2, <2>3 DEF Send, Retire, FreeSession, TypeOK, execution
  <2>4. CASE response[c].kind # "close"
    BY <1>12, <2>2, <2>4 DEF Send, NextAwait, TypeOK, execution
  <2> QED BY <2>3, <2>4
<1>13. ASSUME NEW c \in Connections, Hangup(c) PROVE TypeOK'
  BY <1>13 DEF Hangup, Retire, FreeSession, TypeOK, wire, serving, execution
<1>14. ASSUME NEW c \in Connections, ConnectionLost(c) PROVE TypeOK'
  BY <1>14 DEF ConnectionLost, Retire, FreeSession, TypeOK, wire, execution
<1>15. ASSUME NEW c \in Connections, Cancel(c) PROVE TypeOK'
  BY <1>15 DEF Cancel, Retire, FreeSession, LeaveQueue, TypeOK, wire
<1>16. CASE Stop
  BY <1>16 DEF Stop, TypeOK, wire, conn, serving, execution
<1>17. CASE UNCHANGED vars
  BY <1>17 DEF TypeOK, vars, wire, conn, serving, execution
<1> QED
  BY <1>1, <1>2, <1>3, <1>4, <1>5, <1>6, <1>7, <1>8, <1>9, <1>10, <1>11,
     <1>12, <1>13, <1>14, <1>15, <1>16, <1>17
  DEF Next, Peer, Worker, Handler, Replying, Finished
-----------------------------------------------------------------------------
(* Frames and answers                                                      *)

LEMMA FollowsAppend ==
  ASSUME NEW S, NEW s \in Seq(S), NEW t \in Seq(S), NEW x \in S, NEW n \in Nat,
         Follows(s, n, t)
  PROVE  Follows(Append(s, x), n, Append(t, x))
BY DEF Follows

LEMMA FollowsTake ==
  ASSUME NEW S, NEW s \in Seq(S), NEW t \in Seq(S), NEW n \in Nat,
         Follows(s, n, t), t # <<>>
  PROVE  Follows(s, n + 1, Tail(t)) /\ s[n + 1] = Head(t)
<1>1. /\ Len(Tail(t)) = Len(t) - 1 /\ Len(t) \in Nat \ {0}
      /\ \A i \in 1..Len(Tail(t)) : Tail(t)[i] = t[i + 1]
  OBVIOUS
<1>2. ASSUME NEW i \in 1..Len(Tail(t)) PROVE s[(n + 1) + i] = Tail(t)[i]
  <2>1. i + 1 \in 1..Len(t) /\ n + (i + 1) = (n + 1) + i
    BY <1>1
  <2>2. s[n + (i + 1)] = t[i + 1]
    BY <2>1 DEF Follows
  <2> QED BY <1>1, <2>1, <2>2
<1> QED BY <1>1, <1>2 DEF Follows

LEMMA FollowsDrop ==
  ASSUME NEW S, NEW s \in Seq(S), NEW t \in Seq(S), NEW n \in Nat \ {0},
         Follows(s, n, t)
  PROVE  Follows(Tail(s), n - 1, t)
<1>1. Len(t) \in Nat /\ Len(s) \in Nat /\ Len(s) = n + Len(t)
  BY DEF Follows
<1>2. /\ Len(Tail(s)) = Len(s) - 1
      /\ \A i \in 1..Len(Tail(s)) : Tail(s)[i] = s[i + 1]
  BY <1>1
<1>3. ASSUME NEW i \in 1..Len(t) PROVE Tail(s)[(n - 1) + i] = t[i]
  <2>1. (n - 1) + i \in 1..Len(Tail(s)) /\ ((n - 1) + i) + 1 = n + i
    BY <1>1, <1>2
  <2> QED BY <1>2, <2>1 DEF Follows
<1> QED BY <1>1, <1>2, <1>3 DEF Follows

(* A step that leaves d's wire and handler alone leaves WireOf(d) alone.   *)
LEMMA WireFrame ==
  ASSUME NEW d \in Connections, WireOf(d),
         peer'[d] = peer[d], asked'[d] = asked[d], inbox'[d] = inbox[d],
         outbox'[d] = outbox[d], pc'[d] = pc[d], request'[d] = request[d],
         response'[d] = response[d]
  PROVE  WireOf(d)'
BY DEF WireOf, Taken, Answers

(* A handler that takes the first frame of d's inbox serves the first      *)
(* frame that has no answer yet.                                           *)
LEMMA WireTake ==
  ASSUME TypeOK, NEW d \in Connections, WireOf(d),
         pc[d] = "recv", inbox[d] # <<>>,
         pc'[d] \in {"acquire", "inflight", "send"},
         peer'[d] = peer[d], asked'[d] = asked[d], outbox'[d] = outbox[d],
         inbox'[d] = Tail(inbox[d]),
         pc'[d] \in {"acquire", "inflight"} => request'[d] = Head(inbox[d]),
         pc'[d] = "send" => Answers(response'[d], Head(inbox[d]))
  PROVE  WireOf(d)'
<1>1. /\ asked[d] \in Seq(Requests) /\ inbox[d] \in Seq(Requests)
      /\ outbox[d] \in Seq(Responses)
  BY DEF TypeOK
<1>2. Taken(d) = Len(outbox[d]) /\ Taken(d) \in Nat
      /\ Taken(d)' = Len(outbox[d]) + 1
  BY <1>1 DEF Taken
<1>3. peer[d] = "open" => /\ Follows(asked[d], Taken(d) + 1, Tail(inbox[d]))
                          /\ asked[d][Len(outbox[d]) + 1] = Head(inbox[d])
  BY <1>1, <1>2, FollowsTake DEF WireOf
<1> QED BY <1>2, <1>3 DEF WireOf

(* The frame being served is one the peer waits for.                       *)
LEMMA Owed ==
  ASSUME TypeOK, NEW d \in Connections, WireOf(d), peer[d] = "open",
         pc[d] \in {"acquire", "inflight", "send"}
  PROVE  Len(outbox[d]) + 1 \in 1..Len(asked[d])
<1>1. /\ Len(asked[d]) \in Nat /\ Len(inbox[d]) \in Nat
      /\ Len(outbox[d]) \in Nat
  BY DEF TypeOK
<1>2. Taken(d) = Len(outbox[d]) + 1
  BY DEF Taken
<1>3. Len(asked[d]) = Taken(d) + Len(inbox[d])
  BY DEF WireOf, Follows
<1>4. \A a, b, o \in Nat : a = (o + 1) + b => o + 1 \in 1..a
  OBVIOUS
<1> QED BY <1>1, <1>2, <1>3, <1>4

LEMMA WireStep == ASSUME ServiceInv, [Next]_vars PROVE WireInv'
<1> USE DEF ServiceInv
<1> SUFFICES ASSUME NEW d \in Connections PROVE WireOf(d)'
  BY DEF WireInv
<1>0. TypeOK /\ WireOf(d)
  BY DEF WireInv
<1>1. ASSUME NEW c \in Connections, Connect(c) PROVE WireOf(d)'
  <2>1. CASE d # c
    BY <1>0, <1>1, <2>1, WireFrame DEF Connect, TypeOK, serving
  <2>2. CASE d = c
    <3>1. /\ asked'[c] = <<>> /\ inbox'[c] = <<>> /\ outbox'[c] = <<>>
          /\ peer'[c] = "open" /\ pc'[c] = "recv"
      BY <1>0, <1>1, <2>2 DEF Connect, TypeOK, WireOf
    <3>2. Taken(c)' = 0
      BY <3>1 DEF Taken
    <3>3. Follows(<<>>, 0, <<>>)
      BY DEF Follows
    <3> QED BY <2>2, <3>1, <3>2, <3>3 DEF WireOf
  <2> QED BY <2>1, <2>2
<1>2. ASSUME NEW c \in Connections, NEW f \in Frames, PeerSend(c, f)
      PROVE WireOf(d)'
  <2>1. CASE d # c
    BY <1>0, <1>2, <2>1, WireFrame DEF PeerSend, TypeOK, serving
  <2>2. CASE d = c
    <3>1. f \in Requests /\ asked[c] \in Seq(Requests)
          /\ inbox[c] \in Seq(Requests) /\ outbox[c] \in Seq(Responses)
      BY <1>0, ServiceAssumption DEF TypeOK
    <3>2. /\ peer[c] = "open" /\ peer'[c] = "open" /\ pc'[c] = pc[c]
          /\ pc[c] # "done"
          /\ asked'[c] = Append(asked[c], f) /\ inbox'[c] = Append(inbox[c], f)
          /\ outbox'[c] = outbox[c] /\ request'[c] = request[c]
          /\ response'[c] = response[c]
      BY <1>0, <1>2 DEF PeerSend, TypeOK, serving
    <3>3. Taken(c) \in Nat /\ Taken(c)' = Taken(c)
      BY <3>1, <3>2 DEF Taken
    <3>4. /\ Follows(asked[c], Taken(c), inbox[c])
          /\ Follows(asked'[c], Taken(c)', inbox'[c])
      BY <1>0, <2>2, <3>1, <3>2, <3>3, FollowsAppend DEF WireOf
    <3>5. pc[c] \in {"acquire", "inflight", "send"} =>
            asked'[c][Len(outbox[c]) + 1] = asked[c][Len(outbox[c]) + 1]
      <4>1. pc[c] \in {"acquire", "inflight", "send"} =>
              Len(outbox[c]) + 1 \in 1..Len(asked[c])
        BY <1>0, <2>2, <3>2, Owed
      <4> QED BY <3>1, <3>2, <4>1
    <3> QED BY <1>0, <2>2, <3>2, <3>4, <3>5 DEF WireOf, Answers
  <2> QED BY <2>1, <2>2
<1>3. ASSUME NEW c \in Connections, PeerReceive(c) PROVE WireOf(d)'
  <2>1. CASE d # c
    BY <1>0, <1>3, <2>1, WireFrame DEF PeerReceive, TypeOK, serving
  <2>2. CASE d = c
    <3>1. /\ asked[c] \in Seq(Requests) /\ inbox[c] \in Seq(Requests)
          /\ outbox[c] \in Seq(Responses)
          /\ outbox[c] # <<>> /\ Len(outbox[c]) <= Len(asked[c])
      BY <1>3 DEF PeerReceive, TypeOK, AnswersInOrder
    <3>2. /\ peer[c] = "open" /\ peer'[c] = "open" /\ pc'[c] = pc[c]
          /\ asked'[c] = Tail(asked[c]) /\ outbox'[c] = Tail(outbox[c])
          /\ inbox'[c] = inbox[c] /\ request'[c] = request[c]
          /\ response'[c] = response[c]
      BY <1>0, <1>3 DEF PeerReceive, TypeOK, serving
    <3>3. Taken(c) \in Nat \ {0} /\ Taken(c)' = Taken(c) - 1
      BY <3>1, <3>2 DEF Taken
    <3>4. pc[c] # "done" => /\ Follows(asked[c], Taken(c), inbox[c])
                            /\ Follows(asked'[c], Taken(c)', inbox'[c])
      BY <1>0, <2>2, <3>1, <3>2, <3>3, FollowsDrop DEF WireOf
    <3>5. pc[c] \in {"acquire", "inflight", "send"} =>
            asked'[c][Len(outbox'[c]) + 1] = asked[c][Len(outbox[c]) + 1]
      <4>1. pc[c] \in {"acquire", "inflight", "send"} =>
              Len(outbox[c]) + 1 \in 1..Len(asked[c])
        BY <1>0, <2>2, <3>2, Owed
      <4>2. Len(outbox'[c]) + 1 = Len(outbox[c]) /\ Len(outbox[c]) \in Nat \ {0}
        BY <3>1, <3>2
      <4> QED BY <3>1, <3>2, <4>1, <4>2
    <3> QED BY <1>0, <2>2, <3>2, <3>4, <3>5 DEF WireOf, Answers
  <2> QED BY <2>1, <2>2
<1>4. ASSUME NEW c \in Connections, PeerLeave(c) PROVE WireOf(d)'
  <2>1. CASE d # c
    BY <1>0, <1>4, <2>1, WireFrame DEF PeerLeave, TypeOK, serving
  <2>2. CASE d = c
    BY <1>0, <1>4, <2>2 DEF PeerLeave, TypeOK, WireOf
  <2> QED BY <2>1, <2>2
<1>5. ASSUME NEW c \in Connections, Replying(c) PROVE WireOf(d)'
  <2>1. PICK f \in Frames, id \in Nat, kind \in ResponseKinds :
          /\ Reply(c, f, id, kind)
          /\ Answers([id |-> id, kind |-> kind], f)
    BY <1>0, <1>5, ReplyForm
  <2>2. CASE d # c
    BY <1>0, <2>1, <2>2, WireFrame DEF Reply, TypeOK
  <2>3. CASE d = c
    <3>1. /\ pc[c] = "recv" /\ pc'[c] = "send" /\ peer'[c] = peer[c]
          /\ inbox[c] # <<>> /\ f = Head(inbox[c])
          /\ asked'[c] = asked[c] /\ outbox'[c] = outbox[c]
          /\ inbox'[c] = Tail(inbox[c])
          /\ response'[c] = [id |-> id, kind |-> kind]
      BY <1>0, <2>1 DEF Reply, TypeOK
    <3> QED BY <1>0, <2>1, <2>3, <3>1, WireTake
  <2> QED BY <2>2, <2>3
<1>6. ASSUME NEW c \in Connections, Execute(c) PROVE WireOf(d)'
  <2>1. PICK f \in Frames :
          /\ pc[c] = "recv" /\ inbox[c] # <<>> /\ f = Head(inbox[c])
          /\ inbox' = [inbox EXCEPT ![c] = Tail(@)]
          /\ request' = [request EXCEPT ![c] = f]
          /\ \/ pc' = [pc EXCEPT ![c] = "inflight"]
             \/ pc' = [pc EXCEPT ![c] = "acquire"]
          /\ UNCHANGED <<peer, asked, outbox, response>>
    BY <1>6 DEF Execute, StartWorker
  <2>2. CASE d # c
    BY <1>0, <2>1, <2>2, WireFrame DEF TypeOK
  <2>3. CASE d = c
    <3>1. /\ pc'[c] \in {"inflight", "acquire"} /\ pc'[c] # "send"
          /\ inbox'[c] = Tail(inbox[c]) /\ request'[c] = f
      BY <1>0, <2>1 DEF TypeOK
    <3> QED BY <1>0, <2>1, <2>3, <3>1, WireTake
  <2> QED BY <2>2, <2>3
<1>7. ASSUME NEW c \in Connections, Acquire(c) PROVE WireOf(d)'
  <2>1. CASE d # c
    BY <1>0, <1>7, <2>1, WireFrame DEF Acquire, StartWorker, TypeOK, wire, serving
  <2>2. CASE d = c
    BY <1>0, <1>7, <2>2
    DEF Acquire, StartWorker, TypeOK, wire, serving, WireOf, Taken
  <2> QED BY <2>1, <2>2
<1>8. ASSUME NEW c \in Connections, Worker(c) PROVE WireOf(d)'
  <2>1. UNCHANGED <<wire, pc, serving>>
    BY <1>8 DEF Worker, WorkerEnter, WorkerRefuse, WorkerReturn
  <2> QED BY <1>0, <2>1, WireFrame DEF wire, serving
<1>9. ASSUME NEW c \in Connections, Resume(c) PROVE WireOf(d)'
  <2>1. CASE d # c
    BY <1>0, <1>9, <2>1, WireFrame DEF Resume, TypeOK, wire
  <2>2. CASE d = c
    <3>1. /\ pc[c] = "inflight" /\ pc'[c] = "send"
          /\ response'[c].id = request[c].id
          /\ UNCHANGED wire
      BY <1>0, <1>9 DEF Resume, TypeOK
    <3> QED BY <1>0, <2>2, <3>1 DEF wire, WireOf, Taken, Answers
  <2> QED BY <2>1, <2>2
<1>10. ASSUME NEW c \in Connections, Send(c) PROVE WireOf(d)'
  <2>1. CASE d # c
    BY <1>0, <1>10, <2>1, WireFrame DEF Send, Retire, TypeOK
  <2>2. CASE d = c
    <3>1. /\ asked[c] \in Seq(Requests) /\ inbox[c] \in Seq(Requests)
          /\ outbox[c] \in Seq(Responses) /\ response[c] \in Responses
      BY <1>10 DEF Send, TypeOK, HandlerInv, HandlerOf
    <3>2. /\ pc[c] = "send" /\ pc'[c] \in {"recv", "hangup", "done"}
          /\ peer[c] = "open" /\ peer'[c] = "open" /\ asked'[c] = asked[c]
          /\ inbox'[c] = inbox[c]
          /\ outbox'[c] = Append(outbox[c], response[c])
      BY <1>0, <1>10 DEF Send, Retire, NextAwait, TypeOK
    <3>3. Taken(c)' = Taken(c)
      BY <3>1, <3>2 DEF Taken
    <3> QED BY <1>0, <2>2, <3>2, <3>3 DEF WireOf
  <2> QED BY <2>1, <2>2
<1>11. ASSUME NEW c \in Connections,
              \/ ResumeCrashed(c) \/ Hangup(c)
              \/ ConnectionLost(c) \/ Cancel(c)
       PROVE WireOf(d)'
  <2>1. /\ pc[c] # "idle" /\ pc' = [pc EXCEPT ![c] = "done"]
        /\ UNCHANGED wire
        /\ request' = request \/ request' = [request EXCEPT ![c] = NoRequest]
        /\ response' = response \/ response' = [response EXCEPT ![c] = NoResponse]
    BY <1>11
    DEF ResumeCrashed, Hangup, ConnectionLost, Cancel, Retire, AwaitsPeer, serving
  <2>2. CASE d # c
    BY <1>0, <2>1, <2>2, WireFrame DEF wire, TypeOK
  <2>3. CASE d = c
    BY <1>0, <2>1, <2>3 DEF wire, TypeOK, WireOf
  <2> QED BY <2>2, <2>3
<1>12. CASE Stop \/ UNCHANGED vars
  BY <1>0, <1>12, WireFrame DEF Stop, vars, wire, serving
<1> QED
  BY <1>1, <1>2, <1>3, <1>4, <1>5, <1>6, <1>7, <1>8, <1>9, <1>10, <1>11, <1>12
  DEF Next, Peer, Handler, Replying, Finished

-----------------------------------------------------------------------------
(* Final answers                                                           *)

LEMMA FinalFrame ==
  ASSUME NEW d \in Connections, FinalOf(d),
         outbox'[d] = outbox[d], pc'[d] = pc[d], closed'[d] = closed[d],
         response'[d] = response[d]
  PROVE  FinalOf(d)'
BY DEF FinalOf

LEMMA FinalStep == ASSUME ServiceInv, [Next]_vars PROVE FinalInv'
<1> USE DEF ServiceInv
<1> SUFFICES ASSUME NEW d \in Connections PROVE FinalOf(d)'
  BY DEF FinalInv
<1>0. TypeOK /\ FinalOf(d) /\ WireOf(d) /\ HandlerOf(d)
  BY DEF FinalInv, WireInv, HandlerInv
<1>1. ASSUME NEW c \in Connections, Connect(c) PROVE FinalOf(d)'
  <2>1. CASE d # c
    BY <1>0, <1>1, <2>1, FinalFrame DEF Connect, TypeOK, conn, serving
  <2>2. CASE d = c
    <3>1. /\ outbox'[d] = <<>> /\ pc'[d] = "recv" /\ ~closed'[d]
      BY <1>0, <1>1, <2>2 DEF Connect, TypeOK, conn, FinalOf, WireOf
    <3> QED BY <3>1 DEF FinalOf
  <2> QED BY <2>1, <2>2
<1>2. ASSUME NEW c \in Connections, NEW f \in Frames, PeerSend(c, f)
      PROVE FinalOf(d)'
  BY <1>0, <1>2, FinalFrame DEF PeerSend, conn, serving
<1>3. ASSUME NEW c \in Connections, PeerReceive(c) PROVE FinalOf(d)'
  <2>1. CASE d # c
    BY <1>0, <1>3, <2>1, FinalFrame DEF PeerReceive, TypeOK, conn, serving
  <2>2. CASE d = c
    <3>1. /\ outbox[d] \in Seq(Responses) /\ outbox[d] # <<>>
          /\ outbox'[d] = Tail(outbox[d]) /\ pc'[d] = pc[d]
          /\ closed'[d] = closed[d] /\ response'[d] = response[d]
      BY <1>0, <1>3, <2>2 DEF PeerReceive, TypeOK, conn, serving
    <3>2. \A i \in 1..Len(outbox'[d]) :
            i + 1 \in 1..Len(outbox[d]) /\ outbox'[d][i] = outbox[d][i + 1]
      BY <3>1
    <3> QED BY <1>0, <3>1, <3>2 DEF FinalOf
  <2> QED BY <2>1, <2>2
<1>4. ASSUME NEW c \in Connections, PeerLeave(c) PROVE FinalOf(d)'
  <2>1. CASE d # c
    BY <1>0, <1>4, <2>1, FinalFrame DEF PeerLeave, TypeOK, conn, serving
  <2>2. CASE d = c
    <3>1. /\ outbox'[d] = <<>> /\ pc'[d] = pc[d]
          /\ closed'[d] = closed[d] /\ response'[d] = response[d]
      BY <1>0, <1>4, <2>2 DEF PeerLeave, TypeOK, conn, serving
    <3> QED BY <1>0, <3>1 DEF FinalOf
  <2> QED BY <2>1, <2>2
<1>5. ASSUME NEW c \in Connections, Replying(c) PROVE FinalOf(d)'
  <2>1. PICK f \in Frames, id \in Nat, kind \in ResponseKinds :
          Reply(c, f, id, kind)
    BY <1>0, <1>5, ReplyForm
  <2>2. CASE d # c
    BY <1>0, <2>1, <2>2, FinalFrame DEF Reply, TypeOK
  <2>3. CASE d = c
    <3>1. /\ pc[d] = "recv" /\ pc'[d] = "send" /\ outbox'[d] = outbox[d]
          /\ closed'[d] <=> closed[d] \/ kind \in Final
          /\ response'[d].kind = kind
      BY <1>0, <2>1, <2>3 DEF Reply, TypeOK, Final
    <3> QED BY <1>0, <3>1 DEF FinalOf
  <2> QED BY <2>2, <2>3
<1>6. ASSUME NEW c \in Connections, Execute(c) \/ Acquire(c)
      PROVE FinalOf(d)'
  <2>1. /\ pc[c] \in {"recv", "acquire"}
        /\ \/ pc' = [pc EXCEPT ![c] = "inflight"]
           \/ pc' = [pc EXCEPT ![c] = "acquire"]
        /\ UNCHANGED <<outbox, closed, response>>
    BY <1>6 DEF Execute, Acquire, StartWorker, conn, serving, wire
  <2>2. CASE d # c
    BY <1>0, <2>1, <2>2, FinalFrame DEF TypeOK
  <2>3. CASE d = c
    BY <1>0, <2>1, <2>3 DEF FinalOf, TypeOK
  <2> QED BY <2>2, <2>3
<1>7. ASSUME NEW c \in Connections, Worker(c) PROVE FinalOf(d)'
  <2>1. UNCHANGED <<wire, pc, conn, serving>>
    BY <1>7 DEF Worker, WorkerEnter, WorkerRefuse, WorkerReturn
  <2> QED BY <1>0, <2>1, FinalFrame DEF wire, conn, serving
<1>8. ASSUME NEW c \in Connections, Resume(c) PROVE FinalOf(d)'
  <2>1. CASE d # c
    BY <1>0, <1>8, <2>1, FinalFrame DEF Resume, TypeOK, wire
  <2>2. CASE d = c
    <3> DEFINE kind == ResultKind(request[c], worker[c])
    <3>1. kind # "close"
      BY <1>0, <1>8, <2>2 DEF Resume, HandlerOf, ResultKind
    <3> HIDE DEF kind
    <3>2. /\ closed' = [closed EXCEPT ![c] = @ \/ kind = "fatal"]
          /\ response' = [response EXCEPT ![c] = [id |-> request[c].id,
                                                  kind |-> kind]]
          /\ pc' = [pc EXCEPT ![c] = "send"]
          /\ pc[c] = "inflight" /\ outbox' = outbox
      BY <1>8 DEF Resume, kind, wire
    <3>3. /\ closed'[d] <=> closed[d] \/ kind = "fatal"
          /\ response'[d].kind = kind /\ pc'[d] = "send"
      BY <1>0, <2>2, <3>2 DEF TypeOK
    <3> QED BY <1>0, <2>2, <3>1, <3>2, <3>3 DEF FinalOf, Final
  <2> QED BY <2>1, <2>2
<1>9. ASSUME NEW c \in Connections, Send(c) PROVE FinalOf(d)'
  <2>1. CASE d # c
    BY <1>0, <1>9, <2>1, FinalFrame DEF Send, Retire, FreeSession, TypeOK
  <2>2. CASE d = c
    <3>1. /\ pc[d] = "send" /\ outbox[d] \in Seq(Responses)
          /\ response[d] \in Responses
          /\ outbox'[d] = Append(outbox[d], response[d])
          /\ \/ pc'[d] \in {"hangup", "done"}
             \/ pc'[d] = "recv" /\ ~closed[d] /\ closed'[d] = closed[d]
      BY <1>0, <1>9, <2>2 DEF Send, Retire, NextAwait, TypeOK, HandlerOf
    <3>2. \A i \in 1..Len(outbox'[d]) :
            \/ i \in 1..Len(outbox[d]) /\ outbox'[d][i] = outbox[d][i]
            \/ outbox'[d][i] = response[d]
      BY <3>1
    <3> QED BY <1>0, <3>1, <3>2 DEF FinalOf
  <2> QED BY <2>1, <2>2
<1>10. ASSUME NEW c \in Connections,
              \/ ResumeCrashed(c) \/ Hangup(c)
              \/ ConnectionLost(c) \/ Cancel(c)
       PROVE FinalOf(d)'
  <2>1. /\ pc' = [pc EXCEPT ![c] = "done"]
        /\ closed' = [closed EXCEPT ![c] = TRUE]
        /\ outbox' = outbox
        /\ response' = response \/ response' = [response EXCEPT ![c] = NoResponse]
    BY <1>10
    DEF ResumeCrashed, Hangup, ConnectionLost, Cancel, Retire, serving, wire
  <2>2. CASE d # c
    BY <1>0, <2>1, <2>2, FinalFrame DEF TypeOK
  <2>3. CASE d = c
    BY <1>0, <2>1, <2>3 DEF TypeOK, FinalOf
  <2> QED BY <2>2, <2>3
<1>11. CASE Stop \/ UNCHANGED vars
  BY <1>0, <1>11, FinalFrame DEF Stop, vars, wire, conn, serving
<1> QED
  BY <1>1, <1>2, <1>3, <1>4, <1>5, <1>6, <1>7, <1>8, <1>9, <1>10, <1>11
  DEF Next, Peer, Handler, Replying, Finished

-----------------------------------------------------------------------------
(* Answers in order                                                        *)

AnswersOf(c) ==
  /\ Len(outbox[c]) <= Len(asked[c])
  /\ \A i \in 1..Len(outbox[c]) :
       /\ Answers(outbox[c][i], asked[c][i])
       /\ outbox[c][i].kind \in Final => i = Len(outbox[c])

LEMMA AnswersStep == ASSUME ServiceInv, [Next]_vars PROVE AnswersInOrder'
<1> USE DEF ServiceInv
<1> SUFFICES ASSUME NEW d \in Connections PROVE AnswersOf(d)'
  BY DEF AnswersInOrder, AnswersOf, Answers, Final
<1>0. TypeOK /\ AnswersOf(d) /\ FinalOf(d) /\ WireOf(d) /\ HandlerOf(d)
  BY DEF AnswersInOrder, AnswersOf, Answers, Final, FinalInv, WireInv, HandlerInv
<1>1. CASE outbox'[d] = outbox[d] /\ asked'[d] = asked[d]
  BY <1>0, <1>1 DEF AnswersOf, Answers
<1>2. ASSUME NEW f \in Frames, PeerSend(d, f) PROVE AnswersOf(d)'
  <2>1. /\ f \in Requests /\ asked[d] \in Seq(Requests)
        /\ outbox[d] \in Seq(Responses)
        /\ asked'[d] = Append(asked[d], f) /\ outbox'[d] = outbox[d]
    BY <1>0, <1>2, ServiceAssumption DEF PeerSend, TypeOK
  <2>2. /\ Len(asked'[d]) = Len(asked[d]) + 1
        /\ \A i \in 1..Len(asked[d]) : asked'[d][i] = asked[d][i]
    BY <2>1
  <2> QED BY <1>0, <2>1, <2>2 DEF AnswersOf, Answers
<1>3. CASE PeerReceive(d)
  <2>1. /\ asked[d] \in Seq(Requests) /\ outbox[d] \in Seq(Responses)
        /\ outbox[d] # <<>> /\ asked[d] # <<>>
        /\ asked'[d] = Tail(asked[d]) /\ outbox'[d] = Tail(outbox[d])
    BY <1>0, <1>3 DEF PeerReceive, TypeOK, AnswersOf
  <2>2. /\ Len(asked'[d]) = Len(asked[d]) - 1
        /\ Len(outbox'[d]) = Len(outbox[d]) - 1
        /\ \A i \in 1..Len(outbox'[d]) :
             /\ i + 1 \in 1..Len(outbox[d])
             /\ outbox'[d][i] = outbox[d][i + 1]
        /\ \A i \in 1..Len(asked'[d]) : asked'[d][i] = asked[d][i + 1]
    BY <2>1
  <2> QED BY <1>0, <2>1, <2>2 DEF AnswersOf, Answers
<1>4. CASE PeerLeave(d)
  <2>1. asked'[d] = <<>> /\ outbox'[d] = <<>>
    BY <1>0, <1>4 DEF PeerLeave, TypeOK
  <2> QED BY <2>1 DEF AnswersOf
<1>5. CASE Send(d)
  <2>1. /\ peer[d] = "open" /\ pc[d] = "send"
        /\ outbox[d] \in Seq(Responses) /\ response[d] \in Responses
        /\ asked[d] \in Seq(Requests)
        /\ asked'[d] = asked[d] /\ outbox'[d] = Append(outbox[d], response[d])
    BY <1>0, <1>5 DEF Send, TypeOK, HandlerOf
  <2>2. /\ Len(outbox'[d]) = Len(outbox[d]) + 1
        /\ \A i \in 1..Len(outbox[d]) : outbox'[d][i] = outbox[d][i]
        /\ outbox'[d][Len(outbox[d]) + 1] = response[d]
    BY <2>1
  <2>3. Len(outbox[d]) + 1 \in 1..Len(asked[d])
    BY <1>0, <2>1, Owed
  <2>4. Answers(response[d], asked[d][Len(outbox[d]) + 1])
    BY <1>0, <2>1 DEF WireOf
  <2>5. \A i \in 1..Len(outbox[d]) : outbox[d][i].kind \notin Final
    BY <1>0, <2>1 DEF FinalOf
  <2> QED BY <1>0, <2>1, <2>2, <2>3, <2>4, <2>5 DEF AnswersOf, Answers
<1>6. ASSUME NEW c \in Connections, Peer(c) \/ Worker(c) \/ Handler(c), c # d
      PROVE  outbox'[d] = outbox[d] /\ asked'[d] = asked[d]
  BY <1>0, <1>6
  DEF TypeOK, Peer, Connect, PeerSend, PeerReceive, PeerLeave, Worker,
      WorkerEnter, WorkerRefuse, WorkerReturn, Handler, RejectFrame, RejectId,
      RejectFirst, Hello, CloseRequest, RejectPayload, Reply, Execute, Acquire,
      Resume, ResumeCrashed, Send, Hangup, ConnectionLost, Cancel, wire
<1>7. ASSUME Worker(d) \/ Handler(d) \/ Connect(d), ~Send(d)
      PROVE  outbox'[d] = outbox[d] /\ asked'[d] = asked[d]
  BY <1>7
  DEF Connect, Worker, WorkerEnter, WorkerRefuse, WorkerReturn, Handler,
      RejectFrame, RejectId, RejectFirst, Hello, CloseRequest, RejectPayload,
      Reply, Execute, Acquire, Resume, ResumeCrashed, Hangup, ConnectionLost,
      Cancel, wire
<1>8. ASSUME Stop \/ UNCHANGED vars
      PROVE  outbox'[d] = outbox[d] /\ asked'[d] = asked[d]
  BY <1>8 DEF Stop, vars, wire
<1> QED
  BY <1>1, <1>2, <1>3, <1>4, <1>5, <1>6, <1>7, <1>8 DEF Next, Peer, Finished

-----------------------------------------------------------------------------
(* Handlers, threads and sessions                                          *)

LEMMA HandlerFrame ==
  ASSUME NEW d \in Connections, HandlerOf(d),
         pc'[d] = pc[d], session'[d] = session[d], request'[d] = request[d],
         response'[d] = response[d], worker'[d] = worker[d],
         stopping => stopping'
  PROVE  HandlerOf(d)'
BY DEF HandlerOf, Running

LEMMA HandlerStep == ASSUME ServiceInv, [Next]_vars PROVE HandlerInv'
<1> USE DEF ServiceInv
<1> SUFFICES ASSUME NEW d \in Connections PROVE HandlerOf(d)'
  BY DEF HandlerInv
<1>0. TypeOK /\ HandlerOf(d)
  BY DEF HandlerInv
<1>1. ASSUME NEW c \in Connections, Connect(c) PROVE HandlerOf(d)'
  <2>1. CASE d # c
    BY <1>0, <1>1, <2>1, HandlerFrame
    DEF Connect, TypeOK, conn, serving, execution
  <2>2. CASE d = c
    <3>1. pc[d] = "idle"
      BY <1>1, <2>2 DEF Connect, WireInv, WireOf
    <3> QED BY <1>0, <1>1, <2>2, <3>1
        DEF Connect, TypeOK, HandlerOf, Running, execution
  <2> QED BY <2>1, <2>2
<1>2. ASSUME NEW c \in Connections,
             (\E f \in Frames : PeerSend(c, f)) \/ PeerReceive(c) \/ PeerLeave(c)
      PROVE HandlerOf(d)'
  BY <1>0, <1>2, HandlerFrame
  DEF PeerSend, PeerReceive, PeerLeave, conn, serving, execution
<1>3. ASSUME NEW c \in Connections, Replying(c) PROVE HandlerOf(d)'
  <2>1. PICK f \in Frames, id \in Nat, kind \in ResponseKinds :
          /\ Reply(c, f, id, kind)
          /\ session' = session \/ session' = [session EXCEPT ![c] = "open"]
    BY <1>0, <1>3, ReplyForm
  <2>2. CASE d # c
    BY <1>0, <2>1, <2>2, HandlerFrame DEF Reply, TypeOK, execution
  <2>3. CASE d = c
    <3>1. /\ pc[d] = "recv" /\ pc'[d] = "send" /\ ~stopping
          /\ response'[d] = [id |-> id, kind |-> kind]
          /\ worker'[d] = worker[d]
      BY <1>0, <2>1, <2>3 DEF Reply, TypeOK, execution
    <3> QED BY <1>0, <3>1 DEF HandlerOf, Running, Responses
  <2> QED BY <2>2, <2>3
<1>4. ASSUME NEW c \in Connections, Execute(c) PROVE HandlerOf(d)'
  <2>1. PICK f \in Frames :
          /\ ~stopping /\ pc[c] = "recv" /\ session[c] = "open"
          /\ f.payload \in {"predict", "reset"}
          /\ request' = [request EXCEPT ![c] = f]
          /\ \/ /\ pc' = [pc EXCEPT ![c] = "inflight"]
                /\ worker' = [worker EXCEPT ![c] = "prep"]
             \/ /\ pc' = [pc EXCEPT ![c] = "acquire"]
                /\ worker' = worker
          /\ UNCHANGED <<session, response, stopping>>
    BY <1>4 DEF Execute, StartWorker, conn
  <2>2. CASE d # c
    BY <1>0, <2>1, <2>2, HandlerFrame DEF TypeOK
  <2>3. CASE d = c
    BY <1>0, <2>1, <2>3, ServiceAssumption DEF TypeOK, HandlerOf, Running
  <2> QED BY <2>2, <2>3
<1>5. ASSUME NEW c \in Connections, Acquire(c) PROVE HandlerOf(d)'
  <2>1. CASE d # c
    BY <1>0, <1>5, <2>1, HandlerFrame
    DEF Acquire, StartWorker, TypeOK, conn, serving
  <2>2. CASE d = c
    BY <1>0, <1>5, <2>2
    DEF Acquire, StartWorker, TypeOK, conn, serving, HandlerOf
  <2> QED BY <2>1, <2>2
<1>6. ASSUME NEW c \in Connections, Worker(c) PROVE HandlerOf(d)'
  <2>1. /\ Running(c) /\ \A e \in Connections \ {c} : worker'[e] = worker[e]
        /\ UNCHANGED <<pc, conn, serving, stopping>>
    BY <1>0, <1>6
    DEF Worker, WorkerEnter, WorkerRefuse, WorkerReturn, Running, TypeOK
  <2>2. CASE d # c
    BY <1>0, <2>1, <2>2, HandlerFrame DEF conn, serving
  <2>3. CASE d = c
    BY <1>0, <2>1, <2>3 DEF HandlerOf, conn, serving
  <2> QED BY <2>2, <2>3
<1>7. ASSUME NEW c \in Connections, Resume(c) PROVE HandlerOf(d)'
  <2>1. CASE d # c
    BY <1>0, <1>7, <2>1, HandlerFrame DEF Resume, TypeOK
  <2>2. CASE d = c
    <3>1. response'[d] \in Responses
      <4>1. request[d] \in Requests /\ request[d].payload \in {"predict", "reset"}
        BY <1>0, <1>7, <2>2 DEF Resume, HandlerOf
      <4>2. ResultKind(request[d], worker[d]) \in ResponseKinds
        BY <4>1 DEF ResultKind, ResponseKinds
      <4> QED BY <1>0, <1>7, <2>2, <4>1, <4>2
          DEF Resume, Responses, Requests, TypeOK
    <3> QED BY <1>0, <1>7, <2>2, <3>1 DEF Resume, TypeOK, HandlerOf, Running
  <2> QED BY <2>1, <2>2
<1>8. ASSUME NEW c \in Connections, ResumeCrashed(c) PROVE HandlerOf(d)'
  <2>1. CASE d # c
    BY <1>0, <1>8, <2>1, HandlerFrame
    DEF ResumeCrashed, Retire, FreeSession, TypeOK
  <2>2. CASE d = c
    BY <1>0, <1>8, <2>2 DEF ResumeCrashed, Retire, TypeOK, HandlerOf, Running
  <2> QED BY <2>1, <2>2
<1>9. ASSUME NEW c \in Connections, Send(c) \/ Hangup(c) \/ ConnectionLost(c)
      PROVE HandlerOf(d)'
  <2>1. /\ pc[c] \in {"recv", "send", "hangup"}
        /\ \/ pc' = [pc EXCEPT ![c] = "recv"]
           \/ pc' = [pc EXCEPT ![c] = "hangup"]
           \/ pc' = [pc EXCEPT ![c] = "done"]
        /\ \A e \in Connections \ {c} :
             session'[e] = session[e] /\ response'[e] = response[e]
        /\ UNCHANGED <<request, worker, stopping>> /\ ~stopping
    BY <1>0, <1>9
    DEF Send, Hangup, ConnectionLost, Retire, FreeSession, NextAwait,
        AwaitsPeer, serving, execution, TypeOK
  <2>2. CASE d # c
    BY <1>0, <2>1, <2>2, HandlerFrame DEF TypeOK
  <2>3. CASE d = c
    BY <1>0, <2>1, <2>3 DEF TypeOK, HandlerOf, Running
  <2> QED BY <2>2, <2>3
<1>10. ASSUME NEW c \in Connections, Cancel(c) PROVE HandlerOf(d)'
  <2>1. CASE d # c
    BY <1>0, <1>10, <2>1, HandlerFrame DEF Cancel, Retire, FreeSession, TypeOK
  <2>2. CASE d = c
    BY <1>0, <1>10, <2>2 DEF Cancel, Retire, TypeOK, HandlerOf
  <2> QED BY <2>1, <2>2
<1>11. CASE Stop \/ UNCHANGED vars
  BY <1>0, <1>11, HandlerFrame DEF Stop, vars, conn, serving, execution
<1> QED
  BY <1>1, <1>2, <1>3, <1>4, <1>5, <1>6, <1>7, <1>8, <1>9, <1>10, <1>11
  DEF Next, Peer, Handler, Replying, Finished

-----------------------------------------------------------------------------
(* The inference lock                                                      *)

(* A peer moves a handler only by connecting.                              *)
LEMMA PeerForm ==
  ASSUME TypeOK, WireInv, NEW c \in Connections, Peer(c)
  PROVE  /\ \A d \in Connections :
              pc'[d] = pc[d] \/ (pc[d] = "idle" /\ pc'[d] = "recv")
         /\ UNCHANGED conn /\ UNCHANGED execution /\ UNCHANGED stopping
<1>1. CASE Connect(c)
  <2>1. pc[c] = "idle" /\ pc' = [pc EXCEPT ![c] = "recv"]
    BY <1>1 DEF Connect, WireInv, WireOf
  <2>2. UNCHANGED conn /\ UNCHANGED execution /\ UNCHANGED stopping
    BY <1>1 DEF Connect
  <2> QED BY <2>1, <2>2 DEF TypeOK
<1>2. CASE (\E f \in Frames : PeerSend(c, f)) \/ PeerReceive(c) \/ PeerLeave(c)
  <2>1. /\ UNCHANGED conn /\ UNCHANGED execution /\ UNCHANGED stopping
        /\ UNCHANGED pc
    BY <1>2 DEF PeerSend, PeerReceive, PeerLeave
  <2> QED BY <2>1
<1> QED BY <1>1, <1>2 DEF Peer

Mutex == LockInv /\ OneInference /\ LockHeldWhileRunning

(* A step that starts no thread and moves no handler into or out of        *)
(* "inflight" leaves the lock as it was.                                   *)
LEMMA LockFrame ==
  ASSUME Mutex, locked' = locked,
         \A c \in Connections : pc'[c] = "inflight" <=> pc[c] = "inflight",
         \A c \in Connections : Running(c)' => Running(c)
  PROVE  Mutex'
BY DEF Mutex, LockInv, OneInference, LockHeldWhileRunning

(* The lock is free when a thread starts, and held from then on.           *)
LEMMA LockTaken ==
  ASSUME Mutex, TypeOK, HandlerInv, NEW c \in Connections, ~stopping,
         Concurrent \/ ~locked, StartWorker(c)
  PROVE  Mutex'
<1> SUFFICES ASSUME ~Concurrent PROVE Mutex'
  BY DEF Mutex, LockInv, OneInference, LockHeldWhileRunning
<1>1. \A d \in Connections : pc[d] # "inflight" /\ ~Running(d)
  BY DEF Mutex, LockHeldWhileRunning, HandlerInv, HandlerOf
<1>2. /\ locked' = TRUE /\ pc'[c] = "inflight"
      /\ \A d \in Connections : d # c => pc'[d] # "inflight" /\ ~Running(d)'
  BY <1>1 DEF StartWorker, TypeOK, Running
<1> QED BY <1>2 DEF Mutex, LockInv, OneInference, LockHeldWhileRunning

(* The handler that held the lock is out of "inflight" when it is free.    *)
LEMMA LockReturned ==
  ASSUME Mutex, TypeOK, NEW c \in Connections,
         pc[c] = "inflight", pc'[c] # "inflight", locked' = FALSE,
         \A d \in Connections : d # c => pc'[d] = pc[d],
         \A d \in Connections : Running(d)' => Running(d)
  PROVE  Mutex'
BY DEF Mutex, LockInv, OneInference, LockHeldWhileRunning

LEMMA LockStep == ASSUME ServiceInv, [Next]_vars PROVE Mutex'
<1> USE DEF ServiceInv
<1>0. TypeOK /\ Mutex /\ HandlerInv
  BY DEF Mutex
<1>1. ASSUME NEW c \in Connections, Peer(c) PROVE Mutex'
  <2>1. /\ \A d \in Connections : pc'[d] = pc[d] \/ (pc[d] = "idle" /\ pc'[d] = "recv")
        /\ UNCHANGED execution
    BY <1>0, <1>1, PeerForm
  <2> QED BY <1>0, <2>1, LockFrame DEF Running, execution
<1>2. ASSUME NEW c \in Connections, Replying(c) PROVE Mutex'
  <2>1. /\ pc[c] = "recv" /\ pc' = [pc EXCEPT ![c] = "send"]
        /\ UNCHANGED <<locked, worker>>
    BY <1>0, <1>2, ReplyForm DEF Reply, execution
  <2> QED BY <1>0, <2>1, LockFrame DEF Running, TypeOK
<1>3. ASSUME NEW c \in Connections, Execute(c) PROVE Mutex'
  <2>1. ~stopping /\ pc[c] = "recv"
    BY <1>3 DEF Execute
  <2>2. CASE LockAvailable
    BY <1>0, <1>3, <2>1, <2>2, LockTaken DEF Execute, LockAvailable
  <2>3. CASE ~LockAvailable
    <3>1. pc' = [pc EXCEPT ![c] = "acquire"] /\ UNCHANGED <<locked, worker>>
      BY <1>3, <2>3 DEF Execute
    <3> QED BY <1>0, <2>1, <3>1, LockFrame DEF Running, TypeOK
  <2> QED BY <2>2, <2>3
<1>4. ASSUME NEW c \in Connections, Acquire(c) PROVE Mutex'
  BY <1>0, <1>4, LockTaken DEF Acquire
<1>5. ASSUME NEW c \in Connections, Worker(c) PROVE Mutex'
  <2>1. /\ \A d \in Connections : Running(d)' => Running(d)
        /\ UNCHANGED <<pc, locked>>
    BY <1>0, <1>5
    DEF Worker, WorkerEnter, WorkerRefuse, WorkerReturn, Running, TypeOK
  <2> QED BY <1>0, <2>1, LockFrame
<1>6. ASSUME NEW c \in Connections, Resume(c) \/ ResumeCrashed(c) PROVE Mutex'
  <2>1. /\ pc[c] = "inflight" /\ locked' = FALSE
        /\ pc' = [pc EXCEPT ![c] = "send"] \/ pc' = [pc EXCEPT ![c] = "done"]
        /\ worker' = [worker EXCEPT ![c] = "none"]
    BY <1>6 DEF Resume, ResumeCrashed, Retire, ReleaseLock
  <2>2. /\ pc'[c] # "inflight" /\ ~Running(c)'
        /\ \A d \in Connections : d # c => pc'[d] = pc[d] /\ worker'[d] = worker[d]
    BY <1>0, <2>1 DEF TypeOK, Running
  <2>3. \A d \in Connections : Running(d)' => Running(d)
    BY <2>2 DEF Running
  <2> QED BY <1>0, <2>1, <2>2, <2>3, LockReturned
<1>7. ASSUME NEW c \in Connections, Send(c) \/ Hangup(c) \/ ConnectionLost(c)
      PROVE Mutex'
  <2>1. /\ pc[c] # "inflight"
        /\ \/ pc' = [pc EXCEPT ![c] = "recv"]
           \/ pc' = [pc EXCEPT ![c] = "hangup"]
           \/ pc' = [pc EXCEPT ![c] = "done"]
        /\ UNCHANGED <<locked, worker>>
    BY <1>7
    DEF Send, Hangup, ConnectionLost, Retire, NextAwait, AwaitsPeer, execution
  <2> QED BY <1>0, <2>1, LockFrame DEF TypeOK, Running
<1>8. ASSUME NEW c \in Connections, Cancel(c) PROVE Mutex'
  <2>1. /\ pc' = [pc EXCEPT ![c] = "done"] /\ worker' = worker
        /\ locked' = (locked /\ pc[c] # "inflight")
    BY <1>8 DEF Cancel, Retire
  <2>2. CASE pc[c] = "inflight"
    BY <1>0, <2>1, <2>2, LockReturned DEF TypeOK, Running
  <2>3. CASE pc[c] # "inflight"
    <3>1. locked' = locked
      BY <1>0, <2>1, <2>3 DEF TypeOK
    <3> QED BY <1>0, <2>1, <2>3, <3>1, LockFrame DEF TypeOK, Running
  <2> QED BY <2>2, <2>3
<1>9. CASE Stop \/ UNCHANGED vars
  BY <1>0, <1>9, LockFrame DEF Stop, vars, execution, Running
<1> QED
  BY <1>1, <1>2, <1>3, <1>4, <1>5, <1>6, <1>7, <1>8, <1>9
  DEF Next, Handler, Replying, Finished

-----------------------------------------------------------------------------
(* Native sessions                                                         *)

SessionOf(c) ==
  /\ worker[c] = "native" => session[c] = "open" \/ (stopping /\ pc[c] = "done")
  /\ pc[c] = "done" => session[c] # "open" /\ closed[c]

LEMMA SessionFrame ==
  ASSUME NEW d \in Connections, SessionOf(d),
         pc'[d] = pc[d], session'[d] = session[d], closed'[d] = closed[d],
         worker'[d] = "native" => worker[d] = "native", stopping => stopping'
  PROVE  SessionOf(d)'
BY DEF SessionOf

LEMMA SessionStep ==
  ASSUME ServiceInv, [Next]_vars PROVE NoFreeUnderCall' /\ NoSessionLeak'
<1> USE DEF ServiceInv
<1> SUFFICES ASSUME NEW d \in Connections PROVE SessionOf(d)'
  BY DEF NoFreeUnderCall, NoSessionLeak, SessionOf
<1>0. TypeOK /\ SessionOf(d) /\ HandlerOf(d)
  BY DEF NoFreeUnderCall, NoSessionLeak, SessionOf, HandlerInv
<1>1. ASSUME NEW c \in Connections, Peer(c) PROVE SessionOf(d)'
  <2>1. /\ pc'[d] = pc[d] \/ (pc[d] = "idle" /\ pc'[d] = "recv")
        /\ UNCHANGED <<conn, execution, stopping>>
    BY <1>0, <1>1, PeerForm
  <2> QED BY <1>0, <2>1 DEF SessionOf, conn, execution
<1>2. ASSUME NEW c \in Connections, Replying(c) PROVE SessionOf(d)'
  <2>1. PICK f \in Frames, id \in Nat, kind \in ResponseKinds :
          /\ Reply(c, f, id, kind)
          /\ session' = session \/ session' = [session EXCEPT ![c] = "open"]
    BY <1>0, <1>2, ReplyForm
  <2>2. CASE d # c
    BY <1>0, <2>1, <2>2, SessionFrame DEF Reply, TypeOK, execution
  <2>3. CASE d = c
    BY <1>0, <2>1, <2>3 DEF Reply, TypeOK, execution, SessionOf, HandlerOf, Running
  <2> QED BY <2>2, <2>3
<1>3. ASSUME NEW c \in Connections, Execute(c) \/ Acquire(c)
      PROVE SessionOf(d)'
  <2>1. /\ \/ pc' = [pc EXCEPT ![c] = "inflight"]
           \/ pc' = [pc EXCEPT ![c] = "acquire"]
        /\ worker' = worker \/ worker' = [worker EXCEPT ![c] = "prep"]
        /\ UNCHANGED <<conn, stopping>> /\ pc[c] \in {"recv", "acquire"}
        /\ ~stopping
    BY <1>3 DEF Execute, Acquire, StartWorker
  <2> QED BY <1>0, <2>1 DEF SessionOf, TypeOK, conn
<1>4. ASSUME NEW c \in Connections, Worker(c) PROVE SessionOf(d)'
  <2>1. /\ \/ worker'[d] = "native" => worker[d] = "native"
           \/ session[d] = "open"
        /\ UNCHANGED <<pc, conn, stopping>>
    BY <1>0, <1>4
    DEF Worker, WorkerEnter, WorkerRefuse, WorkerReturn, Outcomes, TypeOK
  <2> QED BY <1>0, <2>1 DEF SessionOf, conn
<1>5. ASSUME NEW c \in Connections, Resume(c) PROVE SessionOf(d)'
  <2>1. CASE d # c
    BY <1>0, <1>5, <2>1, SessionFrame DEF Resume, TypeOK
  <2>2. CASE d = c
    BY <1>0, <1>5, <2>2 DEF Resume, TypeOK, SessionOf
  <2> QED BY <2>1, <2>2
<1>6. ASSUME NEW c \in Connections, ResumeCrashed(c) PROVE SessionOf(d)'
  <2>1. CASE d # c
    BY <1>0, <1>6, <2>1, SessionFrame
    DEF ResumeCrashed, Retire, FreeSession, TypeOK
  <2>2. CASE d = c
    BY <1>0, <1>6, <2>2
    DEF ResumeCrashed, Retire, FreeSession, TypeOK, SessionOf
  <2> QED BY <2>1, <2>2
<1>7. ASSUME NEW c \in Connections, Send(c) \/ Hangup(c) \/ ConnectionLost(c)
      PROVE SessionOf(d)'
  <2>1. /\ pc[c] \in {"recv", "send", "hangup"} /\ ~stopping
        /\ \/ Retire(c)
           \/ /\ pc' = [pc EXCEPT ![c] = NextAwait(c)]
              /\ UNCHANGED <<session, closed>>
        /\ UNCHANGED <<worker, stopping>>
    BY <1>7 DEF Send, Hangup, ConnectionLost, AwaitsPeer, execution
  <2>2. CASE d # c
    BY <1>0, <2>1, <2>2, SessionFrame DEF Retire, FreeSession, TypeOK
  <2>3. CASE d = c
    BY <1>0, <2>1, <2>3
    DEF Retire, FreeSession, NextAwait, TypeOK, SessionOf, HandlerOf, Running
  <2> QED BY <2>2, <2>3
<1>8. ASSUME NEW c \in Connections, Cancel(c) PROVE SessionOf(d)'
  <2>1. CASE d # c
    BY <1>0, <1>8, <2>1, SessionFrame DEF Cancel, Retire, FreeSession, TypeOK
  <2>2. CASE d = c
    BY <1>0, <1>8, <2>2 DEF Cancel, Retire, FreeSession, TypeOK, SessionOf
  <2> QED BY <2>1, <2>2
<1>9. CASE Stop \/ UNCHANGED vars
  BY <1>0, <1>9, SessionFrame DEF Stop, vars, conn, execution
<1> QED
  BY <1>1, <1>2, <1>3, <1>4, <1>5, <1>6, <1>7, <1>8, <1>9
  DEF Next, Handler, Replying, Finished

-----------------------------------------------------------------------------
(* The theorems                                                            *)

LEMMA InvInit == ASSUME Init PROVE ServiceInv
<1>1. TypeOK
  BY TypeInit
<1>2. WireInv /\ FinalInv
  BY DEF Init, WireInv, WireOf, FinalInv, FinalOf
<1>3. HandlerInv /\ Mutex
  BY DEF Init, HandlerInv, HandlerOf, Running, Mutex, LockInv, OneInference,
         LockHeldWhileRunning
<1>4. AnswersInOrder
  <2>1. \A c \in Connections : outbox[c] = <<>> /\ asked[c] = <<>>
    BY DEF Init
  <2>2. Len(<<>>) <= Len(<<>>) /\ 1..Len(<<>>) = {}
    OBVIOUS
  <2> QED BY <2>1, <2>2, Zenon DEF AnswersInOrder
<1>5. NoFreeUnderCall /\ NoSessionLeak
  BY DEF Init, NoFreeUnderCall, NoSessionLeak
<1> QED BY <1>1, <1>2, <1>3, <1>4, <1>5 DEF ServiceInv, Mutex

LEMMA InvStep == ASSUME ServiceInv, [Next]_vars PROVE ServiceInv'
BY TypeStep, WireStep, FinalStep, AnswersStep, HandlerStep, LockStep,
   SessionStep
DEF ServiceInv, Mutex

(* Every reachable state of the server satisfies the inductive invariant.  *)
THEOREM Invariance == Spec => []ServiceInv
BY InvInit, InvStep, PTL DEF Spec

(* The state of the server stays well typed: what a resumed handler reads  *)
(* is a request or a response, and nobody pops an empty queue.             *)
THEOREM TypeCorrect == Spec => []TypeOK
<1>1. ServiceInv => TypeOK
  BY DEF ServiceInv
<1> QED BY <1>1, Invariance, PTL

(* inference_lock admits one predict or reset of all sessions at a time.   *)
THEOREM MutualExclusion == Spec => []OneInference
<1>1. ServiceInv => OneInference
  BY DEF ServiceInv
<1> QED BY <1>1, Invariance, PTL

(* inference_lock is held just as long as a handler awaits its thread: it  *)
(* is not let go while the call it protects runs on.                       *)
THEOREM LockDiscipline == Spec => []LockHeldWhileRunning
<1>1. ServiceInv => LockHeldWhileRunning
  BY DEF ServiceInv
<1> QED BY <1>1, Invariance, PTL

(* No native session is freed under a running call, but for the            *)
(* cancellation of a stopping server.                                      *)
THEOREM NoUseAfterFree == Spec => []NoFreeUnderCall
<1>1. ServiceInv => NoFreeUnderCall
  BY DEF ServiceInv
<1> QED BY <1>1, Invariance, PTL

(* No native session outlives the handler of its connection.               *)
THEOREM SessionLifetime == Spec => []NoSessionLeak
<1>1. ServiceInv => NoSessionLeak
  BY DEF ServiceInv
<1> QED BY <1>1, Invariance, PTL

(* However far a peer pipelines, it reads its answers in request order,    *)
(* and a final answer last.                                                *)
THEOREM OrderedAnswers == Spec => []AnswersInOrder
<1>1. ServiceInv => AnswersInOrder
  BY DEF ServiceInv
<1> QED BY <1>1, Invariance, PTL

(* A closed connection is served no more: nothing it received is counted   *)
(* or opens a session.                                                     *)
LEMMA ClosedStep ==
  ASSUME ServiceInv, [Next]_vars, NEW d \in Connections, closed[d]
  PROVE  /\ closed'[d]
         /\ expected'[d] = expected[d] /\ Len(inbox'[d]) >= Len(inbox[d])
         /\ session'[d] = "open" => session[d] = "open"
<1> USE DEF ServiceInv
<1> DEFINE Goal == /\ closed'[d]
                   /\ expected'[d] = expected[d]
                   /\ Len(inbox'[d]) >= Len(inbox[d])
                   /\ session'[d] = "open" => session[d] = "open"
<1>0. /\ TypeOK /\ Len(inbox[d]) \in Nat
      /\ pc[d] \notin {"idle", "recv", "acquire", "inflight"}
  BY DEF FinalInv, FinalOf, TypeOK
<1>1. ASSUME closed'[d] = closed[d] \/ closed'[d], expected'[d] = expected[d],
             inbox'[d] = inbox[d],
             session'[d] = session[d] \/ session'[d] # "open"
      PROVE  Goal
  <2>1. closed'[d]
    BY <1>1
  <2>2. Len(inbox'[d]) >= Len(inbox[d])
    BY <1>0, <1>1
  <2>3. session'[d] = "open" => session[d] = "open"
    BY <1>1
  <2> QED BY <1>1, <2>1, <2>2, <2>3
<1>2. ASSUME NEW c \in Connections, Peer(c) PROVE Goal
  <2>1. UNCHANGED conn
    BY <1>0, <1>2, PeerForm
  <2>2. inbox'[d] = inbox[d] \/ \E f \in Frames : inbox'[d] = Append(inbox[d], f)
    <3>1. CASE \E f \in Frames : PeerSend(c, f)
      BY <1>0, <3>1 DEF PeerSend, TypeOK
    <3>2. CASE Connect(c) \/ PeerReceive(c) \/ PeerLeave(c)
      BY <3>2 DEF Connect, PeerReceive, PeerLeave
    <3> QED BY <1>2, <3>1, <3>2 DEF Peer
  <2>3. Len(inbox'[d]) >= Len(inbox[d])
    BY <1>0, <2>2, ServiceAssumption DEF TypeOK
  <2> QED BY <2>1, <2>3 DEF conn
<1>3. ASSUME NEW c \in Connections, Replying(c) PROVE Goal
  <2>1. PICK f \in Frames, id \in Nat, kind \in ResponseKinds : Reply(c, f, id, kind)
    BY <1>0, <1>3, ReplyForm
  <2>2. d # c /\ inbox'[d] = inbox[d] /\ closed'[d] = closed[d]
    BY <1>0, <2>1 DEF Reply, TypeOK
  <2>3. expected'[d] = expected[d] /\ session'[d] = session[d]
    BY <1>0, <1>3, <2>2
    DEF Replying, RejectFrame, RejectId, RejectFirst, Hello, CloseRequest,
        RejectPayload, TypeOK
  <2> QED BY <1>1, <2>2, <2>3
<1>4. ASSUME NEW c \in Connections, Execute(c) \/ Acquire(c) PROVE Goal
  <2>1. /\ pc[c] \in {"recv", "acquire"} /\ UNCHANGED conn
        /\ inbox' = inbox \/ inbox' = [inbox EXCEPT ![c] = Tail(@)]
    BY <1>4 DEF Execute, Acquire, wire
  <2> QED BY <1>0, <1>1, <2>1 DEF conn, TypeOK
<1>5. ASSUME NEW c \in Connections, Resume(c) \/ ResumeCrashed(c) PROVE Goal
  <2>1. /\ pc[c] = "inflight" /\ UNCHANGED wire
        /\ \A e \in Connections \ {c} :
             /\ expected'[e] = expected[e] /\ closed'[e] = closed[e]
             /\ session'[e] = session[e]
    BY <1>0, <1>5 DEF Resume, ResumeCrashed, Retire, FreeSession, TypeOK
  <2> QED BY <1>0, <1>1, <2>1 DEF wire
<1>6. ASSUME NEW c \in Connections,
             Send(c) \/ Hangup(c) \/ ConnectionLost(c) \/ Cancel(c)
      PROVE Goal
  <2>1. /\ UNCHANGED <<inbox, expected>>
        /\ Retire(c) \/ UNCHANGED <<session, closed>>
    BY <1>6 DEF Send, Hangup, ConnectionLost, Cancel, wire
  <2>2. /\ closed'[d] = closed[d] \/ closed'[d]
        /\ session'[d] = session[d] \/ session'[d] # "open"
    BY <1>0, <2>1 DEF Retire, FreeSession, TypeOK
  <2> QED BY <1>1, <2>1, <2>2
<1>7. ASSUME NEW c \in Connections, Worker(c) PROVE Goal
  BY <1>1, <1>7 DEF Worker, WorkerEnter, WorkerRefuse, WorkerReturn, wire, conn
<1>8. CASE Stop \/ UNCHANGED vars
  BY <1>1, <1>8 DEF Stop, vars, wire, conn
<1> QED
  BY <1>2, <1>3, <1>4, <1>5, <1>6, <1>7, <1>8
  DEF Next, Handler, Replying, Finished

(* A closed connection serves, counts and opens nothing more (websocket.py *)
(* leaves its loop, core.py has freed or will free its session).           *)
THEOREM Finality == Spec => ClosedIsFinal
<1>1. ServiceInv /\ [Next]_vars =>
        [\A c \in Connections : closed[c] =>
           /\ closed'[c]
           /\ expected'[c] = expected[c] /\ Len(inbox'[c]) >= Len(inbox[c])
           /\ session'[c] = "open" => session[c] = "open"]_vars
  BY ClosedStep
<1> QED BY <1>1, Invariance, PTL DEF Spec, ClosedIsFinal
=============================================================================
