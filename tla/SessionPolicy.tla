--------------------------- MODULE SessionPolicy ---------------------------
(***************************************************************************)
(* What callers of the sessions of include/wam/model.h rely on: a          *)
(* predict answers its own observation and instruction, with the noise the *)
(* session draws next; reset starts the draws again; and no other session  *)
(* has any part in it.  A call may fail, after drawing or before.          *)
(***************************************************************************)
EXTENDS Naturals

CONSTANTS Threads, Sessions, Requests, Reset, Given, Nothing, Failed, MaxDraws

VARIABLES at,       \* where each thread's call is
          session, request, noise,
          draws,    \* noises each session has drawn since it was seeded
          answer    \* to each thread's last call

vars == <<at, session, request, noise, draws, answer>>

Init == /\ at = [t \in Threads |-> "idle"]
        /\ session = [t \in Threads |-> Nothing]
        /\ request = [t \in Threads |-> Nothing]
        /\ noise = [t \in Threads |-> Nothing]
        /\ draws = [s \in Sessions |-> 0]
        /\ answer = [t \in Threads |-> Nothing]

Call(t, s, r) ==
  /\ at[t] = "idle"
  /\ at' = [at EXCEPT ![t] = "called"]
  /\ session' = [session EXCEPT ![t] = s]
  /\ request' = [request EXCEPT ![t] = r]
  /\ answer' = [answer EXCEPT ![t] = Nothing]
  /\ UNCHANGED <<noise, draws>>

Draws(s) == draws[s] < MaxDraws /\ draws' = [draws EXCEPT ![s] = @ + 1]

(* Only one call of a session is past its noise.                           *)
Prepare(t) ==
  /\ at[t] = "called" /\ request[t] # Reset
  /\ \A u \in Threads : at[u] = "prepared" => session[u] # session[t]
  /\ at' = [at EXCEPT ![t] = "prepared"]
  /\ IF request[t].noise = Given
       THEN noise' = [noise EXCEPT ![t] = Given] /\ UNCHANGED draws
       ELSE noise' = [noise EXCEPT ![t] = draws[session[t]]]
              /\ Draws(session[t])
  /\ UNCHANGED <<session, request, answer>>

Answers(t, a) ==
  /\ at' = [at EXCEPT ![t] = "idle"]
  /\ answer' = [answer EXCEPT ![t] = a]
  /\ noise' = [noise EXCEPT ![t] = Nothing]
  /\ UNCHANGED <<session, request>>

Context(t) == [observation |-> request[t].observation,
               embedding |-> request[t].embedding]

Succeed(t) ==
  /\ at[t] = "prepared"
  /\ Answers(t, [video |-> Context(t), context |-> Context(t),
                 noise |-> noise[t]])
  /\ UNCHANGED draws

Fail(t) ==
  /\ at[t] # "idle" /\ request[t] # Reset
  /\ Answers(t, Failed)
  /\ UNCHANGED draws \/ (at[t] = "called" /\ Draws(session[t]))

Restart(t) ==
  /\ at[t] = "called" /\ request[t] = Reset
  /\ \A u \in Threads : at[u] = "prepared" => session[u] # session[t]
  /\ draws' = [draws EXCEPT ![session[t]] = 0]
  /\ Answers(t, Nothing)

Next == \E t \in Threads :
          \/ \E s \in Sessions, r \in Requests : Call(t, s, r)
          \/ Prepare(t) \/ Succeed(t) \/ Fail(t) \/ Restart(t)

Spec == Init /\ [][Next]_vars
=============================================================================
