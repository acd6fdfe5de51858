------------------------------- MODULE FastWam -------------------------------
(***************************************************************************)
(* Sessions of one FastWAM model, called from several threads              *)
(* (src/models/fastwam/model.cpp, pipeline.cpp).  Every session has a      *)
(* mutex and a random generator; the model has execution_mutex, one cache  *)
(* of keys and values and one action graph, which all sessions write.      *)
(*                                                                         *)
(* A tensor is named by what it was computed from.  Prefilling, uploading  *)
(* and denoising are steps of their own: only the mutex keeps the other    *)
(* threads from the device in between.                                     *)
(***************************************************************************)
EXTENDS Naturals

CONSTANTS Threads, Sessions,
          Observations,
          Embeddings,   \* of an instruction
          Tokens,       \* how many tokens each of them has
          Reset,        \* the request of reset()
          Given,        \* the noise of a request that brings its own
          Drawn,        \* that of one that leaves it to the session
          Nothing,      \* no tensor, no graph, no thread
          Unwritten,    \* tensors that have memory and no contents
          Failed,       \* the outcome of a call that throws
          MaxDraws      \* bound: noises drawn between two resets

Predicts == [observation : Observations, embedding : Embeddings,
             noise : {Given, Drawn}]
Requests == Predicts \cup {Reset}

(* What a context is computed from, the state being its last token, and    *)
(* so a prefilled video_cache.                                             *)
Contents == [observation : Observations, embedding : Embeddings]

ASSUME FastWamAssumption ==
  /\ Tokens \in [Embeddings -> Nat]
  /\ MaxDraws \in Nat
  /\ Given \notin Nat /\ Given # Drawn
  /\ Nothing \notin Threads \cup Nat \cup Contents
  /\ Unwritten \notin Contents
  /\ Reset \notin Predicts

VARIABLES
  pc,       \* where each thread is
  session,  \* of each thread's call
  request,  \* its argument
  noise,    \* prepared.observation.action_noise: given, or the n-th drawn
  result,   \* of each thread's last call
  owner,    \* of each session's mutex_
  draws,    \* noises drawn from each session's rng_ since it was seeded
  running,  \* owner of execution_mutex
  video,    \* video_cache: Nothing before it is allocated, or its contents
  graph,    \* action_graph: the tokens it was built for, or Nothing
  inputs    \* what the graph's input tensors hold

call == <<session, request, noise, result>>
device == <<video, graph, inputs>>
vars == <<pc, call, owner, draws, running, device>>

Noises   == {Given} \cup 0..MaxDraws
Actions  == [video : Contents, context : Contents, noise : Noises]

TypeOK ==
  /\ pc \in [Threads -> {"idle", "prepare", "execute", "prefill", "graph",
                         "upload", "compute", "decode", "seed"}]
  /\ session \in [Threads -> Sessions \cup {Nothing}]
  /\ request \in [Threads -> Requests \cup {Nothing}]
  /\ noise \in [Threads -> Noises \cup {Nothing}]
  /\ result \in [Threads -> Actions \cup {Nothing, Failed}]
  /\ owner \in [Sessions -> Threads \cup {Nothing}]
  /\ draws \in [Sessions -> 0..MaxDraws]
  /\ running \in Threads \cup {Nothing}
  /\ video \in Contents \cup {Nothing, Unwritten}
  /\ graph \in Nat \cup {Nothing}
  /\ inputs \in [context : Contents, noise : Noises]
                  \cup {Nothing, Unwritten}

Init ==
  /\ pc = [t \in Threads |-> "idle"]
  /\ session = [t \in Threads |-> Nothing]
  /\ request = [t \in Threads |-> Nothing]
  /\ noise = [t \in Threads |-> Nothing]
  /\ result = [t \in Threads |-> Nothing]
  /\ owner = [s \in Sessions |-> Nothing]
  /\ draws = [s \in Sessions |-> 0]
  /\ running = Nothing
  /\ video = Nothing /\ graph = Nothing /\ inputs = Nothing

-----------------------------------------------------------------------------
(* Calls begin and end.                                                    *)

Call(t, s, r) ==
  /\ pc[t] = "idle"
  /\ pc' = [pc EXCEPT ![t] = "prepare"]
  /\ session' = [session EXCEPT ![t] = s]
  /\ request' = [request EXCEPT ![t] = r]
  /\ result' = [result EXCEPT ![t] = Nothing]
  /\ UNCHANGED <<noise, owner, draws, running, device>>

Goes(t, stage) == pc' = [pc EXCEPT ![t] = stage]

(* On to the next stage, with the mutexes and all of the call as they are. *)
Proceeds(t, stage) == Goes(t, stage) /\ UNCHANGED <<call, owner, running>>

(* The call ends with this outcome; its session's lock_guard is gone.      *)
Ends(t, outcome) ==
  /\ Goes(t, "idle")
  /\ result' = [result EXCEPT ![t] = outcome]
  /\ noise' = [noise EXCEPT ![t] = Nothing]
  /\ owner' = [owner EXCEPT ![session[t]] = Nothing]
  /\ UNCHANGED <<session, request>>

-----------------------------------------------------------------------------
(* Under the session's mutex.                                              *)

UnguardedSession(s) == TRUE              \* mutant: mutex_ is not taken

SessionFree(s) == owner[s] = Nothing

(* prepare_inputs: the images and the state are checked first, then the    *)
(* noise is drawn, then the embedding is checked; the checks that fail     *)
(* after the noise leave the generator advanced.                           *)
DrawNoise(t) ==
  IF request[t].noise = Given
    THEN noise' = [noise EXCEPT ![t] = Given] /\ UNCHANGED draws
    ELSE /\ draws[session[t]] < MaxDraws
         /\ noise' = [noise EXCEPT ![t] = draws[session[t]]]
         /\ draws' = [draws EXCEPT ![session[t]] = @ + 1]

PrepareInputs(t) ==
  /\ pc[t] = "prepare" /\ request[t] # Reset
  /\ SessionFree(session[t])
  /\ owner' = [owner EXCEPT ![session[t]] = t]
  /\ DrawNoise(t)
  /\ Goes(t, "execute")
  /\ UNCHANGED <<session, request, result, running, device>>

RefuseInputs(t) ==
  /\ pc[t] = "prepare" /\ request[t] # Reset
  /\ SessionFree(session[t])
  /\ Ends(t, Failed)
  /\ UNCHANGED <<draws, running, device>>

RefuseEmbedding(t) ==
  /\ pc[t] = "prepare" /\ request[t] # Reset
  /\ SessionFree(session[t])
  /\ request[t].noise = Drawn /\ draws[session[t]] < MaxDraws
  /\ draws' = [draws EXCEPT ![session[t]] = @ + 1]
  /\ Ends(t, Failed)
  /\ UNCHANGED <<running, device>>

PrepareReset(t) ==
  /\ pc[t] = "prepare" /\ request[t] = Reset
  /\ SessionFree(session[t])
  /\ owner' = [owner EXCEPT ![session[t]] = t]
  /\ Goes(t, "execute")
  /\ UNCHANGED <<call, draws, running, device>>

-----------------------------------------------------------------------------
(* run_pipeline, under execution_mutex.                                    *)

UnguardedDevice == TRUE                  \* mutant: execution_mutex dropped

DeviceFree == running = Nothing

(* reset_session counts predictions from zero and needs nothing else.      *)
Execute(t) ==
  /\ pc[t] = "execute" /\ DeviceFree
  /\ IF request[t] = Reset
       THEN Goes(t, "seed") /\ UNCHANGED running
       ELSE Goes(t, "prefill") /\ running' = t
  /\ UNCHANGED <<call, owner, draws, device>>

(* append_proprio: the embedding, and the state as one more token.         *)
Context(t) == [observation |-> request[t].observation,
               embedding |-> request[t].embedding]

(* The exception passes both lock_guards.                                  *)
Throws(t) == Ends(t, Failed) /\ running' = Nothing

(* The VAE's graph is the call's own.  video_cache.initialize allocates    *)
(* all of the cache or nothing; the keys and values are copied into it     *)
(* once the graph has run.                                                 *)
Prefill(t) ==
  /\ pc[t] = "prefill"
  /\ \/ /\ video' = Context(t)
        /\ Proceeds(t, "graph")
     \/ /\ video' = IF video = Nothing THEN Unwritten ELSE video
        /\ Throws(t)
     \/ UNCHANGED video /\ Throws(t)
  /\ UNCHANGED <<draws, graph, inputs>>

AnyGraph(t) == graph # Nothing           \* mutant: a graph is a graph

(* Built for as many tokens: context_tokens counts the state's as well.    *)
Compatible(t) == graph = Tokens[request[t].embedding] + 1

(* A graph that fits is kept; any other is given up first.  The new one is *)
(* installed once it is complete.                                          *)
EnsureGraph(t) ==
  /\ pc[t] = "graph"
  /\ \/ /\ Compatible(t)
        /\ UNCHANGED <<graph, inputs>>
        /\ Proceeds(t, "upload")
     \/ /\ ~Compatible(t)
        /\ graph' = Tokens[request[t].embedding] + 1 /\ inputs' = Unwritten
        /\ Proceeds(t, "upload")
     \/ /\ ~Compatible(t)
        /\ graph' = Nothing /\ inputs' = Nothing
        /\ Throws(t)
  /\ UNCHANGED <<draws, video>>

(* mutant: the noise of the request, and not what was prepared *)
UploadsRequest(t) ==
  inputs' = [context |-> Context(t), noise |-> request[t].noise]

Uploads(t) ==
  inputs' = [context |-> Context(t), noise |-> noise[t]]

Upload(t) ==
  /\ pc[t] = "upload"
  /\ Uploads(t)
  /\ Proceeds(t, "compute")
  /\ UNCHANGED <<draws, video, graph>>

(* Every step of the schedule in one graph, over the shared cache.         *)
Compute(t) ==
  /\ pc[t] = "compute"
  /\ \/ /\ result' = [result EXCEPT ![t] =
                        [video |-> video, context |-> inputs.context,
                         noise |-> inputs.noise]]
        /\ Goes(t, "decode")
        /\ running' = Nothing
        /\ UNCHANGED <<session, request, noise, owner>>
     \/ Throws(t)
  /\ UNCHANGED <<draws, device>>

-----------------------------------------------------------------------------
(* Back under the session's mutex alone.                                   *)

(* make_prediction may still refuse an action that is not finite.          *)
Decode(t) ==
  /\ pc[t] = "decode"
  /\ \E outcome \in {result[t], Failed} : Ends(t, outcome)
  /\ UNCHANGED <<draws, running, device>>

Seed(t) ==
  /\ pc[t] = "seed"
  /\ draws' = [draws EXCEPT ![session[t]] = 0]
  /\ Ends(t, Nothing)
  /\ UNCHANGED <<running, device>>

-----------------------------------------------------------------------------
Step(t) == \/ PrepareInputs(t) \/ RefuseInputs(t) \/ RefuseEmbedding(t)
           \/ PrepareReset(t) \/ Execute(t) \/ Prefill(t) \/ EnsureGraph(t)
           \/ Upload(t) \/ Compute(t) \/ Decode(t) \/ Seed(t)

Next == \E t \in Threads :
          \/ \E s \in Sessions, r \in Requests : Call(t, s, r)
          \/ Step(t)

Spec == Init /\ [][Next]_vars

-----------------------------------------------------------------------------
(* Properties                                                              *)

(* Whatever throws, waits or resets in between, the device is used only by *)
(* the thread that owns execution_mutex and its session's mutex_.          *)
OnDevice(t) == pc[t] \in {"prefill", "graph", "upload", "compute"}

OneOnDevice ==
  \A t \in Threads : OnDevice(t) => running = t /\ owner[session[t]] = t

(* Until a call has its action, no other call replaces the graph by one of *)
(* another length, or leaves a cache that is allocated but not written     *)
(* (networks/action_dit.cpp, run_unrolled_action_denoise).                 *)
GraphFits ==
  \A t \in Threads : pc[t] \in {"upload", "compute"} =>
    /\ graph = Tokens[request[t].embedding] + 1
    /\ video \notin {Nothing, Unwritten}

(* Sessions implement SessionPolicy: a call is answered as if its session  *)
(* had the model to itself, with the noise its order in the session gives. *)
AtOf(stage, r) == IF stage = "idle" THEN "idle"
                  ELSE IF stage = "prepare" \/ r = Reset THEN "called"
                  ELSE "prepared"

At == [t \in Threads |-> AtOf(pc[t], request[t])]

Answer == [t \in Threads |-> IF pc[t] = "idle" THEN result[t] ELSE Nothing]

Alone == INSTANCE SessionPolicy WITH at <- At, answer <- Answer

ImplementsPolicy == Alone!Spec
=============================================================================
