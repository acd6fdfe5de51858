---------------------------- MODULE FastWamProofs ----------------------------
(***************************************************************************)
(* Safety of FastWAM sessions that share a device, for any threads and     *)
(* sessions.  ImplementsPolicy says nothing of a call under way; CallInv   *)
(* says what its locks protect, DeviceInv that from stage to stage what    *)
(* the device holds is the work of the call that owns it.                  *)
(***************************************************************************)
EXTENDS FastWam, TLAPS

Working(t) == pc[t] \in {"prefill", "graph", "upload", "compute", "decode"}

CallOf(t) ==
  /\ pc[t] # "idle" => session[t] \in Sessions /\ request[t] \in Requests
  /\ pc[t] \notin {"idle", "prepare"} => owner[session[t]] = t
  /\ Working(t) => request[t] # Reset
  /\ pc[t] = "seed" => request[t] = Reset
  /\ pc[t] = "execute" /\ request[t] # Reset => noise[t] \in Noises
  /\ Working(t) => noise[t] \in Noises

CallInv == \A t \in Threads : CallOf(t)

DeviceOf(t) ==
  /\ OnDevice(t) => running = t
  /\ pc[t] \in {"graph", "upload", "compute"} => video = Context(t)
  /\ pc[t] \in {"upload", "compute"} => graph = Tokens[request[t].embedding] + 1
  /\ pc[t] = "compute" => inputs = [context |-> Context(t),
                                    noise |-> noise[t]]
  /\ pc[t] = "decode" => result[t] = [video |-> Context(t),
                                      context |-> Context(t),
                                      noise |-> noise[t]]

DeviceInv == \A t \in Threads : DeviceOf(t)

FastWamInv == TypeOK /\ CallInv /\ DeviceInv

-----------------------------------------------------------------------------
LEMMA PredictRequest ==
  ASSUME NEW t \in Threads, request[t] \in Requests, request[t] # Reset
  PROVE  /\ request[t] \in Predicts
         /\ request[t].observation \in Observations
         /\ request[t].embedding \in Embeddings
         /\ request[t].noise \in {Given, Drawn}
         /\ Tokens[request[t].embedding] + 1 \in Nat
  BY FastWamAssumption DEF Requests, Predicts

LEMMA InvInit == ASSUME Init PROVE FastWamInv
  BY FastWamAssumption
     DEF Init, FastWamInv, TypeOK, CallInv, CallOf, DeviceInv, DeviceOf,
         Working, OnDevice, Noises

(* Types, one action at a time.                                            *)
LEMMA TypeStep == ASSUME FastWamInv, [Next]_vars PROVE TypeOK'
<1> USE FastWamAssumption
<1> USE DEF FastWamInv, TypeOK, Noises
<1>1. CASE UNCHANGED vars
  BY <1>1 DEF vars, call, device
<1>2. ASSUME NEW t \in Threads, NEW s \in Sessions, NEW r \in Requests,
             Call(t, s, r)
      PROVE  TypeOK'
  BY <1>2 DEF Call, device
<1>3. ASSUME NEW t \in Threads, Step(t) PROVE TypeOK'
  <2> USE DEF CallInv, CallOf, Working, Ends, Throws, Goes, Proceeds, call, device
  <2>1. CASE PrepareInputs(t)
    BY <2>1 DEF PrepareInputs, DrawNoise
  <2>2. CASE RefuseInputs(t)
    BY <2>2 DEF RefuseInputs
  <2>3. CASE RefuseEmbedding(t)
    BY <2>3 DEF RefuseEmbedding
  <2>4. CASE PrepareReset(t)
    BY <2>4 DEF PrepareReset
  <2>5. CASE Execute(t)
    BY <2>5 DEF Execute
  <2>6. CASE Prefill(t)
    BY <2>6, PredictRequest DEF Prefill, Context, Contents
  <2>7. CASE EnsureGraph(t)
    BY <2>7, PredictRequest DEF EnsureGraph
  <2>8. CASE Upload(t)
    BY <2>8, PredictRequest DEF Upload, Uploads, Context, Contents
  <2>9. CASE Compute(t)
    <3>1. pc[t] = "compute" => /\ video = Context(t)
                               /\ inputs = [context |-> Context(t),
                                            noise |-> noise[t]]
      BY DEF DeviceInv, DeviceOf
    <3> QED BY <2>9, <3>1, PredictRequest DEF Compute, Context, Actions, Contents
  <2>10. CASE Decode(t)
    BY <2>10 DEF Decode
  <2>11. CASE Seed(t)
    BY <2>11 DEF Seed
  <2> QED BY <1>3, <2>1, <2>2, <2>3, <2>4, <2>5, <2>6, <2>7, <2>8, <2>9, <2>10,
             <2>11 DEF Step
<1> QED BY <1>1, <1>2, <1>3 DEF Next

-----------------------------------------------------------------------------
(* A step of t leaves the other threads' calls and sessions alone.         *)
LEMMA OthersCalls ==
  ASSUME FastWamInv, NEW t \in Threads, Step(t) \/ (\E s \in Sessions, r \in Requests : Call(t, s, r)),
         NEW u \in Threads, u # t
  PROVE  CallOf(u)'
<1> USE FastWamAssumption
<1> USE DEF FastWamInv, TypeOK
<1>1. /\ pc'[u] = pc[u] /\ session'[u] = session[u] /\ request'[u] = request[u]
      /\ noise'[u] = noise[u]
  BY DEF Step, Call, PrepareInputs, RefuseInputs, RefuseEmbedding, PrepareReset,
         Execute, Prefill, EnsureGraph, Upload, Compute, Decode, Seed, DrawNoise,
         Ends, Throws, Goes, Proceeds, call
<1>2. owner[session[u]] = u /\ pc[u] # "idle" => owner'[session[u]] = u
  <2>1. SUFFICES ASSUME owner[session[u]] = u, pc[u] # "idle"
                 PROVE  owner'[session[u]] = u
    OBVIOUS
  <2>2. session[u] \in Sessions
    BY <2>1 DEF CallInv, CallOf
  <2>3. ASSUME pc[t] = "prepare", SessionFree(session[t])
        PROVE  session[t] # session[u]
    BY <2>1, <2>3 DEF SessionFree
  <2>4. ASSUME pc[t] \notin {"idle", "prepare"}
        PROVE  session[t] # session[u]
    BY <2>1, <2>4 DEF CallInv, CallOf
  <2> QED
    BY <2>1, <2>2, <2>3, <2>4
       DEF Step, Call, PrepareInputs, RefuseInputs, RefuseEmbedding, PrepareReset,
           Execute, Prefill, EnsureGraph, Upload, Compute, Decode, Seed, DrawNoise,
           Ends, Throws, Goes, Proceeds, call
<1> QED BY <1>1, <1>2 DEF CallInv, CallOf, Working

LEMMA CallStep == ASSUME FastWamInv, [Next]_vars PROVE CallInv'
<1> USE FastWamAssumption
<1> USE DEF FastWamInv, TypeOK
<1>1. CASE UNCHANGED vars
  BY <1>1 DEF vars, call, device, CallInv, CallOf, Working
<1>2. ASSUME NEW t \in Threads, NEW s \in Sessions, NEW r \in Requests,
             Call(t, s, r)
      PROVE  CallInv'
  <2>1. CallOf(t)'
    BY <1>2 DEF Call, CallOf, Working
  <2> QED BY <1>2, <2>1, OthersCalls DEF CallInv
<1>3. ASSUME NEW t \in Threads, Step(t) PROVE CallInv'
  <2>1. CallOf(t)
    BY DEF CallInv
  <2>2. CallOf(t)'
    <3> USE <2>1 DEF CallOf, Working, Ends, Throws, Goes, Proceeds, call
    <3>1. CASE PrepareInputs(t)
      BY <3>1 DEF PrepareInputs, DrawNoise, Noises
    <3>2. CASE RefuseInputs(t) \/ RefuseEmbedding(t) \/ Decode(t) \/ Seed(t)
      BY <3>2 DEF RefuseInputs, RefuseEmbedding, Decode, Seed
    <3>3. CASE PrepareReset(t) \/ Execute(t)
      BY <3>3 DEF PrepareReset, Execute
    <3>4. CASE Prefill(t) \/ EnsureGraph(t) \/ Upload(t) \/ Compute(t)
      BY <3>4 DEF Prefill, EnsureGraph, Upload, Compute
    <3> QED BY <1>3, <3>1, <3>2, <3>3, <3>4 DEF Step
  <2> QED BY <1>3, <2>2, OthersCalls DEF CallInv
<1> QED BY <1>1, <1>2, <1>3 DEF Next

-----------------------------------------------------------------------------
(* Nor does it touch the device while another thread is on it.             *)
LEMMA OthersDevice ==
  ASSUME FastWamInv, NEW t \in Threads, Step(t) \/ (\E s \in Sessions, r \in Requests : Call(t, s, r)),
         NEW u \in Threads, u # t
  PROVE  DeviceOf(u)'
<1> USE FastWamAssumption
<1> USE DEF FastWamInv, TypeOK
<1>1. /\ pc'[u] = pc[u] /\ session'[u] = session[u] /\ request'[u] = request[u]
      /\ noise'[u] = noise[u] /\ result'[u] = result[u]
  BY DEF Step, Call, PrepareInputs, RefuseInputs, RefuseEmbedding, PrepareReset,
         Execute, Prefill, EnsureGraph, Upload, Compute, Decode, Seed, DrawNoise,
         Ends, Throws, Goes, Proceeds, call
<1>2. ASSUME OnDevice(u) PROVE running' = running /\ UNCHANGED device
  <2>1. running = u /\ ~OnDevice(t)
    BY <1>2 DEF DeviceInv, DeviceOf
  <2> QED
    BY <2>1
       DEF Step, Call, PrepareInputs, RefuseInputs, RefuseEmbedding, PrepareReset,
           Execute, Prefill, EnsureGraph, Upload, Compute, Decode, Seed, OnDevice,
           DeviceFree, Ends, Throws, Goes, Proceeds, device
<1> QED BY <1>1, <1>2 DEF DeviceInv, DeviceOf, OnDevice, Context, device

LEMMA DeviceStep == ASSUME FastWamInv, [Next]_vars PROVE DeviceInv'
<1> USE FastWamAssumption
<1> USE DEF FastWamInv, TypeOK
<1>1. CASE UNCHANGED vars
  BY <1>1 DEF vars, call, device, DeviceInv, DeviceOf, OnDevice, Context
<1>2. ASSUME NEW t \in Threads, NEW s \in Sessions, NEW r \in Requests,
             Call(t, s, r)
      PROVE  DeviceInv'
  <2>1. DeviceOf(t)'
    BY <1>2 DEF Call, DeviceOf, OnDevice
  <2> QED BY <1>2, <2>1, OthersDevice DEF DeviceInv
<1>3. ASSUME NEW t \in Threads, Step(t) PROVE DeviceInv'
  <2>1. DeviceOf(t)
    BY DEF DeviceInv
  <2>2. DeviceOf(t)'
    <3> USE <2>1 DEF DeviceOf, OnDevice, Context, Ends, Throws, Goes, Proceeds, call
    <3>1. CASE PrepareInputs(t) \/ RefuseInputs(t) \/ RefuseEmbedding(t)
                 \/ PrepareReset(t) \/ Decode(t) \/ Seed(t)
      BY <3>1 DEF PrepareInputs, RefuseInputs, RefuseEmbedding, PrepareReset,
                  Decode, Seed
    <3>2. CASE Execute(t)
      BY <3>2 DEF Execute
    <3>3. CASE Prefill(t)
      BY <3>3 DEF Prefill
    <3>4. CASE EnsureGraph(t)
      BY <3>4 DEF EnsureGraph, Compatible
    <3>5. CASE Upload(t)
      BY <3>5 DEF Upload, Uploads
    <3>6. CASE Compute(t)
      BY <3>6 DEF Compute
    <3> QED BY <1>3, <3>1, <3>2, <3>3, <3>4, <3>5, <3>6 DEF Step
  <2> QED BY <1>3, <2>2, OthersDevice DEF DeviceInv
<1> QED BY <1>1, <1>2, <1>3 DEF Next

-----------------------------------------------------------------------------
(* Each step is one of SessionPolicy, or leaves what the policy sees.      *)

(* The stages of SessionPolicy, as At reads them off pc.                   *)
LEMMA AtValues ==
  \A stage, r :
    /\ AtOf("idle", r) = "idle"
    /\ AtOf("prepare", r) = "called"
    /\ stage # "idle" /\ r = Reset => AtOf(stage, r) = "called"
    /\ stage \notin {"idle", "prepare"} /\ r # Reset => AtOf(stage, r) = "prepared"
    /\ AtOf(stage, r) = "prepared" => stage \notin {"idle", "prepare"} /\ r # Reset
  BY DEF AtOf

(* What the policy sees of a thread that goes to another stage.            *)
LEMMA AtGoes ==
  ASSUME TypeOK, NEW t \in Threads, NEW stage, Goes(t, stage),
         request' = request
  PROVE  At' = [At EXCEPT ![t] = AtOf(stage, request[t])]
  BY DEF At, Goes, TypeOK

LEMMA AtStays ==
  ASSUME TypeOK, NEW t \in Threads, NEW stage, Goes(t, stage),
         request' = request, AtOf(stage, request[t]) = At[t]
  PROVE  At' = At
<1>1. \A u \in Threads : AtOf(pc'[u], request'[u]) = AtOf(pc[u], request[u])
  BY DEF At, Goes, TypeOK
<1> QED BY <1>1 DEF At

LEMMA AnswerGoes ==
  ASSUME TypeOK, NEW t \in Threads, NEW stage, Goes(t, stage),
         pc[t] # "idle", stage # "idle",
         \A u \in Threads : u # t => result'[u] = result[u]
  PROVE  Answer' = Answer
  BY DEF Answer, Goes, TypeOK

(* No other call of t's session is past its noise when t takes the mutex,  *)
(* or when t has it and is resetting.                                      *)
LEMMA AloneInSession ==
  ASSUME FastWamInv, NEW t \in Threads,
         \/ pc[t] = "prepare" /\ SessionFree(session[t])
         \/ pc[t] = "seed"
  PROVE  \A u \in Threads : At[u] = "prepared" => session[u] # session[t]
<1>1. SUFFICES ASSUME NEW u \in Threads, At[u] = "prepared"
               PROVE  session[u] # session[t]
  OBVIOUS
<1>2. pc[u] \notin {"idle", "prepare"} /\ request[u] # Reset
  BY <1>1, AtValues DEF At
<1>3. owner[session[u]] = u
  BY <1>2 DEF FastWamInv, CallInv, CallOf
<1>4. CASE pc[t] = "prepare" /\ SessionFree(session[t])
  BY <1>3, <1>4, FastWamAssumption DEF SessionFree
<1>5. CASE pc[t] = "seed"
  BY <1>2, <1>3, <1>5 DEF FastWamInv, CallInv, CallOf
<1> QED BY <1>4, <1>5

(* An ending call, with the outcome the policy sees.                       *)
LEMMA EndsAnswers ==
  ASSUME TypeOK, NEW t \in Threads, NEW outcome, Ends(t, outcome)
  PROVE  /\ At' = [At EXCEPT ![t] = "idle"]
         /\ Answer' = [Answer EXCEPT ![t] = outcome]
         /\ noise' = [noise EXCEPT ![t] = Nothing]
         /\ UNCHANGED <<session, request>>
<1>1. Goes(t, "idle") /\ UNCHANGED <<session, request>>
      /\ noise' = [noise EXCEPT ![t] = Nothing]
      /\ result' = [result EXCEPT ![t] = outcome]
  BY DEF Ends
<1>2. At' = [At EXCEPT ![t] = "idle"]
  BY <1>1, AtGoes, AtValues
<1>3. Answer' = [Answer EXCEPT ![t] = outcome]
  BY <1>1 DEF Answer, Goes, TypeOK
<1> QED BY <1>1, <1>2, <1>3

LEMMA AloneStep == ASSUME FastWamInv, [Next]_vars PROVE [Alone!Next]_(Alone!vars)
<1> DEFINE AloneVars == <<At, session, request, noise, draws, Answer>>
<1> USE DEF FastWamInv
<1>0. Alone!vars = AloneVars /\ (Alone!vars)' = AloneVars'
  BY DEF Alone!vars
<1>1. CASE UNCHANGED vars
  BY <1>1 DEF vars, call, Alone!vars, At, Answer
<1>2. ASSUME NEW t \in Threads, NEW s \in Sessions, NEW r \in Requests,
             Call(t, s, r)
      PROVE  Alone!Call(t, s, r)
  <2>1. At[t] = "idle"
    BY <1>2, AtValues DEF Call, At
  <2>2. At' = [At EXCEPT ![t] = "called"]
    <3>1. pc' = [pc EXCEPT ![t] = "prepare"] /\ request' = [request EXCEPT ![t] = r]
      BY <1>2 DEF Call
    <3>2. At'[t] = "called"
      BY <3>1 DEF At, AtOf, TypeOK
    <3>3. \A u \in Threads \ {t} : At'[u] = At[u]
      BY <3>1 DEF At, TypeOK
    <3> QED BY <3>2, <3>3 DEF At
  <2>3. Answer' = [Answer EXCEPT ![t] = Nothing]
    BY <1>2 DEF Call, Answer, TypeOK
  <2> QED BY <1>2, <2>1, <2>2, <2>3 DEF Call, Alone!Call
<1>3. ASSUME NEW t \in Threads, Step(t)
      PROVE  \/ Alone!Prepare(t) \/ Alone!Succeed(t) \/ Alone!Fail(t)
             \/ Alone!Restart(t) \/ UNCHANGED AloneVars
  <2>0. CallOf(t) /\ DeviceOf(t)
    BY DEF CallInv, DeviceInv
  <2>1. CASE PrepareInputs(t)
    <3>1. At[t] = "called" /\ request[t] # Reset
      BY <2>1, AtValues DEF PrepareInputs, At
    <3>2. At' = [At EXCEPT ![t] = "prepared"]
      BY <2>1, AtGoes, AtValues DEF PrepareInputs
    <3>3. Answer' = Answer
      BY <2>1, AnswerGoes DEF PrepareInputs
    <3>4. \A u \in Threads : At[u] = "prepared" => session[u] # session[t]
      BY <2>1, AloneInSession DEF PrepareInputs
    <3> QED BY <2>1, <3>1, <3>2, <3>3, <3>4
            DEF PrepareInputs, DrawNoise, Alone!Prepare, Alone!Draws
  <2>2. CASE RefuseInputs(t) \/ RefuseEmbedding(t)
    <3>1. At[t] = "called" /\ request[t] # Reset
      BY <2>2, AtValues DEF RefuseInputs, RefuseEmbedding, At
    <3>2. Ends(t, Failed)
      BY <2>2 DEF RefuseInputs, RefuseEmbedding
    <3> QED BY <2>2, <3>1, <3>2, EndsAnswers
            DEF RefuseInputs, RefuseEmbedding, Alone!Fail, Alone!Answers, Alone!Draws
  <2>3. CASE PrepareReset(t)
    <3>1. At' = [At EXCEPT ![t] = "called"] /\ At[t] = "called"
      BY <2>3, AtGoes, AtValues DEF PrepareReset, call, At
    <3>2. Answer' = Answer
      BY <2>3, AnswerGoes DEF PrepareReset, call
    <3> QED BY <2>3, <3>1, <3>2 DEF PrepareReset, call, At
  <2>4. CASE Execute(t)
    <3>1. PICK stage \in {"seed", "prefill"} :
            Goes(t, stage) /\ (stage = "seed" <=> request[t] = Reset)
      BY <2>4 DEF Execute
    <3>2. AtOf(stage, request[t]) = At[t]
      BY <2>4, <3>1 DEF Execute, At, AtOf
    <3>3. At' = At
      BY <2>4, <3>1, <3>2, AtStays DEF Execute, call
    <3>4. Answer' = Answer
      BY <2>4, <3>1, AnswerGoes DEF Execute, call
    <3> QED BY <2>4, <3>3, <3>4 DEF Execute, call
  <2>5. ASSUME pc[t] \in {"prefill", "graph", "upload", "compute"},
               Throws(t), UNCHANGED draws
        PROVE  Alone!Fail(t)
    <3>1. At[t] # "idle" /\ request[t] # Reset
      BY <2>0, <2>5, AtValues DEF CallOf, Working, At
    <3> QED BY <2>5, <3>1, EndsAnswers
            DEF Throws, Alone!Fail, Alone!Answers
  <2>6. ASSUME NEW stage \in {"graph", "upload", "compute", "decode"},
               pc[t] \in {"prefill", "graph", "upload", "compute"},
               Goes(t, stage), UNCHANGED <<session, request, noise, draws>>,
               \A u \in Threads : u # t => result'[u] = result[u]
        PROVE  UNCHANGED AloneVars
    <3>1. At[t] = "prepared" /\ AtOf(stage, request[t]) = "prepared"
      BY <2>0, <2>6, AtValues DEF CallOf, Working, At
    <3>2. At' = At
      BY <2>6, <3>1, AtStays
    <3>3. Answer' = Answer
      BY <2>6, AnswerGoes
    <3> QED BY <2>6, <3>2, <3>3
  <2>7. CASE Prefill(t) \/ EnsureGraph(t) \/ Upload(t) \/ Compute(t)
    BY <2>5, <2>6, <2>7
       DEF Prefill, EnsureGraph, Upload, Compute, Proceeds, call, TypeOK
  <2>8. CASE Decode(t)
    <3>1. At[t] = "prepared" /\ request[t] # Reset
      BY <2>0, <2>8, AtValues DEF CallOf, Working, Decode, At
    <3>2. result[t] = [video |-> Alone!Context(t), context |-> Alone!Context(t),
                       noise |-> noise[t]]
      BY <2>0, <2>8 DEF DeviceOf, Decode, Context, Alone!Context
    <3>3. PICK outcome \in {result[t], Failed} : Ends(t, outcome)
      BY <2>8 DEF Decode
    <3>4. Alone!Answers(t, outcome)
      BY <3>3, EndsAnswers DEF Alone!Answers
    <3>5. UNCHANGED draws
      BY <2>8 DEF Decode
    <3> QED BY <3>1, <3>2, <3>3, <3>4, <3>5 DEF Alone!Succeed, Alone!Fail
  <2>9. CASE Seed(t)
    <3>1. At[t] = "called" /\ request[t] = Reset
      BY <2>0, <2>9, AtValues DEF CallOf, Seed, At
    <3>2. \A u \in Threads : At[u] = "prepared" => session[u] # session[t]
      BY <2>9, AloneInSession DEF Seed
    <3> QED BY <2>9, <3>1, <3>2, EndsAnswers
            DEF Seed, Alone!Restart, Alone!Answers
  <2> QED BY <1>3, <2>1, <2>2, <2>3, <2>4, <2>7, <2>8, <2>9 DEF Step
<1> QED BY <1>0, <1>1, <1>2, <1>3 DEF Next, Alone!Next

-----------------------------------------------------------------------------
(* The locks of model.cpp and pipeline.cpp protect what they should: the   *)
(* inductive invariant.                                                    *)
THEOREM Invariance == Spec => []FastWamInv
<1>1. Init => FastWamInv
  BY InvInit
<1>2. FastWamInv /\ [Next]_vars => FastWamInv'
  BY TypeStep, CallStep, DeviceStep DEF FastWamInv
<1> QED BY <1>1, <1>2, PTL DEF Spec

(* Every variable of the sessions and of the device keeps its type.        *)
THEOREM TypeCorrect == Spec => []TypeOK
<1>1. FastWamInv => TypeOK
  BY DEF FastWamInv
<1> QED BY <1>1, Invariance, PTL

(* The device has one user: the two locks of a call are taken in an order  *)
(* that never lets a second session on it.                                 *)
THEOREM DeviceProtected == Spec => []OneOnDevice
<1>1. FastWamInv => OneOnDevice
  BY DEF FastWamInv, OneOnDevice, OnDevice, DeviceInv, DeviceOf, CallInv, CallOf
<1> QED BY <1>1, Invariance, PTL

(* The shared graph and cache fit the call of the session on the device    *)
(* from the moment it chose them until it has its action.                  *)
THEOREM GraphFitsCall == Spec => []GraphFits
<1>1. FastWamInv => GraphFits
  <2>1. SUFFICES ASSUME FastWamInv PROVE GraphFits
    OBVIOUS
  <2>2. ASSUME NEW t \in Threads, pc[t] \in {"upload", "compute"}
        PROVE  /\ graph = Tokens[request[t].embedding] + 1
               /\ video \notin {Nothing, Unwritten}
    <3>1. /\ request[t] \in Requests /\ request[t] # Reset
          /\ video = Context(t)
          /\ graph = Tokens[request[t].embedding] + 1
      BY <2>1, <2>2 DEF FastWamInv, CallInv, CallOf, Working, DeviceInv, DeviceOf
    <3>2. video \in Contents
      BY <3>1, PredictRequest DEF Context, Contents
    <3> QED BY <3>1, <3>2, FastWamAssumption
  <2> QED BY <2>2 DEF GraphFits
<1> QED BY <1>1, Invariance, PTL

(* Sessions that share a cache and a graph implement SessionPolicy, where  *)
(* they share nothing.                                                     *)
THEOREM SessionsAreAlone == Spec => ImplementsPolicy
<1>1. Init => Alone!Init
  <2>1. Init => At = [t \in Threads |-> "idle"]
    BY DEF Init, At, AtOf
  <2>2. Init => Answer = [t \in Threads |-> Nothing]
    BY DEF Init, Answer
  <2> QED BY <2>1, <2>2 DEF Init, Alone!Init
<1>2. FastWamInv /\ [Next]_vars => [Alone!Next]_(Alone!vars)
  BY AloneStep
<1> QED BY <1>1, <1>2, Invariance, PTL DEF Spec, ImplementsPolicy, Alone!Spec
=============================================================================
