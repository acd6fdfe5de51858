-------------------------- MODULE GwpSessionProofs --------------------------
(***************************************************************************)
(* Proofs about GwpSession: for every configuration, number of steps and   *)
(* set of inputs, and whatever memory is refused, an answer depends on its *)
(* own request only.  FreshAnswer is not inductive: an answer is right     *)
(* because, stage after stage, what the call has put or found in the       *)
(* caches is its own (StageInv) and so is what the device has done so far  *)
(* (PartInv).                                                              *)
(***************************************************************************)
EXTENDS GwpSession, TLAPS

Own == [observation |-> request.observation, prompts |-> {request.prompt}]

Part(a) == a = [noise |-> request.noise, steps |-> step, seen |-> {Own}]

RequestInv ==
  /\ stage \notin {"idle", "dead"} => request \in Requests
  /\ stage \in {"storage", "projection", "prefix", "denoise"} =>
       embedding = request.prompt

StageInv ==
  /\ stage \in {"storage", "projection", "prefix"} => UsePrefix
  /\ stage \in {"projection", "prefix"} => storage.state # "none"
  /\ stage = "prefix" /\ Persistent => storage.prompt = embedding
  /\ stage = "denoise" /\ UsePrefix =>
       /\ storage.state = "ready"
       /\ storage.prefix = Own
       /\ config.action_prompt_cache => storage.prompt = embedding

PartInv ==
  /\ step < Steps
  /\ stage # "denoise" => step = 0
  /\ step > 0 => /\ Part(device)
                 /\ ReadsBack => Part(action)
                 /\ ReadsBack \/ graph[StepGraph] = "ready"

StarvedInv ==
  /\ \A g \in Graphs : graph[g] = "unallocated" => g \in starved
  /\ storage.state \in {"hollow", "unallocated"} => "storage" \in starved
  /\ DiesOnlyStarved

SignedInv == signature # Nothing => Persistent

GwpInv == /\ TypeOK /\ RequestInv /\ StageInv /\ PartInv /\ StarvedInv
          /\ SignedInv /\ SignatureHonest /\ GraphsInStorage /\ PromptCacheSound
          /\ FreshAnswer

-----------------------------------------------------------------------------
(* Graphs.  Whatever comes of using graph g, no other graph changes, and g *)
(* is left without memory only when it is counted as starved.              *)
States == {"none", "unallocated", "ready"}

LEMMA BreaksEffect ==
  ASSUME TypeOK, NEW g \in Graphs, Breaks(g)
  PROVE  /\ graph' \in [Graphs -> States]
         /\ \A h \in Graphs \ {g} : graph'[h] = graph[h]
         /\ starved \subseteq starved' /\ starved' \subseteq starved \cup {g}
         /\ graph'[g] = "unallocated" => g \in starved' \/ graph[g] = "unallocated"
         /\ \/ stage' = "idle" /\ outcome' = Failed
            \/ /\ stage' = "dead" /\ outcome' = outcome
               /\ graph[g] = "unallocated" /\ starved' = starved
  BY DEF Breaks, OutOfMemory, Unusable, Runs, Fail, Die, TypeOK, States

LEMMA RunsEffect ==
  ASSUME TypeOK, NEW g \in Graphs, Runs(g)
  PROVE  /\ graph' \in [Graphs -> States]
         /\ \A h \in Graphs \ {g} : graph'[h] = graph[h]
         /\ starved' = starved
         /\ graph'[g] = "ready" /\ graph[g] # "unallocated"
  BY DEF Runs, TypeOK, States

(* A step attends to what belongs to its request.                          *)
LEMMA ContextOwn ==
  ASSUME RequestInv, StageInv, stage = "denoise"
  PROVE  Context = Own
<1>1. embedding = request.prompt
  BY DEF RequestInv
<1>2. CASE ~UsePrefix
  BY <1>1, <1>2 DEF Context, Own
<1>3. CASE UsePrefix
  <2>1. /\ storage.prefix = Own
        /\ config.action_prompt_cache => storage.prompt = embedding
    BY <1>3 DEF StageInv
  <2>2. Own.prompts \cup {embedding} = {request.prompt}
    BY <1>1 DEF Own
  <2>3. Context = [observation |-> Own.observation,
                   prompts |-> Own.prompts \cup {embedding}]
    BY <1>1, <1>3, <2>1 DEF Context, Own
  <2> QED BY <2>2, <2>3 DEF Own
<1> QED BY <1>2, <1>3

-----------------------------------------------------------------------------
(* Types.                                                                  *)

LEMMA TypeInit == ASSUME Init PROVE TypeOK
  BY GwpAssumption DEF Init, TypeOK, NoStorage

(* The prompt cache stays a sequence of entries.                           *)
LEMMA ToFrontType ==
  ASSUME NEW T, NEW s \in Seq(T), NEW i \in 1..Len(s)
  PROVE  <<s[i]>> \o RemoveAt(s, i) \in Seq(T)
  BY DEF RemoveAt

LEMMA PutsType ==
  ASSUME NEW T, NEW s \in Seq(T), NEW e \in T, NEW n \in 0..Len(s) + 1
  PROVE  SubSeq(<<e>> \o s, 1, n) \in Seq(T)
<1>1. /\ <<e>> \o s \in Seq(T)
      /\ Len(<<e>> \o s) = Len(s) + 1
  OBVIOUS
<1> QED BY <1>1

Entries == [prompt : Prompts, embedding : Prompts]

LEMMA PromptType ==
  ASSUME GwpInv, Prompt
  PROVE  /\ prompt_cache' \in Seq(Entries)
         /\ embedding' \in Prompts \cup {Nothing}
         /\ stage' \in {"storage", "denoise", "idle"}
         /\ outcome' \in {outcome, Failed}
<1>0. /\ request \in Requests /\ prompt_cache \in Seq(Entries)
      /\ config.prompt_cache_limit \in Nat
      /\ request.prompt \in Prompts
  BY GwpAssumption
  DEF GwpInv, TypeOK, RequestInv, Prompt, ConfigType, Requests, Entries
<1>1. CASE TakesEmbedding
  BY <1>0, <1>1 DEF TakesEmbedding, AfterPrompt
<1>2. CASE TakesFixed
  BY <1>0, <1>2, GwpAssumption
  DEF TakesFixed, AfterPrompt, Fail, GwpInv, TypeOK
<1>3. CASE GetsCached
  <2>1. PICK i \in 1..Len(prompt_cache) :
          /\ embedding' = prompt_cache[i].embedding
          /\ ToFront(i)
    BY <1>3 DEF GetsCached, Hits
  <2>2. prompt_cache[i] \in Entries
    BY <1>0
  <2>3. prompt_cache' \in Seq(Entries)
    BY <1>0, <2>1, ToFrontType DEF ToFront
  <2> QED BY <1>3, <2>1, <2>2, <2>3 DEF GetsCached, AfterPrompt, Entries
<1>4. CASE RunsUmt5
  <2> DEFINE e == [prompt |-> request.prompt, embedding |-> request.prompt]
             all == <<e>> \o prompt_cache
             kept == IF Len(all) > config.prompt_cache_limit
                       THEN config.prompt_cache_limit ELSE Len(all)
  <2>1. e \in Entries
    BY <1>0 DEF Entries
  <2>2. Len(all) = Len(prompt_cache) + 1 /\ Len(prompt_cache) \in Nat
    BY <1>0, <2>1
  <2>3. kept \in 0..Len(prompt_cache) + 1
    BY <1>0, <2>2
  <2>4. prompt_cache' = SubSeq(all, 1, kept)
    BY <1>4 DEF RunsUmt5, Puts
  <2> HIDE DEF e, kept
  <2>5. prompt_cache' \in Seq(Entries)
    BY <1>0, <2>1, <2>3, <2>4, PutsType
  <2> QED BY <1>0, <1>4, <2>5 DEF RunsUmt5, AfterPrompt
<1> QED BY <1>1, <1>2, <1>3, <1>4 DEF Prompt

(* What the next step starts from is what the call has done so far.        *)
LEMMA DeviceType ==
  ASSUME GwpInv, stage = "denoise"
  PROVE  /\ Own \in Contexts
         /\ request.noise \in Noises
         /\ ~Unrolled => /\ StepInput.noise = request.noise
                         /\ StepInput.steps = step
                         /\ StepInput.seen = (IF step = 0 THEN {} ELSE {Own})
                         /\ StepInput \in Actions
                         /\ HostAction \in Actions \cup {Nothing}
                         /\ ReadsBack \/ step = 0 => HostAction = StepInput
<1>1. /\ request \in Requests /\ step \in 0..Steps
      /\ action \in Actions \cup {Nothing}
  BY DEF GwpInv, TypeOK, RequestInv
<1>2. /\ request.observation \in Observations /\ request.prompt \in Prompts
      /\ request.noise \in Noises
  BY <1>1 DEF Requests
<1>3. Own \in Contexts
  BY <1>2 DEF Own, Contexts
<1>4. CASE step = 0
  <2>1. StepInput = Fresh /\ HostAction = Fresh
    BY <1>4 DEF StepInput, Uploads, HostAction
  <2>2. /\ Fresh.noise = request.noise /\ Fresh.steps = 0 /\ Fresh.seen = {}
        /\ Fresh \in Actions
    BY <1>1, <1>2, GwpAssumption DEF Fresh, Actions
  <2> QED BY <1>2, <1>3, <1>4, <2>1, <2>2
<1>5. CASE step # 0
  <2>1. step > 0
    BY <1>1, <1>5
  <2>2. /\ device = [noise |-> request.noise, steps |-> step, seen |-> {Own}]
        /\ ReadsBack => action = device
        /\ ReadsBack \/ graph[StepGraph] = "ready"
    BY <2>1 DEF GwpInv, PartInv, Part
  <2>3. HostAction = action
    BY <1>5 DEF HostAction
  <2>4. StepInput = device
    BY <1>5, <2>2, <2>3 DEF StepInput, Uploads, ReadsBack
  <2>5. /\ device.noise = request.noise /\ device.steps = step
        /\ device.seen = {Own} /\ device \in Actions
    BY <1>1, <1>2, <1>3, <2>2 DEF Actions
  <2> QED BY <1>1, <1>2, <1>3, <1>5, <2>2, <2>3, <2>4, <2>5
<1> QED BY <1>4, <1>5

(* What the two ways of denoising compute.                                 *)
LEMMA StepOutput ==
  ASSUME GwpInv, stage = "denoise", ~Unrolled
  PROVE  Denoised(StepInput) = [noise |-> request.noise, steps |-> step + 1,
                                seen |-> {Own}]
<1>1. Context = Own
  BY ContextOwn DEF GwpInv
<1>2. /\ StepInput.noise = request.noise /\ StepInput.steps = step
      /\ StepInput.seen = IF step = 0 THEN {} ELSE {Own}
  BY DeviceType
<1>3. (IF step = 0 THEN {} ELSE {Own}) \cup {Own} = {Own}
  OBVIOUS
<1> QED BY <1>1, <1>2, <1>3 DEF Denoised

LEMMA UnrolledOutput ==
  ASSUME GwpInv, stage = "denoise"
  PROVE  AllDenoised(Fresh) = [noise |-> request.noise, steps |-> Steps,
                               seen |-> {Own}]
<1>1. Context = Own
  BY ContextOwn DEF GwpInv
<1>2. Fresh.noise = request.noise /\ Fresh.seen = {}
  BY DEF Fresh
<1>3. {} \cup {Own} = {Own}
  OBVIOUS
<1> QED BY <1>1, <1>2, <1>3 DEF AllDenoised

LEMMA OwnAction ==
  ASSUME GwpInv, stage = "denoise", NEW n \in 0..Steps
  PROVE  [noise |-> request.noise, steps |-> n, seen |-> {Own}] \in Actions
<1>1. Own \in Contexts /\ request.noise \in Noises
  BY DeviceType DEF GwpInv, RequestInv, Requests
<1> QED BY <1>1 DEF Actions

-----------------------------------------------------------------------------
(* Steps.                                                                  *)

(* The configuration is fixed when the session is created.                 *)
LEMMA SameConfig ==
  ASSUME Next
  PROVE  /\ config' = config
         /\ UsePrefix' <=> UsePrefix
         /\ Persistent' <=> Persistent
         /\ ReadsBack' <=> ReadsBack
         /\ StepGraph' = StepGraph
<1>1. config' = config
  BY DEF Next, Predict, Refuse, Vision, Prompt, EnsureStorage, Project,
         BuildPrefix, UnrolledDenoise, StepBreaks, DenoiseStep, Reset, Dead, vars
<1>2. UsePrefix' <=> UsePrefix
  BY <1>1 DEF UsePrefix
<1> QED
  BY <1>1, <1>2 DEF Persistent, PromptKv, ReadsBack, OnHost, Capture, StepGraph

LEMMA RequestStep ==
  ASSUME GwpInv, Next
  PROVE  RequestInv'
<1> USE DEF GwpInv, RequestInv
<1>1. CASE \E r \in Requests : Predict(r)
  BY <1>1 DEF Predict
<1>2. CASE Refuse
  BY <1>2 DEF Refuse, Fail
<1>3. CASE Vision
  <2>1. stage' \in {"prompt", "idle", "dead"}
    BY <1>3, BreaksEffect DEF Vision, Graphs
  <2> QED BY <1>3, <2>1 DEF Vision
<1>4. CASE Prompt
  <2>1. stage' = "idle" \/ embedding' = request.prompt
    <3>1. CASE TakesEmbedding \/ RunsUmt5
      BY <3>1 DEF TakesEmbedding, RunsUmt5
    <3>2. CASE TakesFixed
      BY <3>2 DEF TakesFixed, Fail
    <3>3. CASE GetsCached
      <4>1. PICK i \in 1..Len(prompt_cache) :
              /\ prompt_cache[i].prompt = request.prompt
              /\ embedding' = prompt_cache[i].embedding
        BY <3>3 DEF GetsCached, Hits
      <4> QED BY <4>1 DEF PromptCacheSound
    <3> QED BY <1>4, <3>1, <3>2, <3>3 DEF Prompt
  <2>2. request' = request /\ stage = "prompt"
    BY <1>4 DEF Prompt
  <2> QED BY <2>1, <2>2, <1>4, PromptType
<1>5. CASE EnsureStorage
  BY <1>5 DEF EnsureStorage, Fail
<1>6. CASE Project
  <2>1. stage' \in {"prefix", "idle", "dead"}
    BY <1>6, BreaksEffect DEF Project, Graphs, Die
  <2> QED BY <1>6, <2>1 DEF Project
<1>7. CASE BuildPrefix
  <2>1. stage' \in {"denoise", "idle", "dead"}
    BY <1>7, BreaksEffect DEF BuildPrefix, Graphs, Fail, Die
  <2> QED BY <1>7, <2>1 DEF BuildPrefix
<1>8. CASE UnrolledDenoise
  <2>1. stage' \in {"idle", "dead"}
    BY <1>8, BreaksEffect DEF UnrolledDenoise, Graphs, Fail, Answer
  <2> QED BY <1>8, <2>1 DEF UnrolledDenoise
<1>9. CASE StepBreaks
  <2>1. stage' \in {"idle", "dead"}
    BY <1>9, BreaksEffect DEF StepBreaks, StepGraph, Graphs
  <2> QED BY <1>9, <2>1 DEF StepBreaks
<1>10. CASE DenoiseStep
  BY <1>10 DEF DenoiseStep, Answer, cache
<1>11. CASE Reset \/ Dead
  BY <1>11 DEF Reset, Dead, vars
<1> QED BY <1>1, <1>2, <1>3, <1>4, <1>5, <1>6, <1>7, <1>8, <1>9, <1>10, <1>11
        DEF Next

LEMMA StageStep ==
  ASSUME GwpInv, Next
  PROVE  StageInv'
<1> USE DEF GwpInv, StageInv
<1>0. /\ UsePrefix' <=> UsePrefix
      /\ Persistent' <=> Persistent
  BY SameConfig
<1>c. config' = config
  BY SameConfig
<1>1. CASE \E r \in Requests : Predict(r)
  BY <1>1 DEF Predict
<1>2. CASE Refuse
  BY <1>2 DEF Refuse, Fail
<1>3. CASE Vision
  <2>1. stage' \in {"prompt", "idle", "dead"}
    BY <1>3, BreaksEffect DEF Vision, Graphs
  <2> QED BY <2>1
<1>4. CASE Prompt
  <2>1. \/ stage' = "idle"
        \/ stage' = "storage" /\ UsePrefix
        \/ stage' = "denoise" /\ ~UsePrefix
    BY <1>4
    DEF Prompt, TakesEmbedding, TakesFixed, GetsCached, RunsUmt5, AfterPrompt, Fail
  <2> QED BY <1>0, <2>1
<1>5. CASE EnsureStorage
  <2>1. stage' = "idle" \/ (stage' = "projection" /\ storage'.state # "none")
    BY <1>5 DEF EnsureStorage, Fail, TypeOK
  <2> QED BY <1>0, <1>5, <2>1 DEF EnsureStorage
<1>6. CASE Project
  <2>1. \/ stage' \in {"idle", "dead"}
        \/ /\ stage' = "prefix" /\ storage'.state # "none"
           /\ Persistent => storage'.prompt = embedding
    <3>1. stage = "projection" /\ storage.state # "none"
      BY <1>6 DEF Project
    <3>2. embedding # Nothing
      BY <3>1, GwpAssumption DEF RequestInv, Requests
    <3>3. CASE ~Persistent \/ signature = embedding
      BY <1>6, <3>1, <3>2, <3>3 DEF Project, SignatureHonest
    <3>4. CASE ~(~Persistent \/ signature = embedding)
      BY <1>6, <3>1, <3>4, BreaksEffect DEF Project, Graphs, Die, TypeOK
    <3> QED BY <3>3, <3>4
  <2> QED BY <1>0, <1>6, <2>1 DEF Project
<1>7. CASE BuildPrefix
  <2>1. \/ stage' \in {"idle", "dead"}
        \/ stage' = "denoise" /\ StoresPrefix
    BY <1>7, BreaksEffect DEF BuildPrefix, Graphs, Fail, Die
  <2>2. Own' = Own /\ embedding' = embedding
    BY <1>7 DEF BuildPrefix, Own
  <2>3. PrefixContext = Own
    BY <1>7 DEF BuildPrefix, PrefixContext, Own, RequestInv
  <2>4. StoresPrefix => /\ storage'.state = "ready" /\ storage'.prefix = Own
                        /\ config.action_prompt_cache =>
                             storage'.prompt = embedding
    BY <1>7, <2>3 DEF StoresPrefix, BuildPrefix
  <2> QED BY <1>0, <1>c, <2>1, <2>2, <2>4
<1>8. CASE UnrolledDenoise
  <2>1. stage' \in {"idle", "dead"}
    BY <1>8, BreaksEffect DEF UnrolledDenoise, Graphs, Fail, Answer
  <2> QED BY <2>1
<1>9. CASE StepBreaks
  <2>1. stage' \in {"idle", "dead"}
    BY <1>9, BreaksEffect DEF StepBreaks, StepGraph, Graphs
  <2> QED BY <2>1
<1>10. CASE DenoiseStep
  <2>1. stage' = "idle" \/ (stage' = "denoise" /\ stage = "denoise")
    BY <1>10 DEF DenoiseStep, Answer
  <2>2. Own' = Own /\ embedding' = embedding /\ storage' = storage
    BY <1>10 DEF DenoiseStep, Own, cache
  <2> QED BY <1>0, <1>c, <2>1, <2>2
<1>11. CASE Reset \/ Dead
  BY <1>11 DEF Reset, Dead, vars
<1> QED BY <1>1, <1>2, <1>3, <1>4, <1>5, <1>6, <1>7, <1>8, <1>9, <1>10, <1>11
        DEF Next

LEMMA SignatureStep ==
  ASSUME GwpInv, Next
  PROVE  SignatureHonest' /\ SignedInv'
<1> USE DEF GwpInv, SignatureHonest, SignedInv
<1>0. Persistent' <=> Persistent
  BY SameConfig
<1>1. CASE EnsureStorage
  BY <1>0, <1>1 DEF EnsureStorage, TypeOK
<1>2. CASE Project
  BY <1>0, <1>2 DEF Project, Unprojected, TypeOK
<1>3. CASE BuildPrefix
  <2>1. CASE ~StoresPrefix
    BY <1>0, <1>3, <2>1 DEF BuildPrefix
  <2>2. CASE StoresPrefix
    <3>1. storage'.state = "ready" /\ signature' = signature
      BY <1>3, <2>2 DEF BuildPrefix, StoresPrefix
    <3>2. CASE Persistent
      BY <1>0, <3>1, <3>2, <2>2 DEF StoresPrefix
    <3>3. CASE ~Persistent
      BY <1>0, <3>1, <3>3, <2>2 DEF StoresPrefix
    <3> QED BY <3>2, <3>3
  <2> QED BY <2>1, <2>2
<1>4. CASE Reset
  BY <1>0, <1>4 DEF Reset
<1>5. CASE \/ \E r \in Requests : Predict(r)
           \/ Refuse \/ Vision \/ Prompt \/ UnrolledDenoise \/ StepBreaks
           \/ DenoiseStep \/ Dead
  BY <1>0, <1>5 DEF Predict, Refuse, Vision, Prompt, UnrolledDenoise, StepBreaks,
     DenoiseStep, Dead, vars, cache
<1> QED BY <1>1, <1>2, <1>3, <1>4, <1>5 DEF Next

LEMMA GraphsStep ==
  ASSUME GwpInv, Next
  PROVE  GraphsInStorage'
<1> USE DEF GwpInv, GraphsInStorage
<1> DEFINE Readers == {"cached", "unrolled"}
                      \cup (IF Persistent THEN {"prefix"} ELSE {})
<1>0. /\ Readers' = Readers
      /\ Readers \subseteq Graphs
  BY SameConfig DEF Graphs
<1>1. CASE Vision
  <2>1. \A h \in Graphs \ {"vae"} : graph'[h] = graph[h]
    BY <1>1, BreaksEffect, RunsEffect DEF Vision, Graphs
  <2> QED BY <1>0, <1>1, <2>1 DEF Vision, cache
<1>2. CASE EnsureStorage
  <2>1. graph' = graph /\ storage'.state # "none"
    BY <1>2 DEF EnsureStorage, TypeOK
  <2> QED BY <1>0, <2>1
<1>3. CASE Project
  <2>1. \A h \in Graphs \ {"projection"} : graph'[h] = graph[h]
    BY <1>3, BreaksEffect, RunsEffect DEF Project, Graphs
  <2>2. storage'.state = storage.state
    BY <1>3 DEF Project, Unprojected, TypeOK
  <2> QED BY <1>0, <2>1, <2>2
<1>4. CASE BuildPrefix
  <2>1. storage.state # "none"
    BY <1>4 DEF BuildPrefix, StageInv
  <2>2. storage'.state # "none"
    BY <1>4, <2>1 DEF BuildPrefix, StoresPrefix
  <2> QED BY <1>0, <2>2
<1>5. CASE UnrolledDenoise
  <2>1. storage.state = "ready"
    BY <1>5 DEF UnrolledDenoise, StageInv, Unrolled
  <2> QED BY <1>0, <1>5, <2>1 DEF UnrolledDenoise, cache
<1>6. CASE StepBreaks \/ DenoiseStep
  <2>0. stage = "denoise" /\ storage' = storage
    BY <1>6 DEF StepBreaks, DenoiseStep, cache
  <2>1. CASE UsePrefix
    BY <1>0, <2>0, <2>1 DEF StageInv
  <2>2. CASE ~UsePrefix
    <3>1. StepGraph = "mot"
      BY <2>2 DEF StepGraph
    <3>2. \A h \in Graphs \ {"mot"} : graph'[h] = graph[h]
      <4>1. CASE StepBreaks
        BY <4>1, <3>1, BreaksEffect DEF StepBreaks, Graphs
      <4>2. CASE DenoiseStep
        BY <4>2, <3>1 DEF DenoiseStep, AfterStep, TypeOK, Graphs
      <4> QED BY <1>6, <4>1, <4>2
    <3> QED BY <1>0, <2>0, <3>2
  <2> QED BY <2>1, <2>2
<1>7. CASE Reset
  BY <1>0, <1>7 DEF Reset, DropGraphs, Drops, Dropped, Graphs
<1>8. CASE \/ \E r \in Requests : Predict(r)
           \/ Refuse \/ Prompt \/ Dead
  BY <1>0, <1>8 DEF Predict, Refuse, Prompt, Dead, vars, cache
<1> QED BY <1>1, <1>2, <1>3, <1>4, <1>5, <1>6, <1>7, <1>8 DEF Next

LEMMA ConcatEntries ==
  ASSUME NEW T, NEW a \in Seq(T), NEW b \in Seq(T)
  PROVE  /\ a \o b \in Seq(T) /\ Len(a \o b) = Len(a) + Len(b)
         /\ \A k \in 1..Len(a) + Len(b) :
              (a \o b)[k] = IF k <= Len(a) THEN a[k] ELSE b[k - Len(a)]
  OBVIOUS

(* Moving an entry to the front permutes the cache.                        *)
LEMMA ToFrontEntries ==
  ASSUME NEW T, NEW s \in Seq(T), NEW i \in 1..Len(s)
  PROVE  LET t == <<s[i]>> \o RemoveAt(s, i)
         IN  /\ Len(t) = Len(s)
             /\ \A k \in 1..Len(s) :
                  t[k] = IF k = 1 THEN s[i] ELSE IF k <= i THEN s[k - 1] ELSE s[k]
<1> DEFINE front == SubSeq(s, 1, i - 1)
           back == SubSeq(s, i + 1, Len(s))
<1>1. /\ front \in Seq(T) /\ Len(front) = i - 1
      /\ \A k \in 1..i - 1 : front[k] = s[k]
  OBVIOUS
<1>2. /\ back \in Seq(T) /\ Len(back) = Len(s) - i
      /\ \A k \in 1..Len(s) - i : back[k] = s[k + i]
  OBVIOUS
<1>3. RemoveAt(s, i) = front \o back
  BY DEF RemoveAt
<1> HIDE DEF front, back
<1>4. /\ front \o back \in Seq(T) /\ Len(front \o back) = Len(s) - 1
      /\ \A k \in 1..Len(s) - 1 :
           (front \o back)[k] = IF k <= Len(front) THEN front[k]
                                ELSE back[k - Len(front)]
  <2>1. Len(front) + Len(back) = Len(s) - 1
    BY <1>1, <1>2
  <2>2. /\ front \o back \in Seq(T)
        /\ Len(front \o back) = Len(front) + Len(back)
        /\ \A k \in 1..Len(front) + Len(back) :
             (front \o back)[k] = IF k <= Len(front) THEN front[k]
                                  ELSE back[k - Len(front)]
    BY <1>1, <1>2, ConcatEntries
  <2> QED BY <2>1, <2>2
<1>5. \A k \in 1..Len(s) - 1 :
        (front \o back)[k] = IF k < i THEN s[k] ELSE s[k + 1]
  <2> TAKE k \in 1..Len(s) - 1
  <2>1. CASE k < i
    BY <1>1, <1>4, <2>1
  <2>2. CASE ~(k < i)
    <3>1. k - Len(front) \in 1..Len(s) - i /\ k - Len(front) + i = k + 1
      BY <1>1, <2>2
    <3>2. back[k - Len(front)] = s[k + 1]
      BY <1>2, <3>1
    <3> QED BY <1>1, <1>4, <2>2, <3>2
  <2> QED BY <2>1, <2>2
<1>6. LET m == front \o back
          t == <<s[i]>> \o m
      IN  /\ Len(t) = Len(s)
          /\ \A k \in 1..Len(s) : t[k] = IF k = 1 THEN s[i] ELSE m[k - 1]
  BY <1>4
<1>7. ASSUME NEW k \in 1..Len(s), k # 1
      PROVE  (front \o back)[k - 1] = IF k <= i THEN s[k - 1] ELSE s[k]
  <2>1. k - 1 \in 1..Len(s) - 1 /\ k - 1 + 1 = k /\ (k - 1 < i <=> k <= i)
    BY <1>7
  <2> QED BY <1>5, <2>1
<1> QED BY <1>3, <1>6, <1>7

LEMMA PutsEntries ==
  ASSUME NEW T, NEW s \in Seq(T), NEW e \in T, NEW n \in 0..Len(s) + 1
  PROVE  LET t == SubSeq(<<e>> \o s, 1, n)
         IN  /\ Len(t) = n
             /\ \A k \in 1..n : t[k] = IF k = 1 THEN e ELSE s[k - 1]
<1>1. /\ <<e>> \o s \in Seq(T)
      /\ Len(<<e>> \o s) = Len(s) + 1
      /\ \A k \in 1..Len(s) + 1 : (<<e>> \o s)[k] = IF k = 1 THEN e ELSE s[k - 1]
  OBVIOUS
<1> QED BY <1>1

LEMMA PromptCacheStep ==
  ASSUME GwpInv, Next
  PROVE  PromptCacheSound'
<1> USE DEF GwpInv
<1>0. config' = config
  BY SameConfig
<1>1. CASE Prompt
  <2> DEFINE limit == config.prompt_cache_limit
  <2>0. /\ prompt_cache \in Seq(Entries) /\ limit \in Nat
        /\ request \in Requests /\ request.prompt \in Prompts
    BY <1>1, GwpAssumption
    DEF TypeOK, Entries, ConfigType, Prompt, RequestInv, Requests
  <2>1. CASE TakesEmbedding \/ TakesFixed
    BY <1>0, <2>1 DEF TakesEmbedding, TakesFixed, PromptCacheSound
  <2>2. CASE GetsCached
    <3>1. PICK i \in 1..Len(prompt_cache) : ToFront(i)
      BY <2>2 DEF GetsCached, Hits
    <3>2. /\ Len(prompt_cache') = Len(prompt_cache)
          /\ \A k \in 1..Len(prompt_cache) :
               prompt_cache'[k] = IF k = 1 THEN prompt_cache[i]
                                  ELSE IF k <= i THEN prompt_cache[k - 1]
                                  ELSE prompt_cache[k]
      BY <2>0, <3>1, ToFrontEntries DEF ToFront
    <3> DEFINE was(k) == IF k = 1 THEN i ELSE IF k <= i THEN k - 1 ELSE k
    <3>3. \A k \in 1..Len(prompt_cache) :
            /\ was(k) \in 1..Len(prompt_cache)
            /\ prompt_cache'[k] = prompt_cache[was(k)]
      BY <2>0, <3>2
    <3>4. \A k, l \in 1..Len(prompt_cache) : was(k) = was(l) => k = l
      BY <2>0
    <3> HIDE DEF was
    <3>5. Len(prompt_cache') <= config'.prompt_cache_limit
      BY <1>0, <3>2 DEF PromptCacheSound
    <3>6. ASSUME NEW k \in 1..Len(prompt_cache)
          PROVE  prompt_cache'[k].embedding = prompt_cache'[k].prompt
      BY <3>3 DEF PromptCacheSound
    <3>7. ASSUME NEW k \in 1..Len(prompt_cache), NEW l \in 1..Len(prompt_cache),
                 prompt_cache'[k].prompt = prompt_cache'[l].prompt
          PROVE  k = l
      <4>1. prompt_cache[was(k)].prompt = prompt_cache[was(l)].prompt
        BY <3>3, <3>7
      <4>2. was(k) = was(l)
        BY <3>3, <4>1 DEF PromptCacheSound
      <4> QED BY <3>4, <4>2
    <3> QED BY <3>2, <3>5, <3>6, <3>7 DEF PromptCacheSound
  <2>3. CASE RunsUmt5
    <3> DEFINE e == [prompt |-> request.prompt, embedding |-> request.prompt]
               all == <<e>> \o prompt_cache
               kept == IF Len(all) > limit THEN limit ELSE Len(all)
    <3>1. e \in Entries /\ e.prompt = request.prompt /\ e.embedding = request.prompt
      BY <2>0 DEF Entries
    <3>2. Len(all) = Len(prompt_cache) + 1 /\ Len(prompt_cache) \in Nat
      BY <2>0, <3>1
    <3>3. kept \in 0..Len(prompt_cache) + 1 /\ kept <= limit
      BY <2>0, <3>2
    <3>4. prompt_cache' = SubSeq(all, 1, kept)
      BY <2>3 DEF RunsUmt5, Puts
    <3>5. limit = 0 \/ \A k \in 1..Len(prompt_cache) :
                         prompt_cache[k].prompt # request.prompt
      BY <2>3 DEF RunsUmt5, Hits
    <3> HIDE DEF e, kept, limit
    <3>6. /\ Len(prompt_cache') = kept
          /\ \A k \in 1..kept :
               prompt_cache'[k] = IF k = 1 THEN e ELSE prompt_cache[k - 1]
      BY <2>0, <3>1, <3>3, <3>4, PutsEntries
    <3>7. \A k \in 1..kept : k = 1 \/ k - 1 \in 1..Len(prompt_cache)
      BY <3>2, <3>3
    <3>8. \A k, l \in 1..kept : k - 1 = l - 1 => k = l
      BY <3>2, <3>3
    <3>9. limit = config'.prompt_cache_limit
      BY <1>0 DEF limit
    <3>10. kept = 0 \/ limit # 0
      BY <2>0, <3>3
    <3>11. \A k \in 1..kept : prompt_cache'[k].embedding = prompt_cache'[k].prompt
      BY <3>1, <3>6, <3>7 DEF PromptCacheSound
    <3>12. ASSUME NEW k \in 1..kept, NEW l \in 1..kept,
                  prompt_cache'[k].prompt = prompt_cache'[l].prompt
           PROVE  k = l
      <4>1. limit # 0
        BY <2>0, <3>3, <3>12
      <4>2. CASE k = 1 \/ l = 1
        BY <3>1, <3>5, <3>6, <3>7, <3>12, <4>1, <4>2
      <4>3. CASE k # 1 /\ l # 1
        BY <3>6, <3>7, <3>8, <3>12, <4>3 DEF PromptCacheSound
      <4> QED BY <4>2, <4>3
    <3> QED BY <3>3, <3>6, <3>9, <3>11, <3>12 DEF PromptCacheSound
  <2> QED BY <1>1, <2>1, <2>2, <2>3 DEF Prompt
<1>2. CASE Reset
  <2>1. config.prompt_cache_limit \in Nat
    BY GwpAssumption DEF TypeOK, ConfigType
  <2>2. Len(prompt_cache') = 0
    BY <1>2 DEF Reset
  <2> QED BY <1>0, <2>1, <2>2 DEF PromptCacheSound
<1>3. CASE \/ \E r \in Requests : Predict(r)
           \/ Refuse \/ Vision \/ EnsureStorage \/ Project \/ BuildPrefix
           \/ UnrolledDenoise \/ StepBreaks \/ DenoiseStep \/ Dead
  <2>1. prompt_cache' = prompt_cache
    BY <1>3 DEF Predict, Refuse, Vision, EnsureStorage, Project, BuildPrefix,
       UnrolledDenoise, StepBreaks, DenoiseStep, Dead, vars, cache
  <2> QED BY <1>0, <2>1 DEF PromptCacheSound
<1> QED BY <1>1, <1>2, <1>3 DEF Next

LEMMA StarvedStep ==
  ASSUME GwpInv, Next
  PROVE  StarvedInv'
<1> USE DEF GwpInv, StarvedInv, DiesOnlyStarved
<1>1. CASE Vision
  <2>1. UNCHANGED storage
    BY <1>1 DEF Vision, cache
  <2> QED BY <1>1, <2>1, BreaksEffect, RunsEffect DEF Vision, Graphs
<1>2. CASE EnsureStorage
  BY <1>2 DEF EnsureStorage, Fail, TypeOK
<1>3. CASE Project
  <2>1. storage'.state = storage.state
    BY <1>3 DEF Project, Unprojected, TypeOK
  <2>2. storage.state # "none" /\ storage.state \in {"none", "hollow", "unallocated", "ready"}
    BY <1>3 DEF Project, StageInv, TypeOK
  <2>3. "projection" \in Graphs
    BY DEF Graphs
  <2>4. CASE ~Persistent \/ signature = embedding
    BY <1>3, <2>1, <2>4 DEF Project
  <2>5. CASE Breaks("projection")
    BY <2>1, <2>3, <2>5, BreaksEffect
  <2>6. CASE Runs("projection") /\ stage' = "prefix"
    BY <2>1, <2>3, <2>6, RunsEffect
  <2>7. CASE Runs("projection") /\ storage.state # "ready"
    BY <2>1, <2>2, <2>3, <2>7, RunsEffect
  <2> QED BY <1>3, <2>4, <2>5, <2>6, <2>7 DEF Project
<1>4. CASE BuildPrefix
  <2>1. storage.state # "none" /\ storage.state \in {"none", "hollow", "unallocated", "ready"}
    BY <1>4 DEF BuildPrefix, StageInv, TypeOK
  <2>2. "prefix" \in Graphs
    BY DEF Graphs
  <2>3. CASE Breaks("prefix") /\ UNCHANGED storage
    BY <2>2, <2>3, BreaksEffect
  <2>4. CASE Runs("prefix") /\ StoresPrefix /\ stage' = "denoise"
    <3>1. storage'.state = "ready"
      BY <2>4 DEF StoresPrefix
    <3> QED BY <2>2, <2>4, <3>1, RunsEffect
  <2>5. CASE Runs("prefix") /\ storage.state # "ready" /\ UNCHANGED storage
    BY <2>1, <2>2, <2>5, RunsEffect
  <2> QED BY <1>4, <2>3, <2>4, <2>5 DEF BuildPrefix
<1>5. CASE UnrolledDenoise
  <2>1. UNCHANGED storage /\ "unrolled" \in Graphs
    BY <1>5 DEF UnrolledDenoise, cache, Graphs
  <2> QED BY <1>5, <2>1, BreaksEffect, RunsEffect
          DEF UnrolledDenoise, Fail, Answer
<1>6. CASE StepBreaks
  <2>1. UNCHANGED storage /\ StepGraph \in Graphs
    BY <1>6 DEF StepBreaks, cache, Graphs, StepGraph
  <2> QED BY <1>6, <2>1, BreaksEffect DEF StepBreaks
<1>7. CASE DenoiseStep
  <2>1. /\ UNCHANGED storage /\ starved' = starved /\ stage' # "dead"
        /\ \A h \in Graphs : graph'[h] = "unallocated" => graph[h] = "unallocated"
    BY <1>7 DEF DenoiseStep, cache, AfterStep, Answer, TypeOK
  <2> QED BY <2>1
<1>8. CASE Reset
  <2>1. \A h \in Graphs : graph'[h] = "unallocated" => h = "vae" /\ graph[h] = "unallocated"
    BY <1>8 DEF Reset, DropGraphs, Drops, Dropped, Graphs
  <2> QED BY <1>8, <2>1 DEF Reset, NoStorage
<1>9. CASE \E r \in Requests : Predict(r)
  BY <1>9 DEF Predict, cache
<1>10. CASE Refuse
  BY <1>10 DEF Refuse, cache, Fail
<1>11. CASE Prompt
  BY <1>11, PromptType DEF Prompt
<1>12. CASE Dead
  BY <1>12 DEF Dead, vars, cache
<1> QED BY <1>1, <1>2, <1>3, <1>4, <1>5, <1>6, <1>7, <1>8, <1>9, <1>10, <1>11, <1>12
        DEF Next

LEMMA PartStep ==
  ASSUME GwpInv, Next
  PROVE  PartInv'
<1> USE DEF GwpInv, PartInv
<1>0. /\ StepGraph' = StepGraph
      /\ ReadsBack' <=> ReadsBack
  BY SameConfig
<1>1. CASE \/ \E r \in Requests : Predict(r)
           \/ Refuse \/ Vision \/ Prompt \/ EnsureStorage \/ Project
           \/ BuildPrefix \/ Reset
  <2>1. step' = 0
    <3>1. step \in 0..Steps /\ step' = step
      BY <1>1 DEF Predict, Refuse, Vision, Prompt, EnsureStorage, Project,
         BuildPrefix, Reset, TypeOK
    <3>2. stage # "denoise" \/ step = 0
      BY <1>1 DEF Predict, Refuse, Vision, Prompt, EnsureStorage, Project,
         BuildPrefix, Reset
    <3> QED BY <3>1, <3>2
  <2> QED BY <2>1, GwpAssumption
<1>2. CASE UnrolledDenoise \/ StepBreaks
  BY <1>2, GwpAssumption DEF UnrolledDenoise, StepBreaks, Answer
<1>3. CASE DenoiseStep
  <2>1. CASE step + 1 = Steps
    BY <1>3, <2>1, GwpAssumption DEF DenoiseStep, Answer
  <2>2. CASE step + 1 # Steps
    <3>1. /\ step' = step + 1 /\ stage' = stage /\ stage = "denoise"
          /\ request' = request /\ ~Unrolled
          /\ device' = Denoised(StepInput)
          /\ ReadsBack => action' = device'
      BY <1>3, <2>2 DEF DenoiseStep
    <3>2. step \in Nat /\ step' < Steps
      BY <3>1, <2>2, GwpAssumption DEF TypeOK
    <3>3. Own' = Own
      BY <3>1 DEF Own
    <3>4. device' = [noise |-> request'.noise, steps |-> step', seen |-> {Own'}]
      BY <3>1, <3>3, StepOutput
    <3>5. ReadsBack \/ graph'[StepGraph] = "ready"
      BY <1>3 DEF DenoiseStep, AfterStep, TypeOK, StepGraph, Graphs, ReadsBack,
         Capture
    <3> QED BY <1>0, <3>1, <3>2, <3>4, <3>5 DEF Part
  <2> QED BY <2>1, <2>2
<1>4. CASE Dead
  BY <1>4, <1>0 DEF Dead, vars, cache, Part, Own
<1> QED BY <1>1, <1>2, <1>3, <1>4 DEF Next

LEMMA AnswerStep ==
  ASSUME GwpInv, Next
  PROVE  FreshAnswer'
<1> USE DEF GwpInv
<1>0. ASSUME outcome' \in {Nothing, Failed}
      PROVE  FreshAnswer'
  BY <1>0 DEF FreshAnswer
<1>1. ASSUME outcome' = outcome, request' = request
      PROVE  FreshAnswer'
  BY <1>1 DEF FreshAnswer
<1>2. ASSUME request' = request,
             outcome' = [noise |-> request.noise, steps |-> Steps, seen |-> {Own}]
      PROVE  FreshAnswer'
  BY <1>2 DEF FreshAnswer, Own
<1>3. CASE \E r \in Requests : Predict(r)
  BY <1>0, <1>3 DEF Predict
<1>4. CASE Refuse
  BY <1>0, <1>4 DEF Refuse, Fail
<1>5. CASE Vision
  BY <1>0, <1>1, <1>5, BreaksEffect DEF Vision, Graphs
<1>6. CASE Prompt
  BY <1>0, <1>1, <1>6, PromptType DEF Prompt
<1>7. CASE EnsureStorage
  BY <1>0, <1>1, <1>7 DEF EnsureStorage, Fail
<1>8. CASE Project
  BY <1>0, <1>1, <1>8, BreaksEffect DEF Project, Graphs, Die
<1>9. CASE BuildPrefix
  BY <1>0, <1>1, <1>9, BreaksEffect DEF BuildPrefix, Graphs, Fail, Die
<1>10. CASE UnrolledDenoise
  <2>1. stage = "denoise" /\ request' = request
    BY <1>10 DEF UnrolledDenoise
  <2>2. \/ outcome' \in {Failed, outcome}
        \/ outcome' = AllDenoised(Fresh)
    BY <1>10, BreaksEffect DEF UnrolledDenoise, Graphs, Fail, Answer
  <2> QED BY <1>0, <1>1, <1>2, <2>1, <2>2, UnrolledOutput
<1>11. CASE StepBreaks
  BY <1>0, <1>1, <1>11, BreaksEffect DEF StepBreaks, Graphs, StepGraph
<1>12. CASE DenoiseStep
  <2>1. stage = "denoise" /\ request' = request /\ ~Unrolled
    BY <1>12 DEF DenoiseStep
  <2>2. \/ outcome' \in {Failed, outcome}
        \/ outcome' = Denoised(StepInput) /\ step + 1 = Steps
    BY <1>12 DEF DenoiseStep, Answer
  <2> QED BY <1>0, <1>1, <1>2, <2>1, <2>2, StepOutput
<1>13. CASE Reset
  BY <1>1, <1>13 DEF Reset
<1>14. CASE Dead
  BY <1>1, <1>14 DEF Dead, vars
<1> QED BY <1>3, <1>4, <1>5, <1>6, <1>7, <1>8, <1>9, <1>10, <1>11, <1>12, <1>13,
           <1>14 DEF Next

LEMMA TypeStep ==
  ASSUME GwpInv, Next
  PROVE  TypeOK'
<1> USE DEF TypeOK
<1>0. TypeOK /\ RequestInv
  BY DEF GwpInv
<1>1. CASE \E r \in Requests : Predict(r)
  BY <1>0, <1>1 DEF Predict, cache
<1>2. CASE Refuse
  BY <1>0, <1>2 DEF Refuse, cache, Fail
<1>3. CASE Vision
  <2>1. /\ graph' \in [Graphs -> States]
        /\ starved' \subseteq starved \cup {"vae"}
        /\ stage' \in {"prompt", "idle", "dead"}
        /\ outcome' \in {outcome, Failed}
    BY <1>0, <1>3, BreaksEffect, RunsEffect DEF Vision, Graphs
  <2> QED BY <1>0, <1>3, <2>1 DEF Vision, cache, Graphs, States
<1>4. CASE Prompt
  <2>1. /\ prompt_cache' \in Seq(Entries)
        /\ embedding' \in Prompts \cup {Nothing}
        /\ stage' \in {"storage", "denoise", "idle"}
        /\ outcome' \in {outcome, Failed}
    BY <1>4, PromptType
  <2> QED BY <1>0, <1>4, <2>1 DEF Prompt, Entries
<1>5. CASE EnsureStorage
  BY <1>0, <1>5 DEF EnsureStorage, Fail
<1>6. CASE Project
  <2>1. /\ graph' \in [Graphs -> States]
        /\ starved' \subseteq starved \cup {"projection"}
        /\ stage' \in {"prefix", "idle", "dead"}
        /\ outcome' \in {outcome, Failed}
    BY <1>0, <1>6, BreaksEffect, RunsEffect DEF Project, Graphs, Die, States
  <2>2. /\ signature' \in Prompts \cup {Nothing}
        /\ storage' \in [state : {"none", "hollow", "unallocated", "ready"},
                        prompt : Prompts \cup {Nothing},
                        prefix : Contexts \cup {Nothing}]
    BY <1>0, <1>6 DEF Project, Unprojected
  <2> QED BY <1>0, <1>6, <2>1, <2>2 DEF Project, Graphs, States
<1>7. CASE BuildPrefix
  <2>1. /\ graph' \in [Graphs -> States]
        /\ starved' \subseteq starved \cup {"prefix"}
        /\ stage' \in {"denoise", "idle", "dead"}
        /\ outcome' \in {outcome, Failed}
    BY <1>0, <1>7, BreaksEffect, RunsEffect DEF BuildPrefix, Graphs, Die, Fail, States
  <2>2. PrefixContext \in Contexts
    <3>1. /\ request.observation \in Observations
          /\ embedding \in Prompts \cup {Nothing}
          /\ storage.prompt \in Prompts \cup {Nothing}
      BY <1>0, <1>7 DEF BuildPrefix, RequestInv, Requests
    <3> QED BY <3>1 DEF PrefixContext, Contexts
  <2>3. storage' \in [state : {"none", "hollow", "unallocated", "ready"},
                      prompt : Prompts \cup {Nothing},
                      prefix : Contexts \cup {Nothing}]
    BY <1>0, <1>7, <2>2 DEF BuildPrefix, StoresPrefix
  <2> QED BY <1>0, <1>7, <2>1, <2>3 DEF BuildPrefix, Graphs, States
<1>8. CASE UnrolledDenoise
  <2>1. /\ graph' \in [Graphs -> States]
        /\ starved' \subseteq starved \cup {"unrolled"}
        /\ stage' \in {"idle", "dead"}
        /\ outcome' \in {outcome, Failed, AllDenoised(Fresh)}
        /\ action' \in {action, AllDenoised(Fresh)}
        /\ step' = 0
    BY <1>0, <1>8, BreaksEffect, RunsEffect
    DEF UnrolledDenoise, Graphs, Fail, States, Answer
  <2>2. AllDenoised(Fresh) \in Actions
    BY <1>8, OwnAction, UnrolledOutput, GwpAssumption DEF UnrolledDenoise
  <2> QED BY <1>0, <1>8, <2>1, <2>2, GwpAssumption
          DEF UnrolledDenoise, cache, Graphs, States
<1>9. CASE StepBreaks
  <2>1. /\ graph' \in [Graphs -> States]
        /\ starved' \subseteq starved \cup {StepGraph}
        /\ stage' \in {"idle", "dead"}
        /\ outcome' \in {outcome, Failed}
    BY <1>0, <1>9, BreaksEffect DEF StepBreaks, Graphs, StepGraph
  <2>2. StepInput \in Actions
    BY <1>9, DeviceType DEF StepBreaks
  <2>3. device' \in Actions \cup {Nothing}
    BY <1>0, <1>9, <2>2 DEF StepBreaks
  <2> QED BY <1>0, <1>9, <2>1, <2>3, GwpAssumption
          DEF StepBreaks, cache, Graphs, States, StepGraph
<1>10. CASE DenoiseStep
  <2>1. stage = "denoise" /\ ~Unrolled
    BY <1>10 DEF DenoiseStep
  <2>2. step + 1 \in 0..Steps
    BY <1>0, GwpAssumption DEF GwpInv, PartInv
  <2>3. Denoised(StepInput) \in Actions
    BY <2>1, <2>2, StepOutput, OwnAction
  <2>4. HostAction \in Actions \cup {Nothing}
    BY <2>1, DeviceType
  <2>5. /\ device' \in Actions
        /\ action' \in Actions \cup {Nothing}
    BY <1>10, <2>3, <2>4 DEF DenoiseStep
  <2>6. graph' \in [Graphs -> States] /\ starved' = starved
    BY <1>0, <1>10 DEF DenoiseStep, AfterStep, States
  <2>7. /\ stage' \in {stage, "idle"}
        /\ outcome' \in Actions \cup {Nothing, Failed}
        /\ step' \in 0..Steps
    <3>1. CASE step + 1 = Steps
      BY <1>0, <1>10, <2>3, <3>1, GwpAssumption DEF DenoiseStep, Answer
    <3>2. CASE step + 1 # Steps
      BY <1>0, <1>10, <2>2, <3>2 DEF DenoiseStep
    <3> QED BY <3>1, <3>2
  <2> QED BY <1>0, <1>10, <2>5, <2>6, <2>7 DEF DenoiseStep, cache, States
<1>11. CASE Reset
  <2>1. graph' \in [Graphs -> States]
    BY <1>0, <1>11 DEF Reset, DropGraphs, Drops, States
  <2> QED BY <1>0, <1>11, <2>1 DEF Reset, NoStorage, States
<1>12. CASE Dead
  BY <1>0, <1>12 DEF Dead, vars, cache
<1> QED BY <1>1, <1>2, <1>3, <1>4, <1>5, <1>6, <1>7, <1>8, <1>9, <1>10, <1>11,
           <1>12 DEF Next

-----------------------------------------------------------------------------
(* Theorems.                                                               *)

LEMMA GwpInit == ASSUME Init PROVE GwpInv
<1>1. TypeOK
  BY TypeInit
<1>2. /\ stage = "idle" /\ step = 0 /\ outcome = Nothing
      /\ signature = Nothing /\ storage.state = "none"
      /\ \A g \in Graphs : graph[g] = "none"
      /\ prompt_cache = <<>>
      /\ config.prompt_cache_limit \in Nat
  BY GwpAssumption DEF Init, NoStorage, ConfigType
<1>3. PromptCacheSound
  BY <1>2 DEF PromptCacheSound
<1> QED BY <1>1, <1>2, <1>3, GwpAssumption
        DEF GwpInv, RequestInv, StageInv, PartInv, StarvedInv, SignedInv,
            SignatureHonest, GraphsInStorage, FreshAnswer, DiesOnlyStarved,
            Graphs

LEMMA GwpStutter == ASSUME GwpInv, UNCHANGED vars PROVE GwpInv'
<1> QED
  BY DEF vars, cache, GwpInv, TypeOK, RequestInv, StageInv, PartInv, StarvedInv,
     SignedInv, SignatureHonest, GraphsInStorage, PromptCacheSound, FreshAnswer,
     DiesOnlyStarved, Own, Part, UsePrefix, Persistent, PromptKv, ReadsBack,
     OnHost, Capture, StepGraph

(* The inductive invariant of a session.                                   *)
THEOREM Invariance == Spec => []GwpInv
<1>1. Init => GwpInv
  BY GwpInit
<1>2. GwpInv /\ [Next]_vars => GwpInv'
  <2>1. ASSUME GwpInv, Next PROVE GwpInv'
    BY <2>1, TypeStep, RequestStep, StageStep, PartStep, StarvedStep,
       SignatureStep, GraphsStep, PromptCacheStep, AnswerStep DEF GwpInv
  <2> QED BY <2>1, GwpStutter
<1> QED BY <1>1, <1>2, PTL DEF Spec

(* Every variable of a session keeps its type.                             *)
THEOREM TypeCorrect == Spec => []TypeOK
<1>1. GwpInv => TypeOK
  BY DEF GwpInv
<1> QED BY <1>1, Invariance, PTL

(* Whatever the caches hold, whichever stage of an earlier call failed and *)
(* whatever the device refused, an action that predict returns was         *)
(* computed from the noise, the observation and the prompt of its own      *)
(* request, in exactly cfg.num_steps steps.                                *)
THEOREM FreshAnswers == Spec => []FreshAnswer
<1>1. GwpInv => FreshAnswer
  BY DEF GwpInv
<1> QED BY <1>1, Invariance, PTL

(* The prompt cache stays an LRU map within its limit.                     *)
THEOREM CacheCoherence == Spec => []PromptCacheSound
<1>1. GwpInv => PromptCacheSound
  BY DEF GwpInv
<1> QED BY <1>1, Invariance, PTL

(* projected_prompt_signature never names a projection storage lacks,      *)
(* whichever step of projecting a prompt failed.                           *)
THEOREM HonestSignature == Spec => []SignatureHonest
<1>1. GwpInv => SignatureHonest
  BY DEF GwpInv
<1> QED BY <1>1, Invariance, PTL

(* No graph outlives the storage it points into.                           *)
THEOREM GraphLifetime == Spec => []GraphsInStorage
<1>1. GwpInv => GraphsInStorage
  BY DEF GwpInv
<1> QED BY <1>1, Invariance, PTL

(* The process aborts only in a session that was refused memory and not    *)
(* reset since: no other order of calls reaches a GGML_ASSERT.             *)
THEOREM AbortsOnlyStarved == Spec => []DiesOnlyStarved
<1>1. GwpInv => DiesOnlyStarved
  BY DEF GwpInv, StarvedInv
<1> QED BY <1>1, Invariance, PTL
=============================================================================
