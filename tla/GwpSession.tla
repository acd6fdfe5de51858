----------------------------- MODULE GwpSession -----------------------------
(***************************************************************************)
(* One GWP05 session: ExecutionState (src/models/gwp05/state.h) under      *)
(* predict and reset.  predict runs in stages, each of which may fail and  *)
(* leaves what it built and cached for the next call: the language         *)
(* embeddings, the projection of the last prompt, the prefix keys and      *)
(* values, the device's action tensor and the compute graphs.              *)
(*                                                                         *)
(* Tensors are named by what they were computed from: an embedding by its  *)
(* prompt, prefix keys and values by the observation and the prompts that  *)
(* went in, an action by its noise and everything its steps attended to.   *)
(***************************************************************************)
EXTENDS Naturals, Sequences, SequencesExt

CONSTANTS Observations, Prompts, Noises,
          Nothing,      \* no value: an empty vector, a tensor never written
          Failed,       \* the outcome of a predict that throws
          FixedPrompt,  \* the prompt of RuntimeConfig.fixed_prompt
          Steps,        \* cfg.num_steps
          Configs,      \* runtime configurations
          Fragile       \* what the device may lack memory for

(* The weights' own graph of umt5 is not kept, so it is not listed.        *)
Graphs == {"vae", "projection", "prefix", "cached", "unrolled", "mot"}

Languages == {"tokens", "fixed", "embedding"}

ConfigType ==
  [language : Languages,
   prompt_cache_limit : Nat,
   prefix_cache : BOOLEAN,         \* of the tuning and of the session
   action_prompt_cache : BOOLEAN, prompt_kv_cache : BOOLEAN,
   graph_cache : BOOLEAN, force_cpu_scheduler : BOOLEAN,
   debug_dump : BOOLEAN, cuda : BOOLEAN, unrolled_denoise : BOOLEAN]

ASSUME GwpAssumption ==
  /\ Nothing \notin Prompts /\ Nothing # Failed
  /\ FixedPrompt \in Prompts
  /\ Steps \in Nat \ {0}
  /\ Configs \subseteq ConfigType
  /\ Fragile \subseteq Graphs \cup {"storage"}

VARIABLES
  config,
  stage,         \* where predict is; "idle" between calls, "dead" after the
                 \* process aborted
  request,       \* the argument of predict
  embedding,     \* prompt, the language embedding of this call
  prompt_cache,  \* most recently used first
  signature,     \* projected_prompt_signature
  storage,       \* prefix_storage: how far it was built, what it holds
  graph,         \* of each graph: absent, built without memory, or ready
  device,        \* action_input of the step graph
  action,        \* the host's action
  step,
  outcome,       \* of the last predict: Failed, its action, or Nothing yet
  starved        \* history: what memory was refused to since the last reset

cache == <<prompt_cache, signature, storage>>
vars == <<config, stage, request, embedding, cache, graph, device, action,
          step, outcome, starved>>

Requests == [observation : Observations, prompt : Prompts, noise : Noises]
Contexts == [observation : Observations, prompts : SUBSET (Prompts \cup {Nothing})]
Actions  == [noise : Noises, steps : 0..Steps, seen : SUBSET Contexts]

TypeOK ==
  /\ config \in Configs
  /\ stage \in {"idle", "vision", "prompt", "storage", "projection", "prefix",
                "denoise", "dead"}
  /\ request \in Requests \cup {Nothing}
  /\ embedding \in Prompts \cup {Nothing}
  /\ prompt_cache \in Seq([prompt : Prompts, embedding : Prompts])
  /\ signature \in Prompts \cup {Nothing}
  /\ storage \in [state : {"none", "hollow", "unallocated", "ready"},
                  prompt : Prompts \cup {Nothing},
                  prefix : Contexts \cup {Nothing}]
  /\ graph \in [Graphs -> {"none", "unallocated", "ready"}]
  /\ device \in Actions \cup {Nothing}
  /\ action \in Actions \cup {Nothing}
  /\ step \in 0..Steps
  /\ outcome \in Actions \cup {Nothing, Failed}
  /\ starved \subseteq Graphs \cup {"storage"}

NoStorage == [state |-> "none", prompt |-> Nothing, prefix |-> Nothing]

Init ==
  /\ config \in Configs
  /\ stage = "idle"
  /\ request = Nothing /\ embedding = Nothing
  /\ prompt_cache = <<>> /\ signature = Nothing /\ storage = NoStorage
  /\ graph = [g \in Graphs |-> "none"]
  /\ device = Nothing /\ action = Nothing /\ step = 0
  /\ outcome = Nothing
  /\ starved = {}

-----------------------------------------------------------------------------
(* What the configuration selects.                                         *)

UsePrefix  == config.cuda /\ config.prefix_cache /\ ~config.debug_dump
Capture    == config.debug_dump \/ ~config.graph_cache
PromptKv   == config.action_prompt_cache /\ config.prompt_kv_cache
Persistent == PromptKv /\ config.prompt_cache_limit # 0
OnHost     == ~config.cuda \/ config.force_cpu_scheduler
Unrolled   == UsePrefix /\ ~Capture /\ ~OnHost /\ config.unrolled_denoise

-----------------------------------------------------------------------------
(* Stages that end, and graphs that run.                                   *)

Fail == stage' = "idle" /\ outcome' = Failed

(* A failed ggml assertion or a bad pointer ends the process.              *)
Die == stage' = "dead" /\ UNCHANGED outcome

(* The graph is built, once.  cgraph is set before its tensors are given   *)
(* memory and stays set when they are not; what fails before it is set     *)
(* leaves nothing behind.                                                  *)
OutOfMemory(g) ==
  /\ graph[g] = "none" /\ g \in Fragile
  /\ Fail
  /\ \/ UNCHANGED <<graph, starved>>
     \/ /\ graph' = [graph EXCEPT ![g] = "unallocated"]
        /\ starved' = starved \cup {g}

(* It is then taken for built: setting an input without a buffer aborts.   *)
Unusable(g) == /\ graph[g] = "unallocated"
               /\ Die
               /\ UNCHANGED <<graph, starved>>

Runs(g) == /\ graph[g] # "unallocated"
           /\ graph' = [graph EXCEPT ![g] = "ready"]
           /\ UNCHANGED starved

(* No result: building, running or the checks around it fail.              *)
Breaks(g) == OutOfMemory(g) \/ Unusable(g) \/ (Runs(g) /\ Fail)

-----------------------------------------------------------------------------
(* predict.                                                                *)

Predict(r) ==
  /\ stage = "idle"
  /\ stage' = "vision"
  /\ request' = r
  /\ outcome' = Nothing
  /\ UNCHANGED <<config, embedding, cache, graph, device, action, step, starved>>

(* The state or the noise is not finite, a token is invalid, umt5 fails:   *)
(* the call ends and nothing has changed.                                  *)
Refuse ==
  /\ stage \in {"vision", "prompt"} \/ (stage = "denoise" /\ step = 0)
  /\ Fail
  /\ UNCHANGED <<config, request, embedding, cache, graph, device, action,
                 step, starved>>

Vision ==
  /\ stage = "vision"
  /\ \/ Runs("vae") /\ stage' = "prompt" /\ UNCHANGED outcome
     \/ Breaks("vae")
  /\ UNCHANGED <<config, request, embedding, cache, device, action, step>>

AfterPrompt == stage' = (IF UsePrefix THEN "storage" ELSE "denoise")

TakesEmbedding ==
  /\ config.language = "embedding"
  /\ embedding' = request.prompt
  /\ AfterPrompt /\ UNCHANGED <<prompt_cache, outcome>>

TakesFixed ==
  /\ config.language = "fixed"
  /\ IF request.prompt = FixedPrompt
       THEN embedding' = FixedPrompt /\ AfterPrompt /\ UNCHANGED outcome
       ELSE Fail /\ UNCHANGED embedding
  /\ UNCHANGED prompt_cache

Hits == {i \in 1..Len(prompt_cache) : prompt_cache[i].prompt = request.prompt}

(* get_cached_prompt: the entry moves to the front.                        *)
ToFront(i) == prompt_cache' = <<prompt_cache[i]>> \o RemoveAt(prompt_cache, i)

GetsCached ==
  /\ config.language = "tokens" /\ config.prompt_cache_limit # 0
  /\ \E i \in Hits : /\ \A j \in Hits : i <= j
                     /\ embedding' = prompt_cache[i].embedding
                     /\ ToFront(i)
  /\ AfterPrompt /\ UNCHANGED outcome

(* mutant: the entry is made before the embedding is computed *)
PutsEarly(entry) ==
  prompt_cache' = IF config.prompt_cache_limit = 0 THEN <<>>
                  ELSE <<[entry EXCEPT !.embedding = embedding]>>

(* mutant: one entry too many is kept *)
PutsOver(entry) ==
  LET all == <<entry>> \o prompt_cache
  IN  prompt_cache' = IF Len(all) > config.prompt_cache_limit + 1
                        THEN SubSeq(all, 1, config.prompt_cache_limit + 1) ELSE all

(* put_cached_prompt: the least recently used entries leave.               *)
Puts(entry) ==
  LET all == <<entry>> \o prompt_cache
      kept == IF Len(all) > config.prompt_cache_limit
                THEN config.prompt_cache_limit ELSE Len(all)
  IN  prompt_cache' = SubSeq(all, 1, kept)

RunsUmt5 ==
  /\ config.language = "tokens"
  /\ config.prompt_cache_limit = 0 \/ Hits = {}
  /\ embedding' = request.prompt
  /\ Puts([prompt |-> request.prompt, embedding |-> request.prompt])
  /\ AfterPrompt /\ UNCHANGED outcome

Prompt ==
  /\ stage = "prompt"
  /\ TakesEmbedding \/ TakesFixed \/ GetsCached \/ RunsUmt5
  /\ UNCHANGED <<config, request, signature, storage, graph, device, action,
                 step, starved>>

(* ensure_prefix_storage: whatever state it is in, storage that exists is  *)
(* taken for ready.                                                        *)
EnsureStorage ==
  /\ stage = "storage"
  /\ \/ /\ storage.state # "none"
        /\ stage' = "projection" /\ UNCHANGED <<storage, outcome, starved>>
     \/ /\ storage.state = "none"
        /\ storage' = [storage EXCEPT !.state = "ready"]
        /\ stage' = "projection" /\ UNCHANGED <<outcome, starved>>
     \/ /\ storage.state = "none" /\ "storage" \in Fragile
        /\ \E s \in {"hollow", "unallocated"} :
             storage' = [storage EXCEPT !.state = s]
        /\ starved' = starved \cup {"storage"}
        /\ Fail
  /\ UNCHANGED <<config, request, embedding, prompt_cache, signature, graph,
                 device, action, step>>

(* mutant: signed before it is computed *)
SignedAnyway == signature' = embedding /\ UNCHANGED storage

(* A projection that fails leaves the last one in place, and its signature.*)
Unprojected == UNCHANGED <<signature, storage>>

(* update_projected_prompt_cache: the signature says which prompt's        *)
(* projection storage holds, and is set last.                              *)
Project ==
  /\ stage = "projection"
  /\ \/ /\ ~Persistent \/ signature = embedding
        /\ stage' = "prefix"
        /\ UNCHANGED <<signature, storage, graph, outcome, starved>>
     \/ /\ Persistent /\ signature # embedding
        /\ \/ Breaks("projection") /\ Unprojected
           \/ /\ Runs("projection") /\ storage.state = "ready"
              /\ storage' = [storage EXCEPT !.prompt = embedding]
              /\ signature' = embedding
              /\ stage' = "prefix" /\ UNCHANGED outcome
           \/ /\ Runs("projection") /\ storage.state # "ready"
              /\ Die /\ Unprojected
  /\ UNCHANGED <<config, request, embedding, prompt_cache, device, action, step>>

(* build_prefix_cache from its graph on: the visual branch reads the       *)
(* prompt, the state branch the stored projection if there is one.         *)
PrefixContext ==
  [observation |-> request.observation,
   prompts |-> {embedding, IF Persistent THEN storage.prompt ELSE embedding}]

StoresPrefix ==
  storage' =
    [state |-> "ready", prefix |-> PrefixContext,
     prompt |-> IF config.action_prompt_cache /\ ~Persistent
                  THEN embedding ELSE storage.prompt]

BuildPrefix ==
  /\ stage = "prefix"
  /\ \/ Breaks("prefix") /\ UNCHANGED storage
     \/ /\ Runs("prefix") /\ storage.state = "ready"
        /\ StoresPrefix
        /\ stage' = "denoise" /\ UNCHANGED outcome
     \/ /\ Runs("prefix") /\ storage.state # "ready"
        /\ IF graph["prefix"] = "none" /\ storage.state = "hollow"
             THEN Fail       \* the layer counts are compared when building
             ELSE Die
        /\ UNCHANGED storage
  /\ UNCHANGED <<config, request, embedding, prompt_cache, signature, device,
                 action, step>>

-----------------------------------------------------------------------------
(* Denoising.                                                              *)

(* What a step attends to: prefix storage, or all of it again.             *)
Context ==
  IF UsePrefix
    THEN [observation |-> storage.prefix.observation,
          prompts |-> storage.prefix.prompts \cup
            {IF config.action_prompt_cache THEN storage.prompt ELSE embedding}]
    ELSE [observation |-> request.observation, prompts |-> {embedding}]

Fresh == [noise |-> request.noise, steps |-> 0, seen |-> {}]

Denoised(a) ==
  [noise |-> a.noise, steps |-> a.steps + 1, seen |-> a.seen \cup {Context}]

AllDenoised(a) ==
  [noise |-> a.noise, steps |-> Steps, seen |-> a.seen \cup {Context}]

(* The session may still refuse an action that is not finite.              *)
Answer(a) == /\ stage' = "idle" /\ outcome' \in {a, Failed} /\ step' = 0

(* run_unrolled_action_denoise: every step in one graph.                   *)
UnrolledDenoise ==
  /\ stage = "denoise" /\ Unrolled
  /\ \/ PromptKv /\ Breaks("unrolled") /\ UNCHANGED action /\ step' = 0
     \/ ~PromptKv /\ Fail /\ UNCHANGED <<graph, starved, action>> /\ step' = 0
     \/ /\ PromptKv /\ Runs("unrolled")
        /\ action' = AllDenoised(Fresh)
        /\ Answer(action')
  /\ UNCHANGED <<config, request, embedding, cache, device>>

StepGraph == IF UsePrefix THEN "cached" ELSE "mot"

HostAction == IF step = 0 THEN Fresh ELSE action

KeepsDevice == OnHost \/ graph[StepGraph] = "none"  \* mutant: not the first

(* The action goes up with the first step, and with every step if the host *)
(* runs the scheduler or the graph was built anew; otherwise it is already *)
(* on the device.                                                          *)
Uploads == step = 0 \/ OnHost \/ graph[StepGraph] = "none"

StepInput == IF Uploads THEN HostAction ELSE device

(* run_mot_step drops its graph after the step unless graphs are cached.   *)
AfterStep(g) ==
  /\ graph[g] # "unallocated"
  /\ graph' = [graph EXCEPT ![g] = IF g = "mot" /\ ~config.graph_cache
                                     THEN "none" ELSE "ready"]
  /\ UNCHANGED starved

ReadsBack == OnHost \/ Capture

StepBreaks ==
  /\ stage = "denoise" /\ ~Unrolled
  /\ Breaks(StepGraph)
  /\ device' = IF graph'[StepGraph] = "ready" THEN StepInput ELSE device
  /\ step' = 0
  /\ UNCHANGED <<config, request, embedding, cache, action>>

DenoiseStep ==
  /\ stage = "denoise" /\ ~Unrolled
  /\ AfterStep(StepGraph)
  /\ device' = Denoised(StepInput)
  /\ action' = IF ReadsBack \/ step + 1 = Steps THEN device' ELSE HostAction
  /\ IF step + 1 = Steps
       THEN Answer(action')
       ELSE step' = step + 1 /\ UNCHANGED <<stage, outcome>>
  /\ UNCHANGED <<config, request, embedding, cache>>

-----------------------------------------------------------------------------
(* ExecutionState::reset: every graph but the VAE's, and every cache.      *)
Dropped == {"projection", "prefix", "cached", "unrolled", "mot"}

Drops(gs) == graph' = [g \in Graphs |-> IF g \in gs THEN "none" ELSE graph[g]]

(* mutants: the graph that reads prefix_storage, or the one that fills it, *)
(* is forgotten                                                            *)
DropsNoReader == Drops(Dropped \ {"cached"})
DropsNoWriter == Drops(Dropped \ {"projection"})

DropGraphs == Drops(Dropped)

Reset ==
  /\ stage = "idle"
  /\ DropGraphs
  /\ prompt_cache' = <<>> /\ signature' = Nothing /\ storage' = NoStorage
  /\ device' = Nothing
  /\ starved' = starved \cap {"vae"}
  /\ UNCHANGED <<config, stage, request, embedding, action, step, outcome>>

Dead == stage = "dead" /\ UNCHANGED vars

Next ==
  \/ \E r \in Requests : Predict(r)
  \/ Refuse \/ Vision \/ Prompt \/ EnsureStorage \/ Project \/ BuildPrefix
  \/ UnrolledDenoise \/ StepBreaks \/ DenoiseStep
  \/ Reset \/ Dead

Spec == Init /\ [][Next]_vars

-----------------------------------------------------------------------------
(* Properties                                                              *)

(* A predict that succeeds answers its own request, whatever was cached by *)
(* earlier calls, failed or not, and whatever the configuration.           *)
FreshAnswer ==
  outcome \notin {Nothing, Failed} =>
    /\ outcome.noise = request.noise /\ outcome.steps = Steps
    /\ outcome.seen = {[observation |-> request.observation,
                        prompts |-> {request.prompt}]}

(* projected_prompt_signature never names a prompt whose projection        *)
(* storage does not hold, however a projection failed.                     *)
SignatureHonest ==
  signature # Nothing => storage.state = "ready" /\ storage.prompt = signature

(* The prompt cache is an LRU map: no prompt twice, never over its limit,  *)
(* every embedding the prompt's own.                                       *)
PromptCacheSound ==
  /\ Len(prompt_cache) <= config.prompt_cache_limit
  /\ \A i \in 1..Len(prompt_cache) :
       /\ prompt_cache[i].embedding = prompt_cache[i].prompt
       /\ \A j \in 1..Len(prompt_cache) :
            prompt_cache[i].prompt = prompt_cache[j].prompt => i = j

(* A graph that holds pointers into prefix_storage does not outlive it.    *)
GraphsInStorage ==
  \A g \in {"cached", "unrolled"} \cup (IF Persistent THEN {"prefix"} ELSE {}) :
    graph[g] # "none" => storage.state # "none"

(* The process aborts only in a session that was refused memory and not    *)
(* reset since: no order of calls and failures alone makes it use a graph  *)
(* or a storage it has not built.                                          *)
DiesOnlyStarved == stage = "dead" => starved # {}
=============================================================================
