---------------------------- MODULE LocalRuntime ----------------------------
(***************************************************************************)
(* Who owns the weights on the device, and for how long.  Python's Model   *)
(* and Session (src/python/wam/local.py) hold handles of the C ABI         *)
(* (src/bindings/c_api.cpp); behind a handle, wam::Model and wam::Session  *)
(* share one ModelImpl (src/model.cpp), and the GWP-0.5 ModelImpl and its  *)
(* sessions share one ModelResources, which owns the device, the three     *)
(* weight stores and the map from names to tensors inside them             *)
(* (src/models/gwp05/resources.cpp, weight_store.cpp).  A session copies   *)
(* that map when it is created and keeps raw pointers into the stores; the *)
(* fixed-prompt mode loads the text encoder, runs it once and unloads it.  *)
(*                                                                         *)
(* Any number of threads call; a call on a model that is loading is seen   *)
(* by no other thread until it returns, so one component is loaded in one  *)
(* step.  A caller does not close a session under its own call, which is   *)
(* what ServiceCore's NoFreeUnderCall shows of the server.                 *)
(***************************************************************************)
EXTENDS Naturals, Sequences, FiniteSetsExt

CONSTANTS
  Models,       \* Python Model objects
  Sessions,     \* Python Session objects
  Tensors,      \* names of the tensors in the artifact
  PrefixOf,     \* the component a name's prefix selects, or "other"
  BytesOf,      \* bytes of a component's buffer on the device
  Configs,      \* how models are loaded: backend and language mode
  Capacity      \* bytes of the device

Components == {"mot", "umt5", "vae"}

ASSUME TensorsAssumption ==
  /\ PrefixOf \in [Tensors -> Components \cup {"other"}]
  /\ BytesOf \in [Components -> Nat]

ASSUME NamesAssumption == Sessions \cap {"handle", "impl", "loader"} = {}

ASSUME ConfigsAssumption ==
  Configs \subseteq [backend : {"device", "null", "metadata"},
                     mode : {"tokens", "fixed", "external"}]

VARIABLES
  model,        \* of each Model: stage of its life, configuration, next step of its load
  resources,    \* of each Model: its ModelResources
  implOwners,   \* who holds its ModelImpl: the handle and sessions
  resOwners,    \* who holds its ModelResources: the loader or the impl, and sessions
  session,      \* of each Session: the copy it made and what it is doing
  device,       \* buffers on the device, as <<model, component>>
  high          \* most bytes of a model's buffers on the device at one time

vars == <<model, resources, implOwners, resOwners, session, device, high>>

-----------------------------------------------------------------------------
(* The resources of a model. *)
TensorsOf(c) == {t \in Tensors : PrefixOf[t] = c}

(* Bytes of components, of which some may hold none. *)
Total(bytes) == bytes["mot"] + bytes["umt5"] + bytes["vae"]

Resident(r) == Total([c \in Components |-> IF c \in r.loaded THEN r.bytes[c] ELSE 0])

NoResources ==
  [ backend |-> FALSE, stores |-> [c \in Components |-> {}], weights |-> {},
    loaded |-> {}, bytes |-> [c \in Components |-> 0],
    resident |-> 0, peak |-> 0, text |-> FALSE, fixed |-> FALSE ]

(* Mutant: the peak forgets what was held before. *)
RefreshWithoutPeak(r) ==
  [r EXCEPT !.resident = Resident(r), !.peak = Resident(r), !.text = "umt5" \in r.loaded]

RefreshTelemetry(r) ==
  [r EXCEPT !.resident = Resident(r),
            !.peak = IF Resident(r) > @ THEN Resident(r) ELSE @,
            !.text = "umt5" \in r.loaded]

(* Mutant: the store goes, its names stay in the map. *)
UnloadStoreOnly(r, c) ==
  RefreshTelemetry([r EXCEPT !.stores[c] = {}, !.loaded = @ \ {c}, !.bytes[c] = 0])

UnloadComponent(r, c) ==
  IF c \notin r.loaded /\ r.stores[c] = {} THEN r
  ELSE RefreshTelemetry(
         [r EXCEPT !.weights = {t \in @ : PrefixOf[t] # c},
                   !.stores[c] = {}, !.loaded = @ \ {c}, !.bytes[c] = 0])

(* The names T are defined in a store of c and entered in the map. *)
Define(r, c, T) ==
  [r EXCEPT !.stores[c] = T, !.weights = @ \cup T]

LoadedComponent(r, c) ==
  RefreshTelemetry(
    [Define(r, c, TensorsOf(c)) EXCEPT !.loaded = @ \cup {c},
                                       !.bytes[c] = BytesOf[c]])

(* A load that fails: no tensor has the prefix, there is no backend to     *)
(* build a store on, a tensor cannot be defined, or (with all of them      *)
(* defined) the buffer cannot be had or a payload cannot be read.          *)
FailedLoads(r, c) ==
  IF TensorsOf(c) = {} THEN {r}
  ELSE IF ~r.backend THEN {UnloadComponent(r, c)}
  ELSE {UnloadComponent(Define(r, c, T), c) : T \in SUBSET TensorsOf(c)}

CanLoad(r, c) == r.backend /\ TensorsOf(c) # {}

-----------------------------------------------------------------------------
(* A load, in the order load_model_resources takes its steps. *)
LoadSteps ==
  [ tokens |-> << <<"load", "mot">>, <<"load", "umt5">>, <<"load", "vae">> >>,
    fixed |-> << <<"load", "umt5">>, <<"encode", "umt5">>, <<"unload", "umt5">>,
                 <<"load", "mot">>, <<"load", "vae">> >>,
    external |-> << <<"load", "mot">>, <<"load", "vae">> >> ]

(* The components a session runs on. *)
Runs(mode) == IF mode = "tokens" THEN Components ELSE {"mot", "vae"}

NoSession ==
  [ stage |-> "none", model |-> "none", weights |-> {}, loaded |-> {},
    resident |-> 0, peak |-> 0, uses |-> {}, running |-> FALSE ]

Init ==
  /\ model = [m \in Models |-> [stage |-> "none", config |-> <<>>, next |-> 1]]
  /\ resources = [m \in Models |-> NoResources]
  /\ implOwners = [m \in Models |-> {}]
  /\ resOwners = [m \in Models |-> {}]
  /\ session = [s \in Sessions |-> NoSession]
  /\ device = {}
  /\ high = [m \in Models |-> 0]

BuffersOf(m) == {b \in device : b[1] = m}
HeldOf(m, buffers) ==
  Total([c \in Components |-> IF <<m, c>> \in buffers THEN BytesOf[c] ELSE 0])
Held(buffers) == MapThenSumSet(LAMBDA m : HeldOf(m, buffers), Models)

(* The last owner of a ModelResources frees its stores and its backend;    *)
(* the last owner of a ModelImpl lets go of its ModelResources.            *)
Release(m, impl, res) ==
  LET left == IF impl = {} THEN res \ {"impl"} ELSE res IN
    /\ implOwners' = [implOwners EXCEPT ![m] = impl]
    /\ resOwners' = [resOwners EXCEPT ![m] = left]
    /\ \/ left # {} /\ UNCHANGED <<resources, device>>
       \/ /\ left = {}
          /\ resources' = [resources EXCEPT ![m] = NoResources]
          /\ device' = device \ BuffersOf(m)
    /\ UNCHANGED high

SetStage(m, stage) == model' = [model EXCEPT ![m].stage = stage]

-----------------------------------------------------------------------------
(* wam_c_model_create, up to the backend.  A metadata-only model has no    *)
(* resources; Backend::cpu selects no backend and is not refused for it.   *)
Create(m) ==
  \E config \in Configs :
    /\ model[m].stage = "none"
    /\ IF config.backend = "metadata"
       THEN /\ model' = [model EXCEPT ![m] =
                           [stage |-> "created", config |-> config, next |-> 1]]
            /\ implOwners' = [implOwners EXCEPT ![m] = {"handle"}]
            /\ UNCHANGED <<resources, resOwners>>
       ELSE /\ \E stage \in {"loading", "throwing"} :
                 model' = [model EXCEPT ![m] =
                             [stage |-> stage, config |-> config, next |-> 1]]
            /\ resources' = [resources EXCEPT ![m].backend = (config.backend = "device")]
            /\ resOwners' = [resOwners EXCEPT ![m] = {"loader"}]
            /\ UNCHANGED implOwners
    /\ UNCHANGED <<session, device, high>>

StepsOf(m) == LoadSteps[model[m].config.mode]
ComponentOf(m) == StepsOf(m)[model[m].next][2]

Loading(m, step) ==
  /\ model[m].stage = "loading"
  /\ model[m].next <= Len(StepsOf(m)) /\ StepsOf(m)[model[m].next][1] = step

NextStep(m) == model' = [model EXCEPT ![m].next = @ + 1]

LoadComponent(m) ==
  /\ Loading(m, "load")
  /\ LET c == ComponentOf(m)
         buffers == BuffersOf(m) \cup {<<m, c>>} IN
       /\ CanLoad(resources[m], c)
       /\ Held(device \cup buffers) <= Capacity
       /\ resources' = [resources EXCEPT ![m] = LoadedComponent(@, c)]
       /\ device' = device \cup buffers
       /\ high' = [high EXCEPT ![m] =
                     IF HeldOf(m, buffers) > @ THEN HeldOf(m, buffers) ELSE @]
  /\ NextStep(m)
  /\ UNCHANGED <<implOwners, resOwners, session>>

LoadComponentFails(m) ==
  /\ Loading(m, "load")
  /\ LET c == ComponentOf(m) IN
       \E r \in FailedLoads(resources[m], c) :
         /\ resources' = [resources EXCEPT ![m] = r]
         /\ device' = {b \in device : b[1] = m => r.stores[b[2]] # {}}
  /\ SetStage(m, "throwing")
  /\ UNCHANGED <<implOwners, resOwners, session, high>>

(* run_umt5 of the fixed prompt: its graph is its own and is gone after. *)
EncodeFixedPrompt(m) ==
  /\ Loading(m, "encode")
  /\ \/ /\ "umt5" \in resources[m].loaded
        /\ resources' = [resources EXCEPT ![m].fixed = TRUE]
        /\ NextStep(m)
     \/ SetStage(m, "throwing") /\ UNCHANGED resources
  /\ UNCHANGED <<implOwners, resOwners, session, device, high>>

UnloadEncoder(m) ==
  /\ Loading(m, "unload")
  /\ LET r == UnloadComponent(resources[m], "umt5") IN
       /\ resources' = [resources EXCEPT ![m] = r]
       /\ device' = {b \in device : b[1] = m => r.stores[b[2]] # {}}
  /\ NextStep(m)
  /\ UNCHANGED <<implOwners, resOwners, session, high>>

(* An exception leaves load_model_resources with the only reference. *)
LoadThrows(m) ==
  /\ model[m].stage = "throwing"
  /\ SetStage(m, "closed")
  /\ Release(m, {}, {})
  /\ UNCHANGED session

ModelCreated(m) ==
  /\ model[m].stage = "loading" /\ model[m].next > Len(StepsOf(m))
  /\ SetStage(m, "created")
  /\ Release(m, {"handle"}, {"impl"})
  /\ UNCHANGED session

(* The rest of Model.__init__: the metadata are read, or the model is      *)
(* closed again.                                                           *)
ModelOpens(m) ==
  /\ model[m].stage = "created"
  /\ SetStage(m, "open")
  /\ UNCHANGED <<resources, implOwners, resOwners, session, device, high>>

CloseModel(m) ==
  /\ model[m].stage \in {"created", "open"}
  /\ SetStage(m, "closed")
  /\ Release(m, implOwners[m] \ {"handle"}, resOwners[m])
  /\ UNCHANGED session

-----------------------------------------------------------------------------
(* Sessions.  A model without resources refuses one. *)
CreateSession(s, m) ==
  /\ session[s].stage = "none"
  /\ model[m].stage = "open" /\ model[m].config.backend # "metadata"
  /\ session' = [session EXCEPT ![s] =
       [ stage |-> "open", model |-> m, weights |-> resources[m].weights,
         loaded |-> resources[m].loaded, resident |-> resources[m].resident,
         peak |-> resources[m].peak, uses |-> {}, running |-> FALSE ]]
  /\ implOwners' = [implOwners EXCEPT ![m] = @ \cup {s}]
  /\ resOwners' = [resOwners EXCEPT ![m] = @ \cup {s}]
  /\ UNCHANGED <<model, resources, device, high>>

Idle(s) == session[s].stage = "open" /\ ~session[s].running

(* The execution mutex of a model's resources is free. *)
ExecutionFree(m) == \A s \in Sessions : session[s].model = m => ~session[s].running

(* predict: the call and the graphs it keeps point into the stores. *)
PredictStarts(s) ==
  /\ Idle(s) /\ ExecutionFree(session[s].model)
  /\ session' = [session EXCEPT ![s].running = TRUE,
                                ![s].uses = Runs(model[session[s].model].config.mode)]
  /\ UNCHANGED <<model, resources, implOwners, resOwners, device, high>>

PredictEnds(s) ==
  /\ session[s].running
  /\ \E kept \in SUBSET {"mot", "vae"} :
       session' = [session EXCEPT ![s].running = FALSE, ![s].uses = kept]
  /\ UNCHANGED <<model, resources, implOwners, resOwners, device, high>>

(* reset keeps the VAE's graph. *)
Reset(s) ==
  /\ Idle(s) /\ ExecutionFree(session[s].model)
  /\ session' = [session EXCEPT ![s].uses = @ \cap {"vae"}]
  /\ UNCHANGED <<model, resources, implOwners, resOwners, device, high>>

(* wam_c_session_free: members are destroyed in the reverse of their       *)
(* order, the session's state (graphs, then its map) before its            *)
(* references to the resources and to the model.                           *)
CloseSession(s) ==
  /\ Idle(s)
  /\ session' = [session EXCEPT ![s].stage = "closing", ![s].weights = {},
                                ![s].uses = {}]
  /\ UNCHANGED <<model, resources, implOwners, resOwners, device, high>>

SessionReleases(s) ==
  /\ session[s].stage = "closing"
  /\ session' = [session EXCEPT ![s] = NoSession]
  /\ LET m == session[s].model IN
       Release(m, implOwners[m] \ {s}, resOwners[m] \ {s})
  /\ UNCHANGED model

-----------------------------------------------------------------------------
Next ==
  \/ \E m \in Models :
       \/ Create(m) \/ LoadComponent(m) \/ LoadComponentFails(m)
       \/ EncodeFixedPrompt(m) \/ UnloadEncoder(m) \/ LoadThrows(m)
       \/ ModelCreated(m) \/ ModelOpens(m) \/ CloseModel(m)
  \/ \E s \in Sessions :
       \/ \E m \in Models : CreateSession(s, m)
       \/ PredictStarts(s) \/ PredictEnds(s) \/ Reset(s)
       \/ CloseSession(s) \/ SessionReleases(s)

Spec == Init /\ [][Next]_vars

-----------------------------------------------------------------------------
(* No name points into a store that is gone, neither in a model's map, at  *)
(* any point of a load that fails or unloads, nor in the copy of a session *)
(* whose model was closed first; and a session finds on the device every   *)
(* weight its calls and graphs use, and not the encoder it does without.   *)
WeightsAlive ==
  /\ \A m \in Models : \A t \in resources[m].weights :
       PrefixOf[t] \in Components /\ t \in resources[m].stores[PrefixOf[t]]
  /\ \A s \in Sessions : session[s].stage = "open" =>
       LET r == resources[session[s].model] IN
         /\ session[s].weights = r.weights
         /\ session[s].weights =
              UNION {TensorsOf(c) : c \in Runs(model[session[s].model].config.mode)}
         /\ \A c \in session[s].uses : r.stores[c] = TensorsOf(c)

(* What the device holds is what somebody owns and what is reported: a     *)
(* load that failed, at whatever step, and a model and sessions closed in  *)
(* whatever order leave nothing behind; the resident bytes a model and its *)
(* sessions report are those of its buffers, the peak is the most it ever  *)
(* held, and the text encoder is resident when it says so.                 *)
DeviceAccounted ==
  /\ device = {b \in Models \X Components : resources[b[1]].stores[b[2]] # {}}
  /\ \A m \in Models :
       LET r == resources[m] IN
         /\ BuffersOf(m) # {} =>
              model[m].stage \in {"loading", "throwing", "created", "open"}
                \/ \E s \in Sessions : session[s].model = m
         /\ r.resident = HeldOf(m, device)
         /\ r.text = (<<m, "umt5">> \in device)
         /\ model[m].stage \in {"created", "open"} /\ r.backend => r.peak = high[m]
  /\ \A s \in Sessions : session[s].stage = "open" =>
       LET r == resources[session[s].model] IN
         session[s].resident = r.resident /\ session[s].peak = r.peak
=============================================================================
