------------------------- MODULE LocalRuntimeProofs -------------------------
(***************************************************************************)
(* Whatever the artifact, the configurations and the number of models and  *)
(* sessions, no name in a map of weights points into a store that is gone  *)
(* (LocalRuntime's WeightsAlive).  The argument: what a model has loaded   *)
(* is decided by how far its load has come, its map and its stores agree   *)
(* with what it has loaded, and a session keeps its model's resources from *)
(* being freed, because it is one of their owners.                         *)
(***************************************************************************)
EXTENDS LocalRuntime, TLAPS

Fields == {"backend", "stores", "weights", "loaded", "bytes", "resident", "peak", "text", "fixed"}

Shaped(r) ==
  /\ r = [f \in Fields |-> r[f]]
  /\ r.stores \in [Components -> SUBSET Tensors]
  /\ r.loaded \subseteq Components

(* Map and stores agree with what is loaded. *)
Good(r) ==
  /\ Shaped(r)
  /\ \A t : t \in r.weights <=> t \in Tensors /\ PrefixOf[t] \in r.loaded
  /\ \A c \in Components : r.stores[c] = IF c \in r.loaded THEN TensorsOf(c) ELSE {}

-----------------------------------------------------------------------------
(* The operations on a model's resources. *)
LEMMA RefreshKeeps ==
  ASSUME NEW r, Shaped(r)
  PROVE  LET n == RefreshTelemetry(r) IN
           /\ Shaped(n) /\ n.weights = r.weights /\ n.stores = r.stores
           /\ n.loaded = r.loaded /\ n.backend = r.backend
BY DEF RefreshTelemetry, Shaped, Fields

LEMMA DefineMakes ==
  ASSUME NEW r, Good(r), NEW c \in Components, NEW T \in SUBSET TensorsOf(c)
  PROVE  LET n == Define(r, c, T) IN
           /\ Shaped(n) /\ n.weights = r.weights \cup T
           /\ n.stores = [r.stores EXCEPT ![c] = T]
           /\ n.loaded = r.loaded /\ n.backend = r.backend
BY DEF Define, Good, Shaped, Fields, TensorsOf

(* Unloading makes the rest agree, also after some names were defined. *)
LEMMA UnloadMakesGood ==
  ASSUME NEW r, Good(r), NEW c \in Components, NEW T \in SUBSET TensorsOf(c),
         NEW d, d = r \/ (c \notin r.loaded /\ d = Define(r, c, T))
  PROVE  LET n == UnloadComponent(d, c) IN
           /\ Good(n) /\ n.loaded = r.loaded \ {c} /\ n.backend = r.backend
<1>1. /\ Shaped(d) /\ d.loaded = r.loaded /\ d.backend = r.backend
      /\ \A t : PrefixOf[t] # c => (t \in d.weights <=> t \in r.weights)
      /\ \A k \in Components \ {c} : d.stores[k] = r.stores[k]
      /\ d.weights \subseteq Tensors
      /\ d.stores[c] = {} /\ c \notin d.loaded => \A t \in d.weights : PrefixOf[t] # c
  <2>1. CASE d = r
    BY <2>1 DEF Good
  <2>2. CASE c \notin r.loaded /\ d = Define(r, c, T)
    <3>1. /\ Shaped(d) /\ d.weights = r.weights \cup T
          /\ d.stores = [r.stores EXCEPT ![c] = T]
          /\ d.loaded = r.loaded /\ d.backend = r.backend
      BY <2>2, DefineMakes
    <3>2. \A t \in T : t \in Tensors /\ PrefixOf[t] = c
      BY DEF TensorsOf
    <3>3. \A t \in r.weights : t \in Tensors /\ PrefixOf[t] # c
      BY <2>2 DEF Good
    <3>4. \A k \in Components \ {c} : d.stores[k] = r.stores[k]
      BY <3>1 DEF Good, Shaped
    <3>5. d.stores[c] = T
      BY <3>1 DEF Good, Shaped
    <3>6. QED
      BY <3>1, <3>2, <3>3, <3>4, <3>5
  <2>3. QED
    BY <2>1, <2>2
<1>2. CASE c \notin d.loaded /\ d.stores[c] = {}
  <2>1. UnloadComponent(d, c) = d
    BY <1>2 DEF UnloadComponent
  <2>2. QED
    <3>1. \A t : t \in d.weights <=> t \in r.weights
      BY <1>1, <1>2 DEF Good
    <3>2. \A k \in Components : d.stores[k] = IF k \in d.loaded THEN TensorsOf(k) ELSE {}
      BY <1>1, <1>2 DEF Good
    <3>3. Good(d) /\ d.loaded = r.loaded \ {c}
      BY <1>1, <1>2, <3>1, <3>2 DEF Good
    <3>4. QED
      BY <1>1, <2>1, <3>3
<1>3. CASE ~(c \notin d.loaded /\ d.stores[c] = {})
  <2> DEFINE e == [d EXCEPT !.weights = {t \in @ : PrefixOf[t] # c},
                            !.stores[c] = {}, !.loaded = @ \ {c}, !.bytes[c] = 0]
  <2>1. UnloadComponent(d, c) = RefreshTelemetry(e)
    BY <1>3 DEF UnloadComponent
  <2>2. /\ Shaped(e) /\ e.weights = {t \in d.weights : PrefixOf[t] # c}
        /\ e.stores = [d.stores EXCEPT ![c] = {}]
        /\ e.loaded = d.loaded \ {c} /\ e.backend = d.backend
    BY <1>1 DEF Shaped, Fields
  <2> HIDE DEF e
  <2>3. LET n == RefreshTelemetry(e) IN
           /\ Shaped(n) /\ n.weights = e.weights /\ n.stores = e.stores
           /\ n.loaded = e.loaded /\ n.backend = e.backend
    BY <2>2, RefreshKeeps
  <2> DEFINE n == RefreshTelemetry(e)
  <2>4. /\ Shaped(n) /\ n.weights = {t \in d.weights : PrefixOf[t] # c}
        /\ n.stores = [d.stores EXCEPT ![c] = {}]
        /\ n.loaded = d.loaded \ {c} /\ n.backend = d.backend
    BY <2>2, <2>3
  <2> HIDE DEF n
  <2>5. \A t : t \in n.weights <=> t \in Tensors /\ PrefixOf[t] \in n.loaded
    BY <1>1, <2>4 DEF Good
  <2>6. \A k \in Components : n.stores[k] = IF k \in n.loaded THEN TensorsOf(k) ELSE {}
    BY <1>1, <2>4 DEF Good, Shaped
  <2>7. Good(n)
    BY <2>4, <2>5, <2>6 DEF Good
  <2>8. n = UnloadComponent(d, c)
    BY <2>1 DEF n
  <2>9. QED
    BY <1>1, <2>4, <2>7, <2>8
<1>4. QED
  BY <1>2, <1>3

LEMMA LoadMakesGood ==
  ASSUME NEW r, Good(r), NEW c \in Components
  PROVE  LET n == LoadedComponent(r, c) IN
           /\ Good(n) /\ n.loaded = r.loaded \cup {c} /\ n.backend = r.backend
<1> DEFINE d == Define(r, c, TensorsOf(c))
           e == [d EXCEPT !.loaded = @ \cup {c}, !.bytes[c] = BytesOf[c]]
<1>1. /\ Shaped(d) /\ d.weights = r.weights \cup TensorsOf(c)
      /\ d.stores = [r.stores EXCEPT ![c] = TensorsOf(c)]
      /\ d.loaded = r.loaded /\ d.backend = r.backend
  BY DefineMakes
<1>2. LoadedComponent(r, c) = RefreshTelemetry(e)
  BY DEF LoadedComponent
<1> HIDE DEF d
<1>3. /\ Shaped(e) /\ e.weights = d.weights /\ e.stores = d.stores
      /\ e.loaded = d.loaded \cup {c} /\ e.backend = d.backend
  BY <1>1 DEF Shaped, Fields
<1> HIDE DEF e
<1>4. LET n == RefreshTelemetry(e) IN
         /\ Shaped(n) /\ n.weights = e.weights /\ n.stores = e.stores
         /\ n.loaded = e.loaded /\ n.backend = e.backend
  BY <1>3, RefreshKeeps
<1> DEFINE n == RefreshTelemetry(e)
<1>5. /\ Shaped(n) /\ n.weights = r.weights \cup TensorsOf(c)
      /\ n.stores = [r.stores EXCEPT ![c] = TensorsOf(c)]
      /\ n.loaded = r.loaded \cup {c} /\ n.backend = r.backend
  BY <1>1, <1>3, <1>4
<1> HIDE DEF n
<1>6. \A t : t \in n.weights <=> t \in Tensors /\ PrefixOf[t] \in n.loaded
  BY <1>5 DEF Good, TensorsOf
<1>7. \A k \in Components : n.stores[k] = IF k \in n.loaded THEN TensorsOf(k) ELSE {}
  BY <1>5 DEF Good, Shaped
<1>8. Good(n)
  BY <1>5, <1>6, <1>7 DEF Good
<1>9. n = LoadedComponent(r, c)
  BY <1>2 DEF n
<1>10. QED
  BY <1>5, <1>8, <1>9

LEMMA NothingIsGood == Good(NoResources) /\ NoResources.loaded = {}
BY DEF Good, Shaped, NoResources, Fields

LEMMA FailuresAreGood ==
  ASSUME NEW r, Good(r), NEW c \in Components, c \notin r.loaded,
         NEW n \in FailedLoads(r, c)
  PROVE  Good(n)
<1>1. CASE n = r
  BY <1>1
<1>2. CASE n = UnloadComponent(r, c)
  BY <1>2, UnloadMakesGood
<1>3. CASE \E T \in SUBSET TensorsOf(c) : n = UnloadComponent(Define(r, c, T), c)
  BY <1>3, UnloadMakesGood
<1>4. QED
  BY <1>1, <1>2, <1>3 DEF FailedLoads

-----------------------------------------------------------------------------
(* The inductive invariant. *)
LoadedBefore ==
  [ tokens |-> << {}, {"mot"}, {"mot", "umt5"}, {"mot", "umt5", "vae"} >>,
    fixed |-> << {}, {"umt5"}, {"umt5"}, {}, {"mot"}, {"mot", "vae"} >>,
    external |-> << {}, {"mot"}, {"mot", "vae"} >> ]

Stages == {"none", "loading", "throwing", "created", "open", "closed"}
SessionFields ==
  {"stage", "model", "weights", "loaded", "resident", "peak", "uses", "running"}

Shapes ==
  /\ model \in [Models -> [stage : Stages, config : Configs \cup {<<>>}, next : Nat]]
  /\ resources = [m \in Models |-> resources[m]]
  /\ implOwners = [m \in Models |-> implOwners[m]]
  /\ resOwners = [m \in Models |-> resOwners[m]]
  /\ session = [s \in Sessions |-> session[s]]
  /\ \A s \in Sessions : session[s] = [f \in SessionFields |-> session[s][f]]

HasRun(m) == resources[m].loaded = Runs(model[m].config.mode)

ModelInv(m) ==
  /\ Good(resources[m])
  /\ model[m].stage = "none" => resources[m] = NoResources
  /\ model[m].stage = "loading" =>
       /\ model[m].config \in Configs
       /\ model[m].next \in 1..(Len(StepsOf(m)) + 1)
       /\ resources[m].loaded = LoadedBefore[model[m].config.mode][model[m].next]
  /\ model[m].stage \in {"created", "open"} =>
       /\ model[m].config \in Configs
       /\ model[m].config.backend # "metadata" =>
            "impl" \in resOwners[m] /\ "handle" \in implOwners[m] /\ HasRun(m)

SessionInv(s) ==
  /\ session[s].stage \in {"none", "open", "closing"}
  /\ session[s].stage # "none" =>
       /\ session[s].model \in Models
       /\ s \in implOwners[session[s].model] /\ s \in resOwners[session[s].model]
       /\ model[session[s].model].stage \in {"open", "closed"}
       /\ model[session[s].model].config \in Configs
       /\ HasRun(session[s].model)
  /\ session[s].stage = "open" =>
       /\ session[s].weights = resources[session[s].model].weights
       /\ session[s].uses \subseteq Runs(model[session[s].model].config.mode)
  /\ session[s].running => session[s].stage = "open"

Inv ==
  /\ Shapes
  /\ \A m \in Models : ModelInv(m)
  /\ \A s \in Sessions : SessionInv(s)

LEMMA InvInit == Init => Inv
<1> SUFFICES ASSUME Init PROVE Inv
  OBVIOUS
<1>1. Shapes
  BY DEF Init, Shapes, Stages, NoSession, SessionFields
<1>2. \A m \in Models : ModelInv(m)
  BY NothingIsGood DEF Init, ModelInv
<1>3. \A s \in Sessions : SessionInv(s)
  BY DEF Init, SessionInv, NoSession
<1>4. QED
  BY <1>1, <1>2, <1>3 DEF Inv

LEMMA InvImplies == Inv => WeightsAlive
<1> SUFFICES ASSUME Inv PROVE WeightsAlive
  OBVIOUS
<1>1. ASSUME NEW m \in Models, NEW t \in resources[m].weights
      PROVE  PrefixOf[t] \in Components /\ t \in resources[m].stores[PrefixOf[t]]
  <2>1. Good(resources[m])
    BY DEF Inv, ModelInv
  <2>2. t \in Tensors /\ PrefixOf[t] \in resources[m].loaded
    BY <1>1, <2>1 DEF Good
  <2>3. resources[m].stores[PrefixOf[t]] = TensorsOf(PrefixOf[t]) /\ PrefixOf[t] \in Components
    BY <2>1, <2>2 DEF Good, Shaped
  <2>4. QED
    BY <2>2, <2>3 DEF TensorsOf
<1>2. ASSUME NEW s \in Sessions, session[s].stage = "open"
      PROVE  LET r == resources[session[s].model] IN
               /\ session[s].weights = r.weights
               /\ session[s].weights =
                    UNION {TensorsOf(c) : c \in Runs(model[session[s].model].config.mode)}
               /\ \A c \in session[s].uses : r.stores[c] = TensorsOf(c)
  <2> DEFINE m == session[s].model
             mode == model[m].config.mode
  <2>1. /\ m \in Models /\ Good(resources[m]) /\ resources[m].loaded = Runs(mode)
        /\ session[s].weights = resources[m].weights
        /\ session[s].uses \subseteq Runs(mode)
    BY <1>2 DEF Inv, ModelInv, SessionInv, HasRun
  <2> HIDE DEF m, mode
  <2>2. resources[m].weights = UNION {TensorsOf(c) : c \in Runs(mode)}
    BY <2>1 DEF Good, TensorsOf
  <2>3. \A c \in session[s].uses : resources[m].stores[c] = TensorsOf(c)
    BY <2>1 DEF Good, Runs, Components
  <2>4. QED
    BY <2>1, <2>2, <2>3 DEF m, mode
<1>3. QED
  BY <1>1, <1>2 DEF WeightsAlive

(* What is left after somebody lets go of a model. *)
LEMMA ReleaseKeeps ==
  ASSUME Inv, NEW m \in Models, NEW impl, NEW res, Release(m, impl, res)
  PROVE  /\ resources' = [k \in Models |-> resources'[k]]
         /\ implOwners' = [implOwners EXCEPT ![m] = impl]
         /\ resOwners' = [k \in Models |-> resOwners'[k]]
         /\ \A k \in Models \ {m} :
              resources'[k] = resources[k] /\ resOwners'[k] = resOwners[k]
         /\ Good(resources'[m])
         /\ \A x \in res : x # "impl" \/ impl # {} =>
              x \in resOwners'[m] /\ resources'[m] = resources[m]
<1> DEFINE left == IF impl = {} THEN res \ {"impl"} ELSE res
<1>1. /\ implOwners' = [implOwners EXCEPT ![m] = impl]
      /\ resOwners' = [resOwners EXCEPT ![m] = left]
      /\ \/ left # {} /\ resources' = resources
         \/ left = {} /\ resources' = [resources EXCEPT ![m] = NoResources]
  BY DEF Release
<1>2. /\ resources = [k \in Models |-> resources[k]]
      /\ resOwners = [k \in Models |-> resOwners[k]]
      /\ Good(resources[m])
  BY DEF Inv, Shapes, ModelInv
<1>3. \A x \in res : x # "impl" \/ impl # {} => x \in left
  OBVIOUS
<1> HIDE DEF left
<1>4. QED
  BY <1>1, <1>2, <1>3, NothingIsGood

-----------------------------------------------------------------------------
(* Steps of a load.  No session is on a model that has not opened. *)
LEMMA NobodyYet ==
  ASSUME Inv, NEW m \in Models, model[m].stage \notin {"open", "closed"},
         NEW s \in Sessions, session[s].stage # "none"
  PROVE  session[s].model \in Models \ {m}
BY DEF Inv, SessionInv

(* A step that touches one model, on which nobody is, keeps the rest. *)
LEMMA OthersKept ==
  ASSUME Inv, NEW m \in Models, UNCHANGED session,
         \A s \in Sessions : session[s].stage # "none" => session[s].model # m,
         \A k \in Models \ {m} :
           /\ model'[k] = model[k] /\ resources'[k] = resources[k]
           /\ implOwners'[k] = implOwners[k] /\ resOwners'[k] = resOwners[k]
  PROVE  /\ \A k \in Models \ {m} : ModelInv(k)'
         /\ \A s \in Sessions : SessionInv(s)'
<1>1. ASSUME NEW k \in Models \ {m} PROVE ModelInv(k)'
  <2>1. /\ ModelInv(k)
        /\ model'[k] = model[k] /\ resources'[k] = resources[k]
        /\ implOwners'[k] = implOwners[k] /\ resOwners'[k] = resOwners[k]
    BY DEF Inv
  <2>2. QED
    BY <2>1 DEF ModelInv, HasRun, StepsOf
<1>2. ASSUME NEW s \in Sessions PROVE SessionInv(s)'
  <2>1. CASE session[s].stage = "none"
    BY <2>1 DEF Inv, SessionInv
  <2>2. CASE session[s].stage # "none"
    <3> DEFINE k == session[s].model
    <3>1. /\ SessionInv(s) /\ k \in Models \ {m}
      BY <2>2 DEF Inv, SessionInv
    <3>2. /\ model'[k] = model[k] /\ resources'[k] = resources[k]
          /\ implOwners'[k] = implOwners[k] /\ resOwners'[k] = resOwners[k]
      BY <3>1
    <3>3. QED
      BY <3>1, <3>2 DEF SessionInv, HasRun
  <2>3. QED
    BY <2>1, <2>2
<1>3. QED
  BY <1>1, <1>2

(* A load's steps one by one, in each language mode. *)
LEMMA StepsLoad ==
  ASSUME NEW mode \in {"tokens", "fixed", "external"}
  PROVE  /\ Len(LoadSteps[mode]) \in Nat \ {0}
         /\ LoadedBefore[mode][1] = {}
         /\ LoadedBefore[mode][Len(LoadSteps[mode]) + 1] = Runs(mode)
         /\ \A n \in 1..Len(LoadSteps[mode]) :
              LET op == LoadSteps[mode][n]
                  before == LoadedBefore[mode][n]
                  after == LoadedBefore[mode][n + 1] IN
                /\ op[2] \in Components
                /\ op[1] = "load" => op[2] \notin before /\ after = before \cup {op[2]}
                /\ op[1] = "encode" => after = before
                /\ op[1] = "unload" => after = before \ {"umt5"}
<1>1. CASE mode = "tokens"
  BY <1>1 DEF LoadSteps, LoadedBefore, Runs, Components
<1>2. CASE mode = "fixed"
  BY <1>2 DEF LoadSteps, LoadedBefore, Runs, Components
<1>3. CASE mode = "external"
  BY <1>3 DEF LoadSteps, LoadedBefore, Runs, Components
<1>4. QED
  BY <1>1, <1>2, <1>3

LEMMA ConfigModes ==
  ASSUME NEW config \in Configs
  PROVE  config.mode \in {"tokens", "fixed", "external"}
BY ConfigsAssumption

LEMMA CreateStep ==
  ASSUME Inv, NEW m \in Models, Create(m)
  PROVE  Inv'
<1>1. PICK config \in Configs :
        /\ model[m].stage = "none"
        /\ \/ /\ config.backend = "metadata"
              /\ model' = [model EXCEPT ![m] =
                             [stage |-> "created", config |-> config, next |-> 1]]
              /\ implOwners' = [implOwners EXCEPT ![m] = {"handle"}]
              /\ UNCHANGED <<resources, resOwners>>
           \/ /\ config.backend # "metadata"
              /\ \E stage \in {"loading", "throwing"} :
                   model' = [model EXCEPT ![m] =
                               [stage |-> stage, config |-> config, next |-> 1]]
              /\ resources' = [resources EXCEPT ![m].backend = (config.backend = "device")]
              /\ resOwners' = [resOwners EXCEPT ![m] = {"loader"}]
              /\ UNCHANGED implOwners
        /\ UNCHANGED session
  BY DEF Create
<1>2. Shapes /\ ModelInv(m)
  BY DEF Inv
<1>3. Shapes'
  <2>1. model' \in [Models -> [stage : Stages, config : Configs \cup {<<>>}, next : Nat]]
    <3>1. PICK stage \in Stages :
            model' = [model EXCEPT ![m] = [stage |-> stage, config |-> config, next |-> 1]]
      BY <1>1 DEF Stages
    <3>2. [stage |-> stage, config |-> config, next |-> 1]
            \in [stage : Stages, config : Configs \cup {<<>>}, next : Nat]
      OBVIOUS
    <3>3. QED
      BY <1>2, <3>1, <3>2 DEF Shapes
  <2>2. /\ resources' = [k \in Models |-> resources'[k]]
        /\ implOwners' = [k \in Models |-> implOwners'[k]]
        /\ resOwners' = [k \in Models |-> resOwners'[k]]
    BY <1>1, <1>2 DEF Shapes
  <2>3. QED
    BY <1>1, <1>2, <2>1, <2>2 DEF Shapes
<1>4. /\ \A k \in Models \ {m} : ModelInv(k)'
      /\ \A s \in Sessions : SessionInv(s)'
  <2>1. \A s \in Sessions : session[s].stage # "none" => session[s].model # m
    BY <1>1, NobodyYet
  <2>2. \A k \in Models \ {m} :
          /\ model'[k] = model[k] /\ resources'[k] = resources[k]
          /\ implOwners'[k] = implOwners[k] /\ resOwners'[k] = resOwners[k]
    BY <1>1, <1>2 DEF Shapes
  <2>3. QED
    BY <1>1, <2>1, <2>2, OthersKept
<1>5. ModelInv(m)'
  <2>1. CASE config.backend = "metadata"
    BY <1>1, <1>2, <2>1 DEF ModelInv, Shapes
  <2>2. CASE config.backend # "metadata"
    <3>1. resources'[m] = [NoResources EXCEPT !.backend = (config.backend = "device")]
      BY <1>1, <1>2, <2>2 DEF ModelInv, Shapes
    <3>2. resources'[m].loaded = {} /\ Good(resources'[m])
      BY <3>1 DEF NoResources, Good, Shaped, Fields
    <3>3. /\ model'[m].stage \in {"loading", "throwing"}
          /\ model'[m].config = config /\ model'[m].next = 1
      BY <1>1, <1>2, <2>2 DEF Shapes
    <3>4. /\ 1 \in 1..(Len(LoadSteps[config.mode]) + 1)
          /\ LoadedBefore[config.mode][1] = {}
      BY StepsLoad, ConfigModes
    <3>5. QED
      BY <3>2, <3>3, <3>4 DEF ModelInv, StepsOf
  <2>3. QED
    BY <2>1, <2>2
<1>6. QED
  BY <1>3, <1>4, <1>5 DEF Inv

LEMMA StageSet ==
  ASSUME Shapes, NEW m \in Models, NEW stage \in Stages, SetStage(m, stage)
  PROVE  /\ model' \in [Models -> [stage : Stages, config : Configs \cup {<<>>}, next : Nat]]
         /\ model'[m].stage = stage /\ model'[m].config = model[m].config
         /\ model'[m].next = model[m].next
         /\ \A k \in Models \ {m} : model'[k] = model[k]
BY DEF Shapes, SetStage

LEMMA StepTaken ==
  ASSUME Shapes, NEW m \in Models, NextStep(m)
  PROVE  /\ model' \in [Models -> [stage : Stages, config : Configs \cup {<<>>}, next : Nat]]
         /\ model'[m].stage = model[m].stage /\ model'[m].config = model[m].config
         /\ model'[m].next = model[m].next + 1
         /\ \A k \in Models \ {m} : model'[k] = model[k]
<1> DEFINE Records == [stage : Stages, config : Configs \cup {<<>>}, next : Nat]
           n == [model[m] EXCEPT !.next = model[m].next + 1]
<1>1. model \in [Models -> Records] /\ model' = [model EXCEPT ![m] = n]
  BY DEF Shapes, NextStep
<1>2. model[m] \in Records
  BY <1>1
<1>3. /\ n \in Records
      /\ n.stage = model[m].stage /\ n.config = model[m].config
      /\ n.next = model[m].next + 1
  BY <1>2
<1> HIDE DEF n, Records
<1>4. /\ model' \in [Models -> Records] /\ model'[m] = n
      /\ \A k \in Models \ {m} : model'[k] = model[k]
  BY <1>1, <1>3
<1>5. QED
  BY <1>3, <1>4 DEF Records

(* What a load is about to do, and what it must then have loaded. *)
LEMMA StepDue ==
  ASSUME Inv, NEW m \in Models, NEW step, Loading(m, step)
  PROVE  /\ model[m].config \in Configs
         /\ ComponentOf(m) \in Components
         /\ model[m].next \in 1..Len(StepsOf(m))
         /\ LET loaded == resources[m].loaded
                after == LoadedBefore[model[m].config.mode][model[m].next + 1] IN
              /\ step = "load" =>
                   ComponentOf(m) \notin loaded /\ after = loaded \cup {ComponentOf(m)}
              /\ step = "encode" => after = loaded
              /\ step = "unload" => after = loaded \ {"umt5"}
<1>1. /\ ModelInv(m)
      /\ model[m].stage = "loading"
      /\ model[m].next <= Len(StepsOf(m)) /\ StepsOf(m)[model[m].next][1] = step
  BY DEF Inv, Loading
<1>2. /\ model[m].config \in Configs
      /\ model[m].next \in 1..(Len(StepsOf(m)) + 1)
      /\ resources[m].loaded = LoadedBefore[model[m].config.mode][model[m].next]
  BY <1>1 DEF ModelInv
<1>3. model[m].config.mode \in {"tokens", "fixed", "external"}
  BY <1>2, ConfigModes
<1>4. model[m].next \in 1..Len(StepsOf(m))
  <2>1. Len(StepsOf(m)) \in Nat
    BY <1>3, StepsLoad DEF StepsOf
  <2>2. QED
    BY <1>1, <1>2, <2>1
<1>5. LET op == StepsOf(m)[model[m].next]
          before == LoadedBefore[model[m].config.mode][model[m].next]
          after == LoadedBefore[model[m].config.mode][model[m].next + 1] IN
        /\ op[2] \in Components
        /\ op[1] = "load" => op[2] \notin before /\ after = before \cup {op[2]}
        /\ op[1] = "encode" => after = before
        /\ op[1] = "unload" => after = before \ {"umt5"}
  BY <1>3, <1>4, StepsLoad DEF StepsOf
<1>6. QED
  BY <1>1, <1>2, <1>4, <1>5 DEF ComponentOf

(* A load goes on: what it has loaded is what its steps so far load. *)
LEMMA LoadGoesOn ==
  ASSUME Inv, NEW m \in Models, NEW step, Loading(m, step), NextStep(m),
         resources' = [k \in Models |-> resources'[k]],
         \A k \in Models \ {m} : resources'[k] = resources[k],
         Good(resources'[m]),
         resources'[m].loaded = LoadedBefore[model[m].config.mode][model[m].next + 1],
         UNCHANGED <<implOwners, resOwners, session>>
  PROVE  Inv'
<1>1. Shapes
  BY DEF Inv
<1>2. /\ model' \in [Models -> [stage : Stages, config : Configs \cup {<<>>}, next : Nat]]
      /\ model'[m].stage = "loading" /\ model'[m].config = model[m].config
      /\ model'[m].next = model[m].next + 1
      /\ \A k \in Models \ {m} : model'[k] = model[k]
  BY <1>1, StepTaken DEF Loading
<1>3. Shapes'
  BY <1>1, <1>2 DEF Shapes
<1>4. /\ \A k \in Models \ {m} : ModelInv(k)'
      /\ \A s \in Sessions : SessionInv(s)'
  <2>1. \A s \in Sessions : session[s].stage # "none" => session[s].model # m
    BY NobodyYet DEF Loading
  <2>2. QED
    BY <1>2, <2>1, OthersKept
<1>5. ModelInv(m)'
  <2>1. model[m].next \in 1..Len(StepsOf(m)) /\ model[m].config \in Configs
    BY StepDue
  <2>2. Len(StepsOf(m)) \in Nat
    BY <2>1, StepsLoad, ConfigModes DEF StepsOf
  <2>3. StepsOf(m)' = StepsOf(m)
    BY <1>2 DEF StepsOf
  <2>4. model[m].next + 1 \in 1..(Len(StepsOf(m)) + 1)
    BY <2>1, <2>2
  <2>5. QED
    BY <1>2, <2>1, <2>3, <2>4 DEF ModelInv
<1>6. QED
  BY <1>3, <1>4, <1>5 DEF Inv

LEMMA LoadComponentStep ==
  ASSUME Inv, NEW m \in Models, LoadComponent(m)
  PROVE  Inv'
<1> DEFINE c == ComponentOf(m)
<1>1. /\ Loading(m, "load") /\ NextStep(m)
      /\ resources' = [resources EXCEPT ![m] = LoadedComponent(resources[m], c)]
      /\ UNCHANGED <<implOwners, resOwners, session>>
  BY DEF LoadComponent
<1>2. /\ c \in Components
      /\ LoadedBefore[model[m].config.mode][model[m].next + 1] = resources[m].loaded \cup {c}
  BY <1>1, StepDue
<1>3. Good(resources[m]) /\ resources = [k \in Models |-> resources[k]]
  BY DEF Inv, ModelInv, Shapes
<1> HIDE DEF c
<1>4. /\ Good(LoadedComponent(resources[m], c))
      /\ LoadedComponent(resources[m], c).loaded = resources[m].loaded \cup {c}
  BY <1>2, <1>3, LoadMakesGood
<1>5. /\ resources' = [k \in Models |-> resources'[k]]
      /\ resources'[m] = LoadedComponent(resources[m], c)
      /\ \A k \in Models \ {m} : resources'[k] = resources[k]
  BY <1>1, <1>3
<1>6. QED
  BY <1>1, <1>2, <1>4, <1>5, LoadGoesOn

LEMMA EncodeStep ==
  ASSUME Inv, NEW m \in Models, Loading(m, "encode"), NextStep(m),
         resources' = [resources EXCEPT ![m].fixed = TRUE],
         UNCHANGED <<implOwners, resOwners, session>>
  PROVE  Inv'
<1>1. Good(resources[m]) /\ resources = [k \in Models |-> resources[k]]
  BY DEF Inv, ModelInv, Shapes
<1>2. /\ resources' = [k \in Models |-> resources'[k]]
      /\ resources'[m] = [resources[m] EXCEPT !.fixed = TRUE]
      /\ \A k \in Models \ {m} : resources'[k] = resources[k]
  BY <1>1
<1>3. /\ Good(resources'[m])
      /\ resources'[m].loaded = resources[m].loaded
  BY <1>1, <1>2 DEF Good, Shaped, Fields
<1>4. LoadedBefore[model[m].config.mode][model[m].next + 1] = resources[m].loaded
  BY StepDue
<1>5. QED
  BY <1>2, <1>3, <1>4, LoadGoesOn

LEMMA UnloadStep ==
  ASSUME Inv, NEW m \in Models, UnloadEncoder(m)
  PROVE  Inv'
<1>1. /\ Loading(m, "unload") /\ NextStep(m)
      /\ resources' = [resources EXCEPT ![m] = UnloadComponent(resources[m], "umt5")]
      /\ UNCHANGED <<implOwners, resOwners, session>>
  BY DEF UnloadEncoder
<1>2. LoadedBefore[model[m].config.mode][model[m].next + 1] = resources[m].loaded \ {"umt5"}
  BY <1>1, StepDue
<1>3. Good(resources[m]) /\ resources = [k \in Models |-> resources[k]]
  BY DEF Inv, ModelInv, Shapes
<1>4. /\ Good(UnloadComponent(resources[m], "umt5"))
      /\ UnloadComponent(resources[m], "umt5").loaded = resources[m].loaded \ {"umt5"}
  <2>1. "umt5" \in Components /\ {} \in SUBSET TensorsOf("umt5")
    BY DEF Components
  <2>2. QED
    BY <1>3, <2>1, UnloadMakesGood
<1>5. /\ resources' = [k \in Models |-> resources'[k]]
      /\ resources'[m] = UnloadComponent(resources[m], "umt5")
      /\ \A k \in Models \ {m} : resources'[k] = resources[k]
  BY <1>1, <1>3
<1>6. QED
  BY <1>1, <1>2, <1>4, <1>5, LoadGoesOn

(* A load that throws keeps map and stores in agreement. *)
LEMMA ThrowStep ==
  ASSUME Inv, NEW m \in Models, model[m].stage = "loading", SetStage(m, "throwing"),
         NEW r, Good(r), resources' = [resources EXCEPT ![m] = r],
         UNCHANGED <<implOwners, resOwners, session>>
  PROVE  Inv'
<1>1. Shapes
  BY DEF Inv
<1>2. /\ model' \in [Models -> [stage : Stages, config : Configs \cup {<<>>}, next : Nat]]
      /\ model'[m].stage = "throwing"
      /\ \A k \in Models \ {m} : model'[k] = model[k]
  BY <1>1, StageSet DEF Stages
<1>3. /\ resources' = [k \in Models |-> resources'[k]]
      /\ resources'[m] = r
      /\ \A k \in Models \ {m} : resources'[k] = resources[k]
  BY <1>1 DEF Shapes
<1>4. Shapes'
  BY <1>1, <1>2, <1>3 DEF Shapes
<1>5. /\ \A k \in Models \ {m} : ModelInv(k)'
      /\ \A s \in Sessions : SessionInv(s)'
  <2>1. \A s \in Sessions : session[s].stage # "none" => session[s].model # m
    BY NobodyYet
  <2>2. QED
    BY <1>2, <1>3, <2>1, OthersKept
<1>6. ModelInv(m)'
  BY <1>2, <1>3 DEF ModelInv
<1>7. QED
  BY <1>4, <1>5, <1>6 DEF Inv

LEMMA LoadComponentFailsStep ==
  ASSUME Inv, NEW m \in Models, LoadComponentFails(m)
  PROVE  Inv'
<1> DEFINE c == ComponentOf(m)
<1>1. /\ Loading(m, "load") /\ SetStage(m, "throwing")
      /\ \E r \in FailedLoads(resources[m], c) :
           resources' = [resources EXCEPT ![m] = r]
      /\ UNCHANGED <<implOwners, resOwners, session>>
  BY DEF LoadComponentFails
<1>2. c \in Components /\ c \notin resources[m].loaded
  BY <1>1, StepDue
<1>3. Good(resources[m])
  BY DEF Inv, ModelInv
<1> HIDE DEF c
<1>4. PICK r \in FailedLoads(resources[m], c) :
        resources' = [resources EXCEPT ![m] = r]
  BY <1>1
<1>5. Good(r)
  BY <1>2, <1>3, FailuresAreGood
<1>6. QED
  BY <1>1, <1>4, <1>5, ThrowStep DEF Loading

LEMMA EncodeFixedPromptStep ==
  ASSUME Inv, NEW m \in Models, EncodeFixedPrompt(m)
  PROVE  Inv'
<1>1. /\ Loading(m, "encode")
      /\ UNCHANGED <<implOwners, resOwners, session>>
  BY DEF EncodeFixedPrompt
<1>2. CASE (resources' = [resources EXCEPT ![m].fixed = TRUE]) /\ NextStep(m)
  BY <1>1, <1>2, EncodeStep
<1>3. CASE SetStage(m, "throwing") /\ UNCHANGED resources
  <2>1. Good(resources[m]) /\ resources = [k \in Models |-> resources[k]]
    BY DEF Inv, ModelInv, Shapes
  <2>2. resources' = [resources EXCEPT ![m] = resources[m]]
    BY <1>3, <2>1
  <2>3. QED
    BY <1>1, <1>3, <2>1, <2>2, ThrowStep DEF Loading
<1>4. QED
  BY <1>2, <1>3 DEF EncodeFixedPrompt

-----------------------------------------------------------------------------
(* What nobody touches keeps its part of the invariant. *)
LEMMA ModelKept ==
  ASSUME Inv, NEW k \in Models,
         model'[k] = model[k], resources'[k] = resources[k],
         implOwners'[k] = implOwners[k], resOwners'[k] = resOwners[k]
  PROVE  ModelInv(k)'
BY DEF Inv, ModelInv, HasRun, StepsOf

LEMMA SessionKept ==
  ASSUME Inv, NEW s \in Sessions, session'[s] = session[s],
         session[s].stage # "none" =>
           LET k == session[s].model IN
             /\ resources'[k] = resources[k]
             /\ s \in implOwners'[k] /\ s \in resOwners'[k]
             /\ model'[k].stage \in {"open", "closed"}
             /\ model'[k].config = model[k].config
  PROVE  SessionInv(s)'
<1>1. SessionInv(s)
  BY DEF Inv
<1>2. CASE session[s].stage = "none"
  BY <1>1, <1>2 DEF SessionInv
<1>3. CASE session[s].stage # "none"
  BY <1>1, <1>3 DEF SessionInv, HasRun
<1>4. QED
  BY <1>2, <1>3

LEMMA LoadThrowsStep ==
  ASSUME Inv, NEW m \in Models, LoadThrows(m)
  PROVE  Inv'
<1>1. /\ model[m].stage = "throwing" /\ SetStage(m, "closed")
      /\ Release(m, {}, {}) /\ UNCHANGED session
  BY DEF LoadThrows
<1>2. Shapes
  BY DEF Inv
<1>3. /\ model' \in [Models -> [stage : Stages, config : Configs \cup {<<>>}, next : Nat]]
      /\ model'[m].stage = "closed"
      /\ \A k \in Models \ {m} : model'[k] = model[k]
  BY <1>1, <1>2, StageSet DEF Stages
<1>4. /\ resources' = [k \in Models |-> resources'[k]]
      /\ implOwners' = [implOwners EXCEPT ![m] = {}]
      /\ resOwners' = [k \in Models |-> resOwners'[k]]
      /\ \A k \in Models \ {m} :
           resources'[k] = resources[k] /\ resOwners'[k] = resOwners[k]
      /\ Good(resources'[m])
  BY <1>1, ReleaseKeeps
<1>5. /\ implOwners' = [k \in Models |-> implOwners'[k]]
      /\ \A k \in Models \ {m} : implOwners'[k] = implOwners[k]
  BY <1>2, <1>4 DEF Shapes
<1>6. Shapes'
  BY <1>1, <1>2, <1>3, <1>4, <1>5 DEF Shapes
<1>7. /\ \A k \in Models \ {m} : ModelInv(k)'
      /\ \A s \in Sessions : SessionInv(s)'
  <2>1. \A s \in Sessions : session[s].stage # "none" => session[s].model # m
    BY <1>1, NobodyYet
  <2>2. QED
    BY <1>1, <1>3, <1>4, <1>5, <2>1, OthersKept
<1>8. ModelInv(m)'
  BY <1>3, <1>4 DEF ModelInv
<1>9. QED
  BY <1>6, <1>7, <1>8 DEF Inv

LEMMA ModelCreatedStep ==
  ASSUME Inv, NEW m \in Models, ModelCreated(m)
  PROVE  Inv'
<1>1. /\ model[m].stage = "loading" /\ model[m].next > Len(StepsOf(m))
      /\ SetStage(m, "created")
      /\ Release(m, {"handle"}, {"impl"}) /\ UNCHANGED session
  BY DEF ModelCreated
<1>2. Shapes /\ ModelInv(m)
  BY DEF Inv
<1>3. /\ model' \in [Models -> [stage : Stages, config : Configs \cup {<<>>}, next : Nat]]
      /\ model'[m].stage = "created" /\ model'[m].config = model[m].config
      /\ \A k \in Models \ {m} : model'[k] = model[k]
  BY <1>1, <1>2, StageSet DEF Stages
<1>4. /\ resources' = [k \in Models |-> resources'[k]]
      /\ implOwners' = [implOwners EXCEPT ![m] = {"handle"}]
      /\ resOwners' = [k \in Models |-> resOwners'[k]]
      /\ \A k \in Models \ {m} :
           resources'[k] = resources[k] /\ resOwners'[k] = resOwners[k]
      /\ "impl" \in resOwners'[m] /\ resources'[m] = resources[m]
  BY <1>1, ReleaseKeeps
<1>5. /\ implOwners' = [k \in Models |-> implOwners'[k]]
      /\ "handle" \in implOwners'[m]
      /\ \A k \in Models \ {m} : implOwners'[k] = implOwners[k]
  BY <1>2, <1>4 DEF Shapes
<1>6. Shapes'
  BY <1>1, <1>2, <1>3, <1>4, <1>5 DEF Shapes
<1>7. /\ \A k \in Models \ {m} : ModelInv(k)'
      /\ \A s \in Sessions : SessionInv(s)'
  <2>1. \A s \in Sessions : session[s].stage # "none" => session[s].model # m
    BY <1>1, NobodyYet
  <2>2. QED
    BY <1>1, <1>3, <1>4, <1>5, <2>1, OthersKept
<1>8. model[m].config \in Configs /\ HasRun(m)
  <2>1. /\ model[m].config \in Configs
        /\ model[m].next \in 1..(Len(StepsOf(m)) + 1)
        /\ resources[m].loaded = LoadedBefore[model[m].config.mode][model[m].next]
    BY <1>1, <1>2 DEF ModelInv
  <2>2. /\ Len(StepsOf(m)) \in Nat
        /\ LoadedBefore[model[m].config.mode][Len(StepsOf(m)) + 1] = Runs(model[m].config.mode)
    BY <2>1, StepsLoad, ConfigModes DEF StepsOf
  <2>3. model[m].next = Len(StepsOf(m)) + 1
    BY <1>1, <2>1, <2>2
  <2>4. QED
    BY <2>1, <2>2, <2>3 DEF HasRun
<1>9. ModelInv(m)'
  BY <1>2, <1>3, <1>4, <1>5, <1>8 DEF ModelInv, HasRun
<1>10. QED
  BY <1>6, <1>7, <1>9 DEF Inv

LEMMA ModelOpensStep ==
  ASSUME Inv, NEW m \in Models, ModelOpens(m)
  PROVE  Inv'
<1>1. /\ model[m].stage = "created" /\ SetStage(m, "open")
      /\ UNCHANGED <<resources, implOwners, resOwners, session>>
  BY DEF ModelOpens
<1>2. Shapes /\ ModelInv(m)
  BY DEF Inv
<1>3. /\ model' \in [Models -> [stage : Stages, config : Configs \cup {<<>>}, next : Nat]]
      /\ model'[m].stage = "open" /\ model'[m].config = model[m].config
      /\ \A k \in Models \ {m} : model'[k] = model[k]
  BY <1>1, <1>2, StageSet DEF Stages
<1>4. Shapes'
  BY <1>1, <1>2, <1>3 DEF Shapes
<1>5. /\ \A k \in Models \ {m} : ModelInv(k)'
      /\ \A s \in Sessions : SessionInv(s)'
  <2>1. \A s \in Sessions : session[s].stage # "none" => session[s].model # m
    BY <1>1, NobodyYet
  <2>2. QED
    BY <1>1, <1>3, <2>1, OthersKept
<1>6. ModelInv(m)'
  BY <1>1, <1>2, <1>3 DEF ModelInv, HasRun
<1>7. QED
  BY <1>4, <1>5, <1>6 DEF Inv

(* A session that shares a model it is not the last owner of keeps it.     *)
LEMMA SessionOnReleased ==
  ASSUME Inv, NEW m \in Models, NEW impl, NEW res, Release(m, impl, res),
         NEW s \in Sessions, session'[s] = session[s],
         session[s].stage # "none" =>
           LET k == session[s].model IN
             /\ k = m => s \in impl /\ s \in res
             /\ model'[k].stage \in {"open", "closed"}
             /\ model'[k].config = model[k].config
  PROVE  SessionInv(s)'
<1> DEFINE k == session[s].model
<1>1. SessionInv(s) /\ implOwners = [j \in Models |-> implOwners[j]]
  BY DEF Inv, Shapes
<1>2. ASSUME session[s].stage # "none"
      PROVE  /\ resources'[k] = resources[k]
             /\ s \in implOwners'[k] /\ s \in resOwners'[k]
  <2>1. k \in Models /\ s \in implOwners[k] /\ s \in resOwners[k]
    BY <1>1, <1>2 DEF SessionInv
  <2>2. /\ implOwners' = [implOwners EXCEPT ![m] = impl]
        /\ \A j \in Models \ {m} :
             resources'[j] = resources[j] /\ resOwners'[j] = resOwners[j]
        /\ \A x \in res : x # "impl" \/ impl # {} =>
             x \in resOwners'[m] /\ resources'[m] = resources[m]
    BY ReleaseKeeps
  <2>3. CASE k # m
    BY <1>1, <2>1, <2>2, <2>3
  <2>4. CASE k = m
    <3>1. s \in impl /\ s \in res
      BY <1>2, <2>4
    <3>2. QED
      BY <1>1, <2>2, <2>4, <3>1
  <2>5. QED
    BY <2>3, <2>4
<1>3. QED
  BY <1>2, SessionKept

LEMMA CloseModelStep ==
  ASSUME Inv, NEW m \in Models, CloseModel(m)
  PROVE  Inv'
<1> DEFINE impl == implOwners[m] \ {"handle"}
<1>1. /\ model[m].stage \in {"created", "open"} /\ SetStage(m, "closed")
      /\ Release(m, impl, resOwners[m]) /\ UNCHANGED session
  BY DEF CloseModel
<1>2. Shapes
  BY DEF Inv
<1>3. /\ model' \in [Models -> [stage : Stages, config : Configs \cup {<<>>}, next : Nat]]
      /\ model'[m].stage = "closed" /\ model'[m].config = model[m].config
      /\ \A k \in Models \ {m} : model'[k] = model[k]
  BY <1>1, <1>2, StageSet DEF Stages
<1>4. /\ resources' = [k \in Models |-> resources'[k]]
      /\ implOwners' = [implOwners EXCEPT ![m] = impl]
      /\ resOwners' = [k \in Models |-> resOwners'[k]]
      /\ \A k \in Models \ {m} :
           resources'[k] = resources[k] /\ resOwners'[k] = resOwners[k]
      /\ Good(resources'[m])
  BY <1>1, ReleaseKeeps
<1>5. /\ implOwners' = [k \in Models |-> implOwners'[k]]
      /\ \A k \in Models \ {m} : implOwners'[k] = implOwners[k]
  BY <1>2, <1>4 DEF Shapes
<1>6. Shapes'
  BY <1>1, <1>2, <1>3, <1>4, <1>5 DEF Shapes
<1>7. ASSUME NEW k \in Models PROVE ModelInv(k)'
  <2>1. CASE k = m
    BY <1>3, <1>4, <2>1 DEF ModelInv
  <2>2. CASE k # m
    BY <1>3, <1>4, <1>5, <2>2, ModelKept
  <2>3. QED
    BY <2>1, <2>2
<1>8. ASSUME NEW s \in Sessions PROVE SessionInv(s)'
  <2>1. SessionInv(s) /\ session'[s] = session[s] /\ s # "handle"
    BY <1>1, NamesAssumption DEF Inv
  <2>2. ASSUME session[s].stage # "none"
        PROVE  LET k == session[s].model IN
                 /\ k = m => s \in impl /\ s \in resOwners[m]
                 /\ model'[k].stage \in {"open", "closed"}
                 /\ model'[k].config = model[k].config
    BY <1>3, <2>1, <2>2 DEF SessionInv
  <2> HIDE DEF impl
  <2>3. QED
    BY <1>1, <2>1, <2>2, SessionOnReleased
<1>9. QED
  BY <1>6, <1>7, <1>8 DEF Inv

-----------------------------------------------------------------------------
(* Steps of a session. *)
LEMMA CreateSessionStep ==
  ASSUME Inv, NEW s \in Sessions, NEW m \in Models, CreateSession(s, m)
  PROVE  Inv'
<1> DEFINE made ==
      [ stage |-> "open", model |-> m, weights |-> resources[m].weights,
        loaded |-> resources[m].loaded, resident |-> resources[m].resident,
        peak |-> resources[m].peak, uses |-> {}, running |-> FALSE ]
<1>1. /\ session[s].stage = "none"
      /\ model[m].stage = "open" /\ model[m].config.backend # "metadata"
      /\ session' = [session EXCEPT ![s] = made]
      /\ implOwners' = [implOwners EXCEPT ![m] = implOwners[m] \cup {s}]
      /\ resOwners' = [resOwners EXCEPT ![m] = resOwners[m] \cup {s}]
      /\ UNCHANGED <<model, resources>>
  BY DEF CreateSession
<1>2. Shapes /\ ModelInv(m)
  BY DEF Inv
<1>3. /\ made = [f \in SessionFields |-> made[f]]
      /\ made.stage = "open" /\ made.model = m /\ made.weights = resources[m].weights
      /\ made.uses = {}
  BY DEF SessionFields
<1> HIDE DEF made
<1>4. session'[s] = made /\ \A q \in Sessions \ {s} : session'[q] = session[q]
  BY <1>1, <1>2 DEF Shapes
<1>5. /\ implOwners'[m] = implOwners[m] \cup {s}
      /\ resOwners'[m] = resOwners[m] \cup {s}
      /\ \A k \in Models \ {m} :
           implOwners'[k] = implOwners[k] /\ resOwners'[k] = resOwners[k]
  BY <1>1, <1>2 DEF Shapes
<1>6. Shapes'
  BY <1>1, <1>2, <1>3, <1>4 DEF Shapes
<1>7. ASSUME NEW k \in Models PROVE ModelInv(k)'
  <2>1. CASE k = m
    BY <1>1, <1>2, <1>5, <2>1 DEF ModelInv, HasRun
  <2>2. CASE k # m
    BY <1>1, <1>5, <2>2, ModelKept
  <2>3. QED
    BY <2>1, <2>2
<1>8. ASSUME NEW q \in Sessions PROVE SessionInv(q)'
  <2>1. CASE q = s
    BY <1>1, <1>2, <1>3, <1>4, <1>5, <2>1 DEF SessionInv, ModelInv, HasRun
  <2>2. CASE q # s
    <3>1. SessionInv(q) /\ session'[q] = session[q]
      BY <1>4, <2>2 DEF Inv
    <3>2. session[q].stage # "none" =>
            LET k == session[q].model IN
              /\ resources'[k] = resources[k]
              /\ q \in implOwners'[k] /\ q \in resOwners'[k]
              /\ model'[k].stage \in {"open", "closed"}
              /\ model'[k].config = model[k].config
      BY <1>1, <1>5, <3>1 DEF SessionInv
    <3>3. QED
      BY <3>1, <3>2, SessionKept
  <2>3. QED
    BY <2>1, <2>2
<1>9. QED
  BY <1>6, <1>7, <1>8 DEF Inv

(* A step of one session that touches nothing else. *)
LEMMA OneSession ==
  ASSUME Inv, NEW s \in Sessions, UNCHANGED <<model, resources, implOwners, resOwners>>,
         session' = [session EXCEPT ![s] = session'[s]],
         session'[s] = [f \in SessionFields |-> session'[s][f]],
         SessionInv(s)'
  PROVE  Inv'
<1>1. Shapes
  BY DEF Inv
<1>2. Shapes'
  BY <1>1 DEF Shapes
<1>3. ASSUME NEW k \in Models PROVE ModelInv(k)'
  BY ModelKept
<1>4. ASSUME NEW q \in Sessions PROVE SessionInv(q)'
  <2>1. CASE q = s
    BY <2>1
  <2>2. CASE q # s
    <3>1. SessionInv(q) /\ session'[q] = session[q]
      BY <1>1, <2>2 DEF Inv, Shapes
    <3>2. QED
      BY <3>1, SessionKept DEF SessionInv
  <2>3. QED
    BY <2>1, <2>2
<1>5. QED
  BY <1>2, <1>3, <1>4 DEF Inv

LEMMA CallStep ==
  ASSUME Inv, NEW s \in Sessions,
         PredictStarts(s) \/ PredictEnds(s) \/ Reset(s) \/ CloseSession(s)
  PROVE  Inv'
<1>1. /\ SessionInv(s) /\ session[s] = [f \in SessionFields |-> session[s][f]]
      /\ session = [q \in Sessions |-> session[q]]
  BY DEF Inv, Shapes
<1>2. UNCHANGED <<model, resources, implOwners, resOwners>>
  BY DEF PredictStarts, PredictEnds, Reset, CloseSession
<1>3. session[s].stage = "open"
  BY <1>1 DEF PredictStarts, PredictEnds, Reset, CloseSession, Idle, SessionInv
<1> DEFINE mode == model[session[s].model].config.mode
<1>4. /\ session' = [session EXCEPT ![s] = session'[s]]
      /\ session'[s] = [f \in SessionFields |-> session'[s][f]]
      /\ session'[s].model = session[s].model
      /\ \/ session'[s].stage = "closing" /\ ~session'[s].running
         \/ /\ session'[s].stage = "open" /\ session'[s].weights = session[s].weights
            /\ session'[s].uses \subseteq Runs(mode)
  <2>1. CASE PredictStarts(s)
    <3>1. session' = [session EXCEPT ![s].running = TRUE, ![s].uses = Runs(mode)]
      BY <2>1 DEF PredictStarts
    <3> HIDE DEF mode
    <3>2. QED
      BY <1>1, <1>3, <3>1 DEF SessionFields
  <2>2. CASE PredictEnds(s)
    <3>1. PICK kept \in SUBSET {"mot", "vae"} :
            session' = [session EXCEPT ![s].running = FALSE, ![s].uses = kept]
      BY <2>2 DEF PredictEnds
    <3>2. kept \subseteq Runs(mode)
      BY DEF Runs, Components
    <3> HIDE DEF mode
    <3>3. QED
      BY <1>1, <1>3, <3>1, <3>2 DEF SessionFields
  <2>3. CASE Reset(s)
    <3>1. session' = [session EXCEPT ![s].uses = session[s].uses \cap {"vae"}]
      BY <2>3 DEF Reset
    <3>2. session[s].uses \cap {"vae"} \subseteq Runs(mode)
      BY DEF Runs, Components
    <3> HIDE DEF mode
    <3>3. QED
      BY <1>1, <1>3, <3>1, <3>2 DEF SessionFields
  <2>4. CASE CloseSession(s)
    <3>1. /\ session' = [session EXCEPT ![s].stage = "closing", ![s].weights = {},
                                        ![s].uses = {}]
          /\ ~session[s].running
      BY <2>4 DEF CloseSession, Idle
    <3>2. QED
      BY <1>1, <3>1 DEF SessionFields
  <2>5. QED
    BY <2>1, <2>2, <2>3, <2>4
<1>5. SessionInv(s)'
  BY <1>1, <1>2, <1>3, <1>4 DEF SessionInv, HasRun
<1>6. QED
  BY <1>2, <1>4, <1>5, OneSession

LEMMA SessionReleasesStep ==
  ASSUME Inv, NEW s \in Sessions, SessionReleases(s)
  PROVE  Inv'
<1>1. SessionInv(s) /\ Shapes /\ session[s].stage = "closing"
  BY DEF Inv, SessionReleases
<1>2. PICK m \in Models : m = session[s].model
  BY <1>1 DEF SessionInv
<1> DEFINE impl == implOwners[m] \ {s}
           res == resOwners[m] \ {s}
<1>3. /\ session' = [session EXCEPT ![s] = NoSession]
      /\ Release(m, impl, res) /\ UNCHANGED model
  BY <1>2 DEF SessionReleases
<1>4. s # "handle" /\ s # "impl"
  BY NamesAssumption
<1>5. ModelInv(m)
  BY DEF Inv
<1>6. model[m].stage \in {"open", "closed"} /\ model[m].config \in Configs
  BY <1>1, <1>2 DEF SessionInv
<1>7. /\ resources' = [k \in Models |-> resources'[k]]
      /\ implOwners' = [implOwners EXCEPT ![m] = impl]
      /\ resOwners' = [k \in Models |-> resOwners'[k]]
      /\ \A k \in Models \ {m} :
           resources'[k] = resources[k] /\ resOwners'[k] = resOwners[k]
      /\ Good(resources'[m])
      /\ \A x \in res : x # "impl" \/ impl # {} =>
           x \in resOwners'[m] /\ resources'[m] = resources[m]
  <2> HIDE DEF impl, res
  <2>1. QED
    BY <1>3, ReleaseKeeps
<1>8. /\ implOwners' = [k \in Models |-> implOwners'[k]]
      /\ implOwners'[m] = impl
      /\ \A k \in Models \ {m} : implOwners'[k] = implOwners[k]
  <2> HIDE DEF impl
  <2>1. QED
    BY <1>1, <1>7 DEF Shapes
<1>9. session'[s] = NoSession /\ \A q \in Sessions \ {s} : session'[q] = session[q]
  BY <1>1, <1>3 DEF Shapes
<1>10. Shapes'
  <2>1. NoSession = [f \in SessionFields |-> NoSession[f]]
    BY DEF NoSession, SessionFields
  <2>2. /\ session' = [q \in Sessions |-> session'[q]]
        /\ \A q \in Sessions : session'[q] = [f \in SessionFields |-> session'[q][f]]
    BY <1>1, <1>3, <1>9, <2>1 DEF Shapes
  <2>3. QED
    BY <1>1, <1>3, <1>7, <1>8, <2>2 DEF Shapes
<1>11. ASSUME NEW k \in Models PROVE ModelInv(k)'
  <2>1. CASE k = m
    <3>1. model'[m] = model[m] /\ model[m].stage \notin {"none", "loading"}
      BY <1>3, <1>6
    <3>2. ASSUME model[m].stage \in {"created", "open"}, model[m].config.backend # "metadata"
          PROVE  "impl" \in resOwners'[m] /\ "handle" \in implOwners'[m] /\ HasRun(m)'
      <4>1. "impl" \in resOwners[m] /\ "handle" \in implOwners[m] /\ HasRun(m)
        BY <1>5, <3>2 DEF ModelInv
      <4>2. "impl" \in res /\ "handle" \in impl
        BY <1>4, <4>1
      <4>3. "impl" \in resOwners'[m] /\ resources'[m] = resources[m]
        BY <1>7, <4>2
      <4>4. QED
        BY <1>8, <3>1, <4>1, <4>2, <4>3 DEF HasRun
    <3>3. QED
      BY <1>6, <1>7, <2>1, <3>1, <3>2 DEF ModelInv
  <2>2. CASE k # m
    BY <1>3, <1>7, <1>8, <2>2, ModelKept
  <2>3. QED
    BY <2>1, <2>2
<1>12. ASSUME NEW q \in Sessions PROVE SessionInv(q)'
  <2>1. CASE q = s
    BY <1>9, <2>1 DEF SessionInv, NoSession
  <2>2. CASE q # s
    <3>1. SessionInv(q) /\ session'[q] = session[q]
      BY <1>9, <2>2 DEF Inv
    <3>2. session[q].stage # "none" =>
            LET k == session[q].model IN
              /\ k = m => q \in impl /\ q \in res
              /\ model'[k].stage \in {"open", "closed"}
              /\ model'[k].config = model[k].config
      BY <1>2, <1>3, <2>2, <3>1 DEF SessionInv
    <3> HIDE DEF impl, res
    <3>3. QED
      BY <1>3, <3>1, <3>2, SessionOnReleased
  <2>3. QED
    BY <2>1, <2>2
<1>13. QED
  BY <1>10, <1>11, <1>12 DEF Inv

-----------------------------------------------------------------------------
LEMMA InvNext == Inv /\ [Next]_vars => Inv'
<1> SUFFICES ASSUME Inv, [Next]_vars PROVE Inv'
  OBVIOUS
<1>1. ASSUME NEW m \in Models,
             \/ Create(m) \/ LoadComponent(m) \/ LoadComponentFails(m)
             \/ EncodeFixedPrompt(m) \/ UnloadEncoder(m) \/ LoadThrows(m)
             \/ ModelCreated(m) \/ ModelOpens(m) \/ CloseModel(m)
      PROVE  Inv'
  BY <1>1, CreateStep, LoadComponentStep, LoadComponentFailsStep,
     EncodeFixedPromptStep, UnloadStep, LoadThrowsStep, ModelCreatedStep,
     ModelOpensStep, CloseModelStep
<1>2. ASSUME NEW s \in Sessions,
             \/ \E m \in Models : CreateSession(s, m)
             \/ PredictStarts(s) \/ PredictEnds(s) \/ Reset(s)
             \/ CloseSession(s) \/ SessionReleases(s)
      PROVE  Inv'
  BY <1>2, CreateSessionStep, CallStep, SessionReleasesStep
<1>3. CASE UNCHANGED vars
  BY <1>3 DEF vars, Inv, Shapes, ModelInv, SessionInv, HasRun, StepsOf
<1>4. QED
  BY <1>1, <1>2, <1>3 DEF Next

(* However loads fail or unload, and in whatever order models and sessions *)
(* are closed, no name points into a freed store, and an open session      *)
(* finds on the device every weight its calls and its graphs use           *)
(* (ModelResources' and WeightStore's destructors, load_component,         *)
(* unload_component, and the session's copy of the map).                   *)
THEOREM SessionsKeepTheirWeights == Spec => []WeightsAlive
BY InvInit, InvNext, InvImplies, PTL DEF Spec

-----------------------------------------------------------------------------
(* What is reported: bytes, peak and flag agree with what is loaded.       *)
BytesIn(loaded) == [c \in Components |-> IF c \in loaded THEN BytesOf[c] ELSE 0]

Sound(r) ==
  /\ r.bytes = BytesIn(r.loaded)
  /\ r.resident = Total(r.bytes)
  /\ r.text = ("umt5" \in r.loaded)
  /\ r.peak \in Nat /\ r.resident <= r.peak
  /\ \A c \in r.loaded : TensorsOf(c) # {}

LEMMA TotalGrows ==
  ASSUME NEW less \in SUBSET Components, NEW more \in SUBSET Components, less \subseteq more
  PROVE  /\ Total(BytesIn(less)) \in Nat /\ Total(BytesIn(more)) \in Nat
         /\ Total(BytesIn(less)) <= Total(BytesIn(more))
<1>1. /\ {"mot", "umt5", "vae"} = Components
      /\ BytesOf["mot"] \in Nat /\ BytesOf["umt5"] \in Nat /\ BytesOf["vae"] \in Nat
  BY TensorsAssumption DEF Components
<1>2. ASSUME NEW c \in Components
      PROVE  /\ BytesIn(less)[c] \in Nat /\ BytesIn(more)[c] \in Nat
             /\ BytesIn(less)[c] <= BytesIn(more)[c]
  BY TensorsAssumption DEF BytesIn
<1> HIDE DEF BytesIn
<1>3. \A a, b, c, x, y, z \in Nat :
        a <= x /\ b <= y /\ c <= z => a + b + c \in Nat /\ x + y + z \in Nat
                                         /\ a + b + c <= x + y + z
  OBVIOUS
<1> QED BY <1>1, <1>2, <1>3 DEF Total

LEMMA ResidentIs ==
  ASSUME NEW r, r.bytes = BytesIn(r.loaded)
  PROVE  Resident(r) = Total(r.bytes)
<1>1. [c \in Components |-> IF c \in r.loaded THEN r.bytes[c] ELSE 0] = r.bytes
  BY DEF BytesIn
<1> QED BY <1>1 DEF Resident

LEMMA RefreshSound ==
  ASSUME NEW r, Shaped(r), r.bytes = BytesIn(r.loaded), r.peak \in Nat,
         \A c \in r.loaded : TensorsOf(c) # {}
  PROVE  LET n == RefreshTelemetry(r)
             resident == Total(BytesIn(r.loaded)) IN
           /\ Sound(n) /\ n.loaded = r.loaded /\ n.backend = r.backend
           /\ n.peak = IF resident > r.peak THEN resident ELSE r.peak
<1>1. PICK resident : resident = Total(BytesIn(r.loaded))
  OBVIOUS
<1>2. Resident(r) = resident /\ resident \in Nat
  BY <1>1, ResidentIs, TotalGrows DEF Shaped
<1>3. PICK n : n = RefreshTelemetry(r)
  OBVIOUS
<1>4. n = [r EXCEPT !.resident = resident,
                    !.peak = IF resident > @ THEN resident ELSE @,
                    !.text = "umt5" \in r.loaded]
  BY <1>2, <1>3 DEF RefreshTelemetry
<1>5. /\ n.bytes = r.bytes /\ n.loaded = r.loaded /\ n.backend = r.backend
      /\ n.resident = resident /\ n.text = ("umt5" \in r.loaded)
      /\ n.peak = IF resident > r.peak THEN resident ELSE r.peak
  BY <1>4 DEF Shaped, Fields
<1>6. n.peak \in Nat /\ n.resident <= n.peak
  BY <1>2, <1>5
<1>7. Sound(n)
  BY <1>1, <1>5, <1>6 DEF Sound
<1> QED BY <1>1, <1>3, <1>5, <1>7

(* A load adds the component's bytes and moves the peak. *)
LEMMA LoadSound ==
  ASSUME NEW r, Good(r), Sound(r), NEW c \in Components, TensorsOf(c) # {}
  PROVE  LET n == LoadedComponent(r, c)
             resident == Total(BytesIn(r.loaded \cup {c})) IN
           /\ Sound(n)
           /\ n.peak = IF resident > r.peak THEN resident ELSE r.peak
<1> DEFINE d == Define(r, c, TensorsOf(c))
           e == [d EXCEPT !.loaded = @ \cup {c}, !.bytes[c] = BytesOf[c]]
<1>1. d = [r EXCEPT !.stores[c] = TensorsOf(c), !.weights = @ \cup TensorsOf(c)]
  BY DEF Define
<1>2. /\ Shaped(d) /\ d.weights = r.weights \cup TensorsOf(c)
      /\ d.stores = [r.stores EXCEPT ![c] = TensorsOf(c)]
      /\ d.loaded = r.loaded /\ d.backend = r.backend
  BY DefineMakes
<1>3. d.bytes = r.bytes /\ d.peak = r.peak
  BY <1>1 DEF Good, Shaped, Fields
<1>4. LoadedComponent(r, c) = RefreshTelemetry(e)
  BY DEF LoadedComponent
<1> HIDE DEF d
<1>5. /\ Shaped(e) /\ e.loaded = r.loaded \cup {c}
      /\ e.bytes = [r.bytes EXCEPT ![c] = BytesOf[c]] /\ e.peak = r.peak
  BY <1>2, <1>3 DEF Shaped, Fields
<1> HIDE DEF e
<1>6. e.bytes = BytesIn(r.loaded \cup {c})
  BY <1>5 DEF Sound, BytesIn
<1>7. \A k \in e.loaded : TensorsOf(k) # {}
  BY <1>5 DEF Sound
<1>8. e.peak \in Nat
  BY <1>5 DEF Sound
<1> QED BY <1>4, <1>5, <1>6, <1>7, <1>8, RefreshSound

(* An unload takes them away and leaves the peak. *)
LEMMA UnloadSound ==
  ASSUME NEW r, Good(r), Sound(r), NEW c \in Components, NEW T \in SUBSET TensorsOf(c),
         NEW d, d = r \/ (c \notin r.loaded /\ d = Define(r, c, T))
  PROVE  LET n == UnloadComponent(d, c) IN Sound(n) /\ n.peak = r.peak
<1>1. /\ Shaped(d) /\ d.loaded = r.loaded /\ d.bytes = r.bytes /\ d.peak = r.peak
      /\ d.resident = r.resident /\ d.text = r.text
  <2>1. CASE d = r
    BY <2>1 DEF Good
  <2>2. CASE c \notin r.loaded /\ d = Define(r, c, T)
    <3>1. d = [r EXCEPT !.stores[c] = T, !.weights = @ \cup T]
      BY <2>2 DEF Define
    <3>2. Shaped(d) /\ d.loaded = r.loaded
      BY <2>2, DefineMakes
    <3> QED BY <3>1, <3>2 DEF Good, Shaped, Fields
  <2> QED BY <2>1, <2>2
<1>2. Sound(d)
  BY <1>1 DEF Sound
<1>3. CASE c \notin d.loaded /\ d.stores[c] = {}
  BY <1>1, <1>2, <1>3 DEF UnloadComponent
<1>4. CASE ~(c \notin d.loaded /\ d.stores[c] = {})
  <2> DEFINE e == [d EXCEPT !.weights = {t \in @ : PrefixOf[t] # c},
                            !.stores[c] = {}, !.loaded = @ \ {c}, !.bytes[c] = 0]
  <2>1. UnloadComponent(d, c) = RefreshTelemetry(e)
    BY <1>4 DEF UnloadComponent
  <2>2. /\ Shaped(e) /\ e.loaded = d.loaded \ {c} /\ e.bytes = [d.bytes EXCEPT ![c] = 0]
        /\ e.peak = d.peak
    BY <1>1 DEF Shaped, Fields
  <2> HIDE DEF e
  <2>3. e.bytes = BytesIn(e.loaded)
    BY <1>2, <2>2 DEF Sound, BytesIn
  <2>4. e.peak \in Nat /\ \A k \in e.loaded : TensorsOf(k) # {}
    BY <1>2, <2>2 DEF Sound
  <2>5. PICK old, new, peak : /\ old = Total(BytesIn(d.loaded))
                              /\ new = Total(BytesIn(e.loaded)) /\ peak = d.peak
    OBVIOUS
  <2>6. old \in Nat /\ new \in Nat /\ new <= old
    BY <1>1, <2>2, <2>5, TotalGrows DEF Shaped
  <2>7. peak \in Nat /\ old <= peak
    BY <1>2, <2>5 DEF Sound
  <2>8. ~(new > peak)
    BY <2>6, <2>7
  <2>9. LET n == RefreshTelemetry(e) IN
          Sound(n) /\ n.peak = IF new > e.peak THEN new ELSE e.peak
    BY <2>2, <2>3, <2>4, <2>5, RefreshSound
  <2> QED BY <1>1, <2>1, <2>2, <2>5, <2>8, <2>9
<1> QED BY <1>3, <1>4

LEMMA NothingIsSound == Sound(NoResources) /\ ~NoResources.backend
<1>1. NoResources.bytes = BytesIn({})
  BY DEF NoResources, BytesIn
<1>2. Total(NoResources.bytes) = 0
  BY DEF NoResources, Total, Components
<1>3. /\ NoResources.loaded = {} /\ NoResources.resident = 0 /\ NoResources.peak = 0
      /\ NoResources.text = FALSE /\ NoResources.backend = FALSE
  BY DEF NoResources
<1>4. NoResources.text = ("umt5" \in NoResources.loaded)
  <2>1. "umt5" \notin NoResources.loaded
    BY <1>3
  <2>2. ~NoResources.text /\ NoResources.text \in BOOLEAN
    BY DEF NoResources
  <2> QED BY <2>1, <2>2, SMT
<1>5. NoResources.bytes = BytesIn(NoResources.loaded)
  BY <1>1, <1>3
<1>6. NoResources.resident = Total(NoResources.bytes)
  BY <1>2, <1>3
<1>7. NoResources.peak \in Nat /\ NoResources.resident <= NoResources.peak
  BY <1>3
<1>8. \A c \in NoResources.loaded : TensorsOf(c) # {}
  BY <1>3
<1>9. ~NoResources.backend
  BY <1>3
<1> HIDE DEF NoResources
<1> QED BY <1>4, <1>5, <1>6, <1>7, <1>8, <1>9, Zenon DEF Sound

LEMMA FailuresAreSound ==
  ASSUME NEW r, Good(r), Sound(r), NEW c \in Components, c \notin r.loaded,
         NEW n \in FailedLoads(r, c)
  PROVE  /\ Sound(n) /\ n.peak = r.peak
         /\ n.loaded = r.loaded /\ n.backend = r.backend
<1>1. CASE n = r
  BY <1>1
<1>2. CASE n = UnloadComponent(r, c)
  BY <1>2, UnloadSound, UnloadMakesGood
<1>3. CASE \E T \in SUBSET TensorsOf(c) : n = UnloadComponent(Define(r, c, T), c)
  BY <1>3, UnloadSound, UnloadMakesGood
<1> QED BY <1>1, <1>2, <1>3 DEF FailedLoads
-----------------------------------------------------------------------------
(* The books: what a model's resources, the device and the high mark say   *)
(* of each other, who may hold a model that has something loaded, and what *)
(* a session was told.                                                     *)
Accounted(m) ==
  /\ Sound(resources[m])
  /\ \A c \in Components : <<m, c>> \in device <=> c \in resources[m].loaded
  /\ high[m] \in Nat
  /\ model[m].stage = "none" => high[m] = 0
  /\ resources[m].backend => resources[m].peak = high[m]

Holds(x, m) == x \in Sessions /\ session[x].stage # "none" /\ session[x].model = m

Owned(m) ==
  /\ model[m].stage = "loading" \/ resources[m].loaded # {} => resOwners[m] # {}
  /\ \A x \in resOwners[m] :
       \/ x = "loader" /\ model[m].stage \in {"loading", "throwing"}
       \/ x = "impl" /\ implOwners[m] # {}
       \/ Holds(x, m)
  /\ \A x \in implOwners[m] :
       \/ x = "handle" /\ model[m].stage \in {"created", "open"}
       \/ Holds(x, m)

Reported(s) ==
  session[s].stage = "open" =>
    /\ session[s].resident = resources[session[s].model].resident
    /\ session[s].peak = resources[session[s].model].peak

Books ==
  /\ device \subseteq Models \X Components
  /\ high = [m \in Models |-> high[m]]
  /\ \A m \in Models : Accounted(m) /\ Owned(m)
  /\ \A s \in Sessions : Reported(s)

(* The bytes of a model's buffers are those of what it has loaded.         *)
LEMMA HeldIs ==
  ASSUME NEW m, NEW loaded, NEW buffers,
         \A c \in Components : <<m, c>> \in buffers <=> c \in loaded
  PROVE  HeldOf(m, buffers) = Total(BytesIn(loaded))
<1>1. [c \in Components |-> IF <<m, c>> \in buffers THEN BytesOf[c] ELSE 0] = BytesIn(loaded)
  BY DEF BytesIn
<1> QED BY <1>1 DEF HeldOf

LEMMA BooksInit == Init => Books
<1> SUFFICES ASSUME Init PROVE Books
  OBVIOUS
<1>1. NoResources.loaded = {}
  BY NothingIsGood
<1>2. ASSUME NEW m \in Models PROVE Accounted(m) /\ Owned(m)
  <2>1. /\ resources[m] = NoResources /\ high[m] = 0 /\ device = {}
        /\ model[m].stage = "none" /\ resOwners[m] = {} /\ implOwners[m] = {}
    BY DEF Init
  <2>2. Accounted(m)
    BY <1>1, <2>1, NothingIsSound DEF Accounted
  <2>3. Owned(m)
    BY <1>1, <2>1 DEF Owned
  <2> QED BY <2>2, <2>3
<1>3. ASSUME NEW s \in Sessions PROVE Reported(s)
  BY DEF Init, Reported, NoSession
<1>4. device \subseteq Models \X Components /\ high = [m \in Models |-> high[m]]
  BY DEF Init
<1> QED BY <1>2, <1>3, <1>4 DEF Books

LEMMA BooksImply == Inv /\ Books => DeviceAccounted
<1> SUFFICES ASSUME Inv, Books PROVE DeviceAccounted
  OBVIOUS
<1>1. ASSUME NEW m \in Models, NEW c \in Components
      PROVE  <<m, c>> \in device <=> resources[m].stores[c] # {}
  <2>1. /\ <<m, c>> \in device <=> c \in resources[m].loaded
        /\ c \in resources[m].loaded => TensorsOf(c) # {}
    BY DEF Books, Accounted, Sound
  <2>2. resources[m].stores[c] = IF c \in resources[m].loaded THEN TensorsOf(c) ELSE {}
    BY DEF Inv, ModelInv, Good
  <2> QED BY <2>1, <2>2
<1>2. device = {b \in Models \X Components : resources[b[1]].stores[b[2]] # {}}
  <2>1. ASSUME NEW b \in Models \X Components
        PROVE  b \in device <=> resources[b[1]].stores[b[2]] # {}
    <3>1. PICK m \in Models, c \in Components : b = <<m, c>>
      OBVIOUS
    <3>2. b[1] = m /\ b[2] = c
      BY <3>1
    <3> QED BY <1>1, <3>1, <3>2
  <2>2. device \subseteq Models \X Components
    BY DEF Books
  <2> QED BY <2>1, <2>2
<1>3. ASSUME NEW m \in Models
      PROVE  LET r == resources[m] IN
               /\ BuffersOf(m) # {} =>
                    model[m].stage \in {"loading", "throwing", "created", "open"}
                      \/ \E s \in Sessions : session[s].model = m
               /\ r.resident = HeldOf(m, device)
               /\ r.text = (<<m, "umt5">> \in device)
               /\ model[m].stage \in {"created", "open"} /\ r.backend => r.peak = high[m]
  <2>1. Accounted(m) /\ Owned(m)
    BY DEF Books
  <2>2. ASSUME BuffersOf(m) # {}
        PROVE  model[m].stage \in {"loading", "throwing", "created", "open"}
                 \/ \E s \in Sessions : session[s].model = m
    <3>1. PICK b \in device : b[1] = m
      BY <2>2 DEF BuffersOf
    <3>2. b[2] \in Components /\ b = <<m, b[2]>>
      BY <3>1 DEF Books
    <3>3. resources[m].loaded # {}
      BY <2>1, <3>2 DEF Accounted
    <3>4. PICK x \in resOwners[m] : TRUE
      BY <2>1, <3>3 DEF Owned
    <3>5. CASE x = "impl" /\ implOwners[m] # {}
      <4>1. PICK y \in implOwners[m] : TRUE
        BY <3>5
      <4> QED BY <2>1, <4>1 DEF Owned, Holds
    <3> QED BY <2>1, <3>4, <3>5 DEF Owned, Holds
  <2>3. resources[m].resident = HeldOf(m, device)
    <3>1. resources[m].resident = Total(BytesIn(resources[m].loaded))
      BY <2>1 DEF Accounted, Sound
    <3>2. \A c \in Components : <<m, c>> \in device <=> c \in resources[m].loaded
      BY <2>1 DEF Accounted
    <3> QED BY <3>1, <3>2, HeldIs
  <2>4. resources[m].text = (<<m, "umt5">> \in device)
    <3>1. resources[m].text = ("umt5" \in resources[m].loaded)
      BY <2>1, Zenon DEF Accounted, Sound
    <3>2. <<m, "umt5">> \in device <=> "umt5" \in resources[m].loaded
      BY <2>1 DEF Accounted, Components
    <3> QED BY <3>1, <3>2, SMT
  <2>5. resources[m].backend => resources[m].peak = high[m]
    BY <2>1 DEF Accounted
  <2> QED BY <2>2, <2>3, <2>4, <2>5
<1>4. \A s \in Sessions : session[s].stage = "open" =>
        LET r == resources[session[s].model] IN
          session[s].resident = r.resident /\ session[s].peak = r.peak
  BY DEF Books, Reported
<1> QED BY <1>2, <1>3, <1>4 DEF DeviceAccounted

-----------------------------------------------------------------------------
(* What nobody touches stays on the books. *)
LEMMA AccountKept ==
  ASSUME Books, NEW k \in Models, resources'[k] = resources[k], high'[k] = high[k],
         model'[k].stage = "none" => model[k].stage = "none",
         \A c \in Components : <<k, c>> \in device' <=> <<k, c>> \in device
  PROVE  Accounted(k)'
<1>1. Accounted(k)
  BY DEF Books
<1>2. Sound(resources[k])'
  BY <1>1 DEF Accounted
<1> QED BY <1>1, <1>2 DEF Accounted

LEMMA OwnersKept ==
  ASSUME Books, NEW k \in Models, model'[k] = model[k], resources'[k] = resources[k],
         implOwners'[k] = implOwners[k], resOwners'[k] = resOwners[k],
         \A s \in Sessions : Holds(s, k) => Holds(s, k)'
  PROVE  Owned(k)'
<1>1. Owned(k)
  BY DEF Books
<1>2. \A x : Holds(x, k) => Holds(x, k)'
  BY DEF Holds
<1> HIDE DEF Holds
<1> QED BY <1>1, <1>2 DEF Owned

LEMMA ReportKept ==
  ASSUME Books, NEW s \in Sessions, session'[s] = session[s],
         session[s].stage = "open" =>
           resources'[session[s].model] = resources[session[s].model]
  PROVE  Reported(s)'
BY DEF Books, Reported

(* A step of a load touches one model, on which no session is.             *)
LEMMA LoadKeepsBooks ==
  ASSUME Inv, Books, NEW m \in Models, model[m].stage \notin {"open", "closed"},
         UNCHANGED session, device' \subseteq Models \X Components,
         high' = [k \in Models |-> high'[k]],
         \A k \in Models \ {m} :
           /\ model'[k] = model[k] /\ resources'[k] = resources[k] /\ high'[k] = high[k]
           /\ implOwners'[k] = implOwners[k] /\ resOwners'[k] = resOwners[k]
           /\ \A c \in Components : <<k, c>> \in device' <=> <<k, c>> \in device,
         Accounted(m)', Owned(m)'
  PROVE  Books'
<1>1. ASSUME NEW k \in Models PROVE Accounted(k)' /\ Owned(k)'
  <2>1. CASE k = m
    BY <2>1
  <2>2. CASE k # m
    <3>1. \A s \in Sessions : Holds(s, k) => Holds(s, k)'
      BY DEF Holds
    <3>2. Accounted(k)'
      BY <2>2, AccountKept
    <3>3. Owned(k)'
      BY <2>2, <3>1, OwnersKept
    <3> QED BY <3>2, <3>3
  <2> QED BY <2>1, <2>2
<1>2. ASSUME NEW s \in Sessions PROVE Reported(s)'
  <2>1. session[s].stage = "open" => session[s].model \in Models \ {m}
    BY NobodyYet
  <2> QED BY <2>1, ReportKept
<1> QED BY <1>1, <1>2 DEF Books

(* Letting go of a model leaves it as it was or leaves nothing of it.      *)
LEMMA ReleaseBooks ==
  ASSUME Inv, Books, NEW m \in Models, NEW impl, NEW res, Release(m, impl, res),
         model'[m].stage # "none"
  PROVE  /\ device' \subseteq Models \X Components /\ high' = high
         /\ \A k \in Models \ {m} : \A c \in Components :
              <<k, c>> \in device' <=> <<k, c>> \in device
         /\ Accounted(m)'
         /\ resources'[m].loaded # {} => resOwners'[m] # {}
         /\ implOwners'[m] = impl
         /\ \A x \in resOwners'[m] : x \in res /\ (x = "impl" => impl # {})
<1> DEFINE left == IF impl = {} THEN res \ {"impl"} ELSE res
<1>1. /\ implOwners' = [implOwners EXCEPT ![m] = impl]
      /\ resOwners' = [resOwners EXCEPT ![m] = left]
      /\ \/ left # {} /\ resources' = resources /\ device' = device
         \/ /\ left = {}
            /\ resources' = [resources EXCEPT ![m] = NoResources]
            /\ device' = device \ BuffersOf(m)
      /\ high' = high
  BY DEF Release
<1>2. /\ resources = [k \in Models |-> resources[k]]
      /\ resOwners = [k \in Models |-> resOwners[k]]
      /\ implOwners = [k \in Models |-> implOwners[k]]
  BY DEF Inv, Shapes
<1>3. /\ device \subseteq Models \X Components /\ Accounted(m) /\ high[m] \in Nat
  BY DEF Books, Accounted
<1>4. \A x \in left : x \in res /\ (x = "impl" => impl # {})
  OBVIOUS
<1> HIDE DEF left
<1>5. resOwners'[m] = left /\ implOwners'[m] = impl
  BY <1>1, <1>2
<1>6. CASE left # {} /\ resources' = resources /\ device' = device
  <2>1. Accounted(m)'
    BY <1>1, <1>6, AccountKept, <1>3
  <2> QED BY <1>1, <1>3, <1>4, <1>5, <1>6, <2>1
<1>7. CASE /\ left = {}
           /\ resources' = [resources EXCEPT ![m] = NoResources]
           /\ device' = device \ BuffersOf(m)
  <2>1. resources'[m] = NoResources
    BY <1>2, <1>7
  <2>2. \A k \in Models, c \in Components :
          <<k, c>> \in device' <=> <<k, c>> \in device /\ k # m
    BY <1>7 DEF BuffersOf
  <2>3. Sound(resources'[m]) /\ resources'[m].loaded = {} /\ ~resources'[m].backend
    BY <2>1, NothingIsSound, NothingIsGood
  <2>4. Sound(resources[m])'
    BY <2>3
  <2>5. Accounted(m)'
    BY <1>1, <1>3, <2>2, <2>3, <2>4 DEF Accounted
  <2> QED BY <1>1, <1>3, <1>4, <1>5, <1>7, <2>2, <2>3, <2>5
<1> QED BY <1>1, <1>6, <1>7

-----------------------------------------------------------------------------
(* Steps of a load, on the books. *)
LEMMA CreateBooks ==
  ASSUME Inv, Books, NEW m \in Models, Create(m)
  PROVE  Books'
<1>1. PICK config \in Configs :
        /\ model[m].stage = "none"
        /\ \/ /\ model' = [model EXCEPT ![m] =
                             [stage |-> "created", config |-> config, next |-> 1]]
              /\ implOwners' = [implOwners EXCEPT ![m] = {"handle"}]
              /\ UNCHANGED <<resources, resOwners>>
           \/ /\ \E stage \in {"loading", "throwing"} :
                   model' = [model EXCEPT ![m] =
                               [stage |-> stage, config |-> config, next |-> 1]]
              /\ resources' = [resources EXCEPT ![m].backend = (config.backend = "device")]
              /\ resOwners' = [resOwners EXCEPT ![m] = {"loader"}]
              /\ UNCHANGED implOwners
        /\ UNCHANGED <<session, device, high>>
  BY DEF Create
<1>2. /\ Shapes /\ ModelInv(m) /\ Accounted(m) /\ Owned(m)
      /\ device \subseteq Models \X Components /\ high = [k \in Models |-> high[k]]
  BY DEF Inv, Books
<1>3. \A k \in Models \ {m} :
        /\ model'[k] = model[k] /\ resources'[k] = resources[k] /\ high'[k] = high[k]
        /\ implOwners'[k] = implOwners[k] /\ resOwners'[k] = resOwners[k]
        /\ \A c \in Components : <<k, c>> \in device' <=> <<k, c>> \in device
  BY <1>1, <1>2 DEF Shapes
<1>4. /\ Sound(resources'[m]) /\ resources'[m].loaded = resources[m].loaded
      /\ resources'[m].peak = high[m] /\ resources'[m].loaded = {}
  <2>1. /\ resources[m] = NoResources /\ high[m] = 0 /\ NoResources.peak = 0
        /\ resources[m].loaded = {}
    BY <1>1, <1>2, NothingIsGood DEF ModelInv, Accounted, NoResources
  <2>2. CASE resources' = resources
    BY <2>1, <2>2, NothingIsSound
  <2>3. CASE resources' = [resources EXCEPT ![m].backend = (config.backend = "device")]
    <3>1. PICK b \in BOOLEAN : b = (config.backend = "device")
      OBVIOUS
    <3>2. resources'[m] = [NoResources EXCEPT !.backend = b]
      BY <1>2, <2>1, <2>3, <3>1 DEF Shapes
    <3>3. Good(NoResources) /\ Sound(NoResources)
      BY NothingIsGood, NothingIsSound
    <3> HIDE DEF NoResources
    <3>4. /\ resources'[m].bytes = NoResources.bytes /\ resources'[m].text = NoResources.text
          /\ resources'[m].loaded = NoResources.loaded /\ resources'[m].peak = NoResources.peak
          /\ resources'[m].resident = NoResources.resident
      BY <3>2, <3>3 DEF Good, Shaped, Fields
    <3>5. Sound(resources'[m])
      BY <3>3, <3>4 DEF Sound
    <3> QED BY <2>1, <3>4, <3>5
  <2> QED BY <1>1, <2>2, <2>3
<1>5. Accounted(m)'
  <2>1. Sound(resources[m])'
    BY <1>4
  <2> QED BY <1>1, <1>2, <1>4, <2>1 DEF Accounted
<1>6. Owned(m)'
  <2>1. \A x : Holds(x, m) => Holds(x, m)'
    BY <1>1 DEF Holds
  <2>2. /\ model[m].stage = "none" /\ resources'[m].loaded = {}
        /\ \A x \in resOwners[m] : (x = "impl" /\ implOwners[m] # {}) \/ Holds(x, m)
        /\ \A x \in implOwners[m] : Holds(x, m)
    BY <1>1, <1>2, <1>4 DEF Owned
  <2> HIDE DEF Holds
  <2>3. CASE /\ model'[m].stage = "created" /\ implOwners'[m] = {"handle"}
             /\ resOwners'[m] = resOwners[m]
    BY <2>1, <2>2, <2>3 DEF Owned
  <2>4. CASE /\ model'[m].stage \in {"loading", "throwing"} /\ implOwners'[m] = implOwners[m]
             /\ resOwners'[m] = {"loader"}
    BY <2>1, <2>2, <2>4 DEF Owned
  <2> QED BY <1>1, <1>2, <2>3, <2>4 DEF Shapes
<1> QED BY <1>1, <1>2, <1>3, <1>5, <1>6, LoadKeepsBooks

(* A load that goes on or throws: its loader still owns the resources.     *)
LEMMA LoaderOwns ==
  ASSUME Inv, Books, NEW m \in Models,
         model[m].stage = "loading", model'[m].stage \in {"loading", "throwing"},
         UNCHANGED <<implOwners, resOwners, session>>
  PROVE  Owned(m)'
<1>1. Owned(m)
  BY DEF Books
<1>2. \A x : Holds(x, m) => Holds(x, m)'
  BY DEF Holds
<1> HIDE DEF Holds
<1> QED BY <1>1, <1>2 DEF Owned

LEMMA LoadComponentBooks ==
  ASSUME Inv, Books, NEW m \in Models, LoadComponent(m)
  PROVE  Books'
<1>1. PICK c : c = ComponentOf(m)
  OBVIOUS
<1>2. PICK buffers : buffers = BuffersOf(m) \cup {<<m, c>>}
  OBVIOUS
<1>3. /\ Loading(m, "load") /\ NextStep(m) /\ CanLoad(resources[m], c)
      /\ resources' = [resources EXCEPT ![m] = LoadedComponent(resources[m], c)]
      /\ device' = device \cup buffers
      /\ high' = [high EXCEPT ![m] =
                    IF HeldOf(m, buffers) > high[m] THEN HeldOf(m, buffers) ELSE high[m]]
      /\ UNCHANGED <<implOwners, resOwners, session>>
  BY <1>1, <1>2 DEF LoadComponent
<1>4. /\ Shapes /\ Good(resources[m]) /\ Accounted(m)
      /\ device \subseteq Models \X Components /\ high = [k \in Models |-> high[k]]
  BY DEF Inv, ModelInv, Books
<1>5. c \in Components /\ model[m].stage = "loading"
  BY <1>1, <1>3, StepDue DEF Loading
<1>6. model'[m].stage = "loading" /\ \A k \in Models \ {m} : model'[k] = model[k]
  BY <1>3, <1>4, <1>5, StepTaken
<1>7. PICK r : r = LoadedComponent(resources[m], c)
  OBVIOUS
<1>8. PICK held : held = Total(BytesIn(resources[m].loaded \cup {c}))
  OBVIOUS
<1>9. /\ Good(r) /\ r.loaded = resources[m].loaded \cup {c} /\ r.backend = resources[m].backend
      /\ Sound(r) /\ r.peak = IF held > resources[m].peak THEN held ELSE resources[m].peak
  BY <1>3, <1>4, <1>5, <1>7, <1>8, LoadMakesGood, LoadSound DEF CanLoad, Accounted
<1>10. /\ \A k \in Components : <<m, k>> \in buffers <=> k \in resources[m].loaded \cup {c}
       /\ \A b \in buffers : b[1] = m
  BY <1>2, <1>4, <1>5 DEF BuffersOf, Accounted
<1>11. HeldOf(m, buffers) = held /\ held \in Nat
  <2>1. HeldOf(m, buffers) = held
    BY <1>8, <1>10, HeldIs
  <2>2. resources[m].loaded \cup {c} \in SUBSET Components
    BY <1>4, <1>5 DEF Good, Shaped
  <2> QED BY <1>8, <2>1, <2>2, TotalGrows
<1>12. /\ resources'[m] = r
       /\ high'[m] = IF held > high[m] THEN held ELSE high[m]
       /\ high' = [k \in Models |-> high'[k]]
       /\ device' \subseteq Models \X Components
  <2>1. buffers \subseteq Models \X Components
    BY <1>2, <1>4, <1>5 DEF BuffersOf
  <2> QED BY <1>3, <1>4, <1>7, <1>11, <2>1 DEF Shapes
<1>13. \A k \in Models \ {m} :
         /\ model'[k] = model[k] /\ resources'[k] = resources[k] /\ high'[k] = high[k]
         /\ implOwners'[k] = implOwners[k] /\ resOwners'[k] = resOwners[k]
         /\ \A j \in Components : <<k, j>> \in device' <=> <<k, j>> \in device
  <2>1. \A k \in Models \ {m} : \A j \in Components : <<k, j>> \notin buffers
    BY <1>10
  <2> QED BY <1>3, <1>4, <1>6, <2>1 DEF Shapes
<1>14. Accounted(m)'
  <2>1. Sound(resources[m])'
    BY <1>9, <1>12
  <2>2. \A k \in Components : <<m, k>> \in device' <=> k \in resources'[m].loaded
    BY <1>3, <1>4, <1>9, <1>10, <1>12 DEF Accounted
  <2>3. high[m] \in Nat /\ resources[m].backend /\ resources[m].peak = high[m]
    BY <1>3, <1>4 DEF Accounted, CanLoad
  <2>4. high'[m] \in Nat /\ resources'[m].peak = high'[m]
    BY <1>9, <1>11, <1>12, <2>3
  <2> QED BY <1>6, <2>1, <2>2, <2>4 DEF Accounted
<1>15. Owned(m)'
  BY <1>3, <1>5, <1>6, LoaderOwns
<1> QED BY <1>3, <1>5, <1>12, <1>13, <1>14, <1>15, LoadKeepsBooks

LEMMA FailureBooks ==
  ASSUME Inv, Books, NEW m \in Models, LoadComponentFails(m)
  PROVE  Books'
<1>1. PICK c : c = ComponentOf(m)
  OBVIOUS
<1>2. PICK r \in FailedLoads(resources[m], c) :
        /\ resources' = [resources EXCEPT ![m] = r]
        /\ device' = {b \in device : b[1] = m => r.stores[b[2]] # {}}
  BY <1>1 DEF LoadComponentFails
<1>3. /\ Loading(m, "load") /\ SetStage(m, "throwing")
      /\ UNCHANGED <<implOwners, resOwners, session, high>>
  BY DEF LoadComponentFails
<1>4. /\ Shapes /\ Good(resources[m]) /\ Accounted(m) /\ Sound(resources[m])
      /\ device \subseteq Models \X Components /\ high = [k \in Models |-> high[k]]
  BY DEF Inv, ModelInv, Books, Accounted
<1>5. c \in Components /\ c \notin resources[m].loaded /\ model[m].stage = "loading"
  BY <1>1, <1>3, StepDue DEF Loading
<1>6. model'[m].stage = "throwing" /\ \A k \in Models \ {m} : model'[k] = model[k]
  BY <1>3, <1>4, StageSet DEF Stages
<1>7. /\ Good(r) /\ Sound(r) /\ r.peak = resources[m].peak
      /\ r.loaded = resources[m].loaded /\ r.backend = resources[m].backend
  BY <1>2, <1>4, <1>5, FailuresAreGood, FailuresAreSound
<1>8. \A k \in Components : <<m, k>> \in device => r.stores[k] # {}
  BY <1>4, <1>7 DEF Accounted, Good, Sound
<1>9. device' = device
  <2>1. ASSUME NEW b \in device, b[1] = m PROVE r.stores[b[2]] # {}
    <3>1. b[2] \in Components /\ b = <<m, b[2]>>
      BY <1>4, <2>1
    <3> QED BY <1>8, <3>1
  <2> QED BY <1>2, <2>1
<1>10. resources'[m] = r /\ \A k \in Models \ {m} : resources'[k] = resources[k]
  BY <1>2, <1>4 DEF Shapes
<1>11. Accounted(m)'
  <2>1. Sound(resources[m])'
    BY <1>7, <1>10
  <2> QED BY <1>3, <1>4, <1>6, <1>7, <1>9, <1>10, <2>1 DEF Accounted
<1>12. Owned(m)'
  BY <1>3, <1>5, <1>6, LoaderOwns
<1> QED BY <1>3, <1>4, <1>5, <1>6, <1>9, <1>10, <1>11, <1>12, LoadKeepsBooks

LEMMA EncodeBooks ==
  ASSUME Inv, Books, NEW m \in Models, EncodeFixedPrompt(m)
  PROVE  Books'
<1>1. /\ Loading(m, "encode")
      /\ \/ resources' = [resources EXCEPT ![m].fixed = TRUE] /\ NextStep(m)
         \/ SetStage(m, "throwing") /\ UNCHANGED resources
      /\ UNCHANGED <<implOwners, resOwners, session, device, high>>
  BY DEF EncodeFixedPrompt
<1>2. /\ Shapes /\ Good(resources[m]) /\ Accounted(m) /\ Sound(resources[m])
      /\ device \subseteq Models \X Components /\ high = [k \in Models |-> high[k]]
      /\ model[m].stage = "loading"
  BY <1>1 DEF Inv, ModelInv, Books, Accounted, Loading
<1>3. /\ model'[m].stage \in {"loading", "throwing"}
      /\ \A k \in Models \ {m} : model'[k] = model[k]
  BY <1>1, <1>2, StageSet, StepTaken DEF Stages
<1>4. /\ resources'[m] = resources[m] \/ resources'[m] = [resources[m] EXCEPT !.fixed = TRUE]
      /\ \A k \in Models \ {m} : resources'[k] = resources[k]
  BY <1>1, <1>2 DEF Shapes
<1>5. /\ resources'[m].bytes = resources[m].bytes /\ resources'[m].text = resources[m].text
      /\ resources'[m].loaded = resources[m].loaded /\ resources'[m].peak = resources[m].peak
      /\ resources'[m].resident = resources[m].resident
      /\ resources'[m].backend = resources[m].backend
  <2>1. CASE resources'[m] = resources[m]
    BY <2>1
  <2>2. CASE resources'[m] = [resources[m] EXCEPT !.fixed = TRUE]
    BY <1>2, <2>2 DEF Good, Shaped, Fields
  <2> QED BY <1>4, <2>1, <2>2
<1>6. Accounted(m)'
  <2>1. Sound(resources[m])'
    BY <1>2, <1>5 DEF Sound
  <2> QED BY <1>1, <1>2, <1>3, <1>5, <2>1 DEF Accounted
<1>7. Owned(m)'
  BY <1>1, <1>2, <1>3, LoaderOwns
<1> QED BY <1>1, <1>2, <1>3, <1>4, <1>6, <1>7, LoadKeepsBooks

LEMMA UnloadBooks ==
  ASSUME Inv, Books, NEW m \in Models, UnloadEncoder(m)
  PROVE  Books'
<1>1. PICK r : r = UnloadComponent(resources[m], "umt5")
  OBVIOUS
<1>2. /\ Loading(m, "unload") /\ NextStep(m)
      /\ resources' = [resources EXCEPT ![m] = r]
      /\ device' = {b \in device : b[1] = m => r.stores[b[2]] # {}}
      /\ UNCHANGED <<implOwners, resOwners, session, high>>
  BY <1>1 DEF UnloadEncoder
<1>3. /\ Shapes /\ Good(resources[m]) /\ Accounted(m) /\ Sound(resources[m])
      /\ device \subseteq Models \X Components /\ high = [k \in Models |-> high[k]]
      /\ model[m].stage = "loading"
  BY <1>2 DEF Inv, ModelInv, Books, Accounted, Loading
<1>4. model'[m].stage = "loading" /\ \A k \in Models \ {m} : model'[k] = model[k]
  BY <1>2, <1>3, StepTaken
<1>5. /\ Good(r) /\ r.loaded = resources[m].loaded \ {"umt5"}
      /\ r.backend = resources[m].backend /\ Sound(r) /\ r.peak = resources[m].peak
  <2>1. "umt5" \in Components /\ {} \in SUBSET TensorsOf("umt5")
    BY DEF Components
  <2> QED BY <1>1, <1>3, <2>1, UnloadMakesGood, UnloadSound
<1>6. \A k \in Components : r.stores[k] # {} <=> k \in r.loaded
  BY <1>5 DEF Good, Sound
<1>7. \A k \in Components : <<m, k>> \in device' <=> k \in r.loaded
  BY <1>2, <1>3, <1>5, <1>6 DEF Accounted
<1>8. \A k \in Models \ {m} : \A j \in Components : <<k, j>> \in device' <=> <<k, j>> \in device
  BY <1>2
<1>9. resources'[m] = r /\ \A k \in Models \ {m} : resources'[k] = resources[k]
  BY <1>2, <1>3 DEF Shapes
<1>10. device' \subseteq Models \X Components
  BY <1>2, <1>3
<1>11. Accounted(m)'
  <2>1. Sound(resources[m])'
    BY <1>5, <1>9
  <2> QED BY <1>2, <1>3, <1>4, <1>5, <1>7, <1>9, <2>1 DEF Accounted
<1>12. Owned(m)'
  BY <1>2, <1>3, <1>4, LoaderOwns
<1> QED BY <1>2, <1>3, <1>4, <1>8, <1>9, <1>10, <1>11, <1>12, LoadKeepsBooks

(* The end of a load, with a model or without. *)
LEMMA LoadEndBooks ==
  ASSUME Inv, Books, NEW m \in Models,
         LoadThrows(m) \/ ModelCreated(m) \/ ModelOpens(m)
  PROVE  Books'
<1>1. /\ Shapes /\ Accounted(m) /\ Owned(m)
      /\ device \subseteq Models \X Components /\ high = [k \in Models |-> high[k]]
  BY DEF Inv, Books
<1>2. UNCHANGED session
  BY DEF LoadThrows, ModelCreated, ModelOpens
<1>3. \A x : Holds(x, m) => Holds(x, m)'
  BY <1>2 DEF Holds
<1> HIDE DEF Holds
<1>4. ASSUME NEW impl, NEW res, NEW stage \in {"closed", "created"},
             Release(m, impl, res), SetStage(m, stage),
             model[m].stage \in {"loading", "throwing"},
             \/ impl = {} /\ res = {}
             \/ impl = {"handle"} /\ res = {"impl"} /\ stage = "created"
      PROVE  Books'
  <2>1. model'[m].stage = stage /\ \A k \in Models \ {m} : model'[k] = model[k]
    BY <1>1, <1>4, StageSet DEF Stages
  <2>2. /\ device' \subseteq Models \X Components /\ high' = high
        /\ \A k \in Models \ {m} : \A c \in Components :
             <<k, c>> \in device' <=> <<k, c>> \in device
        /\ Accounted(m)'
        /\ resources'[m].loaded # {} => resOwners'[m] # {}
        /\ implOwners'[m] = impl
        /\ \A x \in resOwners'[m] : x \in res /\ (x = "impl" => impl # {})
    BY <1>4, <2>1, ReleaseBooks
  <2>3. \A k \in Models \ {m} :
          /\ resources'[k] = resources[k] /\ high'[k] = high[k]
          /\ implOwners'[k] = implOwners[k] /\ resOwners'[k] = resOwners[k]
    BY <1>1, <1>4, <2>2, ReleaseKeeps DEF Shapes
  <2>4. Owned(m)'
    BY <1>4, <2>1, <2>2 DEF Owned
  <2> QED BY <1>1, <1>2, <1>4, <2>1, <2>2, <2>3, <2>4, LoadKeepsBooks
<1>5. CASE LoadThrows(m)
  BY <1>4, <1>5 DEF LoadThrows
<1>6. CASE ModelCreated(m)
  BY <1>4, <1>6 DEF ModelCreated
<1>7. CASE ModelOpens(m)
  <2>1. /\ model[m].stage = "created" /\ SetStage(m, "open")
        /\ UNCHANGED <<resources, implOwners, resOwners, session, device, high>>
    BY <1>7 DEF ModelOpens
  <2>2. model'[m].stage = "open" /\ \A k \in Models \ {m} : model'[k] = model[k]
    BY <1>1, <2>1, StageSet DEF Stages
  <2>3. Accounted(m)'
    BY <2>1, <2>2, AccountKept
  <2>4. Owned(m)'
    BY <1>1, <1>3, <2>1, <2>2 DEF Owned
  <2> QED BY <1>1, <2>1, <2>2, <2>3, <2>4, LoadKeepsBooks
<1> QED BY <1>5, <1>6, <1>7

-----------------------------------------------------------------------------
(* Closing a model, and the steps of sessions, on the books. *)
LEMMA HolderKeeps ==
  ASSUME Inv, NEW m \in Models, NEW impl, NEW res, Release(m, impl, res),
         NEW s \in Sessions, session[s].stage # "none",
         session[s].model = m => s \in impl /\ s \in res
  PROVE  resources'[session[s].model] = resources[session[s].model]
<1>1. session[s].model \in Models
  BY DEF Inv, SessionInv
<1>2. /\ \A k \in Models \ {m} : resources'[k] = resources[k]
      /\ \A x \in res : x # "impl" \/ impl # {} => resources'[m] = resources[m]
  BY ReleaseKeeps
<1> QED BY <1>1, <1>2

(* A session has its model's resources among those it owns.                *)
LEMMA HolderOwns ==
  ASSUME Inv, NEW s \in Sessions, session[s].stage # "none"
  PROVE  /\ s \in implOwners[session[s].model] /\ s \in resOwners[session[s].model]
         /\ session[s].model \in Models
         /\ s \notin {"handle", "impl", "loader"}
BY NamesAssumption DEF Inv, SessionInv

LEMMA CloseBooks ==
  ASSUME Inv, Books, NEW m \in Models, CloseModel(m)
  PROVE  Books'
<1>1. PICK impl : impl = implOwners[m] \ {"handle"}
  OBVIOUS
<1>2. /\ model[m].stage \in {"created", "open"} /\ SetStage(m, "closed")
      /\ Release(m, impl, resOwners[m]) /\ UNCHANGED session
  BY <1>1 DEF CloseModel
<1>3. /\ Shapes /\ Accounted(m) /\ Owned(m)
      /\ device \subseteq Models \X Components /\ high = [k \in Models |-> high[k]]
  BY DEF Inv, Books
<1>4. model'[m].stage = "closed" /\ \A k \in Models \ {m} : model'[k] = model[k]
  BY <1>2, <1>3, StageSet DEF Stages
<1>5. /\ device' \subseteq Models \X Components /\ high' = high
      /\ \A k \in Models \ {m} : \A c \in Components :
           <<k, c>> \in device' <=> <<k, c>> \in device
      /\ Accounted(m)'
      /\ resources'[m].loaded # {} => resOwners'[m] # {}
      /\ implOwners'[m] = impl
      /\ \A x \in resOwners'[m] : x \in resOwners[m] /\ (x = "impl" => impl # {})
  BY <1>2, <1>4, ReleaseBooks
<1>6. \A k \in Models \ {m} :
        /\ resources'[k] = resources[k] /\ high'[k] = high[k]
        /\ implOwners'[k] = implOwners[k] /\ resOwners'[k] = resOwners[k]
  BY <1>2, <1>3, <1>5, ReleaseKeeps DEF Shapes
<1>7. \A x, k : Holds(x, k) => Holds(x, k)'
  BY <1>2 DEF Holds
<1>8. Owned(m)'
  <2>1. /\ \A x \in resOwners[m] : x = "impl" \/ Holds(x, m)
        /\ \A x \in impl : Holds(x, m)
    BY <1>1, <1>2, <1>3 DEF Owned
  <2> HIDE DEF Holds
  <2> QED BY <1>4, <1>5, <1>7, <2>1 DEF Owned
<1>9. ASSUME NEW k \in Models PROVE Accounted(k)' /\ Owned(k)'
  <2>1. CASE k = m
    BY <1>5, <1>8, <2>1
  <2>2. CASE k # m
    <3>1. Accounted(k)'
      BY <1>4, <1>5, <1>6, <2>2, AccountKept
    <3>2. Owned(k)'
      BY <1>4, <1>6, <1>7, <2>2, OwnersKept
    <3> QED BY <3>1, <3>2
  <2> QED BY <2>1, <2>2
<1>10. ASSUME NEW s \in Sessions PROVE Reported(s)'
  <2>1. ASSUME session[s].stage = "open"
        PROVE  resources'[session[s].model] = resources[session[s].model]
    BY <1>1, <1>2, <2>1, HolderOwns, HolderKeeps
  <2> QED BY <1>2, <2>1, ReportKept
<1> QED BY <1>3, <1>5, <1>9, <1>10 DEF Books

LEMMA CreateSessionBooks ==
  ASSUME Inv, Books, NEW s \in Sessions, NEW m \in Models, CreateSession(s, m)
  PROVE  Books'
<1>1. /\ session[s].stage = "none"
      /\ model[m].stage = "open"
      /\ implOwners' = [implOwners EXCEPT ![m] = implOwners[m] \cup {s}]
      /\ resOwners' = [resOwners EXCEPT ![m] = resOwners[m] \cup {s}]
      /\ UNCHANGED <<model, resources, device, high>>
  BY DEF CreateSession
<1>2. Shapes /\ device \subseteq Models \X Components /\ high = [k \in Models |-> high[k]]
  BY DEF Inv, Books
<1>3. /\ session'[s].stage = "open" /\ session'[s].model = m
      /\ session'[s].resident = resources[m].resident
      /\ session'[s].peak = resources[m].peak
      /\ \A q \in Sessions \ {s} : session'[q] = session[q]
  BY <1>2 DEF CreateSession, Shapes
<1>4. Holds(s, m)' /\ \A x, k : Holds(x, k) => Holds(x, k)'
  BY <1>1, <1>3 DEF Holds
<1>5. ASSUME NEW k \in Models PROVE Accounted(k)' /\ Owned(k)'
  <2>1. Accounted(k)'
    BY <1>1, AccountKept
  <2>2. Owned(k) /\ model'[k] = model[k] /\ resources'[k] = resources[k]
    BY <1>1 DEF Books
  <2>3. CASE k = m
    <3>1. implOwners'[m] = implOwners[m] \cup {s} /\ resOwners'[m] = resOwners[m] \cup {s}
      BY <1>1, <1>2 DEF Shapes
    <3> HIDE DEF Holds
    <3> QED BY <1>4, <2>1, <2>2, <2>3, <3>1 DEF Owned
  <2>4. CASE k # m
    <3>1. implOwners'[k] = implOwners[k] /\ resOwners'[k] = resOwners[k]
      BY <1>1, <1>2, <2>4 DEF Shapes
    <3> HIDE DEF Holds
    <3>2. Owned(k)'
      BY <1>4, <2>2, <3>1, OwnersKept
    <3> QED BY <2>1, <3>2
  <2> QED BY <2>3, <2>4
<1>6. ASSUME NEW q \in Sessions PROVE Reported(q)'
  <2>1. CASE q = s
    BY <1>1, <1>3, <2>1 DEF Reported
  <2>2. CASE q # s
    BY <1>1, <1>3, <2>2, ReportKept
  <2> QED BY <2>1, <2>2
<1> QED BY <1>1, <1>2, <1>5, <1>6 DEF Books

LEMMA CallBooks ==
  ASSUME Inv, Books, NEW s \in Sessions,
         PredictStarts(s) \/ PredictEnds(s) \/ Reset(s) \/ CloseSession(s)
  PROVE  Books'
<1>1. UNCHANGED <<model, resources, implOwners, resOwners, device, high>>
  BY DEF PredictStarts, PredictEnds, Reset, CloseSession
<1>2. Shapes /\ SessionInv(s) /\ Reported(s)
  BY DEF Inv, Books
<1>3. /\ session[s].stage = "open"
      /\ session'[s].stage \in {"open", "closing"} /\ session'[s].model = session[s].model
      /\ session'[s].resident = session[s].resident /\ session'[s].peak = session[s].peak
      /\ \A q \in Sessions \ {s} : session'[q] = session[q]
  <2>1. session[s] = [f \in SessionFields |-> session[s][f]]
    BY <1>2 DEF Shapes
  <2>2. CASE PredictStarts(s)
    <3>1. PICK uses :
            session' = [session EXCEPT ![s].running = TRUE, ![s].uses = uses]
      BY <2>2 DEF PredictStarts
    <3> QED BY <1>2, <2>1, <2>2, <3>1 DEF PredictStarts, Idle, Shapes, SessionFields
  <2>3. CASE PredictEnds(s)
    <3>1. PICK kept :
            session' = [session EXCEPT ![s].running = FALSE, ![s].uses = kept]
      BY <2>3 DEF PredictEnds
    <3> QED BY <1>2, <2>1, <2>3, <3>1 DEF PredictEnds, SessionInv, Shapes, SessionFields
  <2>4. CASE Reset(s)
    BY <1>2, <2>1, <2>4 DEF Reset, Idle, Shapes, SessionFields
  <2>5. CASE CloseSession(s)
    BY <1>2, <2>1, <2>5 DEF CloseSession, Idle, Shapes, SessionFields
  <2> QED BY <2>2, <2>3, <2>4, <2>5
<1>4. \A x, k : Holds(x, k) => Holds(x, k)'
  BY <1>3 DEF Holds
<1>5. ASSUME NEW k \in Models PROVE Accounted(k)' /\ Owned(k)'
  <2>1. Accounted(k)'
    BY <1>1, AccountKept
  <2>2. Owned(k)'
    BY <1>1, <1>4, OwnersKept
  <2> QED BY <2>1, <2>2
<1>6. ASSUME NEW q \in Sessions PROVE Reported(q)'
  <2>1. CASE q = s
    BY <1>1, <1>2, <1>3, <2>1 DEF Reported
  <2>2. CASE q # s
    BY <1>1, <1>3, <2>2, ReportKept
  <2> QED BY <2>1, <2>2
<1> QED BY <1>1, <1>5, <1>6 DEF Books

LEMMA ReleasesBooks ==
  ASSUME Inv, Books, NEW s \in Sessions, SessionReleases(s)
  PROVE  Books'
<1>1. SessionInv(s) /\ Shapes /\ session[s].stage = "closing"
  BY DEF Inv, SessionReleases
<1>2. PICK m \in Models : m = session[s].model
  BY <1>1 DEF SessionInv
<1>3. PICK impl, res : impl = implOwners[m] \ {s} /\ res = resOwners[m] \ {s}
  OBVIOUS
<1>4. /\ session' = [session EXCEPT ![s] = NoSession]
      /\ Release(m, impl, res) /\ UNCHANGED model
  BY <1>2, <1>3 DEF SessionReleases
<1>5. /\ Accounted(m) /\ Owned(m) /\ model[m].stage \in {"open", "closed"}
      /\ device \subseteq Models \X Components /\ high = [k \in Models |-> high[k]]
  BY <1>1, <1>2 DEF Books, SessionInv
<1>6. /\ device' \subseteq Models \X Components /\ high' = high
      /\ \A k \in Models \ {m} : \A c \in Components :
           <<k, c>> \in device' <=> <<k, c>> \in device
      /\ Accounted(m)'
      /\ resources'[m].loaded # {} => resOwners'[m] # {}
      /\ implOwners'[m] = impl
      /\ \A x \in resOwners'[m] : x \in res /\ (x = "impl" => impl # {})
  BY <1>4, <1>5, ReleaseBooks
<1>7. \A k \in Models \ {m} :
        /\ resources'[k] = resources[k] /\ high'[k] = high[k]
        /\ implOwners'[k] = implOwners[k] /\ resOwners'[k] = resOwners[k]
  BY <1>1, <1>4, <1>6, ReleaseKeeps DEF Shapes
<1>8. session'[s] = NoSession /\ \A q \in Sessions \ {s} : session'[q] = session[q]
  BY <1>1, <1>4 DEF Shapes
<1>9. \A x, k : x # s /\ Holds(x, k) => Holds(x, k)'
  BY <1>8 DEF Holds
<1>10. Owned(m)'
  <2>1. /\ \A x \in resOwners[m] : x = "impl" \/ Holds(x, m)
        /\ \A x \in implOwners[m] :
             (x = "handle" /\ model[m].stage \in {"created", "open"}) \/ Holds(x, m)
    BY <1>5 DEF Owned
  <2> HIDE DEF Holds
  <2> QED BY <1>3, <1>4, <1>5, <1>6, <1>9, <2>1 DEF Owned
<1>11. ASSUME NEW k \in Models PROVE Accounted(k)' /\ Owned(k)'
  <2>1. CASE k = m
    BY <1>6, <1>10, <2>1
  <2>2. CASE k # m
    <3>1. Accounted(k)'
      BY <1>4, <1>6, <1>7, <2>2, AccountKept
    <3>2. \A x : Holds(x, k) => Holds(x, k)'
      BY <1>2, <1>9, <2>2 DEF Holds
    <3>3. Owned(k)'
      BY <1>4, <1>7, <2>2, <3>2, OwnersKept
    <3> QED BY <3>1, <3>3
  <2> QED BY <2>1, <2>2
<1>12. ASSUME NEW q \in Sessions PROVE Reported(q)'
  <2>1. CASE q = s
    BY <1>8, <2>1 DEF Reported, NoSession
  <2>2. CASE q # s
    <3>1. ASSUME session[q].stage = "open"
          PROVE  resources'[session[q].model] = resources[session[q].model]
      BY <1>3, <1>4, <2>2, <3>1, HolderOwns, HolderKeeps
    <3> QED BY <1>8, <2>2, <3>1, ReportKept
  <2> QED BY <2>1, <2>2
<1> QED BY <1>5, <1>6, <1>11, <1>12 DEF Books

LEMMA BooksNext == Inv /\ Books /\ [Next]_vars => Books'
<1> SUFFICES ASSUME Inv, Books, [Next]_vars PROVE Books'
  OBVIOUS
<1>1. ASSUME NEW m \in Models,
             \/ Create(m) \/ LoadComponent(m) \/ LoadComponentFails(m)
             \/ EncodeFixedPrompt(m) \/ UnloadEncoder(m) \/ LoadThrows(m)
             \/ ModelCreated(m) \/ ModelOpens(m) \/ CloseModel(m)
      PROVE  Books'
  BY <1>1, CreateBooks, LoadComponentBooks, FailureBooks, EncodeBooks, UnloadBooks,
     LoadEndBooks, CloseBooks
<1>2. ASSUME NEW s \in Sessions,
             \/ \E m \in Models : CreateSession(s, m)
             \/ PredictStarts(s) \/ PredictEnds(s) \/ Reset(s)
             \/ CloseSession(s) \/ SessionReleases(s)
      PROVE  Books'
  BY <1>2, CreateSessionBooks, CallBooks, ReleasesBooks
<1>3. CASE UNCHANGED vars
  BY <1>3 DEF vars, Books, Accounted, Sound, Owned, Holds, Reported
<1> QED BY <1>1, <1>2, <1>3 DEF Next

(* The device holds the buffers of what its models have loaded and nothing *)
(* else, every buffer has an owner that will free it, and the bytes, the   *)
(* peak and the encoder's flag that models and sessions report are those   *)
(* of the buffers (ModelResources and its destructor, load_component,      *)
(* unload_component, refresh_component_telemetry, Session::Impl).          *)
THEOREM DeviceIsAccounted == Spec => []DeviceAccounted
<1>1. Inv /\ Books /\ [Next]_vars => Inv' /\ Books'
  BY InvNext, BooksNext
<1>2. Init => Inv /\ Books
  BY InvInit, BooksInit
<1>3. Inv /\ Books => DeviceAccounted
  BY BooksImply
<1> QED BY <1>1, <1>2, <1>3, PTL DEF Spec
=============================================================================
