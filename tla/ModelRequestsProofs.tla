------------------------ MODULE ModelRequestsProofs ------------------------
(***************************************************************************)
(* What holds of every artifact, request and answer of the network.  The   *)
(* bytes of a loaded model's tensors lie in its file; what a load accepts  *)
(* (LoadedRight) is enough for the pipeline's input checks, for the range  *)
(* of a clipped action, for decoding to undo normalisation and for the     *)
(* prefix of the token sequence to be computed once; every pixel of the    *)
(* canvas is one of the right image, channel and place; and no sampling    *)
(* window of an image that can be resized is empty, as the weights of the  *)
(* cubic kernel never cancel out: a negative weight is paired with a       *)
(* larger positive one, but for four that the weight nearest to the center *)
(* outweighs.                                                              *)
(***************************************************************************)
EXTENDS ModelRequests, FiniteSetTheorems, SequenceTheorems, WellFoundedInduction,
        TLAPS

(* The file a loaded model reads from is one the reader opened. *)
OpenedFile ==
  model.state = "loaded" => OpenReader(model.file) = "ok" /\ FileNumbers(model.file)

(* Model::load does not get past a file that is not opened. *)
LEMMA LoadOpens ==
  ASSUME NEW path, NEW config, LoadError(path, config) = "ok"
  PROVE  ResolveBundle(path) = "ok" /\ OpenReader(ModelPath(path)) = "ok"
BY DEF LoadError

(* The sum of two offsets that fit is no smaller than either. *)
LEMMA NoWrap ==
  ASSUME NEW a \in Nat, NEW b \in Nat, a + b <= MaxU64
  PROVE  (a + b) % (MaxU64 + 1) = a + b
BY WidthAssumption

LEMMA FileOpenedInit == Init => OpenedFile
BY DEF Init, NoModel, OpenedFile

LEMMA FileOpenedStep == OpenedFile /\ [Next]_vars => OpenedFile'
<1> SUFFICES ASSUME OpenedFile, [Next]_vars PROVE OpenedFile'
  OBVIOUS
<1>1. ASSUME NEW load \in Loads, Load(load.path, load.config) PROVE OpenedFile'
  <2> DEFINE error == LoadError(load.path, load.config)
  <2>1. CASE error # "ok"
    BY <1>1, <2>1 DEF Load, Refused, OpenedFile
  <2>2. CASE error = "ok"
    <3>1. FileNumbers(ModelPath(load.path)) /\ OpenReader(ModelPath(load.path)) = "ok"
      BY <2>2, LoadOpens, LoadsAssumption
    <3>2. PICK outcome \in DeviceOutcomes(ModelPath(load.path), load.config) :
            model' = IF outcome = "ok" THEN LoadedModel(ModelPath(load.path), load.config)
                     ELSE Refused(outcome)
      BY <1>1, <2>2 DEF Load
    <3>3. CASE outcome = "ok"
      BY <3>1, <3>2, <3>3 DEF LoadedModel, OpenedFile
    <3>4. CASE outcome # "ok"
      BY <3>2, <3>4 DEF Refused, OpenedFile
    <3> QED BY <3>3, <3>4
  <2> QED BY <2>1, <2>2
<1>2. ASSUME UNCHANGED model PROVE OpenedFile'
  BY <1>2 DEF OpenedFile
<1> QED
  BY <1>1, <1>2 DEF Next, vars, CreateSession, Predict, Return, Reset

LEMMA OpenedInside == OpenedFile => PayloadInside
<1> SUFFICES ASSUME OpenedFile, model.state = "loaded", NEW i \in DOMAIN model.file.tensors
             PROVE  model.file.data_offset + model.file.tensors[i].offset
                      + Product(model.file.tensors[i].shape)
                        * ByteWidth[model.file.tensors[i].type] <= model.file.size
  BY DEF PayloadInside
<1> DEFINE t == model.file.tensors[i]
           bytes == Product(t.shape) * ByteWidth[t.type]
<1>1. /\ model.file.size \in Nat /\ model.file.data_offset \in 0..MaxU64
      /\ t.offset \in Nat /\ bytes \in Nat
  BY DEF OpenedFile, FileNumbers
<1>2. OffsetFits(model.file, t) /\ InFile(model.file, TensorInfo(model.file, t))
  BY DEF OpenedFile, OpenReader
<1>3. model.file.data_offset + t.offset <= MaxU64
  BY <1>1, <1>2, WidthAssumption DEF OffsetFits
<1>4. TensorInfo(model.file, t).file_offset = model.file.data_offset + t.offset
  BY <1>1, <1>3, NoWrap DEF TensorInfo
<1>5. TensorInfo(model.file, t).bytes = bytes
  BY DEF TensorInfo
<1>6. /\ model.file.data_offset + t.offset <= model.file.size
      /\ bytes <= model.file.size - (model.file.data_offset + t.offset)
  BY <1>2, <1>4, <1>5 DEF InFile
<1> HIDE DEF bytes
<1>7. model.file.data_offset + t.offset + bytes <= model.file.size
  BY <1>1, <1>6, WidthAssumption
<1> QED BY <1>7 DEF bytes

(* Every tensor of a loaded model lies in its file: the reader's check of  *)
(* a 64-bit offset cannot be passed by one whose sum wraps.                *)
THEOREM TensorsInFile == Spec => []PayloadInside
<1>1. Spec => []OpenedFile
  BY FileOpenedInit, FileOpenedStep, PTL DEF Spec
<1> QED BY <1>1, OpenedInside, PTL

-----------------------------------------------------------------------------
LEMMA OutcomeState ==
  ASSUME NEW prepared, NEW outcome \in Outcomes(prepared)
  PROVE  outcome.state \in {"refused", "answered"}
BY DEF Outcomes, Answer, Refused

LEMMA TypeInit == Init => TypeOK
BY DrawsAssumption DEF Init, NoModel, NoCall, TypeOK

LEMMA TypeStep == TypeOK /\ [Next]_vars => TypeOK'
<1> SUFFICES ASSUME TypeOK, [Next]_vars PROVE TypeOK'
  OBVIOUS
<1> USE DrawsAssumption
<1>1. ASSUME NEW load \in Loads, Load(load.path, load.config) PROVE TypeOK'
  <2>1. ~session
    BY <1>1 DEF Load, NoModel, TypeOK
  <2>2. model'.state \in {"refused", "loaded"}
    BY <1>1 DEF Load, LoadedModel, Refused
  <2> QED BY <1>1, <2>1, <2>2 DEF Load, TypeOK
<1>2. CASE CreateSession
  <2>1. call'.outcome.state \in {"none", "refused", "answered"}
    BY <1>2 DEF CreateSession, Refused, NoCall, TypeOK
  <2>2. session' => model.state = "loaded" /\ ~model.metadata_only
    BY <1>2 DEF CreateSession, TypeOK
  <2> QED BY <1>2, <2>1, <2>2 DEF CreateSession, TypeOK
<1>3. ASSUME NEW request \in Requests, Predict(request) PROVE TypeOK'
  <2>1. call'.outcome.state \in {"refused", "answered"}
    <3>1. CASE PrepareError(request) # "ok"
      BY <1>3, <3>1 DEF Predict, Refused
    <3>2. CASE PrepareError(request) = "ok"
      <4>1. PICK outcome \in Outcomes(Prepared(request)) : call'.outcome = outcome
        BY <1>3, <3>2 DEF Predict
      <4> QED BY <4>1, OutcomeState
    <3> QED BY <3>1, <3>2
  <2>2. draws' \in 0..MaxDraws
    BY <1>3 DEF Predict, TypeOK
  <2> QED BY <1>3, <2>1, <2>2 DEF Predict, TypeOK
<1>4. CASE Return
  BY <1>4 DEF Return, NoCall, TypeOK
<1>5. CASE Reset
  BY <1>5 DEF Reset, TypeOK
<1>6. CASE UNCHANGED vars
  BY <1>6 DEF vars, TypeOK
<1> QED BY <1>1, <1>2, <1>3, <1>4, <1>5, <1>6 DEF Next

(* A session exists only of a model that was loaded for a device. *)
THEOREM TypeCorrect == Spec => []TypeOK
BY TypeInit, TypeStep, PTL DEF Spec

-----------------------------------------------------------------------------
(* What a loaded model has been checked for.                               *)

NormTyped(norm) ==
  /\ norm.kind \in Normalizations /\ norm.clip \in BOOLEAN
  /\ norm.epsilon \in Floats
  /\ norm.clamp.lower \in Seq(Floats) /\ norm.clamp.upper \in Seq(Floats)

StatsTyped(stats) ==
  /\ stats.mean \in Seq(Floats) /\ stats.stddev \in Seq(Floats)
  /\ stats.lower \in Seq(Floats) /\ stats.upper \in Seq(Floats)

ViewTyped(view) == view.width \in Nat /\ view.height \in Nat

PlaceTyped(p) == p.x \in Nat /\ p.y \in Nat /\ p.width \in Nat /\ p.height \in Nat

CanvasTyped(canvas) ==
  /\ canvas.width \in Nat /\ canvas.height \in Nat
  /\ DOMAIN canvas.placements = 1..Len(canvas.placements)
  /\ Len(canvas.placements) \in Nat
  /\ \A i \in DOMAIN canvas.placements : PlaceTyped(canvas.placements[i])

SpecTyped(spec) ==
  /\ DOMAIN spec.views = 1..Len(spec.views) /\ Len(spec.views) \in Nat
  /\ \A v \in DOMAIN spec.views : ViewTyped(spec.views[v])
  /\ CanvasTyped(spec.composition)
  /\ spec.state.real_dim \in Nat /\ spec.state.model_dim \in Nat
  /\ spec.language.max_tokens \in Nat
  /\ spec.action.horizon \in Nat
  /\ spec.action.real_dim \in Nat /\ spec.action.model_dim \in Nat
  /\ NormTyped(spec.action.norm) /\ StatsTyped(spec.action.stats)
  /\ spec.action.indices \in Seq(Int)

Below == {ss \in Nat \X Nat : ss[1] < ss[2]}

(* A set of natural numbers that is not empty has a least element.         *)
LEMMA Least ==
  ASSUME NEW S \in SUBSET Nat, S # {}
  PROVE  \E n \in S : \A m \in S : n <= m
<1>1. IsWellFoundedOn(Below, Nat)
  BY NatLessThanWellFounded, Zenon DEF OpToRel, Below
<1>2. PICK n \in S : \A m \in S : ~(<<m, n>> \in Below)
  BY <1>1, WFMin
<1>3. \A m \in S : ~(m < n)
  <2>1. SUFFICES ASSUME NEW m \in S, m < n PROVE FALSE
    OBVIOUS
  <2>2. <<m, n>> \in Nat \X Nat /\ <<m, n>>[1] = m /\ <<m, n>>[2] = n
    OBVIOUS
  <2>3. <<m, n>> \in Below
    BY <2>1, <2>2 DEF Below
  <2> QED BY <1>2, <2>3
<1>4. \A m \in S : m \in Nat /\ n \in Nat
  OBVIOUS
<1> QED BY <1>3, <1>4

(* Min, by which a tensor, a view's image and its place are looked up.     *)
LEMMA MinIsMember ==
  ASSUME NEW S \in SUBSET Nat, S # {}
  PROVE  Min(S) \in S
BY Least DEF Min

(* read_f32_tensor gives a vector of numbers. *)
LEMMA ReadsNumbers ==
  ASSUME NEW file, FileNumbers(file), NEW name, HasTensor(file, name)
  PROVE  F32Values(file, name) \in Seq(Floats)
<1>1. Positions(file, name) \in SUBSET DOMAIN file.tensors
  BY DEF Positions
<1>2. DOMAIN file.tensors \subseteq Nat
  BY DEF FileNumbers
<1>3. Min(Positions(file, name)) \in DOMAIN file.tensors
  BY <1>1, <1>2, MinIsMember DEF HasTensor
<1> QED BY <1>3 DEF FileNumbers, F32Values

LEMMA StatsRead ==
  ASSUME NEW file, FileNumbers(file), NEW domain
  PROVE  StatsTyped(ReadStats(file, domain))
<1> DEFINE names == StatNames(file, domain)
           V(s) == IF HasTensor(file, names[s]) THEN F32Values(file, names[s]) ELSE <<>>
<1>1. \A s : V(s) \in Seq(Floats)
  BY ReadsNumbers
<1>2. DOMAIN names = {"mean", "stddev", "lower", "upper", "mask"}
  BY DEF StatNames
<1>3. \A s \in DOMAIN names : ReadStats(file, domain)[s] = V(s)
  BY DEF ReadStats
<1> HIDE DEF V, names
<1> QED BY <1>1, <1>2, <1>3 DEF StatsTyped

(* The keys a PolicySpec must have, by their types. *)
LEMMA KeyTypes ==
  /\ {"composition_kind", "recovery_kind", "state_kind", "action_kind", "roles",
      "state_real_dim", "state_model_dim", "max_tokens", "horizon", "action_real_dim",
      "action_model_dim", "epsilon", "action_clip"} \subseteq DOMAIN RequiredType
  /\ RequiredType["roles"] = "strings"
  /\ \A key \in {"state_real_dim", "state_model_dim", "max_tokens", "horizon",
                 "action_real_dim", "action_model_dim"} : RequiredType[key] = "u32"
  /\ RequiredType["epsilon"] = "f32"
  /\ RequiredType["action_clip"] = "bool"
BY DEF RequiredType

LEMMA KeysRead ==
  ASSUME NEW file, FileNumbers(file), PolicySpecReadable(file)
  PROVE  /\ Value(file, "roles") \in Seq(STRING)
         /\ \A key \in {"state_real_dim", "state_model_dim", "max_tokens", "horizon",
                        "action_real_dim", "action_model_dim"} : Value(file, key) \in Nat
         /\ Value(file, "epsilon") \in Floats
         /\ Value(file, "action_clip") \in BOOLEAN
<1>1. \A key \in DOMAIN RequiredType :
        key \in DOMAIN file.keys /\ file.keys[key].type = RequiredType[key]
  BY DEF PolicySpecReadable, RequireKey, HasKey
<1>2. \A key \in DOMAIN file.keys : Typed(file.keys[key])
  BY DEF FileNumbers
<1> QED BY <1>1, <1>2, KeyTypes DEF Typed, Value

LEMMA WordsRead ==
  ASSUME NEW file, PolicySpecReadable(file)
  PROVE  /\ Value(file, "action_kind") \in Normalizations
         /\ Value(file, "composition_kind") \in {"none", "canvas"}
<1>1. {"action_kind", "composition_kind"} \subseteq DOMAIN Words \ {"resample_boundary"}
  BY DEF Words
<1>2. Words["action_kind"] = Normalizations /\ Words["composition_kind"] = {"none", "canvas"}
  BY DEF Words
<1> QED BY <1>1, <1>2 DEF PolicySpecReadable

LEMMA ViewsRead ==
  ASSUME NEW file, FileNumbers(file), PolicySpecReadable(file), NEW i \in DOMAIN Roles(file)
  PROVE  ViewTyped(ReadView(file, Roles(file)[i]))
<1> DEFINE view == file.views[Roles(file)[i]]
<1>1. Roles(file)[i] \in DOMAIN file.views /\ ViewReadable(view)
  BY DEF PolicySpecReadable
<1>2. \A key \in DOMAIN view : Typed(view[key])
  BY <1>1 DEF FileNumbers
<1>3. /\ {"target_height", "target_width"} \subseteq DOMAIN ViewType
      /\ ViewType["target_height"] = "u32" /\ ViewType["target_width"] = "u32"
  BY DEF ViewType
<1>4. /\ view["target_height"].value \in Nat
      /\ view["target_width"].value \in Nat
  BY <1>1, <1>2, <1>3 DEF ViewReadable, Typed
<1>5. /\ ReadView(file, Roles(file)[i]).width = view["target_width"].value
      /\ ReadView(file, Roles(file)[i]).height = view["target_height"].value
  BY DEF ReadView
<1> QED BY <1>4, <1>5 DEF ViewTyped

LEMMA PlacesRead ==
  ASSUME NEW file, FileNumbers(file), PolicySpecReadable(file), NEW i \in DOMAIN Roles(file),
         Value(file, "composition_kind") = "canvas"
  PROVE  PlaceTyped(ReadPlacement(file, Roles(file)[i]))
<1> DEFINE view == file.views[Roles(file)[i]]
           rect == view["rect"].value
<1>1. Roles(file)[i] \in DOMAIN file.views /\ RectReadable(view)
  BY DEF PolicySpecReadable
<1>2. \A key \in DOMAIN view : Typed(view[key])
  BY <1>1 DEF FileNumbers
<1>3. rect \in Seq(Nat) /\ Len(rect) = 4
  BY <1>1, <1>2 DEF RectReadable, Typed
<1>4. ReadPlacement(file, Roles(file)[i])
        = [role |-> Roles(file)[i], x |-> rect[1], y |-> rect[2], width |-> rect[3],
           height |-> rect[4]]
  BY DEF ReadPlacement
<1> HIDE DEF rect
<1>5. \A j \in 1..4 : rect[j] \in Nat
  BY <1>3, ElementOfSeq
<1>6. rect[1] \in Nat /\ rect[2] \in Nat /\ rect[3] \in Nat /\ rect[4] \in Nat
  BY <1>3, <1>5
<1> QED BY <1>4, <1>6 DEF PlaceTyped

LEMMA CanvasRead ==
  ASSUME NEW file, FileNumbers(file), PolicySpecReadable(file)
  PROVE  CanvasTyped(ReadComposition(file))
<1>1. Roles(file) \in Seq(STRING)
  BY KeysRead DEF Roles
<1>2. CASE Value(file, "composition_kind") = "none"
  BY <1>2 DEF ReadComposition, CanvasTyped
<1>3. CASE Value(file, "composition_kind") # "none"
  <2>1. Value(file, "composition_kind") = "canvas"
    BY <1>3, WordsRead
  <2>2. \A key \in {"composition_height", "composition_width"} :
          key \in DOMAIN file.keys /\ file.keys[key].type = "u32"
    BY <2>1 DEF PolicySpecReadable, RequireKey, HasKey
  <2>3. Value(file, "composition_height") \in Nat /\ Value(file, "composition_width") \in Nat
    BY <2>2 DEF FileNumbers, Typed, Value
  <2>4. \A i \in DOMAIN Roles(file) : PlaceTyped(ReadPlacement(file, Roles(file)[i]))
    BY <2>1, PlacesRead
  <2> DEFINE placed == [i \in DOMAIN Roles(file) |-> ReadPlacement(file, Roles(file)[i])]
  <2>5. DOMAIN placed = 1..Len(Roles(file)) /\ Len(Roles(file)) \in Nat
    BY <1>1
  <2>6. Len(placed) = Len(Roles(file))
    BY <2>5
  <2>7. \A i \in DOMAIN placed : PlaceTyped(placed[i])
    BY <2>4
  <2>8. ReadComposition(file) =
          [kind |-> "canvas", height |-> Value(file, "composition_height"),
           width |-> Value(file, "composition_width"), placements |-> placed]
    BY <1>3 DEF ReadComposition
  <2> HIDE DEF placed
  <2> QED BY <2>3, <2>5, <2>6, <2>7, <2>8 DEF CanvasTyped
<1> QED BY <1>2, <1>3

LEMMA NormRead ==
  ASSUME NEW file, FileNumbers(file), PolicySpecReadable(file)
  PROVE  NormTyped(ReadPolicySpec(file).action.norm)
<1> DEFINE low == IF HasKey(file, "action_output_clamp_lower")
                    THEN <<Value(file, "action_output_clamp_lower")>> ELSE <<>>
           high == IF HasKey(file, "action_output_clamp_upper")
                     THEN <<Value(file, "action_output_clamp_upper")>> ELSE <<>>
<1>1. /\ {"action_output_clamp_lower", "action_output_clamp_upper"} \subseteq DOMAIN OptionalKeys
      /\ OptionalKeys["action_output_clamp_lower"] = "f32"
      /\ OptionalKeys["action_output_clamp_upper"] = "f32"
  BY DEF OptionalKeys
<1>2. \A key \in {"action_output_clamp_lower", "action_output_clamp_upper"} :
        HasKey(file, key) => Value(file, key) \in Floats
  BY <1>1 DEF PolicySpecReadable, FileNumbers, Typed, HasKey, Value
<1>3. low \in Seq(Floats) /\ high \in Seq(Floats)
  BY <1>2
<1>4. ReadPolicySpec(file).action.norm
        = [ kind |-> Value(file, "action_kind"), clip |-> Value(file, "action_clip"),
            epsilon |-> Value(file, "epsilon"), clamp |-> [lower |-> low, upper |-> high] ]
  BY DEF ReadPolicySpec, ReadNormalization
<1> HIDE DEF low, high
<1> QED BY <1>3, <1>4, KeysRead, WordsRead DEF NormTyped

LEMMA SpecRead ==
  ASSUME NEW file, FileNumbers(file), PolicySpecReadable(file)
  PROVE  SpecTyped(ReadPolicySpec(file))
<1> DEFINE spec == ReadPolicySpec(file)
           views == [i \in DOMAIN Roles(file) |-> ReadView(file, Roles(file)[i])]
<1>1. Roles(file) \in Seq(STRING)
  BY KeysRead DEF Roles
<1>2. DOMAIN views = 1..Len(views) /\ Len(views) \in Nat
  BY <1>1
<1>3. \A v \in DOMAIN views : ViewTyped(views[v])
  BY ViewsRead
<1>4. spec.views = views /\ spec.composition = ReadComposition(file)
  BY DEF ReadPolicySpec
<1>5. /\ spec.state.real_dim = Value(file, "state_real_dim")
      /\ spec.state.model_dim = Value(file, "state_model_dim")
      /\ spec.language.max_tokens = Value(file, "max_tokens")
      /\ spec.action.horizon = Value(file, "horizon")
      /\ spec.action.real_dim = Value(file, "action_real_dim")
      /\ spec.action.model_dim = Value(file, "action_model_dim")
      /\ spec.action.stats = ReadStats(file, "action")
      /\ spec.action.indices = Optional(file, "reference_state_indices", <<>>)
  BY DEF ReadPolicySpec
<1>6. Optional(file, "reference_state_indices", <<>>) \in Seq(Int)
  <2>1. /\ "reference_state_indices" \in DOMAIN OptionalKeys
        /\ OptionalKeys["reference_state_indices"] = "i32s"
    BY DEF OptionalKeys
  <2> QED BY <2>1 DEF PolicySpecReadable, FileNumbers, Typed, HasKey, Value, Optional
<1>7. NormTyped(spec.action.norm)
  BY NormRead
<1>8. StatsTyped(spec.action.stats)
  BY <1>5, StatsRead
<1>9. CanvasTyped(spec.composition)
  BY <1>4, CanvasRead
<1> HIDE DEF spec, views
<1>10. /\ spec.state.real_dim \in Nat /\ spec.state.model_dim \in Nat
       /\ spec.language.max_tokens \in Nat /\ spec.action.horizon \in Nat
       /\ spec.action.real_dim \in Nat /\ spec.action.model_dim \in Nat
  BY <1>5, KeysRead
<1>11. /\ DOMAIN spec.views = 1..Len(spec.views) /\ Len(spec.views) \in Nat
       /\ \A v \in DOMAIN spec.views : ViewTyped(spec.views[v])
  BY <1>2, <1>3, <1>4
<1>12. spec.action.indices \in Seq(Int)
  BY <1>5, <1>6
<1>13. SpecTyped(spec)
  BY <1>7, <1>8, <1>9, <1>10, <1>11, <1>12 DEF SpecTyped
<1> QED BY <1>13 DEF spec

(* The PolicySpec made up for an older file. *)
LEMMA LegacyNumbers ==
  ASSUME NEW file, FileNumbers(file), LegacyError(file) = "ok"
  PROVE  /\ ModelValue(file, "image_height") \in Nat
         /\ ModelValue(file, "image_width") \in Nat
         /\ Audited.state_dim \in Nat /\ Audited.action_dim \in Nat
         /\ Audited.model_dim \in Nat /\ Audited.horizon \in Nat
<1>1. \A key \in LegacyKeys : HasModelKey(file, key, "u32")
  BY DEF LegacyError
<1>2. \A key \in LegacyKeys : ModelValue(file, key) \in Nat
  BY <1>1 DEF HasModelKey, FileNumbers, Typed, ModelValue
<1>3. IsAudited(file)
  BY DEF LegacyError
<1>4. {"action_dim", "real_state_dim", "real_action_dim", "image_height", "image_width",
       "action_chunk"} \subseteq LegacyKeys
  BY DEF LegacyKeys
<1> QED BY <1>2, <1>3, <1>4 DEF IsAudited

LEMMA TilesTyped ==
  ASSUME NEW height \in Nat, NEW width \in Nat
  PROVE  /\ DOMAIN LegacyTiles(height, width) = 1..3
         /\ Len(LegacyTiles(height, width)) = 3
         /\ \A i \in 1..3 : PlaceTyped(LegacyTiles(height, width)[i])
<1> DEFINE top == height \div 2
           left == width \div 2
<1>1. top \in 0..height /\ left \in 0..width
  OBVIOUS
<1>2. height - top \in Nat /\ width - left \in Nat
  BY <1>1
<1> HIDE DEF top, left
<1>3. LegacyTiles(height, width)
        = << [role |-> "high", x |-> 0, y |-> 0, width |-> width, height |-> top],
             [role |-> "left", x |-> 0, y |-> top, width |-> left, height |-> height - top],
             [role |-> "right", x |-> left, y |-> top,
              width |-> width - left, height |-> height - top] >>
  BY DEF LegacyTiles, top, left
<1> QED BY <1>1, <1>2, <1>3 DEF PlaceTyped

LEMMA LegacyRead ==
  ASSUME NEW file, FileNumbers(file), LegacyError(file) = "ok"
  PROVE  SpecTyped(LegacySpec(file))
<1> DEFINE spec == LegacySpec(file)
           height == ModelValue(file, "image_height")
           width == ModelValue(file, "image_width")
           tiles == LegacyTiles(height, width)
<1>1. height \in Nat /\ width \in Nat
  BY LegacyNumbers
<1>2. /\ DOMAIN tiles = 1..3 /\ Len(tiles) = 3 /\ \A i \in 1..3 : PlaceTyped(tiles[i])
  BY <1>1, TilesTyped
<1>3. /\ spec.composition.width = width /\ spec.composition.height = height
      /\ spec.composition.placements = tiles
  BY DEF LegacySpec
<1>4. CanvasTyped(spec.composition)
  <2> HIDE DEF spec, tiles, height, width
  <2>1. 3 \in Nat
    OBVIOUS
  <2> QED BY <2>1, <1>1, <1>2, <1>3 DEF CanvasTyped
<1>5. /\ DOMAIN spec.views = 1..3 /\ Len(spec.views) = 3
      /\ \A v \in 1..3 : /\ spec.views[v].height = tiles[v].height
                         /\ spec.views[v].width = tiles[v].width
  BY DEF LegacySpec
<1>6. \A v \in DOMAIN spec.views : ViewTyped(spec.views[v])
  <2> HIDE DEF spec, tiles
  <2> QED BY <1>2, <1>5 DEF ViewTyped, PlaceTyped
<1>7. /\ spec.state.real_dim = Audited.state_dim /\ spec.state.model_dim = Audited.model_dim
      /\ spec.language.max_tokens = PromptTokens /\ spec.action.horizon = Audited.horizon
      /\ spec.action.real_dim = Audited.action_dim
      /\ spec.action.model_dim = Audited.model_dim
      /\ spec.action.indices = Audited.indices
      /\ spec.action.norm = [kind |-> "quantile", clip |-> FALSE, epsilon |-> Audited.epsilon,
                             clamp |-> [lower |-> <<>>, upper |-> <<>>]]
      /\ spec.action.stats = LegacyStats(file, "action", Audited.action_dim)
  BY DEF LegacySpec
<1>8. NormTyped(spec.action.norm)
  <2> HIDE DEF spec
  <2>1. <<>> \in Seq(Floats)
    OBVIOUS
  <2>2. Audited.epsilon \in Floats
    BY AuditedAssumption DEF Floats
  <2>3. "quantile" \in Normalizations /\ FALSE \in BOOLEAN
    BY DEF Normalizations
  <2> HIDE DEF Floats
  <2>4. \A norm : norm = [kind |-> "quantile", clip |-> FALSE, epsilon |-> Audited.epsilon,
                          clamp |-> [lower |-> <<>>, upper |-> <<>>]] =>
          /\ norm.kind = "quantile" /\ norm.clip = FALSE
          /\ norm.epsilon = Audited.epsilon
          /\ norm.clamp.lower = <<>> /\ norm.clamp.upper = <<>>
    OBVIOUS
  <2> QED BY <2>1, <2>2, <2>3, <2>4, <1>7 DEF NormTyped
<1>9. StatsTyped(spec.action.stats)
  <2>1. HasTensor(file, <<"action", "q01">>) /\ HasTensor(file, <<"action", "q99">>)
    BY DEF LegacyError, RequireShape
  <2>2. /\ F32Values(file, <<"action", "q01">>) \in Seq(Floats)
        /\ F32Values(file, <<"action", "q99">>) \in Seq(Floats)
    BY <2>1, ReadsNumbers
  <2>3. <<>> \in Seq(Floats)
    OBVIOUS
  <2> HIDE DEF spec
  <2> QED BY <2>2, <2>3, <1>7 DEF LegacyStats, StatsTyped
<1> HIDE DEF spec
<1>10. SpecTyped(spec)
  BY <1>4, <1>5, <1>6, <1>7, <1>8, <1>9, LegacyNumbers, NetworkAssumption, AuditedAssumption
     DEF SpecTyped
<1> QED BY <1>10 DEF spec

-----------------------------------------------------------------------------
(* A loaded model and its checks. *)
FixedTyped(prompt) ==
  prompt # <<>> => prompt[1].tokens \in Seq(Int) /\ prompt[1].mask \in Seq(Int)

LoadedRight ==
  model.state = "loaded" =>
    /\ model.architecture \in {"gwp05", "fastwam"}
    /\ SpecTyped(model.spec) /\ ValidPolicySpec(model.spec)
    /\ FixedTyped(model.fixed_prompt)
    /\ model.architecture = "gwp05" =>
         /\ GwpSemantics(model.spec)
         /\ model.language_mode \in {"tokens", "external_embedding"}
         /\ model.fixed_prompt # <<>> =>
              /\ model.language_mode = "tokens"
              /\ ValidPrompt(model.fixed_prompt[1].tokens, model.fixed_prompt[1].mask,
                             ModelValue(model.file, "t5_vocab_size"),
                             model.spec.language.padding_side)
    /\ model.architecture = "fastwam" =>
         /\ WamSemantics(model.spec)
         /\ WamGeometryResolves(model.file, model.spec)
         /\ ModelValue(model.file, "spatial_downsample") \in Nat \ {0}
         /\ model.language_mode = "external_embedding" /\ model.fixed_prompt = <<>>

LEMMA GwpLoads ==
  ASSUME NEW file, NEW config, GwpError(file, config) = "ok"
  PROVE  /\ ~HasPolicySpec(file) => LegacyError(file) = "ok"
         /\ ValidPolicySpec(GwpSpec(file)) /\ GwpSemantics(GwpSpec(file))
         /\ GwpLanguageError(file, GwpSpec(file), config) = "ok"
<1>1. GwpContractError(file, GwpSpec(file), ~HasPolicySpec(file)) = "ok"
  BY DEF GwpError
<1>2. GwpContract(file, GwpSpec(file), ~HasPolicySpec(file))
  BY <1>1 DEF GwpContractError
<1>3. GwpLanguageError(file, GwpSpec(file), config) = "ok"
  BY DEF GwpError
<1>4. ~HasPolicySpec(file) => LegacyError(file) = "ok"
  BY DEF GwpError
<1> QED BY <1>2, <1>3, <1>4 DEF GwpContract

LEMMA WamLoads ==
  ASSUME NEW file, FileNumbers(file), NEW config, WamError(file, config) = "ok"
  PROVE  /\ HasPolicySpec(file) /\ config.fixed_prompt = <<>>
         /\ WamContract(file, ReadPolicySpec(file))
         /\ ModelValue(file, "spatial_downsample") \in Nat \ {0}
<1>1. /\ HasPolicySpec(file) /\ config.fixed_prompt = <<>>
      /\ WamContract(file, ReadPolicySpec(file))
  BY DEF WamError
<1>2. WamMetadata(file, ReadPolicySpec(file))
  BY <1>1 DEF WamContract
<1>3. "spatial_downsample" \in WamSizes
  BY DEF WamSizes
<1>4. /\ HasModelKey(file, "spatial_downsample", "u32")
      /\ ModelValue(file, "spatial_downsample") > 0
  BY <1>2, <1>3 DEF WamMetadata
<1>5. ModelValue(file, "spatial_downsample") \in Nat
  BY <1>4 DEF HasModelKey, FileNumbers, Typed, ModelValue
<1>6. \A n \in Nat : n > 0 => n \in Nat \ {0}
  OBVIOUS
<1> QED BY <1>1, <1>4, <1>5, <1>6

LEMMA LoadedIsRight ==
  ASSUME NEW load \in Loads, LoadError(load.path, load.config) = "ok",
         model' = LoadedModel(ModelPath(load.path), load.config)
  PROVE  LoadedRight'
<1> DEFINE file == ModelPath(load.path)
           config == load.config
<1>1. FileNumbers(file) /\ FixedTyped(config.fixed_prompt)
  BY LoadOpens, LoadsAssumption DEF FixedTyped
<1>2. HasPolicySpec(file) => AcceptsPolicySpec(file)
  BY DEF LoadError
<1>3. HasPolicySpec(file) => /\ SpecTyped(ReadPolicySpec(file))
                             /\ ValidPolicySpec(ReadPolicySpec(file))
  BY <1>1, <1>2, SpecRead DEF AcceptsPolicySpec
<1>4. \/ Architecture(file) = "gwp05" /\ GwpError(file, config) = "ok"
      \/ Architecture(file) = "fastwam" /\ WamError(file, config) = "ok"
  BY DEF LoadError
<1>5. /\ model'.file = file /\ model'.architecture = Architecture(file)
      /\ model'.spec = GwpSpec(file)
      /\ model'.language_mode = LanguageMode(file, config)
      /\ model'.fixed_prompt = config.fixed_prompt
  BY DEF LoadedModel, GwpSpec
<1>6. config.language_mode \in {"automatic", "tokens", "external_embedding"}
  BY DEF LoadError, ValidRuntimeConfig
<1> HIDE DEF file, config
<1>7. CASE Architecture(file) = "gwp05" /\ GwpError(file, config) = "ok"
  <2>1. SpecTyped(GwpSpec(file))
    BY <1>1, <1>3, <1>7, GwpLoads, LegacyRead DEF GwpSpec
  <2>2. /\ ValidPolicySpec(GwpSpec(file)) /\ GwpSemantics(GwpSpec(file))
        /\ GwpLanguageError(file, GwpSpec(file), config) = "ok"
    BY <1>7, GwpLoads
  <2>3. config.fixed_prompt # <<>> =>
          /\ GwpLanguageMode(config, GwpSpec(file)) = "tokens"
          /\ ValidPrompt(config.fixed_prompt[1].tokens, config.fixed_prompt[1].mask,
                         ModelValue(file, "t5_vocab_size"),
                         GwpSpec(file).language.padding_side)
    BY <2>2 DEF GwpLanguageError
  <2>4. LanguageMode(file, config) = GwpLanguageMode(config, GwpSpec(file))
    BY <1>7 DEF LanguageMode
  <2>5. GwpLanguageMode(config, GwpSpec(file)) \in {"tokens", "external_embedding"}
    BY <1>6 DEF GwpLanguageMode
  <2> QED BY <1>1, <1>5, <1>7, <2>1, <2>2, <2>3, <2>4, <2>5 DEF LoadedRight
<1>8. CASE Architecture(file) = "fastwam" /\ WamError(file, config) = "ok"
  <2>1. /\ HasPolicySpec(file) /\ config.fixed_prompt = <<>>
        /\ WamContract(file, ReadPolicySpec(file))
        /\ ModelValue(file, "spatial_downsample") \in Nat \ {0}
    BY <1>1, <1>8, WamLoads
  <2>2. GwpSpec(file) = ReadPolicySpec(file)
    BY <2>1 DEF GwpSpec
  <2>3. LanguageMode(file, config) = "external_embedding"
    BY <1>8 DEF LanguageMode
  <2> QED BY <1>1, <1>3, <1>5, <1>8, <2>1, <2>2, <2>3 DEF LoadedRight, WamContract
<1> QED BY <1>4, <1>7, <1>8

LEMMA LoadedInit == Init => LoadedRight
BY DEF Init, NoModel, LoadedRight

LEMMA LoadedStep == LoadedRight /\ [Next]_vars => LoadedRight'
<1> SUFFICES ASSUME LoadedRight, [Next]_vars PROVE LoadedRight'
  OBVIOUS
<1>1. ASSUME NEW load \in Loads, Load(load.path, load.config) PROVE LoadedRight'
  <2>1. CASE LoadError(load.path, load.config) # "ok"
    BY <1>1, <2>1 DEF Load, Refused, LoadedRight
  <2>2. CASE LoadError(load.path, load.config) = "ok"
    <3>1. PICK outcome \in DeviceOutcomes(ModelPath(load.path), load.config) :
            model' = IF outcome = "ok" THEN LoadedModel(ModelPath(load.path), load.config)
                     ELSE Refused(outcome)
      BY <1>1, <2>2 DEF Load
    <3>2. CASE outcome = "ok"
      BY <2>2, <3>1, <3>2, LoadedIsRight
    <3>3. CASE outcome # "ok"
      BY <3>1, <3>3 DEF Refused, LoadedRight
    <3> QED BY <3>2, <3>3
  <2> QED BY <2>1, <2>2
<1>2. ASSUME UNCHANGED model PROVE LoadedRight'
  BY <1>2 DEF LoadedRight
<1> QED BY <1>1, <1>2 DEF Next, vars, CreateSession, Predict, Return, Reset

LEMMA LoadedAlways == Spec => []LoadedRight
BY LoadedInit, LoadedStep, PTL DEF Spec

-----------------------------------------------------------------------------
(* The arithmetic of statistics, clips and clamps.                         *)

LEMMA NumberOf ==
  ASSUME NEW values \in Seq(Floats), NEW i \in 1..Len(values), IsFinite(values[i])
  PROVE  values[i] \in Int
BY ElementOfSeq DEF IsFinite, Floats

(* The policy's statistics at a dimension that is normalised. *)
LEMMA EpsilonPositive ==
  ASSUME NEW norm, NEW stats, NEW dimension, NormTyped(norm),
         ValidNormalization(norm, stats, dimension)
  PROVE  /\ norm.epsilon \in Int /\ norm.epsilon >= 0
         /\ norm.kind # "none" => norm.epsilon > 0
BY DEF NormTyped, ValidNormalization, IsFinite, Floats

LEMMA VectorNumbers ==
  ASSUME NEW values \in Seq(Floats), values # <<>>, NEW dimension \in Nat,
         ValidStatVector(values, dimension), NEW i \in 1..dimension
  PROVE  values[i] \in Int
<1>1. Len(values) = dimension /\ DOMAIN values = 1..Len(values)
  BY DEF ValidStatVector
<1>2. IsFinite(values[i])
  BY <1>1 DEF ValidStatVector
<1> QED BY <1>1, <1>2, NumberOf

LEMMA RangeNumbers ==
  ASSUME NEW norm, NEW stats, NEW dimension \in Nat, NormTyped(norm), StatsTyped(stats),
         ValidNormalization(norm, stats, dimension), norm.kind \in RangeKinds,
         NEW i \in 1..dimension, Active(stats, i)
  PROVE  /\ stats.lower[i] \in Int /\ stats.upper[i] \in Int
         /\ stats.upper[i] - stats.lower[i] > 0
<1>1. /\ stats.lower # <<>> /\ stats.upper # <<>>
      /\ stats.upper[i] - stats.lower[i] > norm.epsilon
  BY DEF ValidNormalization, ValidStats, RangeKinds
<1>2. ValidStatVector(stats.lower, dimension) /\ ValidStatVector(stats.upper, dimension)
  <2>1. \A s \in {"lower", "upper"} : ValidStatVector(stats[s], dimension)
    BY DEF ValidNormalization
  <2> QED BY <2>1
<1>3. stats.lower[i] \in Int /\ stats.upper[i] \in Int
  BY <1>1, <1>2, VectorNumbers DEF StatsTyped
<1>4. norm.epsilon \in Int /\ norm.epsilon >= 0
  BY EpsilonPositive
<1>5. \A d, e \in Int : d > e /\ e >= 0 => d > 0
  OBVIOUS
<1>6. stats.upper[i] - stats.lower[i] \in Int
  BY <1>3
<1> QED BY <1>1, <1>3, <1>4, <1>5, <1>6

LEMMA ScoreNumbers ==
  ASSUME NEW norm, NEW stats, NEW dimension \in Nat, NormTyped(norm), StatsTyped(stats),
         ValidNormalization(norm, stats, dimension), norm.kind = "z_score",
         NEW i \in 1..dimension, Active(stats, i)
  PROVE  stats.mean[i] \in Int /\ stats.stddev[i] \in Int /\ stats.stddev[i] > 0
<1>1. stats.mean # <<>> /\ stats.stddev # <<>> /\ stats.stddev[i] > norm.epsilon
  BY DEF ValidNormalization, ValidStats
<1>2. ValidStatVector(stats.mean, dimension) /\ ValidStatVector(stats.stddev, dimension)
  <2>1. \A s \in {"mean", "stddev"} : ValidStatVector(stats[s], dimension)
    BY DEF ValidNormalization
  <2> QED BY <2>1
<1>3. stats.mean[i] \in Int /\ stats.stddev[i] \in Int
  BY <1>1, <1>2, VectorNumbers DEF StatsTyped
<1>4. norm.epsilon \in Int /\ norm.epsilon >= 0
  BY EpsilonPositive
<1>5. \A d, e \in Int : d > e /\ e >= 0 => d > 0
  OBVIOUS
<1> QED BY <1>1, <1>3, <1>4, <1>5

LEMMA ClampNumbers ==
  ASSUME NEW norm, NormTyped(norm), ValidClamp(norm.clamp), norm.clamp.lower # <<>>
  PROVE  /\ norm.clamp.lower[1] \in Int /\ norm.clamp.upper[1] \in Int
         /\ norm.clamp.lower[1] < norm.clamp.upper[1]
<1>1. /\ norm.clamp.upper # <<>> /\ norm.clamp.lower[1] < norm.clamp.upper[1]
      /\ IsFinite(norm.clamp.lower[1]) /\ IsFinite(norm.clamp.upper[1])
  BY DEF ValidClamp
<1>2. \A values \in Seq(Floats) : values # <<>> => 1 \in 1..Len(values)
  OBVIOUS
<1>3. 1 \in 1..Len(norm.clamp.lower) /\ 1 \in 1..Len(norm.clamp.upper)
  BY <1>1, <1>2 DEF NormTyped
<1> QED BY <1>1, <1>3, NumberOf DEF NormTyped

(* Cutting an integer to integers. *)
LEMMA WithinIntegers ==
  ASSUME NEW n \in Int, NEW a \in Int, NEW b \in Int
  PROVE  Within(<<n, 1>>, <<a, 1>>, <<b, 1>>)
           = IF n <= a THEN <<a, 1>> ELSE IF b <= n THEN <<b, 1>> ELSE <<n, 1>>
BY DEF Within, AtMost

LEMMA ClampedInteger ==
  ASSUME NEW norm, NormTyped(norm), ValidClamp(norm.clamp), NEW n \in Int
  PROVE  \E k \in Int : OutputClamp(<<n, 1>>, norm) = <<k, 1>>
<1>1. CASE norm.clamp.lower = <<>>
  BY <1>1 DEF OutputClamp
<1>2. CASE norm.clamp.lower # <<>>
  <2>1. norm.clamp.lower[1] \in Int /\ norm.clamp.upper[1] \in Int
    BY <1>2, ClampNumbers
  <2>2. OutputClamp(<<n, 1>>, norm)
          = Within(<<n, 1>>, <<norm.clamp.lower[1], 1>>, <<norm.clamp.upper[1], 1>>)
    BY <1>2 DEF OutputClamp, Fraction
  <2> QED BY <2>1, <2>2, WithinIntegers
<1> QED BY <1>1, <1>2

LEMMA ClippedInteger ==
  ASSUME NEW norm, norm.clip, norm.kind \in RangeKinds, NEW k \in Int
  PROVE  \E m \in {-1, 0, 1} : ClipAction(<<k, 1>>, norm) = <<m, 1>>
<1>1. ClipAction(<<k, 1>>, norm) = Within(<<k, 1>>, <<-1, 1>>, <<1, 1>>)
  BY DEF ClipAction, Fraction
<1>2. ~(k <= -1) /\ ~(1 <= k) => k = 0
  OBVIOUS
<1> QED BY <1>1, <1>2, WithinIntegers

(* A range undone: m of -1..1 goes to a place between its ends. *)
LEMMA RangeUndone ==
  ASSUME NEW norm, NEW stats, NEW i, norm.kind \in RangeKinds,
         stats.lower[i] \in Int, stats.upper[i] \in Int, NEW m \in Int
  PROVE  Unstandardize(<<m, 1>>, i, norm, stats)
           = <<(m + 1) * (stats.upper[i] - stats.lower[i]) + stats.lower[i] * 2, 2>>
<1> DEFINE l == stats.lower[i]
           u == stats.upper[i]
<1>1. Unstandardize(<<m, 1>>, i, norm, stats)
        = Plus(Times(Over(Plus(<<m, 1>>, <<1, 1>>), 2), <<u - l, 1>>), <<l, 1>>)
  BY DEF Unstandardize, Fraction, RangeKinds
<1> HIDE DEF l, u
<1>2. l \in Int /\ u \in Int
  BY DEF l, u
<1>3. Plus(<<m, 1>>, <<1, 1>>) = <<m + 1, 1>>
  BY DEF Plus
<1>4. Over(<<m + 1, 1>>, 2) = <<m + 1, 2>>
  BY DEF Over
<1>5. Times(<<m + 1, 2>>, <<u - l, 1>>) = <<(m + 1) * (u - l), 2>>
  BY DEF Times
<1>6. \A x \in Int : Plus(<<x, 2>>, <<l, 1>>) = <<x + l * 2, 2>>
  BY <1>2 DEF Plus
<1>7. (m + 1) * (u - l) \in Int
  BY <1>2
<1>8. Unstandardize(<<m, 1>>, i, norm, stats) = <<(m + 1) * (u - l) + l * 2, 2>>
  BY <1>1, <1>3, <1>4, <1>5, <1>6, <1>7
<1> QED BY <1>8 DEF l, u

-----------------------------------------------------------------------------
(* What a call has been answered. *)
RawState == call.prepared[1].observation.raw_state

AnswerRight ==
  call.outcome.state = "answered" =>
    /\ model.state = "loaded"
    /\ RawState \in Seq(Int)
    /\ \E core \in Cores :
         /\ ValidCoreAction(core, model.spec.action) /\ FiniteCore(core)
         /\ CanDecode(core, RawState, model.spec.action)
         /\ call.outcome.action
              = DecodeAction(AsFractions(core), RawState, model.spec.action)

(* A state that is accepted has finite entries. *)
LEMMA StateNumbers ==
  ASSUME NEW request \in Requests, NEW state, ValidStateInput(request.state, state)
  PROVE  request.state.values \in Seq(Int)
<1> DEFINE values == request.state.values
<1>1. values \in Seq(Floats)
  BY RequestsAssumption
<1>2. \A i \in DOMAIN values : IsFinite(values[i])
  BY DEF ValidStateInput, CopiesF32
<1> HIDE DEF values
<1>3. \A i \in 1..Len(values) : values[i] \in Int
  BY <1>1, <1>2, NumberOf
<1>4. values = [i \in 1..Len(values) |-> values[i]] /\ Len(values) \in Nat
  BY <1>1
<1>5. values \in Seq(Int)
  BY <1>3, <1>4
<1> QED BY <1>5 DEF values

LEMMA ObservationPasses ==
  ASSUME NEW request, PrepareError(request) = "ok"
  PROVE  ObservationAccepted(request, model.spec, model.legacy)
<1>1. ObservationError(request) = "ok"
  BY DEF PrepareError
<1> QED BY <1>1 DEF ObservationError

LEMMA AnswerInit == Init => AnswerRight
BY DEF Init, NoCall, AnswerRight

LEMMA AnswerOfCore ==
  ASSUME NEW prepared, NEW outcome \in Outcomes(prepared), outcome.state = "answered"
  PROVE  \E core \in Cores :
           /\ ValidCoreAction(core, model.spec.action) /\ FiniteCore(core)
           /\ CanDecode(core, prepared.observation.raw_state, model.spec.action)
           /\ outcome.action = DecodeAction(AsFractions(core),
                                 prepared.observation.raw_state, model.spec.action)
<1>1. \A error : Refused(error).state # "answered"
  BY DEF Refused
<1>2. PICK core \in Cores : outcome = Answer(core, prepared)
  BY <1>1 DEF Outcomes
<1>3. /\ ValidCoreAction(core, model.spec.action) /\ FiniteCore(core)
      /\ CanDecode(core, prepared.observation.raw_state, model.spec.action)
  BY <1>1, <1>2 DEF Answer
<1>4. outcome.action = DecodeAction(AsFractions(core), prepared.observation.raw_state,
                                    model.spec.action)
  BY <1>2, <1>3 DEF Answer
<1> QED BY <1>3, <1>4

LEMMA AnswerStep == TypeOK /\ AnswerRight /\ [Next]_vars => AnswerRight'
<1> SUFFICES ASSUME TypeOK, AnswerRight, [Next]_vars PROVE AnswerRight'
  OBVIOUS
<1>1. ASSUME NEW load \in Loads, Load(load.path, load.config) PROVE AnswerRight'
  <2>1. model.state = "none" /\ UNCHANGED call
    BY <1>1 DEF Load, NoModel
  <2>2. call.outcome.state # "answered"
    BY <2>1 DEF AnswerRight
  <2> QED BY <2>1, <2>2 DEF AnswerRight
<1>2. CASE CreateSession
  BY <1>2 DEF CreateSession, NoCall, Refused, AnswerRight, RawState
<1>3. ASSUME NEW request \in Requests, Predict(request) PROVE AnswerRight'
  <2>1. CASE PrepareError(request) # "ok"
    BY <1>3, <2>1 DEF Predict, Refused, AnswerRight
  <2>2. CASE PrepareError(request) = "ok"
    <3>1. PICK outcome \in Outcomes(Prepared(request)) :
            call' = [ request |-> <<request>>, prepared |-> <<Prepared(request)>>,
                      outcome |-> outcome ]
      BY <1>3, <2>2 DEF Predict
    <3>2. SUFFICES ASSUME outcome.state = "answered" PROVE AnswerRight'
      BY <3>1 DEF AnswerRight
    <3>3. UNCHANGED model /\ model.state = "loaded"
      BY <1>3 DEF Predict, TypeOK
    <3>4. Prepared(request).observation.raw_state = request.state.values
      BY DEF Prepared, PrepareObservation
    <3>5. /\ RawState' = Prepared(request).observation.raw_state
          /\ call'.outcome = outcome
      BY <3>1 DEF RawState
    <3>6. request.state.values \in Seq(Int)
      BY <2>2, ObservationPasses, StateNumbers DEF ObservationAccepted
    <3>7. \E core \in Cores :
            /\ ValidCoreAction(core, model.spec.action) /\ FiniteCore(core)
            /\ CanDecode(core, RawState', model.spec.action)
            /\ outcome.action = DecodeAction(AsFractions(core), RawState', model.spec.action)
      BY <3>2, <3>5, AnswerOfCore
    <3> QED BY <3>3, <3>4, <3>5, <3>6, <3>7 DEF AnswerRight
  <2> QED BY <2>1, <2>2
<1>4. CASE Return
  BY <1>4 DEF Return, NoCall, AnswerRight
<1>5. CASE Reset
  BY <1>5 DEF Reset, AnswerRight, RawState
<1>6. CASE UNCHANGED vars
  BY <1>6 DEF vars, AnswerRight, RawState
<1> QED BY <1>1, <1>2, <1>3, <1>4, <1>5, <1>6 DEF Next

LEMMA AnswerAlways == Spec => []AnswerRight
<1>1. TypeOK /\ AnswerRight /\ [Next]_vars => AnswerRight'
  BY AnswerStep
<1> QED BY <1>1, AnswerInit, TypeCorrect, PTL DEF Spec

(* A dimension that is clipped, before the state is added. *)
LEMMA DecodedBetween ==
  ASSUME NEW norm, NEW stats, NEW dimension \in Nat, NormTyped(norm), StatsTyped(stats),
         ValidNormalization(norm, stats, dimension), norm.clip,
         NEW i \in 1..dimension, Active(stats, i), NEW n \in Int
  PROVE  /\ stats.lower[i] \in Int /\ stats.upper[i] \in Int
         /\ \E v \in Int : /\ DecodeValue(<<n, 1>>, i, norm, stats) = <<v, 2>>
                           /\ stats.lower[i] * 2 <= v /\ v <= stats.upper[i] * 2
<1>1. norm.kind \in RangeKinds
  BY DEF NormTyped, Normalizations, RangeKinds, ValidNormalization, ValidStats
<1>2. /\ stats.lower[i] \in Int /\ stats.upper[i] \in Int
      /\ stats.upper[i] - stats.lower[i] > 0
  BY <1>1, RangeNumbers
<1>3. \A j \in Int : Unstandardize(<<j, 1>>, i, norm, stats)
        = <<(j + 1) * (stats.upper[i] - stats.lower[i]) + stats.lower[i] * 2, 2>>
  BY <1>1, <1>2, RangeUndone
<1>4. PICK k \in Int : OutputClamp(<<n, 1>>, norm) = <<k, 1>>
  BY ClampedInteger DEF ValidNormalization
<1>5. PICK m \in {-1, 0, 1} : ClipAction(<<k, 1>>, norm) = <<m, 1>>
  BY <1>1, ClippedInteger
<1>6. DecodeValue(<<n, 1>>, i, norm, stats) = Unstandardize(<<m, 1>>, i, norm, stats)
  BY <1>4, <1>5 DEF DecodeValue
<1>7. PICK l \in Int, u \in Int : l = stats.lower[i] /\ u = stats.upper[i] /\ u - l > 0
  BY <1>2
<1>8. m \in Int
  BY <1>5
<1>9. DecodeValue(<<n, 1>>, i, norm, stats) = <<(m + 1) * (u - l) + l * 2, 2>>
  BY <1>3, <1>6, <1>7, <1>8
<1>10. (m + 1) * (u - l) + l * 2 \in {l * 2, (u - l) + l * 2, 2 * (u - l) + l * 2}
  BY <1>5
<1>11. \A v \in {l * 2, (u - l) + l * 2, 2 * (u - l) + l * 2} :
         v \in Int /\ l * 2 <= v /\ v <= u * 2
  BY <1>7
<1>12. \E v \in Int : /\ DecodeValue(<<n, 1>>, i, norm, stats) = <<v, 2>>
                      /\ l * 2 <= v /\ v <= u * 2
  BY <1>9, <1>10, <1>11
<1> QED BY <1>2, <1>7, <1>12

LEMMA AnswersAreBounded == LoadedRight /\ AnswerRight => ClippedActionBounded
<1> DEFINE action == model.spec.action
           stats == action.stats
           Added(i) == IF action.recovery = "add_current_state" /\ action.indices[i] >= 0
                         THEN RawState[action.indices[i] + 1] ELSE 0
<1> SUFFICES ASSUME LoadedRight, AnswerRight, call.outcome.state = "answered",
                    action.norm.clip, NEW t \in 1..action.horizon,
                    NEW i \in 1..action.real_dim, Active(stats, i)
             PROVE  /\ AtMost(Fraction(stats.lower[i] + Added(i)), call.outcome.action[t][i])
                    /\ AtMost(call.outcome.action[t][i], Fraction(stats.upper[i] + Added(i)))
  BY DEF ClippedActionBounded, RawState
<1>1. SpecTyped(model.spec) /\ ValidAction(action, model.spec.state)
  BY DEF LoadedRight, AnswerRight, ValidPolicySpec
<1>2. PICK core \in Cores :
        /\ ValidCoreAction(core, action) /\ FiniteCore(core)
        /\ CanDecode(core, RawState, action)
        /\ call.outcome.action = DecodeAction(AsFractions(core), RawState, action)
  BY DEF AnswerRight
<1>3. /\ action.real_dim \in Nat /\ action.model_dim \in Nat /\ action.horizon \in Nat
      /\ action.real_dim <= action.model_dim
  BY <1>1 DEF SpecTyped, ValidAction
<1>4. i \in 1..action.model_dim
  BY <1>3
<1>5. core[t][i] \in Int /\ AsFractions(core)[t][i] = <<core[t][i], 1>>
  <2>1. t \in DOMAIN core
    <3>1. Len(core) = action.horizon /\ DOMAIN core = 1..Len(core)
      BY <1>2 DEF ValidCoreAction
    <3> QED BY <3>1
  <2>2. core[t] \in Seq(Floats) /\ Len(core[t]) = action.model_dim
    BY <1>2, <2>1, CoresAssumption DEF ValidCoreAction
  <2>3. i \in DOMAIN core[t] /\ i \in 1..Len(core[t])
    BY <1>4, <2>2
  <2>4. core[t][i] \in Int
    BY <1>2, <2>1, <2>2, <2>3, NumberOf DEF FiniteCore
  <2> QED BY <2>1, <2>3, <2>4 DEF AsFractions, Fraction
<1>6. call.outcome.action[t][i]
        = Recovered(DecodeValue(<<core[t][i], 1>>, i, action.norm, stats), i, action, RawState)
  BY <1>2, <1>5 DEF DecodeAction
<1>7. NormTyped(action.norm) /\ StatsTyped(stats)
      /\ ValidNormalization(action.norm, stats, action.model_dim)
  BY <1>1 DEF SpecTyped, ValidAction
<1>8. PICK v \in Int : /\ DecodeValue(<<core[t][i], 1>>, i, action.norm, stats) = <<v, 2>>
                       /\ stats.lower[i] * 2 <= v /\ v <= stats.upper[i] * 2
  BY <1>3, <1>4, <1>5, <1>7, DecodedBetween
<1>9. stats.lower[i] \in Int /\ stats.upper[i] \in Int
  BY <1>3, <1>4, <1>5, <1>7, DecodedBetween
<1>10. Added(i) \in Int
  <2>1. CASE action.recovery = "add_current_state" /\ action.indices[i] >= 0
    <3>1. Len(action.indices) = action.real_dim /\ action.indices[i] < Len(RawState)
      BY <1>2, <2>1 DEF CanDecode
    <3>2. action.indices[i] \in Int
      BY <1>1, <3>1, ElementOfSeq DEF SpecTyped
    <3>3. RawState \in Seq(Int) /\ Len(RawState) \in Nat
      BY DEF AnswerRight
    <3>4. \A x \in Int, n \in Nat : x >= 0 /\ x < n => x + 1 \in 1..n
      OBVIOUS
    <3>5. action.indices[i] + 1 \in 1..Len(RawState)
      BY <2>1, <3>1, <3>2, <3>3, <3>4
    <3> QED BY <2>1, <3>3, <3>5, ElementOfSeq
  <2>2. CASE ~(action.recovery = "add_current_state" /\ action.indices[i] >= 0)
    BY <2>2
  <2> QED BY <2>1, <2>2
<1>11. call.outcome.action[t][i] \in {<<v, 2>>, <<v + Added(i) * 2, 2>>}
       /\ (call.outcome.action[t][i] = <<v, 2>> => Added(i) = 0)
  <2>1. CASE action.recovery = "add_current_state" /\ action.indices[i] >= 0
    <3>1. call.outcome.action[t][i] = Plus(<<v, 2>>, <<Added(i), 1>>)
      BY <1>6, <1>8, <2>1 DEF Recovered, Fraction
    <3>2. \A a \in Int : Plus(<<v, 2>>, <<a, 1>>) = <<v + a * 2, 2>>
      BY DEF Plus
    <3>3. \A a \in Int : <<v + a * 2, 2>> = <<v, 2>> => a = 0
      OBVIOUS
    <3> QED BY <1>10, <3>1, <3>2, <3>3
  <2>2. CASE ~(action.recovery = "add_current_state" /\ action.indices[i] >= 0)
    BY <1>6, <1>8, <2>2 DEF Recovered
  <2> QED BY <2>1, <2>2
<1>12. \A l, u, a \in Int : l * 2 <= v /\ v <= u * 2 =>
         /\ AtMost(<<l + a, 1>>, <<v + a * 2, 2>>)
         /\ AtMost(<<v + a * 2, 2>>, <<u + a, 1>>)
  BY DEF AtMost
<1>13. call.outcome.action[t][i] = <<v + Added(i) * 2, 2>>
  BY <1>10, <1>11
<1> HIDE DEF Added, stats, action
<1> QED BY <1>8, <1>9, <1>10, <1>12, <1>13 DEF Fraction

(* Whatever the network answers, an action dimension that is clipped lies, *)
(* less the state it was added to, between the statistics' ends.           *)
THEOREM ClippedActionIsBounded == Spec => []ClippedActionBounded
BY LoadedAlways, AnswerAlways, AnswersAreBounded, PTL

-----------------------------------------------------------------------------
(* Decoding undoes normalising.  A value z that no clip and no clamp cuts  *)
(* goes on as z itself or, at an end, as an integer that is equal to z.    *)
Kept(w, z) == w = z \/ \E p \in Int : w = <<p, 1>> /\ p * z[2] = z[1]

LEMMA WithinKeeps ==
  ASSUME NEW x \in Int, NEW d \in Int, d > 0, NEW a \in Int, NEW b \in Int,
         a * d <= x, x <= b * d, NEW w, Kept(w, <<x, d>>)
  PROVE  Kept(Within(w, <<a, 1>>, <<b, 1>>), <<x, d>>)
<1>1. CASE w = <<x, d>>
  <2>1. Within(w, <<a, 1>>, <<b, 1>>)
          = IF x * 1 <= a * d THEN <<a, 1>>
            ELSE IF b * d <= x * 1 THEN <<b, 1>> ELSE <<x, d>>
    BY <1>1 DEF Within, AtMost
  <2>2. x * 1 = x /\ a * d \in Int /\ b * d \in Int
    OBVIOUS
  <2>3. CASE x <= a * d
    <3>1. a * d = x
      BY <2>2, <2>3
    <3> QED BY <2>1, <2>2, <2>3, <3>1 DEF Kept
  <2>4. CASE ~(x <= a * d) /\ b * d <= x
    <3>1. b * d = x
      BY <2>2, <2>4
    <3> QED BY <2>1, <2>2, <2>4, <3>1 DEF Kept
  <2>5. CASE ~(x <= a * d) /\ ~(b * d <= x)
    BY <1>1, <2>1, <2>2, <2>5 DEF Kept
  <2> QED BY <2>3, <2>4, <2>5
<1>2. CASE w # <<x, d>>
  <2>1. PICK p \in Int : w = <<p, 1>> /\ p * d = x
    BY <1>2 DEF Kept
  <2>2. Within(w, <<a, 1>>, <<b, 1>>)
          = IF p <= a THEN <<a, 1>> ELSE IF b <= p THEN <<b, 1>> ELSE <<p, 1>>
    BY <2>1, WithinIntegers
  <2>3. a <= p /\ p <= b
    <3>1. \A s, t, e \in Int : e > 0 /\ s * e <= t * e => s <= t
      OBVIOUS
    <3> QED BY <2>1, <3>1
  <2>4. Within(w, <<a, 1>>, <<b, 1>>) = <<p, 1>>
    BY <2>2, <2>3
  <2> QED BY <2>1, <2>4 DEF Kept
<1> QED BY <1>1, <1>2

LEMMA SameIsInside ==
  ASSUME NEW x \in Int, NEW d \in Int, d > 0, NEW a \in Int, NEW b \in Int, a < b,
         NEW w, Kept(w, <<x, d>>), Same(w, Within(w, <<a, 1>>, <<b, 1>>))
  PROVE  a * d <= x /\ x <= b * d
<1>1. a * d <= b * d
  OBVIOUS
<1>2. CASE w = <<x, d>>
  <2>1. Within(w, <<a, 1>>, <<b, 1>>)
          = IF x <= a * d THEN <<a, 1>> ELSE IF b * d <= x THEN <<b, 1>> ELSE <<x, d>>
    BY <1>2 DEF Within, AtMost
  <2>2. \A k \in Int : Same(<<x, d>>, <<k, 1>>) => x = k * d
    BY DEF Same
  <2>3. a * d \in Int /\ b * d \in Int
    OBVIOUS
  <2> QED BY <1>1, <1>2, <2>1, <2>2, <2>3
<1>3. CASE w # <<x, d>>
  <2>1. PICK p \in Int : w = <<p, 1>> /\ p * d = x
    BY <1>3 DEF Kept
  <2>2. Within(w, <<a, 1>>, <<b, 1>>)
          = IF p <= a THEN <<a, 1>> ELSE IF b <= p THEN <<b, 1>> ELSE <<p, 1>>
    BY <2>1, WithinIntegers
  <2>3. \A k \in Int : Same(<<p, 1>>, <<k, 1>>) => p = k
    BY DEF Same
  <2>4. a <= p /\ p <= b
    BY <2>1, <2>2, <2>3
  <2>5. \A s, t, e \in Int : e > 0 /\ s <= t => s * e <= t * e
    OBVIOUS
  <2>6. a * d <= p * d /\ p * d <= b * d
    BY <2>4, <2>5
  <2> QED BY <2>1, <2>6
<1> QED BY <1>2, <1>3

(* Clamping what a clamp does not cut. *)
Uncut(w, norm) == norm.clamp.lower # <<>> => Same(w, OutputClamp(w, norm))

LEMMA ClampKeeps ==
  ASSUME NEW x \in Int, NEW d \in Int, d > 0, NEW norm, NormTyped(norm),
         ValidClamp(norm.clamp), NEW w, Kept(w, <<x, d>>), Uncut(w, norm)
  PROVE  /\ Kept(OutputClamp(w, norm), <<x, d>>)
         /\ Kept(OutputClamp(OutputClamp(w, norm), norm), <<x, d>>)
<1>1. CASE norm.clamp.lower = <<>>
  BY <1>1 DEF OutputClamp
<1>2. CASE norm.clamp.lower # <<>>
  <2>1. PICK a \in Int, b \in Int :
          a = norm.clamp.lower[1] /\ b = norm.clamp.upper[1] /\ a < b
    BY <1>2, ClampNumbers
  <2>2. \A c : OutputClamp(c, norm) = Within(c, <<a, 1>>, <<b, 1>>)
    BY <1>2, <2>1 DEF OutputClamp, Fraction
  <2>3. a * d <= x /\ x <= b * d
    BY <1>2, <2>1, <2>2, SameIsInside DEF Uncut
  <2>4. \A c : Kept(c, <<x, d>>) => Kept(Within(c, <<a, 1>>, <<b, 1>>), <<x, d>>)
    BY <2>3, WithinKeeps
  <2> QED BY <2>2, <2>4
<1> QED BY <1>1, <1>2

LEMMA ScoreInverts ==
  ASSUME NEW norm, NEW stats, NEW i, norm.kind = "z_score",
         stats.mean[i] \in Int, stats.stddev[i] \in Int, stats.stddev[i] > 0, NEW v \in Int
  PROVE  \E x, d \in Int :
           /\ d > 0
           /\ Kept(Standardize(Fraction(v), i, norm, stats), <<x, d>>)
           /\ \A e : Kept(e, <<x, d>>) => Same(Unstandardize(e, i, norm, stats), Fraction(v))
<1>1. PICK mean \in Int, sd \in Int : mean = stats.mean[i] /\ sd = stats.stddev[i] /\ sd > 0
  OBVIOUS
<1>2. Standardize(Fraction(v), i, norm, stats) = Over(Plus(<<v, 1>>, <<-mean, 1>>), sd)
  BY <1>1 DEF Standardize, Fraction
<1>3. Plus(<<v, 1>>, <<-mean, 1>>) = <<v - mean, 1>>
  BY DEF Plus
<1>4. Over(<<v - mean, 1>>, sd) = <<v - mean, sd>>
  BY DEF Over
<1>5. Kept(Standardize(Fraction(v), i, norm, stats), <<v - mean, sd>>)
  BY <1>2, <1>3, <1>4 DEF Kept
<1>6. ASSUME NEW e, Kept(e, <<v - mean, sd>>)
      PROVE  Same(Unstandardize(e, i, norm, stats), Fraction(v))
  <2>1. PICK p \in Int, q \in Int :
          e = <<p, q>> /\ ((p = v - mean /\ q = sd) \/ (q = 1 /\ p * sd = v - mean))
    <3>1. CASE e = <<v - mean, sd>>
      <4>1. v - mean \in Int
        OBVIOUS
      <4> WITNESS v - mean \in Int, sd \in Int
      <4> QED BY <3>1
    <3>2. CASE e # <<v - mean, sd>>
      <4>1. PICK p \in Int : e = <<p, 1>> /\ p * sd = v - mean
        BY <1>6, <3>2 DEF Kept
      <4> QED BY <4>1
    <3> QED BY <3>1, <3>2
  <2>2. Unstandardize(e, i, norm, stats) = Plus(Times(<<p, q>>, <<sd, 1>>), <<mean, 1>>)
    BY <1>1, <2>1 DEF Unstandardize, Fraction
  <2>3. Times(<<p, q>>, <<sd, 1>>) = <<p * sd, q>>
    BY DEF Times
  <2>4. \A r \in Int : Plus(<<r, q>>, <<mean, 1>>) = <<r + mean * q, q>>
    BY DEF Plus
  <2>5. p * sd \in Int
    OBVIOUS
  <2>6. Unstandardize(e, i, norm, stats) = <<p * sd + mean * q, q>>
    BY <2>2, <2>3, <2>4, <2>5
  <2>7. p * sd + mean * q = v * q
    <3>1. CASE p = v - mean /\ q = sd
      <4>1. (v - mean) * sd + mean * sd = v * sd
        OBVIOUS
      <4> QED BY <3>1, <4>1
    <3>2. CASE q = 1 /\ p * sd = v - mean
      BY <3>2
    <3> QED BY <2>1, <3>1, <3>2
  <2>8. \A u \in Int, s \in Int : Same(<<u * s, s>>, <<u, 1>>)
    BY DEF Same
  <2>9. Same(<<v * q, q>>, <<v, 1>>)
    BY <2>8
  <2>10. Unstandardize(e, i, norm, stats) = <<v * q, q>>
    BY <2>6, <2>7
  <2> QED BY <2>9, <2>10 DEF Fraction
<1>7. v - mean \in Int
  OBVIOUS
<1> WITNESS v - mean \in Int, sd \in Int
<1> QED BY <1>1, <1>5, <1>6

LEMMA NoneInverts ==
  ASSUME NEW norm, NEW stats, NEW i, norm.kind = "none", NEW v \in Int
  PROVE  \E x, d \in Int :
           /\ d > 0
           /\ Kept(Standardize(Fraction(v), i, norm, stats), <<x, d>>)
           /\ \A e : Kept(e, <<x, d>>) => Same(Unstandardize(e, i, norm, stats), Fraction(v))
<1>1. Kept(Standardize(Fraction(v), i, norm, stats), <<v, 1>>)
  BY DEF Standardize, Fraction, Kept
<1>2. \A e : Kept(e, <<v, 1>>) => Same(Unstandardize(e, i, norm, stats), Fraction(v))
  BY DEF Unstandardize, Fraction, Kept, Same
<1>3. v \in Int /\ 1 \in Int /\ 1 > 0
  OBVIOUS
<1> QED BY <1>1, <1>2, <1>3

LEMMA RangeInverts ==
  ASSUME NEW norm, NEW stats, NEW i, norm.kind \in RangeKinds,
         stats.lower[i] \in Int, stats.upper[i] \in Int, stats.upper[i] - stats.lower[i] > 0,
         NEW v \in stats.lower[i]..stats.upper[i]
  PROVE  \E x, d \in Int :
           /\ d > 0 /\ -1 * d <= x /\ x <= 1 * d
           /\ Kept(Standardize(Fraction(v), i, norm, stats), <<x, d>>)
           /\ \A e : Kept(e, <<x, d>>) => Same(Unstandardize(e, i, norm, stats), Fraction(v))
<1>1. PICK l \in Int, u \in Int : l = stats.lower[i] /\ u = stats.upper[i]
  OBVIOUS
<1>2. PICK d \in Int : d = u - l
  OBVIOUS
<1>3. v \in Int /\ l <= v /\ v <= u /\ d > 0
  BY <1>1, <1>2
<1>4. PICK x \in Int : x = 2 * (v - l) - d
  BY <1>3
<1>5. -1 * d <= x /\ x <= 1 * d
  BY <1>2, <1>3, <1>4
<1>6. Kept(Standardize(Fraction(v), i, norm, stats), <<x, d>>)
  <2> DEFINE scaled == Plus(Times(<<2, 1>>, Over(Plus(<<v, 1>>, <<-l, 1>>), d)), <<-1, 1>>)
  <2>1. Standardize(Fraction(v), i, norm, stats)
          = IF norm.clip THEN Within(scaled, <<-1, 1>>, <<1, 1>>) ELSE scaled
    BY <1>1, <1>2 DEF Standardize, Fraction, RangeKinds
  <2>2. scaled = <<x, d>>
    <3>1. Plus(<<v, 1>>, <<-l, 1>>) = <<v - l, 1>>
      BY <1>3 DEF Plus
    <3>2. Over(<<v - l, 1>>, d) = <<v - l, d>>
      BY DEF Over
    <3>3. Times(<<2, 1>>, <<v - l, d>>) = <<2 * (v - l), d>>
      BY <1>3 DEF Times
    <3>4. \A y \in Int : Plus(<<y, d>>, <<-1, 1>>) = <<y - d, d>>
      BY DEF Plus
    <3>5. Plus(<<2 * (v - l), d>>, <<-1, 1>>) = <<x, d>>
      BY <1>3, <1>4, <3>4
    <3> QED BY <3>1, <3>2, <3>3, <3>5
  <2> HIDE DEF scaled
  <2>3. Kept(<<x, d>>, <<x, d>>)
    BY DEF Kept
  <2>4. Kept(Within(<<x, d>>, <<-1, 1>>, <<1, 1>>), <<x, d>>)
    BY <1>3, <1>5, <2>3, WithinKeeps
  <2> QED BY <2>1, <2>2, <2>3, <2>4
<1>7. ASSUME NEW e, Kept(e, <<x, d>>)
      PROVE  Same(Unstandardize(e, i, norm, stats), Fraction(v))
  <2>1. PICK p \in Int, q \in Int :
          e = <<p, q>> /\ ((p = x /\ q = d) \/ (q = 1 /\ p * d = x))
    <3>1. CASE e = <<x, d>>
      BY <3>1
    <3>2. CASE e # <<x, d>>
      <4>1. PICK p \in Int : e = <<p, 1>> /\ p * d = x
        BY <1>7, <3>2 DEF Kept
      <4> QED BY <4>1
    <3> QED BY <3>1, <3>2
  <2>2. Unstandardize(e, i, norm, stats)
          = Plus(Times(Over(Plus(<<p, q>>, <<1, 1>>), 2), <<d, 1>>), <<l, 1>>)
    BY <1>1, <1>2, <2>1 DEF Unstandardize, Fraction, RangeKinds
  <2>3. Plus(<<p, q>>, <<1, 1>>) = <<p + q, q>>
    BY DEF Plus
  <2>4. Over(<<p + q, q>>, 2) = <<p + q, q * 2>>
    BY DEF Over
  <2>5. Times(<<p + q, q * 2>>, <<d, 1>>) = <<(p + q) * d, q * 2>>
    BY DEF Times
  <2>6. \A r \in Int, s \in Int : Plus(<<r, s>>, <<l, 1>>) = <<r + l * s, s>>
    BY DEF Plus
  <2>7. (p + q) * d \in Int /\ q * 2 \in Int
    OBVIOUS
  <2>8. Unstandardize(e, i, norm, stats) = <<(p + q) * d + l * (q * 2), q * 2>>
    BY <2>2, <2>3, <2>4, <2>5, <2>6, <2>7
  <2>9. (p + q) * d + l * (q * 2) = v * (q * 2)
    <3>1. CASE p = x /\ q = d
      <4>1. p + q = 2 * (v - l)
        BY <1>3, <1>4, <3>1
      <4>2. \A a, b, c \in Int : (2 * (a - b)) * c + b * (c * 2) = a * (c * 2)
        OBVIOUS
      <4>3. (2 * (v - l)) * q + l * (q * 2) = v * (q * 2)
        BY <1>3, <4>2
      <4> QED BY <3>1, <4>1, <4>3
    <3>2. CASE q = 1 /\ p * d = x
      <4>1. (p + 1) * d = p * d + d
        OBVIOUS
      <4>2. (p + 1) * d = 2 * (v - l)
        BY <1>3, <1>4, <3>2, <4>1
      <4> QED BY <1>3, <3>2, <4>2
    <3> QED BY <2>1, <3>1, <3>2
  <2>10. \A a \in Int, s \in Int : Same(<<a * s, s>>, <<a, 1>>)
    BY DEF Same
  <2>11. Same(<<v * (q * 2), q * 2>>, <<v, 1>>)
    BY <1>3, <2>7, <2>10
  <2>12. Unstandardize(e, i, norm, stats) = <<v * (q * 2), q * 2>>
    BY <2>8, <2>9
  <2> QED BY <2>11, <2>12 DEF Fraction
<1> QED BY <1>3, <1>5, <1>6, <1>7

LEMMA DecodesBack ==
  ASSUME NEW norm, NEW stats, NEW dimension \in Nat, NormTyped(norm), StatsTyped(stats),
         ValidNormalization(norm, stats, dimension), NEW i \in 1..dimension,
         Active(stats, i), NEW v \in Int, InRange(v, i, norm, stats)
  PROVE  Same(DecodeValue(OutputClamp(Standardize(Fraction(v), i, norm, stats), norm),
                          i, norm, stats), Fraction(v))
<1> DEFINE scaled == Standardize(Fraction(v), i, norm, stats)
           Undone(x, d) == \A e : Kept(e, <<x, d>>) =>
                             Same(Unstandardize(e, i, norm, stats), Fraction(v))
<1>1. PICK x \in Int, d \in Int :
        /\ d > 0 /\ Kept(scaled, <<x, d>>) /\ Undone(x, d)
        /\ norm.kind \in RangeKinds => -1 * d <= x /\ x <= 1 * d
  <2>1. CASE norm.kind \in RangeKinds
    <3>1. /\ stats.lower[i] \in Int /\ stats.upper[i] \in Int
          /\ stats.upper[i] - stats.lower[i] > 0
      BY <2>1, RangeNumbers
    <3>2. v \in stats.lower[i]..stats.upper[i]
      BY <2>1 DEF InRange
    <3> QED BY <2>1, <3>1, <3>2, RangeInverts
  <2>2. CASE norm.kind = "z_score"
    <3>1. stats.mean[i] \in Int /\ stats.stddev[i] \in Int /\ stats.stddev[i] > 0
      BY <2>2, ScoreNumbers
    <3> QED BY <2>2, <3>1, ScoreInverts DEF RangeKinds
  <2>3. CASE norm.kind = "none"
    BY <2>3, NoneInverts DEF RangeKinds
  <2> QED BY <2>1, <2>2, <2>3 DEF NormTyped, Normalizations, RangeKinds
<1>2. Uncut(scaled, norm)
  BY DEF InRange, Uncut
<1>3. Kept(OutputClamp(OutputClamp(scaled, norm), norm), <<x, d>>)
  BY <1>1, <1>2, ClampKeeps DEF ValidNormalization
<1>4. PICK c : c = OutputClamp(OutputClamp(scaled, norm), norm)
  OBVIOUS
<1>5. Kept(ClipAction(c, norm), <<x, d>>)
  <2>1. CASE norm.clip /\ norm.kind \in RangeKinds
    <3>1. ClipAction(c, norm) = Within(c, <<-1, 1>>, <<1, 1>>)
      BY <2>1 DEF ClipAction, Fraction
    <3> QED BY <1>1, <1>3, <1>4, <2>1, <3>1, WithinKeeps
  <2>2. CASE ~(norm.clip /\ norm.kind \in RangeKinds)
    BY <1>3, <1>4, <2>2 DEF ClipAction
  <2> QED BY <2>1, <2>2
<1>6. DecodeValue(OutputClamp(scaled, norm), i, norm, stats)
        = Unstandardize(ClipAction(c, norm), i, norm, stats)
  BY <1>4 DEF DecodeValue
<1> QED BY <1>1, <1>5, <1>6

LEMMA SpecsInvert == LoadedRight => DecodeInverts
<1> DEFINE action == model.spec.action
<1> SUFFICES ASSUME LoadedRight, model.state = "loaded", NEW i \in 1..action.real_dim,
                    NEW v \in TestValues, Active(action.stats, i),
                    InRange(v, i, action.norm, action.stats)
             PROVE  Same(DecodeValue(OutputClamp(Standardize(Fraction(v), i, action.norm,
                                                             action.stats), action.norm),
                                     i, action.norm, action.stats), Fraction(v))
  BY DEF DecodeInverts
<1>1. SpecTyped(model.spec) /\ ValidAction(action, model.spec.state)
  BY DEF LoadedRight, ValidPolicySpec
<1>2. /\ action.real_dim \in Nat /\ action.model_dim \in Nat
      /\ action.real_dim <= action.model_dim
      /\ NormTyped(action.norm) /\ StatsTyped(action.stats)
      /\ ValidNormalization(action.norm, action.stats, action.model_dim)
  BY <1>1 DEF SpecTyped, ValidAction
<1>3. i \in 1..action.model_dim /\ v \in Int
  BY <1>2, TestValuesAssumption
<1> HIDE DEF action
<1> QED BY <1>2, <1>3, DecodesBack

(* The action decoder inverts the normaliser, for every valid set of       *)
(* statistics and every value that neither the clip nor the clamp cuts.    *)
THEOREM DecodingInverts == Spec => []DecodeInverts
BY LoadedAlways, SpecsInvert, PTL

-----------------------------------------------------------------------------
(* Whole numbers divided. *)
LEMMA Divides ==
  ASSUME NEW a \in Nat, NEW b \in Nat, b > 0
  PROVE  /\ a \div b \in Nat /\ a % b \in 0..b - 1
         /\ a = b * (a \div b) + (a % b)
         /\ a > 0 /\ a % b = 0 => a \div b > 0
<1>1. a \div b \in Nat /\ a % b \in 0..b - 1
  OBVIOUS
<1>2. a = b * (a \div b) + (a % b)
  OBVIOUS
<1>3. a > 0 /\ a % b = 0 => a \div b > 0
  OBVIOUS
<1> QED BY <1>1, <1>2, <1>3

(* The patches of a GWP canvas and the tokens made of them. *)
LEMMA PatchesOf ==
  ASSUME NEW spec, SpecTyped(spec), GwpSemantics(spec)
  PROVE  /\ spec.composition.height \div Patch \in Nat
         /\ spec.composition.width \div Patch \in Nat
         /\ (spec.composition.height \div Patch) * (spec.composition.width \div Patch) \in Nat
         /\ (spec.composition.height \div Patch) * (spec.composition.width \div Patch) > 0
<1>1. PICK a \in Nat, b \in Nat : a = spec.composition.height /\ b = spec.composition.width
  BY DEF SpecTyped, CanvasTyped
<1>2. a > 0 /\ b > 0 /\ a % Patch = 0 /\ b % Patch = 0
  BY <1>1 DEF GwpSemantics
<1>3. Patch \in Nat /\ Patch > 0
  BY NetworkAssumption
<1>4. a \div Patch \in Nat /\ a \div Patch > 0 /\ b \div Patch \in Nat /\ b \div Patch > 0
  BY <1>2, <1>3, Divides
<1>5. \A x, y \in Nat : x > 0 /\ y > 0 => x * y \in Nat /\ x * y > 0
  OBVIOUS
<1> QED BY <1>1, <1>4, <1>5

TokensOf(layout) == 0..layout.total_tokens - 1

PrefixOf(layout) ==
  {t \in TokensOf(layout) : t < layout.action_offset \/ t >= layout.visual_offset}

PrefixSound(layout, length) ==
  /\ LayoutConsistent(layout)
  /\ Cardinality(PrefixOf(layout)) = length
  /\ \A q \in TokensOf(layout) : {k \in TokensOf(layout) : Attends(layout, q, k)} =
       IF q \in PrefixOf(layout) THEN PrefixOf(layout) ELSE TokensOf(layout)

LEMMA PrefixOfLayout ==
  ASSUME NEW visual \in Nat, visual > 0, NEW horizon \in Nat, horizon > 0,
         NEW geometry, geometry.action_tokens = horizon,
         geometry.prefix_tokens = 1 + visual, geometry.full_tokens = 1 + visual + horizon,
         NEW layout, layout = TokenLayout(geometry)
  PROVE  PrefixSound(layout, 1 + visual)
<1>1. /\ layout.action_offset = 1 /\ layout.visual_offset = 1 + horizon
      /\ layout.total_tokens = 1 + visual + horizon
      /\ layout.prefix_tokens = 1 + visual /\ layout.suffix_tokens = horizon
  BY DEF TokenLayout
<1>2. LayoutConsistent(layout)
  BY <1>1 DEF LayoutConsistent
<1>3. Cardinality(PrefixOf(layout)) = 1 + visual
  <2>1. PrefixOf(layout) = (1 + horizon..visual + horizon) \cup {0}
    BY <1>1 DEF PrefixOf, TokensOf
  <2>2. /\ IsFiniteSet(1 + horizon..visual + horizon)
        /\ Cardinality(1 + horizon..visual + horizon) = visual
    <3>1. 1 + horizon \in Int /\ visual + horizon \in Int
      OBVIOUS
    <3>2. /\ IsFiniteSet(1 + horizon..visual + horizon)
          /\ Cardinality(1 + horizon..visual + horizon)
               = IF 1 + horizon > visual + horizon THEN 0
                 ELSE visual + horizon - (1 + horizon) + 1
      BY <3>1, FS_Interval
    <3> QED BY <3>2
  <2>3. 0 \notin 1 + horizon..visual + horizon
    OBVIOUS
  <2>4. Cardinality((1 + horizon..visual + horizon) \cup {0}) = visual + 1
    <3>1. PICK S : S = 1 + horizon..visual + horizon
      OBVIOUS
    <3>2. IsFiniteSet(S) /\ Cardinality(S) = visual /\ 0 \notin S
      BY <2>2, <2>3, <3>1
    <3>3. Cardinality(S \cup {0}) = Cardinality(S) + 1
      BY <3>2, FS_AddElement
    <3> QED BY <3>1, <3>2, <3>3
  <2>5. visual + 1 = 1 + visual
    OBVIOUS
  <2> QED BY <2>1, <2>4, <2>5
<1>4. ASSUME NEW q \in TokensOf(layout)
      PROVE  {k \in TokensOf(layout) : Attends(layout, q, k)} =
               IF q \in PrefixOf(layout) THEN PrefixOf(layout) ELSE TokensOf(layout)
  <2>1. \A t \in TokensOf(layout) : IsActionToken(layout, t) <=> t \notin PrefixOf(layout)
    BY <1>1 DEF IsActionToken, PrefixOf, TokensOf
  <2>2. CASE q \in PrefixOf(layout)
    BY <2>1, <2>2 DEF Attends, PrefixOf
  <2>3. CASE q \notin PrefixOf(layout)
    BY <2>1, <2>3 DEF Attends, PrefixOf
  <2> QED BY <2>2, <2>3
<1> QED BY <1>2, <1>3, <1>4 DEF PrefixSound

LEMMA PrefixesClose == LoadedRight => PrefixClosed
<1> DEFINE spec == model.spec
           geometry == SequenceGeometry(spec)
           layout == TokenLayout(geometry)
<1> SUFFICES ASSUME LoadedRight, model.state = "loaded", model.architecture = "gwp05"
             PROVE  /\ PrefixSound(layout, geometry.prefix_tokens)
                    /\ DOMAIN VisualPositions(spec.composition.height \div Patch,
                                              spec.composition.width \div Patch)
                         = 0..geometry.visual_tokens - 1
  BY DEF PrefixClosed, PrefixSound, PrefixOf, TokensOf
<1>1. SpecTyped(spec) /\ GwpSemantics(spec) /\ ValidAction(spec.action, spec.state)
  BY DEF LoadedRight, ValidPolicySpec
<1>2. PICK visual \in Nat :
        /\ visual = (spec.composition.height \div Patch) * (spec.composition.width \div Patch)
        /\ visual > 0
  BY <1>1, PatchesOf
<1>3. PICK horizon \in Nat : horizon = spec.action.horizon /\ horizon > 0
  BY <1>1 DEF SpecTyped, ValidAction
<1>4. geometry = [ state_tokens |-> 1, visual_tokens |-> visual, prefix_tokens |-> 1 + visual,
                   action_tokens |-> horizon, full_tokens |-> 1 + visual + horizon ]
  BY <1>2, <1>3 DEF SequenceGeometry
<1>5. /\ geometry.prefix_tokens = 1 + visual /\ geometry.visual_tokens = visual
      /\ geometry.action_tokens = horizon /\ geometry.full_tokens = 1 + visual + horizon
  BY <1>4
<1>6. DOMAIN VisualPositions(spec.composition.height \div Patch,
                             spec.composition.width \div Patch) = 0..visual - 1
  BY <1>2 DEF VisualPositions
<1> HIDE DEF geometry, spec
<1>7. PrefixSound(layout, 1 + visual)
  <2> HIDE DEF layout
  <2>1. layout = TokenLayout(geometry)
    BY DEF layout
  <2> QED BY <1>2, <1>3, <1>5, <2>1, PrefixOfLayout
<1> HIDE DEF layout
<1> QED BY <1>5, <1>6, <1>7

(* No token of a GWP sequence's prefix attends to an action, so that the   *)
(* prefix can be computed once, whatever the canvas and the horizon are.   *)
THEOREM PrefixIsClosed == Spec => []PrefixClosed
BY LoadedAlways, PrefixesClose, PTL

-----------------------------------------------------------------------------
(* What the pipeline is handed. *)
LEMMA ProductOfTwo ==
  ASSUME NEW a \in Nat, NEW b \in Nat
  PROVE  Product(<<a, b>>) = a * b
<1> DEFINE Runs(p) == p = [i \in 0..Len(<<a, b>>) |-> IF i = 0 THEN 1 ELSE <<a, b>>[i] * p[i - 1]]
           g == [i \in 0..2 |-> IF i = 0 THEN 1 ELSE IF i = 1 THEN a * 1 ELSE b * (a * 1)]
<1>1. Product(<<a, b>>) = (CHOOSE p : Runs(p))[2]
  BY DEF Product
<1>2. Runs(g)
  <2>1. Len(<<a, b>>) = 2 /\ <<a, b>>[1] = a /\ <<a, b>>[2] = b
    OBVIOUS
  <2>2. \A i \in 0..2 : i = 0 \/ i = 1 \/ i = 2
    OBVIOUS
  <2>3. g[0] = 1 /\ g[1] = a * 1 /\ g[2] = b * (a * 1)
    OBVIOUS
  <2>4. \A i \in 0..2 : g[i] = IF i = 0 THEN 1 ELSE <<a, b>>[i] * g[i - 1]
    BY <2>1, <2>2, <2>3
  <2>5. g = [i \in 0..2 |-> g[i]]
    OBVIOUS
  <2> HIDE DEF g
  <2>6. g = [i \in 0..2 |-> IF i = 0 THEN 1 ELSE <<a, b>>[i] * g[i - 1]]
    BY <2>4, <2>5
  <2> QED BY <2>1, <2>6
<1>3. PICK p : p = (CHOOSE q : Runs(q)) /\ Runs(p)
  BY <1>2
<1>4. Len(<<a, b>>) = 2 /\ <<a, b>>[1] = a /\ <<a, b>>[2] = b
  OBVIOUS
<1>5. p[0] = 1 /\ p[1] = a * p[0] /\ p[2] = b * p[1]
  <2>1. p = [i \in 0..2 |-> IF i = 0 THEN 1 ELSE <<a, b>>[i] * p[i - 1]]
    BY <1>3, <1>4
  <2>2. 0 \in 0..2 /\ 1 \in 0..2 /\ 2 \in 0..2 /\ 1 - 1 = 0 /\ 2 - 1 = 1 /\ 1 # 0 /\ 2 # 0
    OBVIOUS
  <2> QED BY <1>4, <2>1, <2>2
<1>6. b * (a * 1) = a * b
  OBVIOUS
<1> HIDE DEF Runs
<1> QED BY <1>1, <1>3, <1>5, <1>6

LEMMA OnesOf ==
  ASSUME NEW n \in Nat
  PROVE  /\ DOMAIN [i \in 1..n |-> 1] = 1..n /\ Len([i \in 1..n |-> 1]) = n
         /\ [i \in 1..n |-> 1] \in Seq(Int)
OBVIOUS

(* The tokens under a mask: all of them under a mask of ones, some of them *)
(* under any mask prepare_prompt accepts.                                  *)
LEMMA ActiveCount ==
  ASSUME NEW tokens \in Seq(Int), NEW mask \in Seq(Int), NEW vocabulary, NEW side,
         ValidPrompt(tokens, mask, vocabulary, side)
  PROVE  Len(ActiveTokens(tokens, mask)) \in 1..PromptTokens
<1> DEFINE active == {i \in DOMAIN tokens : mask[i] = 1}
<1>1. /\ Len(tokens) \in Nat /\ DOMAIN tokens = 1..Len(tokens)
      /\ DOMAIN mask = 1..Len(mask)
  OBVIOUS
<1>2. Len(tokens) <= PromptTokens /\ Len(mask) = Len(tokens) /\ \E i \in DOMAIN mask : mask[i] = 1
  BY NetworkAssumption DEF ValidPrompt
<1>3. active \in SUBSET (1..Len(tokens)) /\ active # {}
  BY <1>1, <1>2
<1> HIDE DEF active
<1>4. IsFiniteSet(1..Len(tokens)) /\ Cardinality(1..Len(tokens)) = Len(tokens)
  <2>1. \A n \in Nat : IF 1 > n THEN 0 = n ELSE n - 1 + 1 = n
    OBVIOUS
  <2>2. 1 \in Int /\ Len(tokens) \in Int
    BY <1>1
  <2>3. /\ IsFiniteSet(1..Len(tokens))
        /\ Cardinality(1..Len(tokens))
             = IF 1 > Len(tokens) THEN 0 ELSE Len(tokens) - 1 + 1
    BY <2>2, FS_Interval
  <2> QED BY <1>1, <2>1, <2>3
<1>5. IsFiniteSet(active) /\ Cardinality(active) <= Len(tokens)
  BY <1>3, <1>4, FS_Subset
<1>6. Cardinality(active) \in Nat /\ Cardinality(active) # 0
  BY <1>3, <1>5, FS_CardinalityType, FS_EmptySet
<1>7. /\ DOMAIN ActiveTokens(tokens, mask) = 1..Cardinality(active)
      /\ Len(ActiveTokens(tokens, mask)) = Cardinality(active)
  <2>1. DOMAIN ActiveTokens(tokens, mask) = 1..Cardinality(active)
    BY DEF ActiveTokens, active
  <2> QED BY <1>6, <2>1
<1>8. Cardinality(active) \in 1..PromptTokens
  BY <1>1, <1>2, <1>5, <1>6, NetworkAssumption
<1> QED BY <1>7, <1>8

LEMMA AllActive ==
  ASSUME NEW tokens \in Seq(Int), NEW mask \in Seq(Int), Len(mask) = Len(tokens),
         \A i \in DOMAIN mask : mask[i] = 1
  PROVE  ActiveTokens(tokens, mask) = tokens
<1> DEFINE active == {i \in DOMAIN tokens : mask[i] = 1}
           Place(k) == CHOOSE i \in active : Cardinality(active \cap 1..i) = k
<1>1. Len(tokens) \in Nat /\ DOMAIN tokens = 1..Len(tokens) /\ DOMAIN mask = 1..Len(tokens)
  OBVIOUS
<1>2. active = 1..Len(tokens)
  BY <1>1
<1>3. \A n \in Nat : Cardinality(1..n) = n
  <2>1. \A n \in Nat : IF 1 > n THEN 0 = n ELSE n - 1 + 1 = n
    OBVIOUS
  <2>2. \A n \in Nat : Cardinality(1..n) = IF 1 > n THEN 0 ELSE n - 1 + 1
    BY FS_Interval
  <2> QED BY <2>1, <2>2
<1>4. ASSUME NEW k \in 1..Len(tokens) PROVE Place(k) = k
  <2>1. \A i \in active : active \cap 1..i = 1..i /\ i \in Nat
    BY <1>1, <1>2
  <2>2. \A i \in active : Cardinality(active \cap 1..i) = i
    BY <1>3, <2>1
  <2>3. k \in active
    BY <1>2
  <2> HIDE DEF active
  <2> QED BY <2>2, <2>3
<1>5. ActiveTokens(tokens, mask) = [k \in 1..Cardinality(active) |-> tokens[Place(k)]]
  BY DEF ActiveTokens
<1>6. Cardinality(active) = Len(tokens)
  BY <1>1, <1>2, <1>3
<1> HIDE DEF active, Place
<1>7. ActiveTokens(tokens, mask) = [k \in 1..Len(tokens) |-> tokens[k]]
  BY <1>4, <1>5, <1>6
<1> QED BY <1>1, <1>7

LEMMA ProductsNat ==
  /\ \A a, b \in Nat : a * b \in Nat
  /\ \A a, b \in Nat : a > 0 /\ b > 0 => a * b > 0
  /\ \A a, b, c \in Nat : a <= b => a * c <= b * c
OBVIOUS

LEMMA Quotient ==
  ASSUME NEW a \in Nat, NEW b \in Nat, b > 0
  PROVE  \E q \in Nat, o \in 0..b - 1 : o = a % b /\ a = b * q + o
<1>1. a \div b \in Nat /\ a % b \in 0..b - 1 /\ a = b * (a \div b) + (a % b)
  BY Divides
<1>2. WITNESS a \div b \in Nat, a % b \in 0..b - 1
<1> QED BY <1>1

(* A stride of FastWAM's is even, also where 32 bits wrap it. *)
LEMMA EvenMultiple ==
  ASSUME NEW a \in Nat, NEW s \in Nat, U32(2 * s) > 0, a % U32(2 * s) = 0
  PROVE  a % 2 = 0
<1>1. PICK n \in Nat : n = MaxInt + 1 /\ n > 0 /\ MaxU32 + 1 = 2 * n
  BY WidthAssumption DEF MaxU32
<1>2. PICK b \in Nat, k \in Nat : b = U32(2 * s) /\ 2 * s = (2 * n) * k + b /\ b > 0
  <2>1. PICK e \in Nat, m \in Nat : e = 2 * n /\ m = 2 * s /\ e > 0
    BY <1>1
  <2>2. PICK k \in Nat, b \in 0..e - 1 : b = m % e /\ m = e * k + b
    BY <2>1, Quotient
  <2>3. U32(2 * s) = m % e
    BY <1>1, <2>1 DEF U32
  <2>4. b = U32(2 * s) /\ m = e * k + b
    BY <2>2, <2>3
  <2>5. 2 * s = (2 * n) * k + b
    BY <2>1, <2>4
  <2>6. b > 0 /\ b \in Nat
    BY <2>4
  <2> QED BY <2>4, <2>5, <2>6, Zenon
<1>3. PICK h \in Nat : b = 2 * h
  <2>1. PICK e \in Nat : e = n * k
    OBVIOUS
  <2>2. (2 * n) * k = 2 * e
    BY <2>1
  <2>3. PICK h \in Int : h = s - e
    OBVIOUS
  <2>4. b = 2 * h /\ h >= 0
    BY <1>2, <2>2, <2>3
  <2> QED BY <2>4
<1>4. PICK q \in Nat : a = b * q
  <2>1. PICK q \in Nat, o \in 0..b - 1 : o = a % b /\ a = b * q + o
    BY <1>2, Quotient
  <2>2. o = 0
    BY <1>2, <2>1
  <2>3. PICK e \in Nat : e = b * q
    OBVIOUS
  <2> QED BY <2>1, <2>2, <2>3
<1>5. PICK m \in Nat : m = h * q
  OBVIOUS
<1>6. a = 2 * m
  <2>1. a = (2 * h) * q
    BY <1>3, <1>4
  <2>2. (2 * h) * q = 2 * (h * q)
    OBVIOUS
  <2> QED BY <1>5, <2>1, <2>2
<1>7. \A i \in Nat : (2 * i) % 2 = 0
  OBVIOUS
<1> QED BY <1>6, <1>7

(* What a call was prepared from. *)
PreparedRight ==
  call.prepared # <<>> =>
    /\ model.state = "loaded"
    /\ \E request \in Requests :
         /\ PrepareError(request) = "ok"
         /\ call.request = <<request>> /\ call.prepared = <<Prepared(request)>>

LEMMA PreparedInit == Init => PreparedRight
BY DEF Init, NoCall, PreparedRight

LEMMA PreparedStep == TypeOK /\ PreparedRight /\ [Next]_vars => PreparedRight'
<1> SUFFICES ASSUME TypeOK, PreparedRight, [Next]_vars PROVE PreparedRight'
  OBVIOUS
<1>1. ASSUME NEW request, UNCHANGED model
      PROVE  /\ PrepareError(request)' = PrepareError(request)
             /\ Prepared(request)' = Prepared(request)
  BY <1>1 DEF PrepareError, ObservationError, GwpPromptError, WamPromptError, FixedConflicts,
     ValidTokens, ValidEmbedding, EmbeddingWidth, Prepared, PreparedLanguage
<1>2. ASSUME UNCHANGED <<model, call>> PROVE PreparedRight'
  BY <1>1, <1>2 DEF PreparedRight
<1>3. ASSUME call'.prepared = <<>> PROVE PreparedRight'
  BY <1>3 DEF PreparedRight
<1>4. ASSUME NEW load \in Loads, Load(load.path, load.config) PROVE PreparedRight'
  <2>1. model.state = "none" /\ UNCHANGED call
    BY <1>4 DEF Load, NoModel
  <2> QED BY <1>3, <2>1 DEF PreparedRight
<1>5. CASE CreateSession
  BY <1>2, <1>3, <1>5 DEF CreateSession, NoCall
<1>6. ASSUME NEW request \in Requests, Predict(request) PROVE PreparedRight'
  <2>1. UNCHANGED model /\ model.state = "loaded"
    BY <1>6 DEF Predict, TypeOK
  <2>2. CASE PrepareError(request) # "ok"
    BY <1>3, <1>6, <2>2 DEF Predict
  <2>3. CASE PrepareError(request) = "ok"
    <3>1. call'.request = <<request>> /\ call'.prepared = <<Prepared(request)>>
      BY <1>6, <2>3 DEF Predict
    <3>2. PrepareError(request)' = "ok" /\ Prepared(request)' = Prepared(request)
      BY <1>1, <2>1, <2>3
    <3> QED BY <2>1, <3>1, <3>2 DEF PreparedRight
  <2> QED BY <2>2, <2>3
<1>7. CASE Return
  BY <1>3, <1>7 DEF Return, NoCall
<1>8. CASE Reset
  BY <1>2, <1>8 DEF Reset
<1>9. CASE UNCHANGED vars
  BY <1>2, <1>9 DEF vars
<1> QED BY <1>4, <1>5, <1>6, <1>7, <1>8, <1>9 DEF Next

LEMMA PreparedAlways == Spec => []PreparedRight
<1>1. TypeOK /\ PreparedRight /\ [Next]_vars => PreparedRight'
  BY PreparedStep
<1> QED BY <1>1, PreparedInit, TypeCorrect, PTL DEF Spec

(* The GWP pipeline's image, state and noise are of the size it expects. *)
LEMMA GwpInputFits ==
  ASSUME NEW request, SpecTyped(model.spec), GwpSemantics(model.spec)
  PROVE  GwpInputContract(Prepared(request))
<1> DEFINE spec == model.spec
           observation == Prepared(request).observation
           canvas == observation.canvas
<1>1. PICK w \in Nat, h \in Nat : w = spec.composition.width /\ h = spec.composition.height
  BY DEF SpecTyped, CanvasTyped
<1>2. /\ canvas.width = w /\ canvas.height = h /\ canvas.layout = "chw"
      /\ DOMAIN canvas.pixels = 0..w * h * Channels - 1
  BY <1>1 DEF Prepared, PrepareObservation, ComposeCanvas, FillImage, Frame, PixelsIn,
     GwpSemantics
<1>3. Cardinality(0..w * h * Channels - 1) = w * h * Channels
  <2>1. PICK n \in Nat : n = w * h * Channels
    <3>1. w * h \in Nat
      OBVIOUS
    <3>2. \A m \in Nat : m * Channels \in Nat
      BY DEF Channels
    <3> QED BY <3>1, <3>2
  <2>2. Cardinality(0..n - 1) = IF 0 > n - 1 THEN 0 ELSE n - 1 - 0 + 1
    BY FS_Interval
  <2>3. Cardinality(0..n - 1) = n
    BY <2>2
  <2> QED BY <2>1, <2>3
<1>4. Len(observation.model_state) = spec.state.model_dim
  <2>1. spec.state.model_dim \in Nat
    BY DEF SpecTyped
  <2>2. DOMAIN observation.model_state = 1..spec.state.model_dim
    BY DEF Prepared, PrepareObservation, NormalizeState, PadState
  <2>3. observation.model_state
          = [i \in 1..spec.state.model_dim |-> observation.model_state[i]]
    BY DEF Prepared, PrepareObservation, NormalizeState, PadState
  <2> HIDE DEF observation, spec
  <2> QED BY <2>1, <2>2, <2>3
<1>5. Product(observation.noise) = spec.action.horizon * spec.action.model_dim
  <2>1. observation.noise = <<spec.action.horizon, spec.action.model_dim>>
    BY DEF Prepared, PrepareObservation, NoiseShape
  <2> QED BY <2>1, ProductOfTwo DEF SpecTyped
<1> HIDE DEF canvas, observation
<1> QED BY <1>1, <1>2, <1>3, <1>4, <1>5 DEF GwpInputContract, canvas, observation

(* Its prompt stage runs on what prepare_prompt lets through, save a fixed *)
(* prompt with padding.                                                    *)
LEMMA GwpPromptRuns ==
  ASSUME NEW request \in Requests, LoadedRight,
         model.state = "loaded", model.architecture = "gwp05",
         PrepareError(request) = "ok"
  PROVE  \/ PromptRuns(Prepared(request))
         \/ /\ model.fixed_prompt # <<>>
            /\ \E i \in DOMAIN model.fixed_prompt[1].mask : model.fixed_prompt[1].mask[i] = 0
<1> DEFINE language == request.language
           given == Prepared(request).language
           fixed == model.fixed_prompt[1]
<1>1. GwpPromptError(language) = "ok"
  BY DEF PrepareError
<1>2. /\ SpecTyped(model.spec) /\ GwpSemantics(model.spec)
      /\ FixedTyped(model.fixed_prompt)
      /\ model.language_mode \in {"tokens", "external_embedding"}
      /\ model.fixed_prompt # <<>> => model.language_mode = "tokens"
  BY DEF LoadedRight
<1>3. given = PreparedLanguage(language)
  BY DEF Prepared
<1>4. CASE model.fixed_prompt # <<>>
  <2>1. SUFFICES ASSUME \A i \in DOMAIN fixed.mask : fixed.mask[i] # 0
                 PROVE  PromptRuns(Prepared(request))
    BY <1>4
  <2>2. /\ fixed.tokens \in Seq(Int) /\ fixed.mask \in Seq(Int)
        /\ Len(fixed.mask) = Len(fixed.tokens)
        /\ \A i \in DOMAIN fixed.mask : fixed.mask[i] = 1
    <3>1. fixed.tokens \in Seq(Int) /\ fixed.mask \in Seq(Int)
      BY <1>2, <1>4 DEF FixedTyped
    <3>2. /\ Len(fixed.mask) = Len(fixed.tokens)
          /\ \A i \in DOMAIN fixed.mask : fixed.mask[i] \in {0, 1}
      BY <1>4 DEF LoadedRight, ValidPrompt
    <3> QED BY <2>1, <3>1, <3>2
  <2>3. ActiveTokens(fixed.tokens, fixed.mask) = fixed.tokens
    BY <2>2, AllActive
  <2>4. given.tokens = fixed.tokens
    BY <1>3, <1>4, <2>3 DEF PreparedLanguage
  <2> QED BY <1>2, <1>4, <2>2, <2>4 DEF PromptRuns
<1>5. CASE model.fixed_prompt = <<>> /\ model.language_mode = "tokens"
  <2> DEFINE mask == IF language.mask = <<>> THEN [i \in DOMAIN language.tokens |-> 1]
                     ELSE language.mask
             vocabulary == ModelValue(model.file, "t5_vocab_size")
  <2>1. language.kind = "tokens" /\ ValidTokens(language.tokens, language.mask)
    BY <1>1, <1>5 DEF GwpPromptError
  <2>2. ValidPrompt(language.tokens, mask, vocabulary, model.spec.language.padding_side)
    BY <2>1 DEF ValidTokens
  <2>3. language.tokens \in Seq(Int) /\ mask \in Seq(Int)
    <3>1. language.tokens \in Seq(Int) /\ language.mask \in Seq(Int)
      BY <2>1, RequestsAssumption
    <3>2. DOMAIN language.tokens = 1..Len(language.tokens) /\ Len(language.tokens) \in Nat
      BY <3>1
    <3>3. [i \in DOMAIN language.tokens |-> 1] \in Seq(Int)
      BY <3>2, OnesOf
    <3> QED BY <3>1, <3>3
  <2>4. given.tokens = ActiveTokens(language.tokens, mask)
    BY <1>3, <1>5 DEF PreparedLanguage
  <2> HIDE DEF mask, vocabulary
  <2>5. Len(given.tokens) \in 1..PromptTokens
    BY <2>2, <2>3, <2>4, ActiveCount
  <2> QED BY <1>5, <2>5 DEF PromptRuns
<1>6. CASE model.fixed_prompt = <<>> /\ model.language_mode = "external_embedding"
  <2>1. ValidEmbedding(language)
    BY <1>1, <1>6 DEF GwpPromptError
  <2>2. language.embedding.shape[1] \in 1..model.spec.language.max_tokens
    BY <2>1 DEF ValidEmbedding
  <2>3. model.spec.language.max_tokens \in 1..PromptTokens
    BY <1>2 DEF GwpSemantics
  <2>4. given.rows = language.embedding.shape[1]
    BY <1>3, <1>6 DEF PreparedLanguage
  <2>5. given.rows \in 1..PromptTokens
    BY <2>2, <2>3, <2>4, NetworkAssumption
  <2> QED BY <1>6, <2>5 DEF PromptRuns
<1> QED BY <1>2, <1>4, <1>5, <1>6

(* The FastWAM pipeline's canvas is even, as its VAE wants it. *)
LEMMA WamInputFits ==
  ASSUME NEW request, LoadedRight, model.state = "loaded",
         model.architecture = "fastwam", model.spec.layout = "chw"
  PROVE  WamInputContract(Prepared(request))
<1>1. PICK w \in Nat, h \in Nat :
        w = model.spec.composition.width /\ h = model.spec.composition.height
  BY DEF LoadedRight, SpecTyped, CanvasTyped
<1>2. PICK s \in Nat \ {0} : s = ModelValue(model.file, "spatial_downsample")
  BY DEF LoadedRight
<1>3. U32(2 * s) > 0 /\ w % U32(2 * s) = 0 /\ h % U32(2 * s) = 0
  BY <1>1, <1>2 DEF LoadedRight, WamGeometryResolves
<1>4. w % 2 = 0 /\ h % 2 = 0
  BY <1>3, EvenMultiple
<1>5. LET canvas == Prepared(request).observation.canvas IN
        canvas.width = w /\ canvas.height = h /\ canvas.layout = "chw"
  BY <1>1 DEF Prepared, PrepareObservation, ComposeCanvas, FillImage, Frame
<1> QED BY <1>1, <1>4, <1>5 DEF WamInputContract

LEMMA InputsFit == LoadedRight /\ PreparedRight => InputContractHolds
<1> SUFFICES ASSUME LoadedRight, PreparedRight, call.prepared # <<>>
             PROVE  InputContractHolds
  BY DEF InputContractHolds
<1>1. PICK request \in Requests :
        PrepareError(request) = "ok" /\ call.prepared = <<Prepared(request)>>
  BY DEF PreparedRight
<1>2. model.state = "loaded" /\ call.prepared[1] = Prepared(request)
  BY <1>1 DEF PreparedRight
<1>3. CASE model.architecture = "gwp05"
  <2>1. GwpInputContract(call.prepared[1])
    BY <1>2, <1>3, GwpInputFits DEF LoadedRight
  <2>2. \/ PromptRuns(call.prepared[1])
        \/ /\ model.fixed_prompt # <<>>
           /\ \E i \in DOMAIN model.fixed_prompt[1].mask : model.fixed_prompt[1].mask[i] = 0
    BY <1>1, <1>2, <1>3, GwpPromptRuns
  <2> QED BY <1>3, <2>1, <2>2 DEF InputContractHolds
<1>4. CASE model.architecture = "fastwam"
  <2>1. model.spec.layout = "chw" => WamInputContract(call.prepared[1])
    BY <1>2, <1>4, WamInputFits
  <2> QED BY <1>4, <2>1 DEF InputContractHolds
<1> QED BY <1>2, <1>3, <1>4 DEF LoadedRight

(* What prepare_inputs makes of any accepted request passes the checks the *)
(* pipeline makes of it again, whatever the model and the request are.     *)
THEOREM InputsHoldContract == Spec => []InputContractHolds
BY LoadedAlways, PreparedAlways, InputsFit, PTL

-----------------------------------------------------------------------------
(* The canvas: places in it, and the source pixels that weigh in them.     *)
LEMMA DividesOnly ==
  ASSUME NEW q \in Nat, NEW d \in Nat, d > 0, NEW r \in 0..d - 1
  PROVE  (q * d + r) \div d = q /\ (q * d + r) % d = r
<1>1. PICK n \in Nat : n = q * d + r
  OBVIOUS
<1>2. PICK e \in Nat, t \in 0..d - 1 : e = n \div d /\ t = n % d /\ n = d * e + t
  BY Divides
<1>3. PICK k \in Int : k = e - q
  OBVIOUS
<1>4. d * k = r - t
  BY <1>1, <1>2, <1>3
<1>5. \A i \in Int : i >= 1 => d * i >= d
  OBVIOUS
<1>6. \A i \in Int : i <= -1 => d * i <= -d
  OBVIOUS
<1>7. k = 0
  <2>1. r - t < d /\ r - t > -d
    BY <1>2
  <2>2. ~(k >= 1) /\ ~(k <= -1)
    BY <1>4, <1>5, <1>6, <2>1
  <2> QED BY <2>2
<1>8. e = q
  BY <1>3, <1>7
<1>9. t = r
  BY <1>4, <1>7
<1> QED BY <1>1, <1>2, <1>8, <1>9

(* A place of a planar image, and back. *)
LEMMA PlaceOfPixel ==
  ASSUME NEW frame, frame.layout = "chw",
         NEW w \in Nat, frame.width = w, NEW h \in Nat, frame.height = h,
         NEW x \in 0..w - 1, NEW y \in 0..h - 1, NEW c \in 0..Channels - 1
  PROVE  /\ PixelIndex(frame, x, y, c) \in PixelsIn(frame)
         /\ PixelAt(frame, PixelIndex(frame, x, y, c)) = [x |-> x, y |-> y, channel |-> c]
         /\ c * w * h + y * w + x = PixelIndex(frame, x, y, c)
<1>1. w > 0 /\ h > 0 /\ x \in Nat /\ y \in Nat /\ c \in Nat /\ x < w /\ y < h
  OBVIOUS
<1>2. c <= 2 /\ c \in 0..2
  BY DEF Channels
<1>3. PICK a \in Nat : a = c * h + y
  OBVIOUS
<1>4. PICK k \in Nat : k = a * w + x
  OBVIOUS
<1>5. PixelIndex(frame, x, y, c) = k
  BY <1>3, <1>4 DEF PixelIndex
<1>6. k \div w = a /\ k % w = x
  BY <1>1, <1>4, DividesOnly
<1>7. a \div h = c /\ a % h = y
  BY <1>1, <1>3, DividesOnly
<1>8. PICK s \in Nat : s = w * h /\ s > 0
  BY <1>1, ProductsNat
<1>9. PICK b \in Nat : b = y * w + x /\ b <= s - 1
  <2>1. PICK b \in Nat : b = y * w + x
    OBVIOUS
  <2>2. PICK g \in Nat : g = h - 1 /\ y <= g
    BY <1>1
  <2>3. y * w <= g * w /\ g * w = h * w - w /\ h * w = w * h
    BY <1>1, <2>2, ProductsNat
  <2> QED BY <1>1, <1>8, <2>1, <2>3
<1>10. k = c * s + b
  <2>1. a * w = (c * h) * w + y * w
    BY <1>1, <1>3
  <2>2. (c * h) * w = c * s
    BY <1>1, <1>8
  <2> QED BY <1>1, <1>4, <1>9, <2>1, <2>2
<1>11. k \div s = c
  <2>1. b \in 0..s - 1
    BY <1>8, <1>9
  <2> QED BY <1>1, <1>8, <1>10, <2>1, DividesOnly
<1>12. k \in 0..s * 3 - 1
  BY <1>2, <1>8, <1>9, <1>10
<1>13. c * w * h + y * w + x = k
  <2>1. c * w * h = c * s
    BY <1>1, <1>8
  <2>2. c * s \in Nat /\ y * w \in Nat
    BY <1>1, <1>8
  <2> QED BY <1>1, <1>9, <1>10, <2>1, <2>2
<1>14. PixelsIn(frame) = 0..s * 3 - 1
  BY <1>8 DEF PixelsIn, Channels
<1>15. PixelAt(frame, k) = [x |-> k % w, y |-> (k \div w) % h, channel |-> k \div s]
  BY <1>8 DEF PixelAt
<1> QED BY <1>5, <1>6, <1>7, <1>11, <1>12, <1>13, <1>14, <1>15

LEMMA MinBelow ==
  ASSUME NEW S \in SUBSET Nat, NEW m \in S
  PROVE  Min(S) \in S /\ Min(S) <= m
BY Least DEF Min

LEMMA MaxAbove ==
  ASSUME NEW b \in Nat, NEW S \in SUBSET (0..b), NEW m \in S
  PROVE  Max(S) \in S /\ m <= Max(S)
<1> DEFINE T == {b - n : n \in S}
<1>1. T \in SUBSET Nat /\ T # {}
  OBVIOUS
<1>2. PICK t \in T : \A n \in T : t <= n
  BY <1>1, Least
<1>3. PICK top \in S : t = b - top
  BY <1>2
<1>4. \A n \in S : b - top <= b - n
  BY <1>2, <1>3
<1>5. \A n \in S : n <= top
  BY <1>4
<1> QED BY <1>5 DEF Max

-----------------------------------------------------------------------------
(* The source pixel nearest to the center of output pixel p.               *)
NearestTo(p, source, resized) == ((2 * p + 1) * source) \div (2 * resized)

LEMMA NearestBound ==
  ASSUME NEW s \in Nat, NEW r \in Nat, NEW p \in 0..r - 1, s > 0
  PROVE  /\ NearestTo(p, s, r) \in 0..s - 1
         /\ \E t \in 0..2 * r - 1 : (2 * p + 1) * s = 2 * r * NearestTo(p, s, r) + t
<1>1. PICK d \in Nat : d = 2 * r /\ d > 0
  OBVIOUS
<1>2. PICK n \in Nat : n = (2 * p + 1) * s
  OBVIOUS
<1>3. PICK i \in Nat, t \in 0..d - 1 : i = n \div d /\ n = d * i + t
  BY <1>1, <1>2, Divides
<1>4. i < s
  <2>1. SUFFICES ASSUME i >= s PROVE FALSE
    BY <1>3
  <2>2. d * s <= d * i
    BY <1>1, <1>3, <2>1
  <2>3. PICK o \in Nat : o = 2 * p + 1 /\ o + 1 <= d
    BY <1>1
  <2>4. (o + 1) * s <= d * s /\ (o + 1) * s = o * s + s
    BY <1>1, <2>3
  <2>5. o * s = n
    BY <1>2, <2>3
  <2>6. n + s <= n
    BY <1>2, <1>3, <2>2, <2>4, <2>5
  <2> QED BY <1>2, <2>6
<1> QED BY <1>1, <1>2, <1>3, <1>4 DEF NearestTo

LEMMA NearestRises ==
  ASSUME NEW s \in Nat, NEW r \in Nat, NEW p \in Nat, r > 0
  PROVE  /\ NearestTo(p, s, r) \in Nat /\ NearestTo(p + 1, s, r) \in Nat
         /\ NearestTo(p, s, r) <= NearestTo(p + 1, s, r)
<1>1. PICK d \in Nat : d = 2 * r /\ d > 0
  OBVIOUS
<1>2. PICK n \in Nat : n = (2 * p + 1) * s
  OBVIOUS
<1>3. PICK o \in Nat : o = (2 * (p + 1) + 1) * s /\ n <= o
  <2>1. (2 * (p + 1) + 1) * s = (2 * p + 1) * s + 2 * s
    OBVIOUS
  <2> QED BY <1>2, <2>1
<1>4. PICK i \in Nat, t \in 0..d - 1 : i = n \div d /\ n = d * i + t
  BY <1>1, Divides
<1>5. PICK j \in Nat, u \in 0..d - 1 : j = o \div d /\ o = d * j + u
  BY <1>1, Divides
<1>6. i <= j
  <2>1. SUFFICES ASSUME j + 1 <= i PROVE FALSE
    OBVIOUS
  <2>2. d * (j + 1) <= d * i /\ d * (j + 1) = d * j + d
    BY <1>1, <2>1
  <2> QED BY <1>1, <1>3, <1>4, <1>5, <2>2
<1> QED BY <1>1, <1>2, <1>3, <1>4, <1>5, <1>6 DEF NearestTo

LEMMA MaxOfTwo ==
  ASSUME NEW a \in Int, NEW b \in Int
  PROVE  Max({a, b}) = IF a >= b THEN a ELSE b
<1>1. \A n \in {a, b} : IF a >= b THEN a >= n ELSE b >= n
  OBVIOUS
<1>2. \A n \in {a, b} : (\A j \in {a, b} : n >= j) => n = IF a >= b THEN a ELSE b
  OBVIOUS
<1>3. \E n \in {a, b} : \A j \in {a, b} : n >= j
  <2>1. CASE a >= b
    BY <1>1, <2>1
  <2>2. CASE ~(a >= b)
    BY <1>1, <2>2
  <2> QED BY <2>1, <2>2
<1> QED BY <1>2, <1>3 DEF Max

LEMMA MinOfTwo ==
  ASSUME NEW a \in Int, NEW b \in Int
  PROVE  Min({a, b}) = IF a <= b THEN a ELSE b
<1>1. \A n \in {a, b} : IF a <= b THEN a <= n ELSE b <= n
  OBVIOUS
<1>2. \A n \in {a, b} : (\A j \in {a, b} : n <= j) => n = IF a <= b THEN a ELSE b
  OBVIOUS
<1>3. \E n \in {a, b} : \A j \in {a, b} : n <= j
  <2>1. CASE a <= b
    BY <1>1, <2>1
  <2>2. CASE ~(a <= b)
    BY <1>1, <2>2
  <2> QED BY <2>1, <2>2
<1> QED BY <1>2, <1>3 DEF Min

LEMMA ClampedInside ==
  ASSUME NEW s \in Nat, s > 0, NEW i \in Int
  PROVE  /\ Clamped(i, s) \in 0..s - 1
         /\ i \in 0..s - 1 => Clamped(i, s) = i
<1>1. s - 1 \in Int
  OBVIOUS
<1>2. Min({s - 1, i}) = IF s - 1 <= i THEN s - 1 ELSE i
  BY <1>1, MinOfTwo
<1>3. PICK m \in Int : m = Min({s - 1, i})
  BY <1>1, <1>2
<1>4. Clamped(i, s) = IF 0 >= m THEN 0 ELSE m
  <2>1. Max({0, m}) = IF 0 >= m THEN 0 ELSE m
    BY MaxOfTwo
  <2> QED BY <1>3, <2>1 DEF Clamped
<1>5. m <= s - 1 /\ (i >= 0 /\ i <= s - 1 => m = i)
  BY <1>2, <1>3
<1>6. PICK k \in Int : k = Clamped(i, s)
  BY <1>3, <1>4
<1>7. k = IF 0 >= m THEN 0 ELSE m
  BY <1>4, <1>6
<1>8. PICK u \in Nat : u = s - 1
  OBVIOUS
<1>9. m <= u /\ (i >= 0 /\ i <= u => m = i)
  BY <1>5, <1>8
<1>10. k \in 0..u /\ (i \in 0..u => k = i)
  BY <1>7, <1>8, <1>9
<1> QED BY <1>6, <1>8, <1>10

(* The cubic kernel inside of its first zero. *)
LEMMA CubicInside ==
  ASSUME NEW n \in Nat, NEW k \in Nat, k > 0, NEW interpolation, interpolation # "bilinear"
  PROVE  KernelWeight(n, n + k, interpolation)
           = k * (n * n) + 6 * (n * (k * k)) + 2 * (k * (k * k))
<1>1. PICK m \in Nat : m = n + k /\ n < m
  <2>1. n + k \in Nat /\ n < n + k
    OBVIOUS
  <2> QED BY <2>1
<1>2. PICK a \in Nat, b \in Nat, c \in Nat : a = n * n /\ b = n * k /\ c = k * k
  BY ProductsNat
<1>3. n * n * m = n * a + k * a /\ m * m = a + 2 * b + c
  BY <1>1, <1>2
<1>4. n * n * n = n * a
  BY <1>2
<1>5. m * m * m = (n + k) * (a + 2 * b + c)
  BY <1>1, <1>3
<1>6. (n + k) * (a + 2 * b + c) = n * a + 2 * (n * b) + n * c + k * a + 2 * (k * b) + k * c
  BY <1>2
<1>7. n * b = k * a /\ k * b = n * c
  BY <1>2
<1>8. PICK d \in Nat, e \in Nat, f \in Nat, g \in Nat :
        d = n * a /\ e = k * a /\ f = n * c /\ g = k * c
  BY <1>2, ProductsNat
<1>9. m * m * m = d + 3 * e + 3 * f + g
  BY <1>5, <1>6, <1>7, <1>8
<1>10. 3 * n * n * n - 5 * n * n * m + 2 * m * m * m = e + 6 * f + 2 * g
  <2>1. 3 * n * n * n = 3 * d
    BY <1>4, <1>8
  <2>2. 5 * n * n * m = 5 * (d + e)
    BY <1>3, <1>8
  <2>3. 2 * m * m * m = 2 * (d + 3 * e + 3 * f + g)
    BY <1>9
  <2> QED BY <1>8, <2>1, <2>2, <2>3
<1>11. KernelWeight(n, m, interpolation) = e + 6 * f + 2 * g
  BY <1>1, <1>10 DEF KernelWeight
<1> QED BY <1>1, <1>2, <1>8, <1>11

(* Both kernels are positive near the center. *)
LEMMA KernelPositive ==
  ASSUME NEW n \in Nat, NEW m \in Nat, n < m, NEW interpolation
  PROVE  KernelWeight(n, m, interpolation) > 0
<1>1. CASE interpolation = "bilinear"
  <2>1. PICK k \in Int : k = m - n /\ k > 0
    OBVIOUS
  <2>2. Max({0, k}) = k
    BY <2>1, MaxOfTwo
  <2> QED BY <1>1, <2>1, <2>2 DEF KernelWeight
<1>2. CASE interpolation # "bilinear"
  <2>1. PICK k \in Nat : m = n + k /\ k > 0
    <3>1. m - n \in Nat /\ m - n > 0 /\ m = n + (m - n)
      OBVIOUS
    <3> QED BY <3>1
  <2>2. PICK c \in Nat : c = k * k /\ c > 0
    BY <2>1, ProductsNat
  <2>3. PICK e \in Nat, f \in Nat, g \in Nat :
          e = k * (n * n) /\ f = n * c /\ g = k * c /\ g > 0
    <3>1. n * n \in Nat
      BY ProductsNat
    <3>2. k * (n * n) \in Nat
      BY <3>1, ProductsNat
    <3> QED BY <2>1, <2>2, <3>2, ProductsNat
  <2>4. KernelWeight(n, n + k, interpolation)
          = k * (n * n) + 6 * (n * (k * k)) + 2 * (k * (k * k))
    BY <1>2, <2>1, CubicInside
  <2>5. KernelWeight(n, n + k, interpolation) = e + 6 * f + 2 * g
    BY <2>2, <2>3, <2>4
  <2>6. e + 6 * f + 2 * g > 0
    BY <2>3
  <2> QED BY <2>1, <2>5, <2>6
<1> QED BY <1>1, <1>2

(* How far source pixel i is from the center of a window. *)
Away(i, d, c) == IF d * i > c THEN d * i - c ELSE c - d * i

LEMMA AwayNumber ==
  ASSUME NEW i \in Int, NEW d \in Nat, NEW c \in Int
  PROVE  /\ Away(i, d, c) \in Nat
         /\ Away(-i, d, -c) = Away(i, d, c)
<1>1. PICK e \in Int : e = d * i
  OBVIOUS
<1>2. d * (-i) = -e
  BY <1>1
<1> QED BY <1>1, <1>2 DEF Away

LEMMA FloorBound ==
  ASSUME NEW n \in Int, NEW d \in Nat, d > 0, NEW j \in Int
  PROVE  n \div d \in Int /\ (d * j <= n <=> j <= n \div d)
<1>1. PICK q \in Int, t \in 0..d - 1 : q = n \div d /\ n = d * q + t
  <2>1. n \div d \in Int /\ n % d \in 0..d - 1
    OBVIOUS
  <2>2. n = d * (n \div d) + (n % d)
    OBVIOUS
  <2> QED BY <2>1, <2>2
<1>2. CASE j <= q
  <2>1. d * j <= d * q
    BY <1>2
  <2> QED BY <1>1, <1>2, <2>1
<1>3. CASE q + 1 <= j
  <2>1. d * (q + 1) <= d * j /\ d * (q + 1) = d * q + d
    BY <1>3
  <2> QED BY <1>1, <1>3, <2>1
<1> QED BY <1>1, <1>2, <1>3

Reach(s, r, view) ==
  (IF view.interpolation = "bicubic" THEN 2 ELSE 1) * (2 * FilterScale(s, r, view.antialias))

LEMMA ReachBound ==
  ASSUME NEW s \in Nat, s > 0, NEW r \in Nat, r > 0, NEW view
  PROVE  /\ FilterScale(s, r, view.antialias) \in Nat
         /\ FilterScale(s, r, view.antialias) >= r
         /\ Reach(s, r, view) \in Nat
         /\ Reach(s, r, view) <= 4 * r \/ Reach(s, r, view) <= 4 * s
<1>1. PICK f \in Nat : f = FilterScale(s, r, view.antialias) /\ f >= r /\ (f = r \/ f = s)
  <2>1. Max({r, s}) = IF r >= s THEN r ELSE s
    BY MaxOfTwo
  <2> QED BY <2>1 DEF FilterScale
<1>2. Reach(s, r, view) = 2 * (2 * f) \/ Reach(s, r, view) = 1 * (2 * f)
  BY <1>1 DEF Reach
<1> QED BY <1>1, <1>2

(* The ends of a window are ints where the sizes can be counted. *)
LEMMA WindowEnds ==
  ASSUME NEW s \in Nat, s > 0, NEW r \in Nat, NEW p \in 0..r - 1, WindowFits(s, r),
         NEW reach \in Nat, reach <= 4 * r \/ reach <= 4 * s
  PROVE  LET c == Center(p, s, r) IN
           /\ (reach + c) \div (2 * r) \in -MaxInt - 1..MaxInt
           /\ -((reach - c) \div (2 * r)) \in -MaxInt - 1..MaxInt
<1>1. PICK d \in Nat : d = 2 * r /\ d > 0 /\ r > 0
  OBVIOUS
<1>2. PICK k \in Nat, t \in 0..r - 1 : k = s \div r /\ s = r * k + t
  BY <1>1, Divides
<1>3. PICK top \in Nat : top = MaxInt /\ s + 2 * k + 2 <= top
  BY <1>2, WidthAssumption DEF WindowFits
<1>4. PICK a \in Nat, b \in Nat, e \in Nat : a = p * s /\ b = r * s /\ e = r * k /\ a + s <= b
  <2>1. p \in Nat /\ p + 1 <= r
    OBVIOUS
  <2>2. (p + 1) * s <= r * s /\ (p + 1) * s = p * s + s
    BY <2>1, ProductsNat
  <2> QED BY <1>2, <2>1, <2>2, ProductsNat
<1>5. PICK c \in Int : c = Center(p, s, r) /\ c = 2 * a + s - r
  <2>1. (2 * p + 1) * s = 2 * (p * s) + s
    OBVIOUS
  <2> QED BY <1>4, <2>1 DEF Center
<1>6. d * (s + 2 * k + 3) = 2 * b + 4 * e + 6 * r
  BY <1>1, <1>2, <1>4
<1>7. s < e + r
  BY <1>2, <1>4
<1>8. reach + c < 2 * b + 4 * e + 6 * r /\ reach - c < 2 * b + 4 * e + 6 * r
  BY <1>4, <1>5, <1>7
<1>9. ASSUME NEW n \in Int, n < 2 * b + 4 * e + 6 * r PROVE n \div d <= top
  <2>1. PICK m \in Nat : m = s + 2 * k + 3
    OBVIOUS
  <2>2. n \div d \in Int /\ ~(m <= n \div d)
    BY <1>1, <1>6, <1>9, <2>1, FloorBound
  <2> QED BY <1>3, <2>1, <2>2
<1>10. (reach + c) \div d \in Int /\ -1 <= (reach + c) \div d
  <2>1. d * (-1) <= reach + c
    BY <1>1, <1>4, <1>5
  <2> QED BY <1>1, <2>1, FloorBound
<1>11. (reach - c) \div d \in Int /\ -s <= (reach - c) \div d
  <2>1. d * (-s) = -(2 * b)
    BY <1>1, <1>4
  <2>2. d * (-s) <= reach - c
    BY <1>4, <1>5, <2>1
  <2> QED BY <1>1, <2>2, FloorBound
<1>12. (reach + c) \div d <= top /\ (reach - c) \div d <= top
  BY <1>8, <1>9
<1>13. PICK u \in Int, v \in Int : u = (reach + c) \div d /\ v = (reach - c) \div d
  BY <1>10, <1>11
<1>14. u \in -top - 1..top /\ -v \in -top - 1..top
  BY <1>3, <1>10, <1>11, <1>12, <1>13
<1> QED BY <1>1, <1>3, <1>5, <1>13, <1>14

(* There a window has the positions no further than its reach. *)
TapsFrom(first, last, d, c, f, s, view, boundary) ==
  LET Weight(i) == KernelWeight(Away(i, d, c), 2 * f, view.interpolation)
  IN {<<i, Weight(i)>> : i \in {j \in first..last :
        Weight(j) # 0 /\ (boundary = "truncate" => j \in 0..s - 1)}}

LEMMA WindowOf ==
  ASSUME NEW s \in Nat, s > 0, NEW r \in Nat, NEW p \in 0..r - 1, WindowFits(s, r),
         NEW view, NEW boundary, NEW d \in Nat, d = 2 * r, NEW c \in Int, c = Center(p, s, r),
         NEW f, f = FilterScale(s, r, view.antialias)
  PROVE  \E first \in Int, last \in Int :
           /\ \A j \in Int : j \in first..last <=> Away(j, d, c) <= Reach(s, r, view)
           /\ Taps(p, s, r, view, boundary) = TapsFrom(first, last, d, c, f, s, view, boundary)
<1>1. d > 0 /\ r > 0
  OBVIOUS
<1>2. PICK reach \in Nat : /\ reach = Reach(s, r, view)
                           /\ reach <= 4 * r \/ reach <= 4 * s
  BY <1>1, ReachBound
<1>3. PICK first \in Int, last \in Int :
        /\ first = -((reach - c) \div d) /\ last = (reach + c) \div d
        /\ ToInt(first) = first /\ ToInt(last) = last
  <2>1. /\ (reach + c) \div d \in -MaxInt - 1..MaxInt
        /\ -((reach - c) \div d) \in -MaxInt - 1..MaxInt
    BY <1>1, <1>2, WindowEnds
  <2>2. \A n \in -MaxInt - 1..MaxInt : n \in Int /\ ToInt(n) = n
    BY WidthAssumption DEF ToInt
  <2> QED BY <2>1, <2>2
<1>4. ASSUME NEW j \in Int
      PROVE  j \in first..last <=> Away(j, d, c) <= reach
  <2>1. PICK e \in Int : e = d * j
    OBVIOUS
  <2>2. d * (-j) = -e
    BY <2>1
  <2>3. e <= reach + c <=> j <= last
    BY <1>1, <1>3, <2>1, FloorBound
  <2>4. -e <= reach - c <=> -j <= -first
    <3>1. PICK i \in Int : i = -j
      OBVIOUS
    <3>2. d * i <= reach - c <=> i <= (reach - c) \div d
      BY <1>1, <3>1, FloorBound
    <3>3. (reach - c) \div d = -first
      BY <1>1, <1>3, FloorBound
    <3> QED BY <2>2, <3>1, <3>2, <3>3
  <2>5. Away(j, d, c) = IF e > c THEN e - c ELSE c - e
    BY <2>1 DEF Away
  <2> QED BY <2>1, <2>3, <2>4, <2>5
<1> DEFINE Weight(i) == KernelWeight(Away(i, d, c), 2 * f, view.interpolation)
<1>5. Taps(p, s, r, view, boundary)
        = {<<i, Weight(i)>> : i \in {j \in first..last :
             Weight(j) # 0 /\ (boundary = "truncate" => j \in 0..s - 1)}}
  BY <1>2, <1>3 DEF Taps, Away, Reach
<1> HIDE DEF Weight
<1>6. \A j \in Int : j \in first..last <=> Away(j, d, c) <= Reach(s, r, view)
  BY <1>2, <1>4
<1>7. Taps(p, s, r, view, boundary) = TapsFrom(first, last, d, c, f, s, view, boundary)
  BY <1>5 DEF TapsFrom, Weight
<1> QED BY <1>6, <1>7

(* A window lies in the image. *)
LEMMA SampleInside ==
  ASSUME NEW s \in Nat, s > 0, NEW r, NEW p, NEW view, NEW boundary
  PROVE  AxisSample(p, s, r, view, boundary) \subseteq 0..s - 1
<1>1. \A n : ToInt(n) \in Int
  BY WidthAssumption DEF ToInt
<1>2. CASE view.interpolation = "nearest"
  <2>1. PICK i \in Int : i = ToInt(((2 * p + 1) * s) \div (2 * r))
    BY <1>1
  <2>2. AxisSample(p, s, r, view, boundary) = {Clamped(i, s)}
    BY <1>2, <2>1 DEF AxisSample
  <2> QED BY <2>2, ClampedInside
<1>3. CASE view.interpolation # "nearest"
  <2>1. ASSUME NEW tap \in Taps(p, s, r, view, boundary) PROVE tap[1] \in Int
    <3> DEFINE m == 2 * FilterScale(s, r, view.antialias)
               c == Center(p, s, r)
               reach == (IF view.interpolation = "bicubic" THEN 2 ELSE 1) * m
               first == ToInt(-((reach - c) \div (2 * r)))
               last == ToInt((reach + c) \div (2 * r))
               Distance(i) == IF 2 * r * i > c THEN 2 * r * i - c ELSE c - 2 * r * i
               Weight(i) == KernelWeight(Distance(i), m, view.interpolation)
    <3>1. tap \in {<<i, Weight(i)>> : i \in {j \in first..last :
                     Weight(j) # 0 /\ (boundary = "truncate" => j \in 0..s - 1)}}
      BY <2>1 DEF Taps
    <3> HIDE DEF Weight, first, last
    <3>2. PICK i \in first..last : tap = <<i, Weight(i)>>
      BY <3>1
    <3>3. tap[1] = i
      BY <3>2
    <3>4. first \in Int /\ last \in Int
      BY <1>1 DEF first, last
    <3> QED BY <3>3, <3>4
  <2>2. \/ AxisSample(p, s, r, view, boundary) = {}
        \/ AxisSample(p, s, r, view, boundary)
             = {Clamped(tap[1], s) : tap \in Taps(p, s, r, view, boundary)}
    BY <1>3 DEF AxisSample
  <2>3. \A tap \in Taps(p, s, r, view, boundary) : Clamped(tap[1], s) \in 0..s - 1
    BY <2>1, ClampedInside
  <2> QED BY <2>2, <2>3
<1> QED BY <1>2, <1>3

(* A window that is not empty has the nearest source pixel in it. *)
LEMMA SampleNear ==
  ASSUME NEW s \in Nat, s > 0, NEW r \in Nat, NEW p \in 0..r - 1, WindowFits(s, r),
         NEW view, NEW boundary, AxisSample(p, s, r, view, boundary) # {}
  PROVE  NearestTo(p, s, r) \in AxisSample(p, s, r, view, boundary)
<1>1. PICK near \in 0..s - 1, t \in 0..2 * r - 1 :
        near = NearestTo(p, s, r) /\ (2 * p + 1) * s = 2 * r * near + t
  BY NearestBound
<1>2. Clamped(near, s) = near /\ near \in Int
  BY <1>1, ClampedInside
<1>3. CASE view.interpolation = "nearest"
  <2>1. ToInt(near) = near
    <3>1. s \div r \in Nat
      BY Divides
    <3>2. near \in -MaxInt - 1..MaxInt
      BY <3>1, WidthAssumption DEF WindowFits
    <3> QED BY <3>2 DEF ToInt
  <2>2. AxisSample(p, s, r, view, boundary) = {Clamped(near, s)}
    BY <1>1, <1>3, <2>1 DEF AxisSample, NearestTo
  <2> QED BY <1>1, <1>2, <2>2
<1>4. CASE view.interpolation # "nearest"
  <2>1. PICK c \in Int : c = Center(p, s, r) /\ c = 2 * r * near + t - r
    <3>1. PICK u \in Int, v \in Int : u = (2 * p + 1) * s /\ v = 2 * r * near
      OBVIOUS
    <3>2. (2 * p + 1) * s = 2 * r * near + t
      BY <1>1, Zenon
    <3>3. u = v + t
      BY <3>1, <3>2
    <3>4. u - r = v + t - r /\ u - r \in Int
      BY <3>3
    <3> QED BY <3>1, <3>4 DEF Center
  <2>2. PICK d \in Nat : d = 2 * r
    OBVIOUS
  <2>3. PICK n \in Nat : n = Away(near, d, c) /\ n <= r
    <3>1. PICK e \in Int : e = d * near /\ c = e + t - r
      BY <2>1, <2>2
    <3>2. Away(near, d, c) = IF r > t THEN r - t ELSE t - r
      BY <3>1 DEF Away
    <3>3. (IF r > t THEN r - t ELSE t - r) \in Nat /\ (IF r > t THEN r - t ELSE t - r) <= r
      BY <2>2
    <3> QED BY <3>2, <3>3
  <2>4. PICK f \in Nat : f = FilterScale(s, r, view.antialias) /\ f >= r /\ r > 0
    BY ReachBound
  <2> DEFINE Weight(i) == KernelWeight(Away(i, d, c), 2 * f, view.interpolation)
  <2>5. Weight(near) # 0 /\ n <= Reach(s, r, view)
    <3>1. n < 2 * f
      BY <2>3, <2>4
    <3>2. KernelWeight(n, 2 * f, view.interpolation) > 0
      BY <2>3, <2>4, <3>1, KernelPositive
    <3>3. ~(0 > 0)
      OBVIOUS
    <3>4. Reach(s, r, view) = 2 * (2 * f) \/ Reach(s, r, view) = 1 * (2 * f)
      BY <2>4 DEF Reach
    <3> QED BY <2>3, <2>4, <3>1, <3>2, <3>3, <3>4
  <2>6. PICK first \in Int, last \in Int :
          /\ \A j \in Int : j \in first..last <=> Away(j, d, c) <= Reach(s, r, view)
          /\ Taps(p, s, r, view, boundary)
               = {<<i, Weight(i)>> : i \in {j \in first..last :
                    Weight(j) # 0 /\ (boundary = "truncate" => j \in 0..s - 1)}}
    <3>1. PICK first \in Int, last \in Int :
            /\ \A j \in Int : j \in first..last <=> Away(j, d, c) <= Reach(s, r, view)
            /\ Taps(p, s, r, view, boundary)
                 = TapsFrom(first, last, d, c, f, s, view, boundary)
      <4>1. d = 2 * r /\ c = Center(p, s, r) /\ f = FilterScale(s, r, view.antialias)
        BY <2>1, <2>2, <2>4
      <4> QED BY <4>1, WindowOf
    <3>2. TapsFrom(first, last, d, c, f, s, view, boundary)
            = {<<i, Weight(i)>> : i \in {j \in first..last :
                 Weight(j) # 0 /\ (boundary = "truncate" => j \in 0..s - 1)}}
      BY DEF TapsFrom
    <3> HIDE DEF Weight
    <3> QED BY <3>1, <3>2
  <2> HIDE DEF Weight
  <2>7. <<near, Weight(near)>> \in Taps(p, s, r, view, boundary)
    <3>1. near \in first..last
      BY <1>2, <2>3, <2>5, <2>6
    <3> QED BY <2>5, <2>6, <3>1
  <2>8. AxisSample(p, s, r, view, boundary)
          = {Clamped(tap[1], s) : tap \in Taps(p, s, r, view, boundary)}
    BY <1>4 DEF AxisSample
  <2>9. <<near, Weight(near)>>[1] = near
    OBVIOUS
  <2> QED BY <1>1, <1>2, <2>7, <2>8, <2>9
<1> QED BY <1>3, <1>4

(* The window of an output pixel does not lie past that of the next one. *)
LEMMA WindowsInOrder ==
  ASSUME NEW s \in Nat, NEW r \in Nat, NEW p \in 0..r - 1, p + 1 \in 0..r - 1,
         s > 0, WindowFits(s, r), NEW view, NEW boundary,
         AxisSample(p, s, r, view, boundary) # {},
         AxisSample(p + 1, s, r, view, boundary) # {}
  PROVE  Min(AxisSample(p, s, r, view, boundary))
           <= Max(AxisSample(p + 1, s, r, view, boundary))
<1>1. PICK A \in SUBSET (0..s - 1) : A = AxisSample(p, s, r, view, boundary)
  BY SampleInside
<1>2. PICK B \in SUBSET (0..s - 1) : B = AxisSample(p + 1, s, r, view, boundary)
  BY SampleInside
<1>3. NearestTo(p, s, r) \in A /\ NearestTo(p + 1, s, r) \in B
  BY <1>1, <1>2, SampleNear
<1>4. Min(A) \in A /\ Min(A) <= NearestTo(p, s, r)
  <2>1. A \in SUBSET Nat
    OBVIOUS
  <2> QED BY <1>3, <2>1, MinBelow
<1>5. Max(B) \in B /\ NearestTo(p + 1, s, r) <= Max(B)
  <2>1. s - 1 \in Nat
    OBVIOUS
  <2> QED BY <1>3, <2>1, MaxAbove
<1>6. NearestTo(p, s, r) <= NearestTo(p + 1, s, r)
  BY NearestRises
<1>7. \A a \in A : a \in Int
  OBVIOUS
<1>8. \A b \in B : b \in Int
  OBVIOUS
<1>9. \A a, b, c, d \in Int : a <= b /\ b <= c /\ c <= d => a <= d
  OBVIOUS
<1>10. Min(A) <= Max(B)
  BY <1>3, <1>4, <1>5, <1>6, <1>7, <1>8, <1>9
<1> QED BY <1>1, <1>2, <1>10

-----------------------------------------------------------------------------
(* An accepted view, and what is cut out of its image resized. *)
LEMMA RoundedAbove ==
  ASSUME NEW n \in Nat, NEW d \in Nat, d > 0, NEW legacy, NEW low \in Nat, low * d <= n
  PROVE  Rounded(n, d, legacy) \in Nat /\ low <= Rounded(n, d, legacy)
<1>1. PICK q \in Nat, t \in 0..d - 1 : q = n \div d /\ t = n % d /\ n = d * q + t
  BY Divides
<1>2. low <= q
  <2>1. SUFFICES ASSUME q + 1 <= low PROVE FALSE
    OBVIOUS
  <2>2. (q + 1) * d <= low * d /\ (q + 1) * d = d * q + d
    BY <2>1, ProductsNat
  <2> QED BY <1>1, <2>2
<1>3. Rounded(n, d, legacy) = q \/ Rounded(n, d, legacy) = q + 1
  BY <1>1 DEF Rounded
<1> QED BY <1>2, <1>3

LEMMA FullCovers ==
  ASSUME NEW image, image.width \in Nat, image.height \in Nat,
         image.width > 0, image.height > 0, NEW view, ViewTyped(view), NEW legacy,
         view.resize = "none" => image.width = view.width /\ image.height = view.height
  PROVE  LET full == FullSize(image, view, legacy) IN
           /\ full.width \in Nat /\ full.height \in Nat
           /\ view.width <= full.width /\ view.height <= full.height
<1>1. PICK a \in Nat, b \in Nat : a = image.width /\ b = image.height /\ a > 0 /\ b > 0
  OBVIOUS
<1>2. PICK w \in Nat, h \in Nat : w = view.width /\ h = view.height
  BY DEF ViewTyped
<1>3. CASE view.resize = "none" \/ view.resize = "stretch"
  BY <1>2, <1>3 DEF FullSize
<1>4. CASE ~(view.resize = "none" \/ view.resize = "stretch")
  <2>1. PICK l \in Nat, k \in Nat : l = w * b /\ k = h * a
    BY ProductsNat
  <2>2. b * w = l /\ a * h = k
    BY <2>1
  <2>3. CASE l >= k
    <3>1. FullSize(image, view, legacy) = [width |-> w, height |-> Rounded(l, a, legacy)]
      BY <1>1, <1>2, <1>4, <2>1, <2>2, <2>3 DEF FullSize
    <3>2. Rounded(l, a, legacy) \in Nat /\ h <= Rounded(l, a, legacy)
      BY <1>1, <2>1, <2>3, RoundedAbove
    <3> QED BY <1>2, <3>1, <3>2
  <2>4. CASE ~(l >= k)
    <3>1. FullSize(image, view, legacy) = [width |-> Rounded(k, b, legacy), height |-> h]
      BY <1>1, <1>2, <1>4, <2>1, <2>2, <2>4 DEF FullSize
    <3>2. w * b <= k
      BY <2>1, <2>4
    <3>3. Rounded(k, b, legacy) \in Nat /\ w <= Rounded(k, b, legacy)
      BY <1>1, <2>1, <3>2, RoundedAbove
    <3> QED BY <1>2, <3>1, <3>3
  <2> QED BY <2>3, <2>4
<1> QED BY <1>3, <1>4

LEMMA CutInside ==
  ASSUME NEW r \in Nat, NEW w \in Nat, w <= r, NEW x \in 0..w - 1
  PROVE  /\ (r - w) \div 2 \in Nat
         /\ x + (r - w) \div 2 \in 0..r - 1
<1>1. PICK d \in Nat : d = r - w
  OBVIOUS
<1>2. PICK q \in Nat, t \in 0..1 : q = d \div 2 /\ d = 2 * q + t
  BY Divides
<1> QED BY <1>1, <1>2

LEMMA KeptIn32 ==
  ASSUME NEW n \in Nat, n <= MaxU32
  PROVE  U32(n) = n
BY WidthAssumption DEF U32, MaxU32

(* An image of a size that can be counted is resized to all of it. *)
LEMMA ResizedFits ==
  ASSUME NEW image, image.width \in Nat, image.height \in Nat,
         image.width > 0, image.height > 0, NEW view, ViewTyped(view), NEW legacy,
         view.resize = "none" => image.width = view.width /\ image.height = view.height,
         Resizable(image, view, legacy)
  PROVE  \E r \in Nat, q \in Nat :
           /\ FullSize(image, view, legacy).width = r
           /\ FullSize(image, view, legacy).height = q
           /\ ResizedSize(image, view, legacy) = [width |-> r, height |-> q]
           /\ Crop([width |-> r, height |-> q], view)
                = [x |-> (r - view.width) \div 2, y |-> (q - view.height) \div 2]
           /\ view.width <= r /\ view.height <= q
           /\ WindowFits(image.width, r) /\ WindowFits(image.height, q)
<1>1. PICK w \in Nat, h \in Nat : w = view.width /\ h = view.height
  BY DEF ViewTyped
<1>2. PICK r \in Nat, q \in Nat :
        /\ r = FullSize(image, view, legacy).width /\ q = FullSize(image, view, legacy).height
        /\ w <= r /\ h <= q
  BY <1>1, FullCovers
<1>3. /\ r <= MaxU32 /\ q <= MaxU32
      /\ WindowFits(image.width, r) /\ WindowFits(image.height, q)
  BY <1>2 DEF Resizable
<1>4. ResizedSize(image, view, legacy) = [width |-> r, height |-> q]
  BY <1>2, <1>3, KeptIn32 DEF ResizedSize
<1>5. U32(r - w) = r - w /\ U32(q - h) = q - h
  <2>1. PICK m \in Nat, n \in Nat : m = r - w /\ n = q - h
    BY <1>2
  <2>2. MaxU32 \in Nat
    BY WidthAssumption DEF MaxU32
  <2>3. m <= MaxU32 /\ n <= MaxU32
    BY <1>3, <2>1, <2>2
  <2> QED BY <2>1, <2>3, KeptIn32
<1>6. Crop([width |-> r, height |-> q], view) = [x |-> (r - w) \div 2, y |-> (q - h) \div 2]
  BY <1>1, <1>5 DEF Crop
<1> QED BY <1>1, <1>2, <1>3, <1>4, <1>6

(* The windows of a view's columns and rows. *)
Columns(image, view, spec, legacy, x) ==
  LET resized == ResizedSize(image, view, legacy) IN
    AxisSample(x + Crop(resized, view).x, image.width, resized.width, view, spec.boundary)

Rows(image, view, spec, legacy, y) ==
  LET resized == ResizedSize(image, view, legacy) IN
    AxisSample(y + Crop(resized, view).y, image.height, resized.height, view, spec.boundary)

ImageTyped(image) == image.width \in Nat /\ image.height \in Nat /\ image.stride \in Nat

LEMMA TransformedPixel ==
  ASSUME NEW image, NEW view, ViewTyped(view), NEW spec, spec.layout = "chw", NEW legacy,
         NEW x \in 0..view.width - 1, NEW y \in 0..view.height - 1, NEW c \in 0..Channels - 1
  PROVE  LET shown == TransformImage(image, view, spec, legacy) IN
           shown.pixels[PixelIndex(shown, x, y, c)]
             = [ image |-> image.name, channel |-> c,
                 columns |-> Columns(image, view, spec, legacy, x),
                 rows |-> Rows(image, view, spec, legacy, y) ]
<1> DEFINE resized == ResizedSize(image, view, legacy)
           crop == Crop(resized, view)
           frame == Frame(view, spec.layout)
           columns == [i \in 0..view.width - 1 |->
                         AxisSample(i + crop.x, image.width, resized.width, view, spec.boundary)]
           rows == [i \in 0..view.height - 1 |->
                      AxisSample(i + crop.y, image.height, resized.height, view, spec.boundary)]
           Pixel(k) == [ image |-> image.name, channel |-> PixelAt(frame, k).channel,
                         columns |-> columns[PixelAt(frame, k).x],
                         rows |-> rows[PixelAt(frame, k).y] ]
           shown == TransformImage(image, view, spec, legacy)
           place == PixelIndex(frame, x, y, c)
<1>1. shown = FillImage(frame, [k \in PixelsIn(frame) |-> Pixel(k)])
  BY DEF TransformImage
<1>2. PICK w \in Nat, h \in Nat : w = view.width /\ h = view.height
  BY DEF ViewTyped
<1>3. frame.width = w /\ frame.height = h /\ frame.layout = "chw"
  BY <1>2 DEF Frame
<1>4. x \in 0..w - 1 /\ y \in 0..h - 1
  BY <1>2
<1>5. place \in PixelsIn(frame) /\ PixelAt(frame, place) = [x |-> x, y |-> y, channel |-> c]
  <2> HIDE DEF frame
  <2> QED BY <1>3, <1>4, PlaceOfPixel
<1>6. PixelIndex(shown, x, y, c) = place
  BY <1>1 DEF PixelIndex, FillImage, Frame
<1>7. shown.pixels[place] = Pixel(place)
  <2> HIDE DEF Pixel, place, frame, shown
  <2> QED BY <1>1, <1>5 DEF FillImage
<1>8. columns[x] = Columns(image, view, spec, legacy, x)
  BY DEF Columns
<1>9. rows[y] = Rows(image, view, spec, legacy, y)
  BY DEF Rows
<1>10. Pixel(place) = [ image |-> image.name, channel |-> c,
                        columns |-> columns[x], rows |-> rows[y] ]
  <2> HIDE DEF columns, rows, place, frame
  <2> QED BY <1>5
<1> HIDE DEF columns, rows, place, frame, Pixel
<1> QED BY <1>6, <1>7, <1>8, <1>9, <1>10

LEMMA RgbSize ==
  ASSUME NEW image, ValidRgbImage(image), ImageTyped(image)
  PROVE  \E a \in Nat, b \in Nat : a = image.width /\ b = image.height /\ a > 0 /\ b > 0
<1>1. \A n \in 1..MaxInt : n \in Nat /\ n > 0
  BY WidthAssumption
<1>2. image.width \in 1..MaxInt /\ image.height \in 1..MaxInt
  BY DEF ValidRgbImage
<1> QED BY <1>1, <1>2

(* The windows of a view lie in its image. *)
LEMMA WindowsInside ==
  ASSUME NEW image, ValidRgbImage(image), ImageTyped(image),
         NEW view, NEW spec, NEW legacy, NEW i
  PROVE  /\ Columns(image, view, spec, legacy, i) \subseteq 0..image.width - 1
         /\ Rows(image, view, spec, legacy, i) \subseteq 0..image.height - 1
<1>1. PICK a \in Nat, b \in Nat : a = image.width /\ b = image.height /\ a > 0 /\ b > 0
  BY RgbSize
<1> QED BY <1>1, SampleInside DEF Columns, Rows

(* Those of an accepted view are in the order of its columns and rows. *)
LEMMA WindowsOfView ==
  ASSUME NEW image, ValidRgbImage(image), ImageTyped(image),
         NEW view, ViewTyped(view), NEW spec, NEW legacy,
         CanTransform(image, view, spec, legacy), Resizable(image, view, legacy)
  PROVE  /\ \A x \in 0..view.width - 1 : x + 1 \in 0..view.width - 1 =>
              Min(Columns(image, view, spec, legacy, x))
                <= Max(Columns(image, view, spec, legacy, x + 1))
         /\ \A y \in 0..view.height - 1 : y + 1 \in 0..view.height - 1 =>
              Min(Rows(image, view, spec, legacy, y))
                <= Max(Rows(image, view, spec, legacy, y + 1))
<1> DEFINE resized == ResizedSize(image, view, legacy)
<1>1. PICK a \in Nat, b \in Nat : a = image.width /\ b = image.height /\ a > 0 /\ b > 0
  BY RgbSize
<1>2. PICK w \in Nat, h \in Nat : w = view.width /\ h = view.height
  BY DEF ViewTyped
<1>3. view.resize = "none" => image.width = view.width /\ image.height = view.height
  BY DEF CanTransform
<1>4. PICK r \in Nat, q \in Nat :
        /\ resized = [width |-> r, height |-> q]
        /\ Crop([width |-> r, height |-> q], view)
             = [x |-> (r - view.width) \div 2, y |-> (q - view.height) \div 2]
        /\ view.width <= r /\ view.height <= q
        /\ WindowFits(image.width, r) /\ WindowFits(image.height, q)
  <2>1. /\ image.width \in Nat /\ image.height \in Nat
        /\ image.width > 0 /\ image.height > 0
    BY <1>1
  <2> QED BY <1>3, <2>1, ResizedFits
<1>5. w <= r /\ h <= q /\ WindowFits(a, r) /\ WindowFits(b, q)
  BY <1>1, <1>2, <1>4
<1> DEFINE left == (r - w) \div 2
           top == (q - h) \div 2
<1>6. Crop(resized, view) = [x |-> left, y |-> top]
  BY <1>2, <1>4
<1>7. /\ \A x : Columns(image, view, spec, legacy, x)
                  = AxisSample(x + left, a, r, view, spec.boundary)
      /\ \A y : Rows(image, view, spec, legacy, y)
                  = AxisSample(y + top, b, q, view, spec.boundary)
  BY <1>1, <1>4, <1>6 DEF Columns, Rows
<1>8. /\ \A x \in 0..w - 1 : AxisSample(x + left, a, r, view, spec.boundary) # {}
      /\ \A y \in 0..h - 1 : AxisSample(y + top, b, q, view, spec.boundary) # {}
  BY <1>1, <1>2, <1>4, <1>6 DEF CanTransform
<1>9. ASSUME NEW s \in Nat, s > 0, NEW size \in Nat, NEW full \in Nat, size <= full,
             WindowFits(s, full), NEW skip \in Nat, skip = (full - size) \div 2,
             \A p \in 0..size - 1 : AxisSample(p + skip, s, full, view, spec.boundary) # {},
             NEW p \in 0..size - 1, p + 1 \in 0..size - 1
      PROVE  Min(AxisSample(p + skip, s, full, view, spec.boundary))
               <= Max(AxisSample(p + 1 + skip, s, full, view, spec.boundary))
  <2>1. p + skip \in 0..full - 1
    BY <1>9, CutInside
  <2>2. AxisSample(p + skip, s, full, view, spec.boundary) # {}
    BY <1>9
  <2>3. (p + 1) + skip \in 0..full - 1
    BY <1>9, CutInside
  <2>4. p + 1 + skip = p + skip + 1
    OBVIOUS
  <2>5. AxisSample(p + 1 + skip, s, full, view, spec.boundary) # {}
    BY <1>9
  <2> QED BY <1>9, <2>1, <2>2, <2>3, <2>4, <2>5, WindowsInOrder
<1>10. left \in Nat /\ top \in Nat
  <2>1. \A n \in Nat : n \div 2 \in Nat
    OBVIOUS
  <2> QED BY <1>5, <2>1
<1> HIDE DEF left, top, resized
<1>11. left = (r - w) \div 2 /\ top = (q - h) \div 2
  BY DEF left, top
<1>12. ASSUME NEW x \in 0..w - 1, x + 1 \in 0..w - 1
       PROVE  Min(AxisSample(x + left, a, r, view, spec.boundary))
                <= Max(AxisSample(x + 1 + left, a, r, view, spec.boundary))
  BY <1>1, <1>5, <1>8, <1>9, <1>10, <1>11, <1>12
<1>13. ASSUME NEW y \in 0..h - 1, y + 1 \in 0..h - 1
       PROVE  Min(AxisSample(y + top, b, q, view, spec.boundary))
                <= Max(AxisSample(y + 1 + top, b, q, view, spec.boundary))
  BY <1>1, <1>5, <1>8, <1>9, <1>10, <1>11, <1>13
<1> QED BY <1>1, <1>2, <1>7, <1>12, <1>13

(* A source pixel of a whole image is in its payload. *)
LEMMA PixelInPayload ==
  ASSUME NEW image, ValidRgbImage(image), ImageTyped(image),
         NEW row \in 0..image.height - 1, NEW column \in 0..image.width - 1,
         NEW channel \in 0..Channels - 1
  PROVE  row * Stride(image) + column * Channels + channel \in 0..image.byte_size - 1
<1>1. PICK w \in Nat, h \in Nat : w = image.width /\ h = image.height /\ row < h /\ column < w
  BY DEF ImageTyped
<1>2. PICK s \in Nat : s = Stride(image) /\ w * 3 <= s /\ image.byte_size = s * h
  <2>1. PICK g \in Nat : g = image.stride
    BY DEF ImageTyped
  <2>2. image.channels = 3
    BY DEF ValidRgbImage, Channels
  <2>3. Stride(image) = IF g = 0 THEN w * 3 ELSE g
    BY <1>1, <2>1, <2>2 DEF Stride
  <2>4. Stride(image) >= w * 3 /\ image.byte_size = Stride(image) * h
    BY <1>1, <2>2 DEF ValidRgbImage
  <2> QED BY <2>3, <2>4
<1>3. column * Channels + channel <= s - 1 /\ column * Channels + channel \in Nat
  <2>1. PICK x \in 0..w - 1, c \in 0..2 : x = column /\ c = channel
    BY <1>1 DEF Channels
  <2>2. x * 3 + c <= s - 1 /\ x * 3 + c \in Nat
    BY <1>1, <1>2
  <2> QED BY <2>1, <2>2 DEF Channels
<1>4. row \in Nat /\ row + 1 <= h
  BY <1>1
<1>5. (row + 1) * s <= h * s /\ (row + 1) * s = row * s + s /\ h * s = s * h /\ row * s \in Nat
  BY <1>1, <1>2, <1>4, ProductsNat
<1>6. row * s + (column * Channels + channel) \in 0..s * h - 1
  BY <1>2, <1>3, <1>4, <1>5
<1>7. column * Channels \in Int /\ channel \in Int
  BY <1>1 DEF Channels
<1>8. row * s + (column * Channels + channel) = row * s + column * Channels + channel
  BY <1>5, <1>7
<1> QED BY <1>2, <1>6, <1>8

-----------------------------------------------------------------------------
(* The rectangles of a canvas.                                             *)
PlaceOf(spec, v) == Placement(spec, spec.views[v].role)

(* What the composition of a loaded model and an accepted observation are. *)
Composes(spec) ==
  /\ SpecTyped(spec) /\ ValidViews(spec.views)
  /\ ValidComposition(spec.composition, spec.views)
  /\ CanCompose([v \in DOMAIN spec.views |-> Frame(spec.views[v], spec.layout)], spec)

LEMMA CoversOverlap ==
  ASSUME NEW a, PlaceTyped(a), NEW b, PlaceTyped(b), NEW x \in Nat, NEW y \in Nat,
         Covers(a, x, y), Covers(b, x, y)
  PROVE  Overlap(a, b)
<1>1. /\ a.x \in Nat /\ a.y \in Nat /\ a.width \in Nat /\ a.height \in Nat
      /\ b.x \in Nat /\ b.y \in Nat /\ b.width \in Nat /\ b.height \in Nat
  BY DEF PlaceTyped
<1>2. /\ a.x <= x /\ x <= a.x + a.width - 1 /\ a.y <= y /\ y <= a.y + a.height - 1
      /\ b.x <= x /\ x <= b.x + b.width - 1 /\ b.y <= y /\ y <= b.y + b.height - 1
  BY <1>1 DEF Covers
<1> QED BY <1>1, <1>2 DEF Overlap

(* Every view has a rectangle of its own and every rectangle a view.       *)
LEMMA PlaceOfView ==
  ASSUME NEW spec, Composes(spec), NEW v \in DOMAIN spec.views
  PROVE  LET p == PlaceOf(spec, v) IN
           /\ p \in Elements(spec.composition.placements)
           /\ p.role = spec.views[v].role
           /\ p.width = spec.views[v].width /\ p.height = spec.views[v].height
           /\ PlaceTyped(p) /\ InCanvas(spec.composition, p)
<1> DEFINE placed == spec.composition.placements
           role == spec.views[v].role
           named == {i \in DOMAIN placed : placed[i].role = role}
           p == PlaceOf(spec, v)
<1>1. named \in SUBSET Nat
  BY DEF Composes, SpecTyped, CanvasTyped
<1>2. named # {}
  BY DEF Composes, CanCompose
<1>3. PICK i \in named : p = placed[i]
  BY <1>1, <1>2, MinIsMember DEF PlaceOf, Placement
<1>4. p.width = spec.views[v].width /\ p.height = spec.views[v].height
  BY DEF Composes, CanCompose, Frame, PlaceOf
<1>5. PlaceTyped(p)
  BY <1>3 DEF Composes, SpecTyped, CanvasTyped
<1>6. InCanvas(spec.composition, p)
  <2>1. spec.composition.kind = "canvas"
    BY DEF Composes, CanCompose
  <2> QED BY <1>3, <2>1 DEF Composes, ValidComposition
<1> HIDE DEF p
<1> QED BY <1>3, <1>4, <1>5, <1>6 DEF Elements, p

LEMMA PlacesDiffer ==
  ASSUME NEW spec, Composes(spec)
  PROVE  LET placed == spec.composition.placements IN
         \A i, j \in DOMAIN placed :
           /\ placed[i].role = placed[j].role => i = j
           /\ i # j => ~Overlap(placed[i], placed[j])
<1>1. spec.composition.kind = "canvas"
  BY DEF Composes, CanCompose
<1> QED BY <1>1 DEF Composes, ValidComposition, Distinct

LEMMA ViewOfPlace ==
  ASSUME NEW spec, Composes(spec), NEW p \in Elements(spec.composition.placements)
  PROVE  \E v \in DOMAIN spec.views : p = PlaceOf(spec, v)
<1> DEFINE placed == spec.composition.placements
<1>1. PICK i \in DOMAIN placed : p = placed[i]
  BY DEF Elements
<1>2. spec.composition.kind = "canvas"
  BY DEF Composes, CanCompose
<1>3. PICK v \in DOMAIN spec.views : spec.views[v].role = p.role
  BY <1>1, <1>2 DEF Composes, ValidComposition, SizeOfView
<1>4. PICK j \in DOMAIN placed : PlaceOf(spec, v) = placed[j]
  BY PlaceOfView DEF Elements
<1>5. placed[j].role = placed[i].role
  BY <1>1, <1>3, <1>4, PlaceOfView
<1>6. i = j
  BY <1>5, PlacesDiffer
<1> QED BY <1>1, <1>4, <1>6

LEMMA OneViewCovers ==
  ASSUME NEW spec, Composes(spec), NEW u \in DOMAIN spec.views, NEW v \in DOMAIN spec.views,
         NEW x \in Nat, NEW y \in Nat,
         Covers(PlaceOf(spec, u), x, y), Covers(PlaceOf(spec, v), x, y)
  PROVE  u = v
<1> DEFINE placed == spec.composition.placements
<1>1. PICK i \in DOMAIN placed : PlaceOf(spec, u) = placed[i]
  BY PlaceOfView DEF Elements
<1>2. PICK j \in DOMAIN placed : PlaceOf(spec, v) = placed[j]
  BY PlaceOfView DEF Elements
<1>3. PlaceTyped(PlaceOf(spec, u)) /\ PlaceTyped(PlaceOf(spec, v))
  BY PlaceOfView
<1>4. Overlap(placed[i], placed[j])
  BY <1>1, <1>2, <1>3, CoversOverlap
<1>5. i = j
  BY <1>4, PlacesDiffer
<1>6. spec.views[u].role = spec.views[v].role
  BY <1>1, <1>2, <1>5, PlaceOfView
<1>7. \A a, b \in DOMAIN spec.views : spec.views[a].role = spec.views[b].role => a = b
  BY DEF Composes, ValidViews, Distinct
<1> QED BY <1>6, <1>7

(* A pixel of the canvas is that of the view whose rectangle covers it. *)
Behind(spec, x, y) == {v \in DOMAIN spec.views : Covers(PlaceOf(spec, v), x, y)}

LEMMA ComposedPixel ==
  ASSUME NEW images, NEW spec, SpecTyped(spec), spec.layout = "chw",
         NEW x \in 0..spec.composition.width - 1, NEW y \in 0..spec.composition.height - 1,
         NEW c \in 0..Channels - 1
  PROVE  LET canvas == ComposeCanvas(images, spec)
             behind == Behind(spec, x, y)
             v == Max(behind)
             p == PlaceOf(spec, v)
         IN canvas.pixels[c * canvas.width * canvas.height + y * canvas.width + x]
              = IF behind = {} THEN Background
                ELSE images[v].pixels[PixelIndex(images[v], x - p.x, y - p.y, c)]
<1> DEFINE frame == Frame(spec.composition, spec.layout)
           place == [v \in DOMAIN spec.views |-> Placement(spec, spec.views[v].role)]
           Covering(at) == {v \in DOMAIN spec.views : Covers(place[v], at.x, at.y)}
           Copied(v, at) == images[v].pixels[PixelIndex(images[v], at.x - place[v].x,
                                                        at.y - place[v].y, at.channel)]
           Shown(at) == IF Covering(at) = {} THEN Background ELSE Copied(Max(Covering(at)), at)
           canvas == ComposeCanvas(images, spec)
           here == [x |-> x, y |-> y, channel |-> c]
           k == PixelIndex(frame, x, y, c)
           behind == Behind(spec, x, y)
<1>1. canvas = FillImage(frame, [i \in PixelsIn(frame) |-> Shown(PixelAt(frame, i))])
  BY DEF ComposeCanvas
<1>2. PICK w \in Nat, h \in Nat : w = spec.composition.width /\ h = spec.composition.height
  BY DEF SpecTyped, CanvasTyped
<1>3. frame.width = w /\ frame.height = h /\ frame.layout = "chw"
  BY <1>2 DEF Frame
<1>4. x \in 0..w - 1 /\ y \in 0..h - 1
  BY <1>2
<1>5. /\ k \in PixelsIn(frame) /\ PixelAt(frame, k) = here
      /\ c * w * h + y * w + x = k
  <2> HIDE DEF frame
  <2> QED BY <1>3, <1>4, PlaceOfPixel
<1>6. canvas.width = w /\ canvas.height = h
  <2> HIDE DEF Shown, k, frame, here, canvas
  <2> QED BY <1>1, <1>3 DEF FillImage
<1>7. canvas.pixels[k] = Shown(here)
  <2> HIDE DEF Shown, k, frame, here, canvas
  <2> QED BY <1>1, <1>5 DEF FillImage
<1>8. Covering(here) = behind
  <2>1. here.x = x /\ here.y = y
    OBVIOUS
  <2>2. \A v \in DOMAIN spec.views : place[v] = PlaceOf(spec, v)
    BY DEF PlaceOf
  <2> HIDE DEF here, place
  <2> QED BY <2>1, <2>2 DEF Behind
<1>9. ASSUME behind # {}
      PROVE  Copied(Max(behind), here)
               = images[Max(behind)].pixels[
                   PixelIndex(images[Max(behind)], x - PlaceOf(spec, Max(behind)).x,
                              y - PlaceOf(spec, Max(behind)).y, c)]
  <2>1. behind \in SUBSET Nat
    BY DEF Behind, SpecTyped
  <2>2. Max(behind) \in DOMAIN spec.views
    <3>1. Len(spec.views) \in Nat /\ behind \in SUBSET (0..Len(spec.views))
      BY DEF Behind, SpecTyped
    <3>2. Max(behind) \in behind
      BY <1>9, <3>1, MaxAbove
    <3> QED BY <3>2 DEF Behind
  <2> QED BY <2>2 DEF PlaceOf
<1> HIDE DEF Covering, Copied, k, frame, here, canvas, behind
<1>10. Shown(here) = IF behind = {} THEN Background ELSE Copied(Max(behind), here)
  BY <1>8
<1> HIDE DEF Shown
<1> QED BY <1>5, <1>6, <1>7, <1>9, <1>10 DEF canvas, behind

-----------------------------------------------------------------------------
(* The image an accepted request has for a view. *)
ImageFor(request, spec, v) ==
  request.images[ImageOrder(request.images, spec.views)[v]]

LEMMA ImageOfView ==
  ASSUME NEW request \in Requests, NEW spec, NEW legacy,
         ObservationAccepted(request, spec, legacy), NEW v \in DOMAIN spec.views
  PROVE  LET image == ImageFor(request, spec, v) IN
           /\ ValidRgbImage(image) /\ ImageTyped(image)
           /\ CanTransform(image, spec.views[v], spec, legacy)
           /\ image \in Elements(request.images) /\ image.name = spec.views[v].role
           /\ \A other \in Elements(request.images) :
                other.name = spec.views[v].role => other = image
<1> DEFINE images == request.images
           named == {i \in DOMAIN images : images[i].name = spec.views[v].role}
           image == ImageFor(request, spec, v)
<1>1. ValidNamedImages(images, spec.views)
  BY DEF ObservationAccepted
<1>2. named \in SUBSET Nat
  <2>1. DOMAIN images = 1..Len(images) /\ Len(images) \in Nat
    BY RequestsAssumption
  <2> QED BY <2>1
<1>3. named # {}
  BY <1>1 DEF ValidNamedImages
<1>4. PICK i \in named : i = Min(named)
  BY <1>2, <1>3, MinIsMember
<1>5. image = images[i]
  BY <1>4 DEF ImageFor, ImageOrder
<1>6. ValidRgbImage(image)
  BY <1>1, <1>5 DEF ValidNamedImages
<1>7. ImageTyped(image)
  BY <1>5, RequestsAssumption DEF ImageTyped
<1>8. CanTransform(image, spec.views[v], spec, legacy)
  BY DEF ObservationAccepted, ImageFor
<1>9. \A j \in DOMAIN images : images[j].name = images[i].name => j = i
  BY <1>1, <1>4 DEF ValidNamedImages, Distinct
<1>10. \A other \in Elements(images) : other.name = spec.views[v].role => other = image
  BY <1>4, <1>5, <1>9 DEF Elements
<1> HIDE DEF image
<1> QED BY <1>4, <1>5, <1>6, <1>7, <1>8, <1>10 DEF Elements, image

LEMMA MaxOfOne ==
  ASSUME NEW n \in Nat
  PROVE  Max({n}) = n
<1>1. {n} \in SUBSET (0..n) /\ n \in {n}
  OBVIOUS
<1> QED BY <1>1, MaxAbove

(* Under a view's rectangle the canvas has that view's pixels. *)
CanvasOf(request, spec, legacy) == ComposeCanvas(Transforms(request, spec, legacy), spec)

PixelOf(canvas, x, y, c) ==
  canvas.pixels[c * canvas.width * canvas.height + y * canvas.width + x]

LEMMA PixelUnder ==
  ASSUME NEW request \in Requests, NEW spec, NEW legacy,
         ObservationAccepted(request, spec, legacy), Composes(spec), spec.layout = "chw",
         NEW x \in 0..spec.composition.width - 1, NEW y \in 0..spec.composition.height - 1,
         NEW c \in 0..Channels - 1,
         NEW v \in DOMAIN spec.views, Covers(PlaceOf(spec, v), x, y)
  PROVE  LET image == ImageFor(request, spec, v)
             p == PlaceOf(spec, v)
         IN /\ x - p.x \in 0..spec.views[v].width - 1
            /\ y - p.y \in 0..spec.views[v].height - 1
            /\ PixelOf(CanvasOf(request, spec, legacy), x, y, c)
                 = [ image |-> p.role, channel |-> c,
                     columns |-> Columns(image, spec.views[v], spec, legacy, x - p.x),
                     rows |-> Rows(image, spec.views[v], spec, legacy, y - p.y) ]
<1> DEFINE image == ImageFor(request, spec, v)
           view == spec.views[v]
           p == PlaceOf(spec, v)
           shown == Transforms(request, spec, legacy)
<1>1. PICK w \in Nat, h \in Nat : w = spec.composition.width /\ h = spec.composition.height
  BY DEF Composes, SpecTyped, CanvasTyped
<1>2. x \in Nat /\ y \in Nat
  BY <1>1
<1>3. /\ p.role = view.role /\ p.width = view.width /\ p.height = view.height
      /\ p.x \in Nat /\ p.y \in Nat /\ p.width \in Nat /\ p.height \in Nat
  BY PlaceOfView DEF PlaceTyped
<1>4. x - p.x \in 0..view.width - 1 /\ y - p.y \in 0..view.height - 1
  <2>1. x \in p.x..p.x + p.width - 1 /\ y \in p.y..p.y + p.height - 1
    BY DEF Covers
  <2> HIDE DEF p, view
  <2>2. PICK a \in Nat, b \in Nat, m \in Nat, n \in Nat :
          a = p.x /\ b = p.y /\ m = p.width /\ n = p.height
    BY <1>3
  <2>3. x - a \in 0..m - 1 /\ y - b \in 0..n - 1
    BY <1>2, <2>1, <2>2
  <2> QED BY <1>3, <2>2, <2>3
<1>5. Behind(spec, x, y) = {v}
  BY <1>2, OneViewCovers DEF Behind
<1>6. v \in Nat
  BY DEF Composes, SpecTyped
<1>7. Max(Behind(spec, x, y)) = v /\ Behind(spec, x, y) # {}
  BY <1>5, <1>6, MaxOfOne
<1>8. PixelOf(CanvasOf(request, spec, legacy), x, y, c)
        = shown[v].pixels[PixelIndex(shown[v], x - p.x, y - p.y, c)]
  <2> HIDE DEF shown, p
  <2> DEFINE canvas == ComposeCanvas(shown, spec)
  <2>1. canvas.pixels[c * canvas.width * canvas.height + y * canvas.width + x]
          = shown[v].pixels[PixelIndex(shown[v], x - p.x, y - p.y, c)]
    BY <1>7, ComposedPixel DEF Composes, p
  <2> QED BY <2>1 DEF PixelOf, CanvasOf, shown
<1>9. shown[v] = TransformImage(image, view, spec, legacy)
  BY DEF Transforms, ImageFor
<1>10. ViewTyped(view)
  BY DEF Composes, SpecTyped
<1>11. image.name = view.role
  BY ImageOfView
<1>12. shown[v].pixels[PixelIndex(shown[v], x - p.x, y - p.y, c)]
         = [ image |-> image.name, channel |-> c,
             columns |-> Columns(image, view, spec, legacy, x - p.x),
             rows |-> Rows(image, view, spec, legacy, y - p.y) ]
  <2> HIDE DEF image, view, shown, p
  <2>1. PICK a \in 0..view.width - 1, b \in 0..view.height - 1 : a = x - p.x /\ b = y - p.y
    BY <1>4
  <2> QED BY <1>9, <1>10, <2>1, TransformedPixel
<1> HIDE DEF image, view, shown, p
<1>13. PixelOf(CanvasOf(request, spec, legacy), x, y, c)
         = [ image |-> p.role, channel |-> c,
             columns |-> Columns(image, view, spec, legacy, x - p.x),
             rows |-> Rows(image, view, spec, legacy, y - p.y) ]
  BY <1>3, <1>8, <1>11, <1>12
<1> QED BY <1>4, <1>13 DEF image, view, p

LEMMA PixelBeside ==
  ASSUME NEW request, NEW spec, NEW legacy, Composes(spec), spec.layout = "chw",
         NEW x \in 0..spec.composition.width - 1, NEW y \in 0..spec.composition.height - 1,
         NEW c \in 0..Channels - 1,
         \A p \in Elements(spec.composition.placements) : ~Covers(p, x, y)
  PROVE  PixelOf(CanvasOf(request, spec, legacy), x, y, c) = Background
<1> DEFINE shown == Transforms(request, spec, legacy)
           canvas == ComposeCanvas(shown, spec)
<1>1. Behind(spec, x, y) = {}
  BY PlaceOfView DEF Behind
<1> HIDE DEF shown
<1>2. canvas.pixels[c * canvas.width * canvas.height + y * canvas.width + x] = Background
  BY <1>1, ComposedPixel DEF Composes
<1> QED BY <1>2 DEF PixelOf, CanvasOf, shown

-----------------------------------------------------------------------------
(* A pixel under a rectangle is as CanvasExact wants it. *)
ShowsView(canvas, p, x, y, c) ==
  LET pixel == PixelOf(canvas, x, y, c) IN
    /\ pixel.image = p.role
    /\ pixel.channel = c
    /\ InsidePayload(pixel)
    /\ Resizable(ImageNamed(p.role), ViewNamed(p.role), model.legacy) =>
         /\ Covers(p, x + 1, y) =>
              Min(pixel.columns) <= Max(PixelOf(canvas, x + 1, y, c).columns)
         /\ Covers(p, x, y + 1) =>
              Min(pixel.rows) <= Max(PixelOf(canvas, x, y + 1, c).rows)

LEMMA PointShows ==
  ASSUME NEW request \in Requests, call.request = <<request>>,
         NEW spec, spec = model.spec, NEW legacy, legacy = model.legacy,
         ObservationAccepted(request, spec, legacy), Composes(spec), spec.layout = "chw",
         NEW x \in 0..spec.composition.width - 1, NEW y \in 0..spec.composition.height - 1,
         NEW c \in 0..Channels - 1,
         NEW p \in Elements(spec.composition.placements), Covers(p, x, y)
  PROVE  ShowsView(CanvasOf(request, spec, legacy), p, x, y, c)
<1>1. PICK v \in DOMAIN spec.views : p = PlaceOf(spec, v)
  BY ViewOfPlace
<1> DEFINE image == ImageFor(request, spec, v)
           view == spec.views[v]
           canvas == CanvasOf(request, spec, legacy)
           Column(i) == Columns(image, view, spec, legacy, i)
           Row(i) == Rows(image, view, spec, legacy, i)
           a == x - p.x
           b == y - p.y
<1>2. PICK w \in Nat, h \in Nat : w = spec.composition.width /\ h = spec.composition.height
  BY DEF Composes, SpecTyped, CanvasTyped
<1>3. /\ p.x \in Nat /\ p.y \in Nat /\ p.width \in Nat /\ p.height \in Nat
      /\ p.x + p.width <= w /\ p.y + p.height <= h /\ p.role = view.role
  BY <1>1, <1>2, PlaceOfView DEF PlaceTyped, InCanvas
<1>4. ViewTyped(view)
  BY DEF Composes, SpecTyped
<1>5. /\ ValidRgbImage(image) /\ ImageTyped(image)
      /\ CanTransform(image, view, spec, legacy)
      /\ image \in Elements(request.images) /\ image.name = p.role
      /\ \A other \in Elements(request.images) : other.name = p.role => other = image
  BY <1>3, ImageOfView
<1> HIDE DEF image, view, canvas
<1>6. /\ a \in 0..view.width - 1 /\ b \in 0..view.height - 1
      /\ PixelOf(canvas, x, y, c)
           = [image |-> p.role, channel |-> c, columns |-> Column(a), rows |-> Row(b)]
  BY <1>1, PixelUnder DEF image, view, canvas
<1>7. \A i : Column(i) \subseteq 0..image.width - 1 /\ Row(i) \subseteq 0..image.height - 1
  BY <1>5, WindowsInside
<1>8. Resizable(image, view, legacy) =>
         /\ \A i \in 0..view.width - 1 :
              i + 1 \in 0..view.width - 1 => Min(Column(i)) <= Max(Column(i + 1))
         /\ \A i \in 0..view.height - 1 :
              i + 1 \in 0..view.height - 1 => Min(Row(i)) <= Max(Row(i + 1))
  BY <1>4, <1>5, WindowsOfView
<1>9. ViewNamed(p.role) = view
  <2>1. view \in Elements(model.spec.views)
    BY DEF Elements, view
  <2>2. \A u \in Elements(model.spec.views) : u.role = p.role => u = view
    BY <1>3 DEF Elements, view, Composes, ValidViews, Distinct
  <2> QED BY <1>3, <2>1, <2>2 DEF ViewNamed
<1>10. ImageNamed(p.role) = image
  <2>1. call.request[1] = request
    OBVIOUS
  <2> QED BY <1>5, <2>1 DEF ImageNamed
<1>11. x \in Nat /\ y \in Nat
  BY <1>2
<1>12. InsidePayload(PixelOf(canvas, x, y, c))
  <2>1. \A row \in Row(b), column \in Column(a) :
          row * Stride(image) + column * Channels + c \in 0..image.byte_size - 1
    <3>1. Row(b) \subseteq 0..image.height - 1 /\ Column(a) \subseteq 0..image.width - 1
      BY <1>6, <1>7
    <3> QED BY <1>5, <3>1, PixelInPayload
  <2> HIDE DEF Row, Column, a, b
  <2> QED BY <1>6, <1>10, <2>1 DEF InsidePayload
<1>13. ASSUME Resizable(image, view, legacy), Covers(p, x + 1, y)
       PROVE  Min(Column(a)) <= Max(PixelOf(canvas, x + 1, y, c).columns)
  <2>1. x + 1 \in 0..w - 1
    <3>1. x + 1 \in p.x..p.x + p.width - 1
      BY <1>13 DEF Covers
    <3> QED BY <1>3, <1>11, <3>1
  <2>2. PICK e \in 0..spec.composition.width - 1 : e = x + 1
    BY <1>2, <2>1
  <2>3. Covers(PlaceOf(spec, v), e, y)
    BY <1>1, <1>13, <2>2
  <2>4. /\ e - PlaceOf(spec, v).x \in 0..spec.views[v].width - 1
        /\ PixelOf(CanvasOf(request, spec, legacy), e, y, c).columns
             = Columns(ImageFor(request, spec, v), spec.views[v], spec, legacy,
                   e - PlaceOf(spec, v).x)
    BY <2>3, PixelUnder
  <2>5. e - p.x = a + 1
    BY <1>3, <1>11, <2>2
  <2>6. a + 1 \in 0..view.width - 1 /\ PixelOf(canvas, e, y, c).columns = Column(a + 1)
    <3> HIDE DEF a
    <3> QED BY <1>1, <2>4, <2>5 DEF image, view, canvas
  <2> HIDE DEF Column, a
  <2> QED BY <1>6, <1>13, <1>8, <2>2, <2>6
<1>14. ASSUME Resizable(image, view, legacy), Covers(p, x, y + 1)
       PROVE  Min(Row(b)) <= Max(PixelOf(canvas, x, y + 1, c).rows)
  <2>1. y + 1 \in 0..h - 1
    <3>1. y + 1 \in p.y..p.y + p.height - 1
      BY <1>14 DEF Covers
    <3> QED BY <1>3, <1>11, <3>1
  <2>2. PICK e \in 0..spec.composition.height - 1 : e = y + 1
    BY <1>2, <2>1
  <2>3. Covers(PlaceOf(spec, v), x, e)
    BY <1>1, <1>14, <2>2
  <2>4. /\ e - PlaceOf(spec, v).y \in 0..spec.views[v].height - 1
        /\ PixelOf(CanvasOf(request, spec, legacy), x, e, c).rows
             = Rows(ImageFor(request, spec, v), spec.views[v], spec, legacy,
                  e - PlaceOf(spec, v).y)
    BY <2>3, PixelUnder
  <2>5. e - p.y = b + 1
    BY <1>3, <1>11, <2>2
  <2>6. b + 1 \in 0..view.height - 1 /\ PixelOf(canvas, x, e, c).rows = Row(b + 1)
    <3> HIDE DEF b
    <3> QED BY <1>1, <2>4, <2>5 DEF image, view, canvas
  <2> HIDE DEF Row, b
  <2> QED BY <1>6, <1>14, <1>8, <2>2, <2>6
<1> HIDE DEF Column, Row, a, b
<1>15. ShowsView(canvas, p, x, y, c)
  BY <1>6, <1>10, <1>12, <1>13, <1>14, <1>9 DEF ShowsView
<1> QED BY <1>15 DEF canvas

-----------------------------------------------------------------------------
(* The cells of rectangles.                                                *)
Cells(p) == (p.x..p.x + p.width - 1) \X (p.y..p.y + p.height - 1)

LEMMA IntervalSize ==
  ASSUME NEW a \in Nat, NEW n \in Nat
  PROVE  IsFiniteSet(a..a + n - 1) /\ Cardinality(a..a + n - 1) = n
<1>1. a + n - 1 \in Int /\ a \in Int
  OBVIOUS
<1>2. PICK b \in Int : b = a + n - 1
  BY <1>1
<1>3. IsFiniteSet(a..b) /\ Cardinality(a..b) = IF a > b THEN 0 ELSE b - a + 1
  BY <1>1, <1>2, FS_Interval
<1>4. (IF a > b THEN 0 ELSE b - a + 1) = n
  BY <1>2
<1> QED BY <1>2, <1>3, <1>4

LEMMA CellCount ==
  ASSUME NEW p, PlaceTyped(p)
  PROVE  IsFiniteSet(Cells(p)) /\ Cardinality(Cells(p)) = p.width * p.height
<1>1. PICK a \in Nat, b \in Nat, w \in Nat, h \in Nat :
        a = p.x /\ b = p.y /\ w = p.width /\ h = p.height
  BY DEF PlaceTyped
<1>2. PICK X, Y : X = a..a + w - 1 /\ Y = b..b + h - 1
  OBVIOUS
<1>3. /\ IsFiniteSet(X) /\ Cardinality(X) = w
      /\ IsFiniteSet(Y) /\ Cardinality(Y) = h
  BY <1>2, IntervalSize
<1>4. IsFiniteSet(X \X Y) /\ Cardinality(X \X Y) = w * h
  BY <1>3, FS_Product
<1> QED BY <1>1, <1>2, <1>4 DEF Cells

LEMMA DisjointUnion ==
  ASSUME NEW A, NEW B, IsFiniteSet(A), IsFiniteSet(B), A \cap B = {}
  PROVE  IsFiniteSet(A \cup B) /\ Cardinality(A \cup B) = Cardinality(A) + Cardinality(B)
<1>1. /\ IsFiniteSet(A \cup B)
      /\ Cardinality(A \cup B) = Cardinality(A) + Cardinality(B) - Cardinality(A \cap B)
  BY FS_Union
<1>2. Cardinality(A \cap B) = 0
  BY FS_EmptySet
<1>3. Cardinality(A) \in Nat /\ Cardinality(B) \in Nat
  BY FS_CardinalityType
<1> QED BY <1>1, <1>2, <1>3

(* The sum of three. *)
LEMMA AreaOfThree ==
  ASSUME NEW a, NEW b, NEW c, a # b, a # c, b # c,
         PlaceTyped(a), PlaceTyped(b), PlaceTyped(c)
  PROVE  Area({a, b, c}) = a.width * a.height + b.width * b.height + c.width * c.height
<1> DEFINE S == {a, b, c}
           Size(r) == r.width * r.height
           Pick(s) == CHOOSE r \in s : TRUE
           Sums(f) == f = [s \in SUBSET S |-> IF s = {} THEN 0
                                              ELSE Size(Pick(s)) + f[s \ {Pick(s)}]]
           Part(r, s) == IF r \in s THEN Size(r) ELSE 0
           g == [s \in SUBSET S |-> Part(a, s) + Part(b, s) + Part(c, s)]
<1>1. Area(S) = (CHOOSE f : Sums(f))[S]
  BY DEF Area, MapThenSumSet, MapThenFoldSet
<1>2. Size(a) \in Nat /\ Size(b) \in Nat /\ Size(c) \in Nat
  BY DEF PlaceTyped
<1> HIDE DEF Size
<1>3. ASSUME NEW s \in SUBSET S, s # {}
      PROVE  Pick(s) \in s /\ s \ {Pick(s)} \in SUBSET S
  BY <1>3
<1>4. ASSUME NEW s \in SUBSET S, NEW r \in s
      PROVE  Part(a, s) + Part(b, s) + Part(c, s)
               = Size(r) + (Part(a, s \ {r}) + Part(b, s \ {r}) + Part(c, s \ {r}))
  <2>1. /\ Part(a, s) \in Nat /\ Part(b, s) \in Nat /\ Part(c, s) \in Nat
    BY <1>2
  <2>2. CASE r = a
    <3>1. Part(a, s) = Size(r) /\ Part(a, s \ {r}) = 0
      BY <1>4, <2>2
    <3>2. Part(b, s \ {r}) = Part(b, s) /\ Part(c, s \ {r}) = Part(c, s)
      BY <2>2
    <3> HIDE DEF Part
    <3> QED BY <1>2, <2>1, <2>2, <3>1, <3>2
  <2>3. CASE r = b
    <3>1. Part(b, s) = Size(r) /\ Part(b, s \ {r}) = 0
      BY <1>4, <2>3
    <3>2. Part(a, s \ {r}) = Part(a, s) /\ Part(c, s \ {r}) = Part(c, s)
      BY <2>3
    <3> HIDE DEF Part
    <3> QED BY <1>2, <2>1, <2>3, <3>1, <3>2
  <2>4. CASE r = c
    <3>1. Part(c, s) = Size(r) /\ Part(c, s \ {r}) = 0
      BY <1>4, <2>4
    <3>2. Part(a, s \ {r}) = Part(a, s) /\ Part(b, s \ {r}) = Part(b, s)
      BY <2>4
    <3> HIDE DEF Part
    <3> QED BY <1>2, <2>1, <2>4, <3>1, <3>2
  <2> QED BY <1>4, <2>2, <2>3, <2>4
<1>5. Sums(g)
  <2> HIDE DEF Part, Pick
  <2>1. \A s \in SUBSET S : g[s] = Part(a, s) + Part(b, s) + Part(c, s)
    OBVIOUS
  <2>2. g[{}] = 0
    <3>1. Part(a, {}) = 0 /\ Part(b, {}) = 0 /\ Part(c, {}) = 0
      BY DEF Part
    <3> QED BY <2>1, <3>1
  <2>3. ASSUME NEW s \in SUBSET S, s # {}
        PROVE  g[s] = Size(Pick(s)) + g[s \ {Pick(s)}]
    BY <1>3, <1>4, <2>1, <2>3
  <2>4. g = [s \in SUBSET S |-> g[s]]
    OBVIOUS
  <2> HIDE DEF g, S
  <2>5. \A s \in SUBSET S : g[s] = IF s = {} THEN 0 ELSE Size(Pick(s)) + g[s \ {Pick(s)}]
    BY <2>2, <2>3
  <2> QED BY <2>4, <2>5
<1> HIDE DEF g
<1>6. PICK f : f = (CHOOSE h : Sums(h)) /\ Sums(f)
  <2> HIDE DEF Sums
  <2> QED BY <1>5
<1>7. \A s \in SUBSET S : f[s] = IF s = {} THEN 0 ELSE Size(Pick(s)) + f[s \ {Pick(s)}]
  <2> HIDE DEF Size, Pick, S
  <2> QED BY <1>6
<1> DEFINE Sum(s) == Part(a, s) + Part(b, s) + Part(c, s)
<1>8. f[{}] = 0
  BY <1>7
<1>9. ASSUME NEW s \in SUBSET S, s # {}, \A r \in s : f[s \ {r}] = Sum(s \ {r})
      PROVE  f[s] = Sum(s)
  <2>1. Pick(s) \in s
    BY <1>9
  <2>2. f[s] = Size(Pick(s)) + f[s \ {Pick(s)}]
    BY <1>7, <1>9
  <2> HIDE DEF Pick, Part, S
  <2> QED BY <1>4, <1>9, <2>1, <2>2
<1>10. Sum({}) = 0
  OBVIOUS
<1>11. f[{a}] = Sum({a}) /\ f[{b}] = Sum({b}) /\ f[{c}] = Sum({c})
  <2>1. \A r \in S : {r} \ {r} = {} /\ {r} \in SUBSET S /\ {r} # {}
    OBVIOUS
  <2>2. \A r \in S : \A q \in {r} : {r} \ {q} = {}
    OBVIOUS
  <2>3. a \in S /\ b \in S /\ c \in S
    OBVIOUS
  <2> HIDE DEF Sum, S
  <2>4. \A r \in S : f[{r}] = Sum({r})
    BY <1>8, <1>9, <1>10, <2>1, <2>2
  <2> QED BY <2>3, <2>4
<1>12. f[{a, b}] = Sum({a, b}) /\ f[{a, c}] = Sum({a, c}) /\ f[{b, c}] = Sum({b, c})
  <2>1. ASSUME NEW p \in S, NEW q \in S, p # q, f[{p}] = Sum({p}), f[{q}] = Sum({q})
        PROVE  f[{p, q}] = Sum({p, q})
    <3>1. {p, q} \ {p} = {q} /\ {p, q} \ {q} = {p} /\ {p, q} \in SUBSET S /\ {p, q} # {}
      BY <2>1
    <3> HIDE DEF Sum, S
    <3>2. \A r \in {p, q} : f[{p, q} \ {r}] = Sum({p, q} \ {r})
      BY <2>1, <3>1
    <3> QED BY <1>9, <3>1, <3>2
  <2>2. a \in S /\ b \in S /\ c \in S
    OBVIOUS
  <2> HIDE DEF Sum, S
  <2> QED BY <1>11, <2>1, <2>2
<1>13. f[S] = Sum(S)
  <2>1. S \ {a} = {b, c} /\ S \ {b} = {a, c} /\ S \ {c} = {a, b} /\ S # {}
    OBVIOUS
  <2>2. \A r \in S : r = a \/ r = b \/ r = c
    OBVIOUS
  <2> HIDE DEF Sum, S
  <2>3. \A r \in S : f[S \ {r}] = Sum(S \ {r})
    BY <1>12, <2>1, <2>2
  <2> QED BY <1>9, <2>1, <2>3
<1>14. Sum(S) = Size(a) + Size(b) + Size(c)
  <2>1. Part(a, S) = Size(a) /\ Part(b, S) = Size(b) /\ Part(c, S) = Size(c)
    OBVIOUS
  <2> HIDE DEF Part, S
  <2> QED BY <2>1
<1> HIDE DEF Sums, Sum, S
<1>15. Area(S) = Size(a) + Size(b) + Size(c)
  BY <1>1, <1>6, <1>13, <1>14
<1> QED BY <1>15 DEF Size, S

LEMMA CellsInGrid ==
  ASSUME NEW p, PlaceTyped(p), NEW w \in Nat, NEW h \in Nat,
         p.x + p.width <= w, p.y + p.height <= h
  PROVE  Cells(p) \subseteq (0..w - 1) \X (0..h - 1)
<1>1. /\ p.x \in Nat /\ p.y \in Nat /\ p.width \in Nat /\ p.height \in Nat
  BY DEF PlaceTyped
<1>2. p.x..p.x + p.width - 1 \subseteq 0..w - 1 /\ p.y..p.y + p.height - 1 \subseteq 0..h - 1
  BY <1>1
<1> QED BY <1>2 DEF Cells

LEMMA CellsDisjoint ==
  ASSUME NEW p, PlaceTyped(p), NEW q, PlaceTyped(q), ~Overlap(p, q)
  PROVE  Cells(p) \cap Cells(q) = {}
<1> SUFFICES ASSUME NEW cell \in Cells(p), cell \in Cells(q) PROVE FALSE
  OBVIOUS
<1>1. PICK x \in p.x..p.x + p.width - 1, y \in p.y..p.y + p.height - 1 : cell = <<x, y>>
  BY DEF Cells
<1>2. x \in q.x..q.x + q.width - 1 /\ y \in q.y..q.y + q.height - 1
  BY <1>1 DEF Cells
<1>3. Covers(p, x, y) /\ Covers(q, x, y)
  BY <1>1, <1>2 DEF Covers
<1>4. x \in Nat /\ y \in Nat
  BY <1>1 DEF PlaceTyped
<1> QED BY <1>3, <1>4, CoversOverlap

(* Three rectangles of the canvas's area that do not overlap leave nothing *)
(* of it uncovered.                                                        *)
LEMMA NoBackground ==
  ASSUME NEW spec, Composes(spec), GwpSemantics(spec),
         NEW x \in 0..spec.composition.width - 1, NEW y \in 0..spec.composition.height - 1
  PROVE  \E p \in Elements(spec.composition.placements) : Covers(p, x, y)
<1> DEFINE placed == spec.composition.placements
<1>1. PICK w \in Nat, h \in Nat : w = spec.composition.width /\ h = spec.composition.height
  BY DEF Composes, SpecTyped, CanvasTyped
<1>2. DOMAIN placed = 1..3
  <2>1. Len(placed) = 3
    BY DEF Composes, CanCompose, GwpSemantics
  <2> QED BY <2>1 DEF Composes, SpecTyped, CanvasTyped
<1>3. PICK a, b, c : a = placed[1] /\ b = placed[2] /\ c = placed[3]
  OBVIOUS
<1>4. 1 \in DOMAIN placed /\ 2 \in DOMAIN placed /\ 3 \in DOMAIN placed
  BY <1>2
<1>5. Elements(placed) = {a, b, c}
  <2>1. \A i \in 1..3 : i = 1 \/ i = 2 \/ i = 3
    OBVIOUS
  <2>2. \A i \in DOMAIN placed : placed[i] \in {a, b, c}
    BY <1>2, <1>3, <2>1
  <2> HIDE DEF placed
  <2> QED BY <1>3, <1>4, <2>2 DEF Elements
<1>6. PlaceTyped(a) /\ PlaceTyped(b) /\ PlaceTyped(c)
  BY <1>3, <1>4 DEF Composes, SpecTyped, CanvasTyped
<1>7. ~Overlap(a, b) /\ ~Overlap(a, c) /\ ~Overlap(b, c)
  BY <1>3, <1>4, PlacesDiffer
<1>8. a # b /\ a # c /\ b # c
  <2>1. a.role # b.role /\ a.role # c.role /\ b.role # c.role
    BY <1>3, <1>4, PlacesDiffer
  <2> QED BY <2>1
<1>9. a.width * a.height + b.width * b.height + c.width * c.height = w * h
  <2>1. Area(Elements(placed)) = w * h
    BY <1>1 DEF GwpSemantics
  <2> HIDE DEF placed
  <2> QED BY <1>5, <1>6, <1>8, <2>1, AreaOfThree
<1> DEFINE grid == (0..w - 1) \X (0..h - 1)
<1>10. IsFiniteSet(grid) /\ Cardinality(grid) = w * h
  <2>1. PICK p : p = [x |-> 0, y |-> 0, width |-> w, height |-> h]
    OBVIOUS
  <2>2. PlaceTyped(p) /\ Cells(p) = grid
    BY <2>1 DEF PlaceTyped, Cells
  <2> HIDE DEF grid
  <2> QED BY <2>1, <2>2, CellCount
<1>11. Cells(a) \subseteq grid /\ Cells(b) \subseteq grid /\ Cells(c) \subseteq grid
  <2>1. spec.composition.kind = "canvas"
    BY DEF Composes, CanCompose
  <2>2. \A i \in DOMAIN placed : InCanvas(spec.composition, placed[i])
    BY <2>1 DEF Composes, ValidComposition
  <2>3. /\ a.x + a.width <= w /\ a.y + a.height <= h
        /\ b.x + b.width <= w /\ b.y + b.height <= h
        /\ c.x + c.width <= w /\ c.y + c.height <= h
    BY <1>1, <1>3, <1>4, <2>2 DEF InCanvas
  <2> QED BY <1>6, <2>3, CellsInGrid
<1>12. /\ IsFiniteSet(Cells(a)) /\ Cardinality(Cells(a)) = a.width * a.height
       /\ IsFiniteSet(Cells(b)) /\ Cardinality(Cells(b)) = b.width * b.height
       /\ IsFiniteSet(Cells(c)) /\ Cardinality(Cells(c)) = c.width * c.height
  BY <1>6, CellCount
<1>13. /\ Cells(a) \cap Cells(b) = {} /\ Cells(a) \cap Cells(c) = {}
       /\ Cells(b) \cap Cells(c) = {}
  BY <1>6, <1>7, CellsDisjoint
<1> DEFINE covered == (Cells(a) \cup Cells(b)) \cup Cells(c)
<1>14. IsFiniteSet(covered) /\ Cardinality(covered) = w * h
  <2>1. /\ IsFiniteSet(Cells(a) \cup Cells(b))
        /\ Cardinality(Cells(a) \cup Cells(b)) = a.width * a.height + b.width * b.height
    <3>1. PICK A, B : A = Cells(a) /\ B = Cells(b)
      OBVIOUS
    <3>2. IsFiniteSet(A \cup B) /\ Cardinality(A \cup B) = Cardinality(A) + Cardinality(B)
      BY <1>12, <1>13, <3>1, DisjointUnion
    <3> QED BY <1>12, <3>1, <3>2
  <2>2. (Cells(a) \cup Cells(b)) \cap Cells(c) = {}
    BY <1>13
  <2>3. PICK ab : ab = Cells(a) \cup Cells(b)
    OBVIOUS
  <2>4. /\ IsFiniteSet(ab \cup Cells(c))
        /\ Cardinality(ab \cup Cells(c)) = Cardinality(ab) + Cardinality(Cells(c))
    BY <1>12, <2>1, <2>2, <2>3, DisjointUnion
  <2>5. Cardinality(ab \cup Cells(c)) = w * h
    BY <1>9, <1>12, <2>1, <2>3, <2>4
  <2> QED BY <2>3, <2>4, <2>5
<1>15. covered = grid
  <2>1. covered \subseteq grid
    BY <1>11
  <2> HIDE DEF covered, grid
  <2> QED BY <1>10, <1>14, <2>1, FS_Subset
<1>16. <<x, y>> \in covered
  BY <1>1, <1>15
<1>17. PICK p \in {a, b, c} : <<x, y>> \in Cells(p)
  BY <1>16
<1>18. Covers(p, x, y)
  BY <1>17 DEF Cells, Covers
<1> QED BY <1>5, <1>17, <1>18

-----------------------------------------------------------------------------
LEMMA CanvasRight == LoadedRight /\ PreparedRight => CanvasExact
<1> SUFFICES ASSUME LoadedRight, PreparedRight, call.prepared # <<>>,
                    model.spec.layout = "chw"
             PROVE  CanvasExact
  BY DEF CanvasExact
<1> DEFINE spec == model.spec
           legacy == model.legacy
           placed == Elements(spec.composition.placements)
<1>1. PICK request \in Requests :
        /\ PrepareError(request) = "ok"
        /\ call.request = <<request>> /\ call.prepared = <<Prepared(request)>>
  BY DEF PreparedRight
<1>2. ObservationAccepted(request, spec, legacy)
  <2>1. ObservationError(request) = "ok"
    BY <1>1 DEF PrepareError
  <2> QED BY <2>1 DEF ObservationError
<1>3. /\ SpecTyped(spec) /\ ValidPolicySpec(spec)
      /\ model.architecture = "gwp05" => GwpSemantics(spec)
  BY DEF PreparedRight, LoadedRight
<1>4. Composes(spec)
  BY <1>2, <1>3 DEF Composes, ValidPolicySpec, ObservationAccepted
<1> DEFINE canvas == call.prepared[1].observation.canvas
<1>5. canvas = CanvasOf(request, spec, legacy)
  BY <1>1 DEF Prepared, PrepareObservation, CanvasOf
<1>6. canvas.width = spec.composition.width /\ canvas.height = spec.composition.height
  <2> HIDE DEF canvas, spec, legacy
  <2> QED BY <1>5 DEF CanvasOf, ComposeCanvas, FillImage, Frame
<1> HIDE DEF canvas, spec, legacy, placed
<1>7. ASSUME NEW x \in 0..canvas.width - 1, NEW y \in 0..canvas.height - 1,
             NEW c \in 0..Channels - 1
      PROVE  LET at == {p \in placed : Covers(p, x, y)} IN
               IF at = {}
                 THEN PixelOf(canvas, x, y, c) = Background /\ model.architecture # "gwp05"
                 ELSE ShowsView(canvas, CHOOSE p \in at : TRUE, x, y, c)
  <2> DEFINE at == {p \in placed : Covers(p, x, y)}
  <2>1. x \in 0..spec.composition.width - 1 /\ y \in 0..spec.composition.height - 1
    BY <1>6
  <2>2. CASE at = {}
    <3>1. \A p \in placed : ~Covers(p, x, y)
      BY <2>2
    <3>2. PixelOf(canvas, x, y, c) = Background
      BY <1>4, <1>5, <2>1, <3>1, PixelBeside DEF placed, spec
    <3>3. model.architecture # "gwp05"
      BY <1>3, <1>4, <2>1, <3>1, NoBackground DEF placed
    <3> QED BY <2>2, <3>2, <3>3
  <2>3. CASE at # {}
    <3>1. PICK p \in at : p = CHOOSE q \in at : TRUE
      BY <2>3
    <3>2. p \in placed /\ Covers(p, x, y)
      OBVIOUS
    <3>3. ShowsView(canvas, p, x, y, c)
      <4>1. /\ spec = model.spec /\ legacy = model.legacy /\ spec.layout = "chw"
            /\ p \in Elements(spec.composition.placements)
        BY <3>2 DEF placed, spec, legacy
      <4> QED BY <1>1, <1>2, <1>4, <1>5, <2>1, <3>2, <4>1, PointShows
    <3> HIDE DEF at
    <3>4. ShowsView(canvas, CHOOSE q \in at : TRUE, x, y, c)
      BY <3>1, <3>3
    <3> QED BY <2>3, <3>4 DEF at
  <2> QED BY <2>2, <2>3
<1> QED BY <1>7 DEF CanvasExact, ShowsView, PixelOf, canvas, placed, spec

(* Every pixel of the canvas is the one its place should show, from inside *)
(* its image, and a GWP canvas has no background, for any accepted model   *)
(* and observation: any number of views, resampling and layout of the      *)
(* rectangles, and any sizes, but that the order of the windows is for     *)
(* those the code can count.                                               *)
THEOREM CanvasIsExact == Spec => []CanvasExact
BY LoadedAlways, PreparedAlways, CanvasRight, PTL

-----------------------------------------------------------------------------
(* Sums of weights.                                                        *)
WeightSum(S) == MapThenSumSet(LAMBDA t : t[2], S)

(* Of the subsets of a finite set, one that is smallest among some of them. *)
LEMMA Smallest ==
  ASSUME NEW S, IsFiniteSet(S), NEW B \in SUBSET SUBSET S, B # {}
  PROVE  \E s \in B : \A r \in SUBSET s : r # s => r \notin B
<1> DEFINE sizes == {Cardinality(s) : s \in B}
<1>1. \A s \in B : IsFiniteSet(s) /\ Cardinality(s) \in Nat
  BY FS_Subset, FS_CardinalityType
<1>2. sizes \in SUBSET Nat /\ sizes # {}
  BY <1>1
<1> HIDE DEF sizes
<1>3. PICK n \in sizes : \A k \in sizes : n <= k
  BY <1>2, Least
<1>4. PICK s \in B : Cardinality(s) = n
  BY <1>3 DEF sizes
<1>5. ASSUME NEW r \in SUBSET s, r # s, r \in B PROVE FALSE
  <2>1. Cardinality(r) <= Cardinality(s) /\ Cardinality(r) # Cardinality(s)
    BY <1>1, <1>5, FS_Subset
  <2>2. n <= Cardinality(r)
    BY <1>3, <1>5 DEF sizes
  <2>3. Cardinality(r) \in Nat /\ n \in Nat
    BY <1>1, <1>4, <1>5
  <2> QED BY <1>4, <2>1, <2>2, <2>3
<1> QED BY <1>4, <1>5

(* The fold over a finite set exists. *)
IsFold(f, D) ==
  f = [s \in D |-> IF s = {} THEN 0
                   ELSE (CHOOSE t \in s : TRUE)[2] + f[s \ {CHOOSE t \in s : TRUE}]]

UpTo(S, n) == {s \in SUBSET S : Cardinality(s) <= n}

LEMMA FoldExists ==
  ASSUME NEW S, IsFiniteSet(S)
  PROVE  \E f : IsFold(f, SUBSET S)
<1> DEFINE bad == {n \in Nat : ~ \E f : IsFold(f, UpTo(S, n))}
           Pick(s) == CHOOSE t \in s : TRUE
<1>1. \A s \in SUBSET S : IsFiniteSet(s) /\ Cardinality(s) \in Nat
  BY FS_Subset, FS_CardinalityType
<1>2. \A s \in SUBSET S : s # {} =>
        /\ Pick(s) \in s /\ s \ {Pick(s)} \in SUBSET S
        /\ Cardinality(s \ {Pick(s)}) = Cardinality(s) - 1
  BY <1>1, FS_RemoveElement
<1>3. bad = {}
  <2>1. SUFFICES ASSUME bad # {} PROVE FALSE
    OBVIOUS
  <2>2. bad \in SUBSET Nat
    OBVIOUS
  <2>3. PICK n \in bad : \A k \in bad : n <= k
    BY <2>1, <2>2, Least
  <2>4. n \in Nat /\ ~ \E f : IsFold(f, UpTo(S, n))
    BY <2>3
  <2>5. CASE n = 0
    <3> DEFINE g == [s \in UpTo(S, 0) |-> 0]
    <3>1. \A s \in UpTo(S, 0) : s = {}
      BY <1>1, FS_EmptySet DEF UpTo
    <3>2. IsFold(g, UpTo(S, 0))
      BY <3>1 DEF IsFold
    <3> QED BY <2>4, <2>5, <3>2
  <2>6. CASE n # 0
    <3>1. n - 1 \in Nat /\ ~(n <= n - 1)
      BY <2>4, <2>6
    <3>2. n - 1 \notin bad
      BY <2>3, <3>1
    <3>3. PICK f : IsFold(f, UpTo(S, n - 1))
      BY <3>1, <3>2
    <3> DEFINE Next1(h, s) == IF s = {} THEN 0 ELSE Pick(s)[2] + h[s \ {Pick(s)}]
               g == [s \in UpTo(S, n) |-> Next1(f, s)]
    <3>4. ASSUME NEW s \in UpTo(S, n), s # {}
          PROVE  /\ s \ {Pick(s)} \in UpTo(S, n - 1)
                 /\ s \ {Pick(s)} \in UpTo(S, n)
      <4>1. s \ {Pick(s)} \in SUBSET S /\ Cardinality(s \ {Pick(s)}) = Cardinality(s) - 1
        BY <1>2, <3>4 DEF UpTo
      <4>2. Cardinality(s) \in Nat /\ Cardinality(s) <= n
        BY <1>1 DEF UpTo
      <4>3. Cardinality(s) - 1 <= n - 1 /\ Cardinality(s) - 1 <= n
        BY <2>4, <4>2
      <4> QED BY <4>1, <4>3 DEF UpTo
    <3>5. \A s \in UpTo(S, n - 1) : f[s] = Next1(f, s)
      <4> HIDE DEF Pick
      <4> QED BY <3>3 DEF IsFold, Pick
    <3>6. \A s \in UpTo(S, n) : s # {} => g[s \ {Pick(s)}] = f[s \ {Pick(s)}]
      <4> HIDE DEF Next1
      <4> QED BY <3>4, <3>5
    <3>7. \A s \in UpTo(S, n) : g[s] = Next1(g, s)
      <4>1. \A s \in UpTo(S, n) : g[s] = Next1(f, s)
        OBVIOUS
      <4> HIDE DEF g, Pick
      <4> QED BY <3>6, <4>1
    <3>8. g = [s \in UpTo(S, n) |-> g[s]]
      OBVIOUS
    <3> HIDE DEF g
    <3>9. IsFold(g, UpTo(S, n))
      BY <3>7, <3>8 DEF IsFold
    <3> QED BY <2>4, <3>9
  <2> QED BY <2>5, <2>6
<1>4. Cardinality(S) \in Nat /\ UpTo(S, Cardinality(S)) = SUBSET S
  <2>1. \A s \in SUBSET S : Cardinality(s) <= Cardinality(S)
    BY FS_Subset
  <2> QED BY <1>1, <2>1 DEF UpTo
<1>5. Cardinality(S) \notin bad
  BY <1>3
<1>6. \E f : IsFold(f, UpTo(S, Cardinality(S)))
  BY <1>4, <1>5
<1> QED BY <1>4, <1>6

(* A sum can be taken in any order. *)
Additive(f, S) ==
  /\ f[{}] = 0
  /\ \A s \in SUBSET S : f[s] \in Int /\ \A t \in s : f[s] = t[2] + f[s \ {t}]

LEMMA SumSplits ==
  ASSUME NEW S, IsFiniteSet(S), \A t \in S : t[2] \in Int
  PROVE  \E f : WeightSum(S) = f[S] /\ Additive(f, S)
<1> DEFINE Pick(s) == CHOOSE t \in s : TRUE
<1>1. WeightSum(S) = (CHOOSE f : IsFold(f, SUBSET S))[S]
  BY DEF WeightSum, MapThenSumSet, MapThenFoldSet, IsFold
<1>2. PICK f : f = (CHOOSE g : IsFold(g, SUBSET S)) /\ IsFold(f, SUBSET S)
  BY FoldExists
<1>3. \A s \in SUBSET S : f[s] = IF s = {} THEN 0 ELSE Pick(s)[2] + f[s \ {Pick(s)}]
  BY <1>2 DEF IsFold
<1>5. \A s \in SUBSET S : s # {} => Pick(s) \in s /\ s \ {Pick(s)} \in SUBSET S
  OBVIOUS
<1> HIDE DEF Pick
<1>4. f[{}] = 0
  <2>1. {} \in SUBSET S
    OBVIOUS
  <2> QED BY <1>3, <2>1
<1>6. \A s \in SUBSET S : f[s] \in Int
  <2> DEFINE bad == {s \in SUBSET S : f[s] \notin Int}
  <2>1. SUFFICES ASSUME bad # {} PROVE FALSE
    OBVIOUS
  <2>2. PICK s \in bad : \A r \in SUBSET s : r # s => r \notin bad
    <3>1. bad \in SUBSET SUBSET S
      OBVIOUS
    <3> HIDE DEF bad
    <3> QED BY <2>1, <3>1, Smallest
  <2>3. s # {}
    <3>1. 0 \in Int
      OBVIOUS
    <3> QED BY <1>4, <2>2, <3>1
  <2>4. f[s] = Pick(s)[2] + f[s \ {Pick(s)}] /\ Pick(s) \in s
    BY <1>3, <1>5, <2>3
  <2>5. f[s \ {Pick(s)}] \in Int
    <3>1. s \ {Pick(s)} \in SUBSET s /\ s \ {Pick(s)} # s /\ s \ {Pick(s)} \in SUBSET S
      BY <2>4
    <3> QED BY <2>2, <3>1
  <2>6. PICK y \in Int, z \in Int : y = Pick(s)[2] /\ z = f[s \ {Pick(s)}]
    <3>1. Pick(s)[2] \in Int
      BY <2>4
    <3> QED BY <2>5, <3>1
  <2>7. f[s] \in Int
    BY <2>4, <2>6
  <2> QED BY <2>2, <2>7
<1>7. \A s \in SUBSET S : \A t \in s : f[s] = t[2] + f[s \ {t}]
  <2> DEFINE bad == {s \in SUBSET S : ~ \A t \in s : f[s] = t[2] + f[s \ {t}]}
  <2>1. SUFFICES ASSUME bad # {} PROVE FALSE
    OBVIOUS
  <2>2. PICK s \in bad : \A r \in SUBSET s : r # s => r \notin bad
    <3>1. bad \in SUBSET SUBSET S
      OBVIOUS
    <3> HIDE DEF bad
    <3> QED BY <2>1, <3>1, Smallest
  <2>3. PICK t \in s : f[s] # t[2] + f[s \ {t}]
    BY <2>2
  <2>4. PICK x \in s : f[s] = x[2] + f[s \ {x}]
    BY <1>3, <1>5, <2>3
  <2>5. x # t
    BY <2>3, <2>4
  <2>6. f[s \ {x}] = t[2] + f[(s \ {x}) \ {t}]
    <3>1. s \ {x} \in SUBSET s /\ s \ {x} # s /\ t \in s \ {x}
      BY <2>5
    <3> QED BY <2>2, <3>1
  <2>7. f[s \ {t}] = x[2] + f[(s \ {t}) \ {x}]
    <3>1. s \ {t} \in SUBSET s /\ s \ {t} # s /\ x \in s \ {t}
      BY <2>5
    <3> QED BY <2>2, <3>1
  <2>8. (s \ {x}) \ {t} = (s \ {t}) \ {x} /\ (s \ {t}) \ {x} \in SUBSET S
    OBVIOUS
  <2>9. PICK z \in Int : z = f[(s \ {t}) \ {x}]
    BY <1>6, <2>8
  <2>10. f[s] = x[2] + (t[2] + z) /\ f[s \ {t}] = x[2] + z
    BY <2>4, <2>6, <2>7, <2>8, <2>9
  <2>11. x[2] \in Int /\ t[2] \in Int
    OBVIOUS
  <2>12. f[s] = t[2] + f[s \ {t}]
    BY <2>10, <2>11
  <2> QED BY <2>3, <2>12
<1>8. WeightSum(S) = f[S]
  BY <1>1, <1>2
<1>9. Additive(f, S)
  BY <1>4, <1>6, <1>7 DEF Additive
<1> QED BY <1>8, <1>9

(* Where every negative weight is made up for by a positive one of its own *)
(* the sum is not negative.                                                *)
LEMMA PairedSum ==
  ASSUME NEW S, IsFiniteSet(S), \A t \in S : t[2] \in Int,
         NEW f, f[{}] = 0,
         \A s \in SUBSET S : f[s] \in Int /\ \A t \in s : f[s] = t[2] + f[s \ {t}],
         NEW g,
         \A t \in S : t[2] < 0 => g[t] \in S /\ g[t][2] + t[2] >= 0,
         \A t, u \in S : t[2] < 0 /\ u[2] < 0 /\ g[t] = g[u] => t = u
  PROVE  f[S] >= 0
<1> DEFINE Closed(s) == \A t \in s : t[2] < 0 => g[t] \in s
           bad == {s \in SUBSET S : Closed(s) /\ f[s] < 0}
<1>1. SUFFICES bad = {}
  <2>1. Closed(S)
    OBVIOUS
  <2>2. PICK n \in Int : n = f[S]
    OBVIOUS
  <2>3. SUFFICES ASSUME ~(f[S] >= 0) PROVE FALSE
    OBVIOUS
  <2>4. f[S] < 0
    BY <2>2, <2>3
  <2> HIDE DEF Closed
  <2> QED BY <2>1, <2>4
<1>2. SUFFICES ASSUME bad # {} PROVE FALSE
  OBVIOUS
<1>3. PICK s \in bad : \A r \in SUBSET s : r # s => r \notin bad
  <2>1. bad \in SUBSET SUBSET S
    OBVIOUS
  <2> HIDE DEF bad
  <2> QED BY <1>2, <2>1, Smallest
<1>4. \A r \in SUBSET s : r # s /\ Closed(r) => f[r] >= 0
  <2>1. \A r \in SUBSET s : f[r] \in Int
    OBVIOUS
  <2> QED BY <1>3, <2>1
<1>5. s # {} /\ f[s] < 0 /\ Closed(s)
  <2>1. ~(0 < 0)
    OBVIOUS
  <2>2. f[s] < 0 /\ Closed(s)
    BY <1>3
  <2> QED BY <2>1, <2>2
<1>6. CASE \A t \in s : t[2] >= 0
  <2>1. PICK t \in s : TRUE
    BY <1>5
  <2>2. Closed(s \ {t})
    <3>1. \A u \in s \ {t} : ~(u[2] < 0)
      BY <1>6
    <3> QED BY <3>1
  <2>3. f[s \ {t}] >= 0 /\ f[s \ {t}] \in Int
    BY <1>4, <2>2
  <2>4. f[s] = t[2] + f[s \ {t}] /\ t[2] >= 0 /\ t[2] \in Int
    BY <1>6
  <2> QED BY <1>5, <2>3, <2>4
<1>7. CASE ~ \A t \in s : t[2] >= 0
  <2>1. PICK t \in s : t[2] < 0
    BY <1>7
  <2>2. PICK p \in s : p = g[t] /\ p[2] + t[2] >= 0
    BY <1>5, <2>1
  <2>3. t[2] \in Int /\ p[2] \in Int /\ p # t
    <3>1. t[2] \in Int /\ p[2] \in Int
      OBVIOUS
    <3> QED BY <2>1, <2>2, <3>1
  <2> DEFINE rest == (s \ {t}) \ {p}
  <2>4. f[s] = t[2] + (p[2] + f[rest])
    <3>1. f[s] = t[2] + f[s \ {t}]
      OBVIOUS
    <3>2. s \ {t} \in SUBSET S /\ p \in s \ {t}
      BY <2>3
    <3> QED BY <3>1, <3>2
  <2>5. Closed(rest)
    <3> SUFFICES ASSUME NEW u \in rest, u[2] < 0 PROVE g[u] \in rest
      OBVIOUS
    <3>1. g[u] \in s
      BY <1>5
    <3>2. g[u] # p
      BY <2>1, <2>2
    <3>3. g[u] # t
      <4>1. g[u][2] + u[2] >= 0 /\ u[2] \in Int /\ g[u][2] \in Int
        BY <3>1
      <4>2. ~(g[u][2] < 0)
        BY <4>1
      <4> QED BY <2>1, <4>2
    <3> QED BY <3>1, <3>2, <3>3
  <2>6. f[rest] >= 0 /\ f[rest] \in Int
    <3>1. rest \in SUBSET s /\ rest # s
      OBVIOUS
    <3> QED BY <1>4, <2>5, <3>1
  <2> HIDE DEF rest
  <2> QED BY <1>5, <2>2, <2>3, <2>4, <2>6
<1> QED BY <1>6, <1>7

-----------------------------------------------------------------------------
(* The cubic kernel. *)
LEMMA KernelNumber ==
  ASSUME NEW n \in Nat, NEW m \in Nat, NEW interpolation
  PROVE  KernelWeight(n, m, interpolation) \in Int
<1>1. Max({0, m - n}) \in Int
  <2>1. PICK k \in Int : k = m - n
    OBVIOUS
  <2>2. Max({0, k}) = IF 0 >= k THEN 0 ELSE k
    BY MaxOfTwo
  <2>3. Max({0, k}) \in Int
    BY <2>2
  <2> QED BY <2>1, <2>3
<1>2. 3 * n * n * n - 5 * n * n * m + 2 * m * m * m \in Int
  OBVIOUS
<1>3. -(n - m) * (n - 2 * m) * (n - 2 * m) \in Int
  OBVIOUS
<1> QED BY <1>1, <1>2, <1>3 DEF KernelWeight

(* Between its zeros the cubic kernel is negative. *)
LEMMA CubicBetween ==
  ASSUME NEW n \in Nat, NEW m \in Nat, KernelWeight(n, m, "bicubic") < 0
  PROVE  \E u, v \in Nat : /\ u > 0 /\ v > 0 /\ m = u + v /\ n = m + u
                           /\ KernelWeight(n, m, "bicubic") = -(u * (v * v))
<1>1. ~(n < m)
  <2>1. KernelWeight(n, m, "bicubic") \in Int
    BY KernelNumber
  <2>2. SUFFICES ASSUME n < m PROVE FALSE
    OBVIOUS
  <2>3. KernelWeight(n, m, "bicubic") > 0
    BY <2>2, KernelPositive
  <2> QED BY <2>1, <2>3
<1>2. n < 2 * m
  BY <1>1 DEF KernelWeight
<1>3. PICK u \in Nat, v \in Nat : u = n - m /\ v = 2 * m - n
  <2>1. n - m \in Nat /\ 2 * m - n \in Nat
    BY <1>1, <1>2
  <2> QED BY <2>1
<1>4. v > 0 /\ m = u + v /\ n = m + u
  BY <1>2, <1>3
<1>5. KernelWeight(n, m, "bicubic") = -(n - m) * (n - 2 * m) * (n - 2 * m)
  BY <1>1, <1>2 DEF KernelWeight
<1>6. n - m = u /\ n - 2 * m = -v
  BY <1>3
<1>7. -(n - m) * (n - 2 * m) * (n - 2 * m) = -(u * (v * v))
  <2>1. -u * (-v) * (-v) = -(u * (v * v))
    OBVIOUS
  <2> QED BY <1>6, <2>1
<1>8. u > 0
  <2>1. SUFFICES ASSUME u = 0 PROVE FALSE
    OBVIOUS
  <2>2. KernelWeight(n, m, "bicubic") = 0
    <3>1. PICK w \in Nat : w = v * v
      BY ProductsNat
    <3> QED BY <1>5, <1>7, <2>1, <3>1
  <2> QED BY <2>2
<1> QED BY <1>4, <1>5, <1>7, <1>8

Cubed(n) == n * (n * n)

LEMMA CubeOfSum ==
  ASSUME NEW n \in Nat, NEW k \in Nat
  PROVE  /\ Cubed(n + k) = Cubed(n) + 3 * (k * (n * n)) + 3 * (n * (k * k)) + Cubed(k)
         /\ Cubed(n) \in Nat /\ k * (n * n) \in Nat /\ n * (k * k) \in Nat
<1>1. PICK a \in Nat, b \in Nat, c \in Nat : a = n * n /\ b = n * k /\ c = k * k
  BY ProductsNat
<1>2. (n + k) * (n + k) = a + 2 * b + c
  BY <1>1
<1>3. (n + k) * (a + 2 * b + c) = n * a + 2 * (n * b) + n * c + k * a + 2 * (k * b) + k * c
  BY <1>1
<1>4. n * b = k * a /\ k * b = n * c
  BY <1>1
<1>5. PICK d \in Nat, e \in Nat, f \in Nat, g \in Nat :
        d = n * a /\ e = k * a /\ f = n * c /\ g = k * c
  BY <1>1, ProductsNat
<1>6. (n + k) * (a + 2 * b + c) = d + 3 * e + 3 * f + g
  BY <1>3, <1>4, <1>5
<1>7. Cubed(n + k) = (n + k) * (a + 2 * b + c) /\ Cubed(n) = d /\ Cubed(k) = g
  BY <1>1, <1>2, <1>5 DEF Cubed
<1> QED BY <1>1, <1>5, <1>6, <1>7

(* Near the center the weight is large, and no weight is very negative. *)
LEMMA CubicNear ==
  ASSUME NEW F \in Nat, NEW n \in 0..F, F > 0
  PROVE  KernelWeight(n, 2 * F, "bicubic") >= 9 * Cubed(F)
<1>1. PICK k \in Nat : F = n + k
  <2>1. F - n \in Nat /\ F = n + (F - n)
    OBVIOUS
  <2> QED BY <2>1
<1>2. PICK j \in Nat : j = n + 2 * k /\ 2 * F = n + j /\ j > 0
  <2>1. n + 2 * k \in Nat /\ 2 * F = n + (n + 2 * k) /\ n + 2 * k > 0
    BY <1>1
  <2> QED BY <2>1
<1>3. KernelWeight(n, n + j, "bicubic") = j * (n * n) + 6 * (n * (j * j)) + 2 * (j * (j * j))
  <2>1. "bicubic" # "bilinear" /\ n \in Nat
    OBVIOUS
  <2> QED BY <1>2, <2>1, CubicInside
<1>4. PICK d \in Nat, e \in Nat, f \in Nat, g \in Nat :
        d = Cubed(n) /\ e = k * (n * n) /\ f = n * (k * k) /\ g = Cubed(k)
  <2>1. n \in Nat
    OBVIOUS
  <2>2. Cubed(k) \in Nat
    BY CubeOfSum
  <2> QED BY <2>1, <2>2, CubeOfSum
<1>5. Cubed(F) = d + 3 * e + 3 * f + g
  <2>1. n \in Nat
    OBVIOUS
  <2> QED BY <1>1, <1>4, <2>1, CubeOfSum
<1>6. PICK l \in Nat : l = 2 * k /\ j = n + l
  BY <1>2
<1>7. PICK a \in Nat, b \in Nat, c \in Nat : a = n * n /\ b = n * k /\ c = k * k
  BY ProductsNat
<1>8. l * (n * n) = 2 * e /\ n * (l * l) = 4 * f /\ Cubed(l) = 8 * g
  <2>1. l * l = 4 * c
    BY <1>6, <1>7
  <2>2. e = k * a /\ f = n * c /\ g = k * c
    BY <1>4, <1>7 DEF Cubed
  <2>3. l * a = 2 * (k * a) /\ n * (4 * c) = 4 * (n * c) /\ l * (4 * c) = 8 * (k * c)
    BY <1>6, <1>7
  <2> QED BY <1>7, <2>1, <2>2, <2>3 DEF Cubed
<1>9. Cubed(j) = d + 6 * e + 12 * f + 8 * g
  <2>1. n \in Nat
    OBVIOUS
  <2>2. Cubed(n + l) = Cubed(n) + 3 * (l * (n * n)) + 3 * (n * (l * l)) + Cubed(l)
    BY <1>6, <2>1, CubeOfSum
  <2>3. Cubed(n + l) = d + 3 * (2 * e) + 3 * (4 * f) + 8 * g
    BY <1>4, <1>8, <2>2, Zenon
  <2>4. Cubed(n + l) = d + 6 * e + 12 * f + 8 * g
    BY <2>3
  <2> QED BY <1>6, <2>4
<1>10. j * (n * n) = d + 2 * e
  <2>1. (n + l) * a = n * a + l * a
    BY <1>6, <1>7
  <2>2. d = n * a
    BY <1>4, <1>7 DEF Cubed
  <2> QED BY <1>6, <1>7, <1>8, <2>1, <2>2
<1>11. n * (j * j) = d + 4 * e + 4 * f
  <2>1. j * j = a + 4 * b + 4 * c
    BY <1>2, <1>7
  <2>2. n * (a + 4 * b + 4 * c) = n * a + 4 * (n * b) + 4 * (n * c)
    BY <1>7
  <2>3. n * b = k * a
    BY <1>7
  <2>4. d = n * a /\ e = k * a /\ f = n * c
    BY <1>4, <1>7 DEF Cubed
  <2> QED BY <2>1, <2>2, <2>3, <2>4
<1>12. KernelWeight(n, 2 * F, "bicubic") = (d + 2 * e) + 6 * (d + 4 * e + 4 * f)
                                            + 2 * (d + 6 * e + 12 * f + 8 * g)
  BY <1>2, <1>3, <1>9, <1>10, <1>11 DEF Cubed
<1> QED BY <1>4, <1>5, <1>12

LEMMA CubicLeast ==
  ASSUME NEW F \in Nat, NEW n \in Nat, KernelWeight(n, 2 * F, "bicubic") < 0
  PROVE  KernelWeight(n, 2 * F, "bicubic") >= -(2 * Cubed(F))
<1>1. PICK m \in Nat : m = 2 * F
  OBVIOUS
<1>2. PICK u \in Nat, v \in Nat :
        /\ u > 0 /\ v > 0 /\ m = u + v /\ n = m + u
        /\ KernelWeight(n, m, "bicubic") = -(u * (v * v))
  <2>1. KernelWeight(n, m, "bicubic") < 0
    BY <1>1
  <2> QED BY <2>1, CubicBetween
<1>3. Cubed(m) = 8 * Cubed(F) /\ Cubed(F) \in Nat
  <2>1. PICK a \in Nat : a = F * F
    BY ProductsNat
  <2>2. m * m = 4 * a
    BY <1>1, <2>1
  <2>3. m * (4 * a) = 8 * (F * a)
    BY <1>1, <2>1
  <2>4. F * a \in Nat
    BY <2>1, ProductsNat
  <2> QED BY <2>1, <2>2, <2>3, <2>4 DEF Cubed
<1>4. PICK d \in Nat, e \in Nat, f \in Nat, g \in Nat :
        d = Cubed(u) /\ e = v * (u * u) /\ f = u * (v * v) /\ g = Cubed(v)
  <2>1. Cubed(v) \in Nat
    BY CubeOfSum
  <2> QED BY <2>1, CubeOfSum
<1>5. Cubed(m) = d + 3 * e + 3 * f + g
  BY <1>2, <1>4, CubeOfSum
<1>6. f <= e \/ f <= g
  <2>1. PICK b \in Nat, c \in Nat : b = u * v /\ c = v * v
    BY ProductsNat
  <2>2. f = u * c /\ g = v * c /\ f = v * b /\ e = u * b
    BY <1>4, <2>1 DEF Cubed
  <2>3. CASE u <= v
    <3>1. u * c <= v * c
      BY <2>1, <2>3
    <3> QED BY <2>2, <3>1
  <2>4. CASE v <= u
    <3>1. v * b <= u * b
      BY <2>1, <2>4
    <3> QED BY <2>2, <3>1
  <2> QED BY <2>3, <2>4
<1>7. PICK h \in Nat : h = Cubed(F)
  BY <1>3
<1>8. 4 * f <= 8 * h
  BY <1>3, <1>4, <1>5, <1>6, <1>7
<1> QED BY <1>1, <1>2, <1>4, <1>7, <1>8

(* What a weight lacks, one that is closer by the first zero makes up for. *)
LEMMA CubicPair ==
  ASSUME NEW m \in Nat, NEW n \in Nat, NEW j \in Nat,
         KernelWeight(n, m, "bicubic") < 0, j <= n - m
  PROVE  /\ j < m
         /\ KernelWeight(j, m, "bicubic") > 0
         /\ KernelWeight(j, m, "bicubic") + KernelWeight(n, m, "bicubic") >= 0
<1>1. PICK u \in Nat, v \in Nat :
        /\ u > 0 /\ v > 0 /\ m = u + v /\ n = m + u
        /\ KernelWeight(n, m, "bicubic") = -(u * (v * v))
  BY CubicBetween
<1>2. PICK k \in Nat : u = j + k
  <2>1. u - j \in Nat /\ u = j + (u - j)
    BY <1>1
  <2> QED BY <2>1
<1>3. PICK w \in Nat : w = k + v /\ w > 0 /\ m = j + w /\ v <= w /\ k <= w
  BY <1>1, <1>2
<1>4. KernelWeight(j, m, "bicubic") = w * (j * j) + 6 * (j * (w * w)) + 2 * (w * (w * w))
  <2>1. "bicubic" # "bilinear" /\ j \in Nat /\ w \in Nat /\ w > 0
    BY <1>3
  <2>2. KernelWeight(j, j + w, "bicubic")
          = w * (j * j) + 6 * (j * (w * w)) + 2 * (w * (w * w))
    BY <2>1, CubicInside, Zenon
  <2> QED BY <1>3, <2>2
<1>5. j < m /\ KernelWeight(j, m, "bicubic") > 0
  <2>1. j < m
    BY <1>3
  <2> QED BY <2>1, KernelPositive
<1>6. PICK a \in Nat, b \in Nat, c \in Nat : a = w * w /\ b = v * v /\ c = w * (j * j)
  <2>1. j * j \in Nat
    BY ProductsNat
  <2>2. w * (j * j) \in Nat
    BY <2>1, ProductsNat
  <2>3. w * w \in Nat /\ v * v \in Nat
    BY ProductsNat
  <2> QED BY <2>2, <2>3
<1>7. b <= a
  <2>1. v * v <= w * v
    BY <1>3
  <2>2. w * v <= w * w
    BY <1>3
  <2>3. w * v \in Int
    OBVIOUS
  <2> QED BY <1>6, <2>1, <2>2, <2>3
<1>8. j * b <= j * a /\ k * b <= w * b /\ w * b <= w * a
  BY <1>3, <1>6, <1>7
<1>9. PICK jb \in Nat, ja \in Nat, kb \in Nat, wb \in Nat, wa \in Nat :
        jb = j * b /\ ja = j * a /\ kb = k * b /\ wb = w * b /\ wa = w * a
  BY <1>6, ProductsNat
<1>10. u * b = jb + kb
  BY <1>2, <1>6, <1>9
<1>11. KernelWeight(j, m, "bicubic") = c + 6 * ja + 2 * wa
  BY <1>4, <1>6, <1>9
<1>12. KernelWeight(n, m, "bicubic") = -(jb + kb)
  BY <1>1, <1>6, <1>10
<1>13. c + 6 * ja + 2 * wa >= jb + kb
  BY <1>6, <1>8, <1>9
<1>14. KernelWeight(j, m, "bicubic") + KernelWeight(n, m, "bicubic") >= 0
  BY <1>6, <1>9, <1>11, <1>12, <1>13
<1> QED BY <1>5, <1>14

-----------------------------------------------------------------------------
(* The weights of a window: the taps in a range. *)
TapsIn(low, high, d, c, m, reach, kind) ==
  {<<i, KernelWeight(Away(i, d, c), m, kind)>> :
     i \in {j \in low..high : /\ Away(j, d, c) <= reach
                              /\ KernelWeight(Away(j, d, c), m, kind) # 0}}

LEMMA TapsNumber ==
  ASSUME NEW low \in Int, NEW high \in Int, NEW d \in Nat, NEW c \in Int, NEW m \in Nat,
         NEW reach, NEW kind
  PROVE  /\ IsFiniteSet(TapsIn(low, high, d, c, m, reach, kind))
         /\ \A t \in TapsIn(low, high, d, c, m, reach, kind) :
              \E i \in low..high :
                /\ t = <<i, KernelWeight(Away(i, d, c), m, kind)>>
                /\ KernelWeight(Away(i, d, c), m, kind) \in Int
                /\ KernelWeight(Away(i, d, c), m, kind) # 0
                /\ Away(i, d, c) <= reach
<1> DEFINE Weight(i) == KernelWeight(Away(i, d, c), m, kind)
           Far(j) == Away(j, d, c) <= reach /\ Weight(j) # 0
           at == {j \in low..high : Far(j)}
           taps == {<<i, Weight(i)>> : i \in at}
<1>1. TapsIn(low, high, d, c, m, reach, kind) = taps
  BY DEF TapsIn
<1>2. \A i \in low..high : Weight(i) \in Int
  <2>1. \A i \in low..high : Away(i, d, c) \in Nat
    BY AwayNumber
  <2> QED BY <2>1, KernelNumber
<1>3. IsFiniteSet(at)
  <2>1. IsFiniteSet(low..high) /\ at \in SUBSET (low..high)
    BY FS_Interval
  <2> HIDE DEF at
  <2> QED BY <2>1, FS_Subset
<1>4. IsFiniteSet(taps)
  <2> DEFINE g == [i \in at |-> <<i, Weight(i)>>]
  <2>1. g \in [at -> taps] /\ \A t \in taps : \E i \in at : g[i] = t
    <3> HIDE DEF at, Weight
    <3> QED OBVIOUS
  <2> HIDE DEF at, taps, g
  <2>2. g \in Surjection(at, taps)
    BY <2>1 DEF Surjection
  <2> QED BY <1>3, <2>2, FS_Surjection
<1>5. \A t \in taps : \E i \in low..high :
        t = <<i, Weight(i)>> /\ Weight(i) # 0 /\ Away(i, d, c) <= reach
  <2> HIDE DEF Weight
  <2> QED OBVIOUS
<1> HIDE DEF Weight, taps
<1> QED BY <1>1, <1>2, <1>4, <1>5 DEF Weight

(* A negative weight that is not met by the center's neighbour has a       *)
(* partner closer to the center: on the same side, k pixels on.            *)
LEMMA Partner ==
  ASSUME NEW d \in Nat, NEW c \in Int, NEW m \in Nat, NEW k \in Nat, NEW q \in Int, NEW i \in Int,
         k * d >= m, d * q - c < d, c - d * q < d,
         KernelWeight(Away(i, d, c), m, "bicubic") < 0,
         d * i > c, d * i - c >= k * d, i # q + k
  PROVE  /\ i - k > q /\ i - k <= i
         /\ Away(i - k, d, c) < m
         /\ KernelWeight(Away(i - k, d, c), m, "bicubic") > 0
         /\ KernelWeight(Away(i - k, d, c), m, "bicubic")
              + KernelWeight(Away(i, d, c), m, "bicubic") >= 0
<1>1. PICK e \in Int, x \in Int, y \in Int, z \in Int :
        e = d * i /\ x = d * k /\ y = d * (i - k) /\ z = d * q /\ y = e - x
  <2>1. d * (i - k) = d * i - d * k
    OBVIOUS
  <2> QED BY <2>1
<1>2. x >= m /\ e - c >= x /\ e > c
  <2>1. k * d = d * k
    OBVIOUS
  <2> QED BY <1>1, <2>1
<1>3. Away(i, d, c) = e - c /\ Away(i - k, d, c) = y - c
  BY <1>1, <1>2 DEF Away
<1>4. PICK n \in Nat, j \in Nat : n = e - c /\ j = y - c /\ j <= n - m
  <2>1. e - c \in Nat /\ y - c \in Nat /\ y - c <= (e - c) - m
    BY <1>1, <1>2
  <2> QED BY <2>1
<1>5. /\ j < m
      /\ KernelWeight(j, m, "bicubic") > 0
      /\ KernelWeight(j, m, "bicubic") + KernelWeight(n, m, "bicubic") >= 0
  BY <1>3, <1>4, CubicPair
<1>6. i - k > q
  <2>1. SUFFICES ASSUME i - k < q PROVE FALSE
    OBVIOUS
  <2>2. PICK w \in Nat : q = (i - k) + 1 + w
    <3>1. q - (i - k) - 1 \in Nat /\ q = (i - k) + 1 + (q - (i - k) - 1)
      BY <2>1
    <3> QED BY <3>1
  <2>3. z = y + d + d * w
    <3>1. d * ((i - k) + 1 + w) = d * (i - k) + d + d * w
      OBVIOUS
    <3> QED BY <1>1, <2>2, <3>1
  <2>4. d * w \in Nat
    BY ProductsNat
  <2>5. y >= c
    BY <1>4
  <2> QED BY <1>1, <2>3, <2>4, <2>5
<1> QED BY <1>3, <1>4, <1>5, <1>6

(* Between m and the next multiple of d there is room for one pixel. *)
LEMMA OneCrosses ==
  ASSUME NEW d \in Nat, NEW c \in Int, NEW m \in Nat, NEW top \in Int, top < m + d
  PROVE  \E a \in Int : \A i \in Int : d * i - c > m /\ d * i - c < top => i = a
<1>1. CASE \E a \in Int : d * a - c > m /\ d * a - c < top
  <2>1. PICK a \in Int : d * a - c > m /\ d * a - c < top
    BY <1>1
  <2>2. ASSUME NEW i \in Int, NEW j \in Int, i < j,
               d * i - c > m, d * j - c < top
        PROVE  FALSE
    <3>1. PICK w \in Nat : j = i + 1 + w
      <4>1. j - i - 1 \in Nat /\ j = i + 1 + (j - i - 1)
        BY <2>2
      <4> QED BY <4>1
    <3>2. PICK e \in Int, g \in Nat : e = d * i /\ g = d * w
      BY ProductsNat
    <3>3. d * j = e + d + g
      <4>1. d * (i + 1 + w) = d * i + d + d * w
        OBVIOUS
      <4> QED BY <3>1, <3>2, <4>1
    <3> QED BY <2>2, <3>2, <3>3
  <2>3. ASSUME NEW i \in Int, d * i - c > m, d * i - c < top PROVE i = a
    <3>1. ~(i < a) /\ ~(a < i)
      BY <2>1, <2>2, <2>3
    <3> QED BY <3>1
  <2> QED BY <2>3
<1>2. CASE ~ \E a \in Int : d * a - c > m /\ d * a - c < top
  <2>1. 0 \in Int
    OBVIOUS
  <2> QED BY <1>2, <2>1
<1> QED BY <1>1, <1>2

(* What taking one out of a sum can cost. *)
LEMMA SumWithout ==
  ASSUME NEW S, \A t \in S : t[2] \in Int, NEW f,
         \A s \in SUBSET S : f[s] \in Int /\ \A t \in s : f[s] = t[2] + f[s \ {t}],
         NEW s \in SUBSET S, NEW x, NEW b \in Nat, x \in S => x[2] >= -b
  PROVE  f[s] >= f[s \ {x}] - b
<1>1. CASE x \in s
  <2>1. PICK w \in Int, y \in Int : w = x[2] /\ y = f[s \ {x}] /\ f[s] = w + y /\ w >= -b
    <3>1. s \ {x} \in SUBSET S /\ x \in S
      BY <1>1
    <3> QED BY <1>1, <3>1
  <2> QED BY <2>1
<1>2. CASE x \notin s
  <2>1. s \ {x} = s
    BY <1>2
  <2>2. PICK y \in Int : y = f[s]
    OBVIOUS
  <2>3. f[s \ {x}] = y
    BY <2>1, <2>2
  <2>4. y >= y - b
    OBVIOUS
  <2> QED BY <2>2, <2>3, <2>4
<1> QED BY <1>1, <1>2

(* The weights of the cubic kernel add up to more than nothing, wherever   *)
(* the image ends.                                                         *)
LEMMA CubicSum ==
  ASSUME NEW low \in Int, NEW high \in Int, NEW d \in Nat, d > 0, NEW c \in Int,
         NEW F \in Nat, F > 0, NEW q \in low..high,
         d * q - c < d, c - d * q < d, Away(q, d, c) <= F
  PROVE  WeightSum(TapsIn(low, high, d, c, 2 * F, 2 * (2 * F), "bicubic")) > 0
<1>1. PICK m \in Nat, reach \in Nat : m = 2 * F /\ reach = 2 * m
  OBVIOUS
<1> DEFINE Weight(i) == KernelWeight(Away(i, d, c), m, "bicubic")
           Tap(i) == <<i, Weight(i)>>
           Mark(i) == <<i, IF Weight(i) < 0 THEN Weight(i) ELSE 0>>
           T == TapsIn(low, high, d, c, m, reach, "bicubic")
<1>2. \A i \in Int : Weight(i) \in Int /\ Away(i, d, c) \in Nat
  BY AwayNumber, KernelNumber
<1>3. IsFiniteSet(T) /\ \A t \in T : \E i \in low..high :
        t = Tap(i) /\ Weight(i) # 0 /\ Away(i, d, c) <= reach
  BY TapsNumber
<1>4. \A i \in low..high : Weight(i) # 0 /\ Away(i, d, c) <= reach => Tap(i) \in T
  <2> HIDE DEF Weight
  <2> QED BY DEF TapsIn, Weight
<1> HIDE DEF Weight, T
<1>5. \A t \in T : t[2] \in Int
  <2>1. \A i \in low..high : Tap(i)[2] = Weight(i)
    OBVIOUS
  <2> HIDE DEF Tap
  <2> QED BY <1>2, <1>3, <2>1
<1>6. PICK f : /\ WeightSum(T) = f[T] /\ f[{}] = 0
               /\ \A s \in SUBSET T : f[s] \in Int /\ \A t \in s : f[s] = t[2] + f[s \ {t}]
  <2>1. \E f : WeightSum(T) = f[T] /\ Additive(f, T)
    <3>1. IsFiniteSet(T)
      BY <1>3
    <3> QED BY <1>5, <3>1, SumSplits
  <2> QED BY <2>1 DEF Additive
<1>7. PICK k \in Nat : k * d >= m /\ k * d < m + d
  <2>1. PICK n \in Nat : n = m + d - 1
    OBVIOUS
  <2>2. PICK k \in Nat, t \in 0..d - 1 : n = d * k + t
    <3>1. \E k \in Nat, t \in 0..d - 1 : k = n \div d /\ n = d * k + t
      BY Divides
    <3> QED BY <3>1
  <2>3. PICK e \in Int : e = d * k /\ e = k * d
    OBVIOUS
  <2>4. e >= m /\ e < m + d
    BY <2>1, <2>2, <2>3
  <2> QED BY <2>3, <2>4
<1>8. PICK top \in Int : top = k * d
  OBVIOUS
<1>9. PICK a \in Int : \A i \in Int : d * i - c > m /\ d * i - c < top => i = a
  BY <1>7, <1>8, OneCrosses
<1>10. PICK b \in Int : \A i \in Int : c - d * i > m /\ c - d * i < top => i = b
  <2>1. PICK o \in Int : o = -c
    OBVIOUS
  <2>2. PICK b \in Int : \A i \in Int : d * i - o > m /\ d * i - o < top => i = b
    BY <1>7, <1>8, OneCrosses
  <2>3. ASSUME NEW i \in Int, c - d * i > m /\ c - d * i < top PROVE i = -b
    <3>1. d * (-i) - o = c - d * i
      BY <2>1
    <3>2. -i \in Int
      OBVIOUS
    <3>3. -i = b
      BY <2>2, <2>3, <3>1, <3>2
    <3> QED BY <3>3
  <2>4. -b \in Int
    OBVIOUS
  <2> QED BY <2>3, <2>4
<1>11. PICK h \in Nat : h = Cubed(F) /\ h > 0
  <2>1. F * F > 0 /\ F * F \in Nat
    BY ProductsNat
  <2>2. PICK z \in Nat : z = F * F /\ z > 0
    BY <2>1
  <2>3. F * z > 0 /\ F * z \in Nat
    BY <2>2, ProductsNat
  <2> QED BY <2>2, <2>3 DEF Cubed
<1>12. \A i \in Int : Weight(i) < 0 => Weight(i) >= -(2 * h)
  BY <1>1, <1>2, <1>11, CubicLeast DEF Weight
<1>13. Weight(q) >= 9 * h /\ Tap(q) \in T /\ q \in Int
  <2>1. PICK n \in 0..F : n = Away(q, d, c)
    BY <1>2
  <2>2. Weight(q) >= 9 * h
    BY <1>1, <1>11, <2>1, CubicNear DEF Weight
  <2>3. Weight(q) # 0 /\ Away(q, d, c) <= reach
    <3>1. Weight(q) \in Int
      BY <1>2
    <3> QED BY <1>1, <1>11, <2>1, <2>2, <3>1
  <2> QED BY <1>4, <2>2, <2>3
<1>14. PICK y1, y2, y3, y4 : y1 = Mark(a) /\ y2 = Mark(b) /\ y3 = Mark(q + k) /\ y4 = Mark(q - k)
  OBVIOUS
<1>15. \A i \in Int : Mark(i) \in T => Mark(i)[2] < 0 /\ Mark(i)[2] >= -(2 * h)
  <2> SUFFICES ASSUME NEW i \in Int, Mark(i) \in T
               PROVE  Mark(i)[2] < 0 /\ Mark(i)[2] >= -(2 * h)
    OBVIOUS
  <2>1. PICK j \in low..high : Mark(i) = Tap(j) /\ Weight(j) # 0
    BY <1>3
  <2>2. Mark(i)[1] = i /\ Tap(j)[1] = j /\ Tap(j)[2] = Weight(j)
    OBVIOUS
  <2>3. i = j /\ Mark(i)[2] = Weight(i) /\ Weight(i) # 0
    <3> HIDE DEF Mark, Tap
    <3> QED BY <2>1, <2>2
  <2>4. Mark(i)[2] = IF Weight(i) < 0 THEN Weight(i) ELSE 0
    OBVIOUS
  <2>5. Weight(i) < 0
    <3> HIDE DEF Mark
    <3> QED BY <2>3, <2>4
  <2> HIDE DEF Mark
  <2> QED BY <1>12, <2>3, <2>5
<1>16. \A i \in Int : Weight(i) < 0 => Mark(i) = Tap(i)
  OBVIOUS
<1>17. \A i \in Int : Tap(i)[1] = i /\ Tap(i)[2] = Weight(i)
  OBVIOUS
<1> HIDE DEF Mark, Tap
<1>18. \A y \in {y1, y2, y3, y4} : y \in T => y[2] < 0 /\ y[2] >= -(2 * h)
  <2>1. q + k \in Int /\ q - k \in Int
    BY <1>13
  <2> QED BY <1>14, <1>15, <2>1
<1> DEFINE R0 == T \ {Tap(q)}
           R1 == R0 \ {y1}
           R2 == R1 \ {y2}
           R3 == R2 \ {y3}
           R4 == R3 \ {y4}
<1>19. f[T] = Weight(q) + f[R0]
  BY <1>6, <1>13, <1>17
<1>20. \A t \in R4 : t \in T /\ t # Tap(q) /\ t # y1 /\ t # y2 /\ t # y3 /\ t # y4
  OBVIOUS
<1>21. \A t \in T : t # Tap(q) /\ t # y1 /\ t # y2 /\ t # y3 /\ t # y4 => t \in R4
  OBVIOUS
<1>22. R0 \in SUBSET T /\ R1 \in SUBSET T /\ R2 \in SUBSET T /\ R3 \in SUBSET T /\ R4 \in SUBSET T
  OBVIOUS
<1>23. f[R0] >= f[R1] - 2 * h /\ f[R1] >= f[R2] - 2 * h
       /\ f[R2] >= f[R3] - 2 * h /\ f[R3] >= f[R4] - 2 * h
  <2>1. PICK e \in Nat : e = 2 * h
    OBVIOUS
  <2>2. \A y \in {y1, y2, y3, y4} : y \in T => y[2] >= -e
    BY <1>18, <2>1
  <2>3. \A s \in SUBSET T : \A y \in {y1, y2, y3, y4} : f[s] >= f[s \ {y}] - e
    BY <1>5, <1>6, <2>2, SumWithout
  <2> HIDE DEF R0
  <2>4. f[R0] >= f[R1] - e
    BY <1>22, <2>3
  <2> HIDE DEF R1
  <2>5. f[R1] >= f[R2] - e
    BY <1>22, <2>3
  <2> HIDE DEF R2
  <2>6. f[R2] >= f[R3] - e
    BY <1>22, <2>3
  <2> HIDE DEF R3
  <2>7. f[R3] >= f[R4] - e
    BY <1>22, <2>3
  <2> QED BY <2>1, <2>4, <2>5, <2>6, <2>7
<1> HIDE DEF R0, R1, R2, R3, R4
<1> DEFINE g == [t \in T |-> IF d * t[1] > c THEN Tap(t[1] - k) ELSE Tap(t[1] + k)]
<1>24. ASSUME NEW t \in R4, t[2] < 0
       PROVE  \E i \in low..high : \E j \in low..high :
                /\ t = Tap(i) /\ j # q /\ Tap(j) \in T /\ Weight(j) > 0 /\ Weight(j) + Weight(i) >= 0
                /\ \/ d * i > c /\ j = i - k /\ j > q
                   \/ ~(d * i > c) /\ j = i + k /\ j < q
  <2>1. PICK i \in low..high : t = Tap(i)
    BY <1>3, <1>20
  <2>2. Weight(i) < 0 /\ i \in Int /\ Mark(i) = t
    <3>1. i \in Int
      OBVIOUS
    <3>2. Weight(i) < 0
      BY <1>17, <1>24, <2>1, <3>1
    <3> QED BY <1>16, <2>1, <3>1, <3>2
  <2>3. Away(i, d, c) > m
    <3>1. PICK n \in Nat : n = Away(i, d, c)
      BY <1>2, <2>2
    <3>2. KernelWeight(n, m, "bicubic") < 0
      BY <2>2, <3>1 DEF Weight
    <3>3. PICK u \in Nat, v \in Nat :
            /\ u > 0 /\ v > 0 /\ m = u + v /\ n = m + u
            /\ KernelWeight(n, m, "bicubic") = -(u * (v * v))
      BY <3>2, CubicBetween
    <3>4. n > m
      BY <3>3
    <3> QED BY <3>1, <3>4
  <2>4. i # a /\ i # b /\ i # q + k /\ i # q - k
    BY <1>14, <1>20, <2>2
  <2>5. CASE d * i > c
    <3>1. PICK e \in Int : e = d * i - c
      OBVIOUS
    <3>2. e > m
      BY <2>3, <2>5, <3>1 DEF Away
    <3>3. ~(e < top)
      BY <1>9, <2>2, <2>4, <3>1, <3>2
    <3>4. d * i - c >= k * d
      BY <1>8, <3>1, <3>3
    <3>5. KernelWeight(Away(i, d, c), m, "bicubic") < 0
      BY <2>2 DEF Weight
    <3>6. PICK j \in Int : j = i - k
      BY <2>2
    <3>7. /\ j > q /\ j <= i /\ Away(j, d, c) < m
          /\ KernelWeight(Away(j, d, c), m, "bicubic") > 0
          /\ KernelWeight(Away(j, d, c), m, "bicubic")
               + KernelWeight(Away(i, d, c), m, "bicubic") >= 0
      BY <1>7, <1>13, <2>2, <2>4, <2>5, <3>4, <3>5, <3>6, Partner
    <3>8. Weight(j) > 0 /\ Weight(j) + Weight(i) >= 0
      BY <3>7 DEF Weight
    <3>9. j \in low..high
      BY <3>7
    <3>10. Weight(j) # 0 /\ Away(j, d, c) <= reach
      <4>1. Weight(j) \in Int /\ Away(j, d, c) \in Nat
        BY <1>2
      <4> QED BY <1>1, <3>7, <3>8, <4>1
    <3>11. Tap(j) \in T /\ j # q
      BY <1>4, <3>7, <3>9, <3>10
    <3> QED BY <2>1, <2>5, <3>6, <3>7, <3>8, <3>9, <3>11
  <2>6. CASE ~(d * i > c)
    <3>1. PICK e \in Int : e = c - d * i
      OBVIOUS
    <3>2. e > m
      BY <2>3, <2>6, <3>1 DEF Away
    <3>3. ~(e < top)
      BY <1>10, <2>2, <2>4, <3>1, <3>2
    <3>4. PICK x \in Int, o \in Int, p \in Int : x = -i /\ o = -c /\ p = -q
      OBVIOUS
    <3>5. d * x - o = e /\ d * p - o = c - d * q /\ o - d * p = d * q - c
      BY <3>1, <3>4
    <3>6. d * x > o /\ d * x - o >= k * d
      <4>1. d * x = e + o
        BY <3>5
      <4>2. e > 0
        BY <3>2
      <4> QED BY <1>8, <3>3, <3>5, <4>1, <4>2
    <3>7. d * p - o < d /\ o - d * p < d
      BY <3>5
    <3>8. x # p + k
      BY <2>4, <3>4
    <3>9. PICK j \in Int : j = i + k /\ x - k = -j
      BY <3>4
    <3>10. /\ Away(x, d, o) = Away(i, d, c)
           /\ Away(x - k, d, o) = Away(j, d, c)
      BY <2>2, <3>4, <3>9, AwayNumber
    <3>11. KernelWeight(Away(x, d, o), m, "bicubic") < 0
      BY <2>2, <3>10 DEF Weight
    <3>12. /\ x - k > p /\ x - k <= x
           /\ Away(x - k, d, o) < m
           /\ KernelWeight(Away(x - k, d, o), m, "bicubic") > 0
           /\ KernelWeight(Away(x - k, d, o), m, "bicubic")
                + KernelWeight(Away(x, d, o), m, "bicubic") >= 0
      BY <1>7, <3>6, <3>7, <3>8, <3>11, Partner
    <3>13. Weight(j) > 0 /\ Weight(j) + Weight(i) >= 0 /\ Away(j, d, c) < m
      BY <3>10, <3>12 DEF Weight
    <3>14. j < q /\ j >= i
      BY <3>4, <3>9, <3>12
    <3>15. j \in low..high
      BY <3>14
    <3>16. Weight(j) # 0 /\ Away(j, d, c) <= reach
      <4>1. Weight(j) \in Int /\ Away(j, d, c) \in Nat
        BY <1>2
      <4> QED BY <1>1, <3>13, <4>1
    <3>17. Tap(j) \in T /\ j # q
      BY <1>4, <3>14, <3>15, <3>16
    <3> QED BY <2>1, <2>6, <3>9, <3>13, <3>14, <3>15, <3>17
  <2> QED BY <2>5, <2>6
<1>25. f[R4] >= 0
  <2>1. ASSUME NEW t \in R4, t[2] < 0 PROVE g[t] \in R4 /\ g[t][2] + t[2] >= 0
    <3>1. PICK i \in low..high, j \in low..high :
            /\ t = Tap(i) /\ j # q /\ Tap(j) \in T /\ Weight(j) > 0 /\ Weight(j) + Weight(i) >= 0
            /\ \/ d * i > c /\ j = i - k
               \/ ~(d * i > c) /\ j = i + k
      BY <1>24, <2>1
    <3>2. i \in Int /\ j \in Int
      OBVIOUS
    <3>3. t[1] = i /\ t[2] = Weight(i) /\ Tap(j)[1] = j /\ Tap(j)[2] = Weight(j) /\ Tap(q)[1] = q
      BY <1>13, <1>17, <3>1, <3>2
    <3>4. g[t] = Tap(j)
      BY <1>20, <3>1, <3>3
    <3>5. ~(Tap(j)[2] < 0)
      BY <1>2, <3>1, <3>2, <3>3
    <3>6. Tap(j) \in R4
      BY <1>18, <1>21, <3>1, <3>3, <3>5
    <3> QED BY <3>1, <3>3, <3>4, <3>6
  <2>2. ASSUME NEW t \in R4, NEW u \in R4, t[2] < 0, u[2] < 0, g[t] = g[u] PROVE t = u
    <3>1. PICK i \in low..high, j \in low..high :
            /\ t = Tap(i)
            /\ \/ d * i > c /\ j = i - k /\ j > q
               \/ ~(d * i > c) /\ j = i + k /\ j < q
      BY <1>24, <2>2
    <3>2. PICK x \in low..high, y \in low..high :
            /\ u = Tap(x)
            /\ \/ d * x > c /\ y = x - k /\ y > q
               \/ ~(d * x > c) /\ y = x + k /\ y < q
      BY <1>24, <2>2
    <3>3. i \in Int /\ j \in Int /\ x \in Int /\ y \in Int
      OBVIOUS
    <3>4. t[1] = i /\ u[1] = x /\ Tap(j)[1] = j /\ Tap(y)[1] = y
      BY <1>17, <3>1, <3>2, <3>3
    <3>5. g[t] = Tap(j) /\ g[u] = Tap(y)
      BY <1>20, <3>1, <3>2, <3>4
    <3> HIDE DEF g
    <3>6. j = y
      BY <2>2, <3>4, <3>5
    <3>7. i = x
      BY <3>1, <3>2, <3>3, <3>6
    <3> QED BY <3>1, <3>2, <3>7
  <2> HIDE DEF g
  <2>3. IsFiniteSet(R4)
    BY <1>3, <1>22, FS_Subset
  <2>4. \A t \in R4 : t[2] \in Int
    BY <1>5, <1>20
  <2>5. \A s \in SUBSET R4 : f[s] \in Int /\ \A t \in s : f[s] = t[2] + f[s \ {t}]
    <3>1. \A s \in SUBSET R4 : s \in SUBSET T
      BY <1>22
    <3> QED BY <1>6, <3>1
  <2>6. \A t \in R4 : t[2] < 0 => g[t] \in R4 /\ g[t][2] + t[2] >= 0
    BY <2>1
  <2>7. \A t, u \in R4 : t[2] < 0 /\ u[2] < 0 /\ g[t] = g[u] => t = u
    BY <2>2
  <2>8. f[{}] = 0
    BY <1>6
  <2> QED BY <2>3, <2>4, <2>5, <2>6, <2>7, <2>8, PairedSum, Zenon
<1>26. f[T] > 0
  <2>1. PICK v0 \in Int, v1 \in Int, v2 \in Int, v3 \in Int, v4 \in Int :
          v0 = f[R0] /\ v1 = f[R1] /\ v2 = f[R2] /\ v3 = f[R3] /\ v4 = f[R4]
    BY <1>6, <1>22
  <2>2. PICK w \in Int : w = Weight(q) /\ w >= 9 * h
    BY <1>2, <1>13
  <2>3. f[T] = w + v0
    BY <1>19, <2>1, <2>2
  <2>4. v0 >= v1 - 2 * h /\ v1 >= v2 - 2 * h /\ v2 >= v3 - 2 * h /\ v3 >= v4 - 2 * h /\ v4 >= 0
    BY <1>23, <1>25, <2>1
  <2>5. w + v0 > 0
    BY <1>11, <2>2, <2>4
  <2> QED BY <2>3, <2>5
<1> QED BY <1>1, <1>6, <1>26 DEF T

(* No weight of another kernel is negative within its reach. *)
LEMMA OtherSum ==
  ASSUME NEW low \in Int, NEW high \in Int, NEW d \in Nat, NEW c \in Int,
         NEW m \in Nat, m > 0, NEW kind, NEW q \in low..high, Away(q, d, c) < m
  PROVE  WeightSum(TapsIn(low, high, d, c, m, m, kind)) > 0
<1> DEFINE Weight(i) == KernelWeight(Away(i, d, c), m, kind)
           Tap(i) == <<i, Weight(i)>>
           T == TapsIn(low, high, d, c, m, m, kind)
<1>1. \A i \in Int : Weight(i) \in Int /\ Away(i, d, c) \in Nat
  BY AwayNumber, KernelNumber
<1>2. IsFiniteSet(T) /\ \A t \in T : \E i \in low..high :
        t = Tap(i) /\ Weight(i) # 0 /\ Away(i, d, c) <= m
  BY TapsNumber
<1>3. Weight(q) > 0
  <2>1. q \in Int
    OBVIOUS
  <2>2. PICK n \in Nat : n = Away(q, d, c) /\ n < m
    BY <1>1, <2>1
  <2>3. KernelWeight(n, m, kind) > 0
    BY <2>2, KernelPositive
  <2> QED BY <2>2, <2>3
<1>4. Tap(q) \in T
  <2>1. Weight(q) # 0 /\ Away(q, d, c) <= m
    <3>1. q \in Int
      OBVIOUS
    <3>2. Weight(q) \in Int /\ Away(q, d, c) \in Nat
      BY <1>1, <3>1
    <3> HIDE DEF Weight
    <3> QED BY <1>3, <3>2
  <2> HIDE DEF Weight
  <2> QED BY <2>1 DEF TapsIn, Weight
<1>5. \A i \in Int : Away(i, d, c) <= m => Weight(i) >= 0
  <2> SUFFICES ASSUME NEW i \in Int, Away(i, d, c) <= m PROVE Weight(i) >= 0
    OBVIOUS
  <2>1. PICK n \in Nat : n = Away(i, d, c) /\ n <= m
    BY <1>1
  <2>2. CASE n < m
    <3>1. KernelWeight(n, m, kind) > 0
      BY <2>2, KernelPositive
    <3>2. Weight(i) \in Int
      BY <1>1
    <3> QED BY <2>1, <3>1, <3>2
  <2>3. CASE n = m
    <3>1. KernelWeight(m, m, kind) = 0
      <4>1. CASE kind = "bilinear"
        <5>1. Max({0, 0}) = 0
          BY MaxOfTwo
        <5>2. m - m = 0
          OBVIOUS
        <5> QED BY <4>1, <5>1, <5>2 DEF KernelWeight
      <4>2. CASE kind # "bilinear"
        <5>1. ~(m < m) /\ m < 2 * m /\ m - m = 0
          OBVIOUS
        <5>2. KernelWeight(m, m, kind) = -(m - m) * (m - 2 * m) * (m - 2 * m)
          BY <4>2, <5>1 DEF KernelWeight
        <5>3. -(m - m) * (m - 2 * m) * (m - 2 * m) = 0
          OBVIOUS
        <5> QED BY <5>2, <5>3
      <4> QED BY <4>1, <4>2
    <3>2. Weight(i) = 0
      BY <2>1, <2>3, <3>1
    <3> HIDE DEF Weight
    <3> QED BY <3>2
  <2> QED BY <2>1, <2>2, <2>3
<1> HIDE DEF Weight, T
<1>6. \A i \in Int : Tap(i)[2] = Weight(i)
  OBVIOUS
<1> HIDE DEF Tap
<1>7. \A t \in T : t[2] \in Int /\ ~(t[2] < 0)
  <2> SUFFICES ASSUME NEW t \in T PROVE t[2] \in Int /\ ~(t[2] < 0)
    OBVIOUS
  <2>1. PICK i \in low..high : t = Tap(i) /\ Away(i, d, c) <= m
    BY <1>2
  <2>2. i \in Int
    OBVIOUS
  <2>3. t[2] = Weight(i) /\ Weight(i) \in Int /\ Weight(i) >= 0
    BY <1>1, <1>5, <1>6, <2>1, <2>2
  <2> QED BY <2>3
<1>8. PICK f : /\ WeightSum(T) = f[T] /\ f[{}] = 0
               /\ \A s \in SUBSET T : f[s] \in Int /\ \A t \in s : f[s] = t[2] + f[s \ {t}]
  <2>1. \E f : WeightSum(T) = f[T] /\ Additive(f, T)
    <3>1. IsFiniteSet(T)
      BY <1>2
    <3>2. \A t \in T : t[2] \in Int
      BY <1>7
    <3> QED BY <3>1, <3>2, SumSplits
  <2> QED BY <2>1 DEF Additive
<1>9. PICK R \in SUBSET T : R = T \ {Tap(q)}
  OBVIOUS
<1>10. f[R] >= 0
  <2> DEFINE g == [t \in T |-> t]
  <2>1. IsFiniteSet(R)
    BY <1>2, FS_Subset
  <2>2. \A t \in R : t[2] \in Int
    BY <1>7
  <2>3. \A s \in SUBSET R : f[s] \in Int /\ \A t \in s : f[s] = t[2] + f[s \ {t}]
    <3>1. \A s \in SUBSET R : s \in SUBSET T
      OBVIOUS
    <3> QED BY <1>8, <3>1
  <2>4. \A t \in R : t[2] < 0 => g[t] \in R /\ g[t][2] + t[2] >= 0
    BY <1>7
  <2>5. \A t, u \in R : t[2] < 0 /\ u[2] < 0 /\ g[t] = g[u] => t = u
    BY <1>7
  <2>6. f[{}] = 0
    BY <1>8
  <2> HIDE DEF g
  <2> QED BY <2>1, <2>2, <2>3, <2>4, <2>5, <2>6, PairedSum, Zenon
<1>11. PICK w \in Int, v \in Int : w = Weight(q) /\ v = f[R] /\ f[T] = w + v
  <2>1. q \in Int
    OBVIOUS
  <2>2. Weight(q) \in Int /\ Tap(q)[2] = Weight(q)
    BY <1>1, <1>6, <2>1
  <2>3. f[R] \in Int
    BY <1>8
  <2>4. T \in SUBSET T
    OBVIOUS
  <2>5. f[T] = Tap(q)[2] + f[R]
    BY <1>4, <1>8, <1>9, <2>4
  <2> QED BY <2>2, <2>3, <2>5
<1>12. f[T] > 0
  BY <1>3, <1>10, <1>11
<1> QED BY <1>8, <1>12 DEF T

(* A window of an image with pixels is not empty. *)
LEMMA SampleExists ==
  ASSUME NEW s \in Nat, NEW r \in Nat, NEW p \in 0..r - 1, s > 0, WindowFits(s, r),
         NEW view, NEW boundary
  PROVE  AxisSample(p, s, r, view, boundary) # {}
<1>1. CASE view.interpolation = "nearest"
  BY <1>1 DEF AxisSample
<1>2. CASE view.interpolation # "nearest"
  <2>1. PICK q \in 0..s - 1, k \in 0..2 * r - 1 : (2 * p + 1) * s = 2 * r * q + k
    BY NearestBound
  <2>2. PICK c \in Int : c = Center(p, s, r) /\ c = 2 * r * q + k - r
    <3>1. (2 * p + 1) * s - r = 2 * r * q + k - r
      BY <2>1
    <3>2. 2 * r * q + k - r \in Int
      OBVIOUS
    <3> QED BY <3>1, <3>2 DEF Center
  <2>3. PICK d \in Nat : d = 2 * r /\ d > 0
    OBVIOUS
  <2>4. PICK e \in Int : e = d * q /\ c = e + k - r
    BY <2>2, <2>3
  <2>5. d * q - c < d /\ c - d * q < d
    BY <2>3, <2>4
  <2>6. PICK F \in Nat : F = FilterScale(s, r, view.antialias) /\ F >= r /\ F > 0
    <3>1. Max({r, s}) = IF r >= s THEN r ELSE s
      BY MaxOfTwo
    <3>2. r > 0
      OBVIOUS
    <3> QED BY <3>1, <3>2 DEF FilterScale
  <2>7. Away(q, d, c) <= r /\ Away(q, d, c) \in Nat
    BY <2>3, <2>4 DEF Away
  <2>8. PICK reach : reach = (IF view.interpolation = "bicubic" THEN 2 ELSE 1) * (2 * F)
    OBVIOUS
  <2> DEFINE Weight(i) == KernelWeight(Away(i, d, c), 2 * F, view.interpolation)
  <2>9. PICK first \in Int, last \in Int :
          /\ \A j \in Int : j \in first..last <=> Away(j, d, c) <= reach
          /\ Taps(p, s, r, view, boundary)
               = {<<i, Weight(i)>> : i \in {j \in first..last :
                    Weight(j) # 0 /\ (boundary = "truncate" => j \in 0..s - 1)}}
    <3>1. Reach(s, r, view) = reach
      BY <2>6, <2>8 DEF Reach
    <3>2. PICK first \in Int, last \in Int :
            /\ \A j \in Int : j \in first..last <=> Away(j, d, c) <= Reach(s, r, view)
            /\ Taps(p, s, r, view, boundary)
                 = TapsFrom(first, last, d, c, F, s, view, boundary)
      <4>1. d = 2 * r /\ c = Center(p, s, r) /\ F = FilterScale(s, r, view.antialias)
        BY <2>2, <2>3, <2>6
      <4> QED BY <4>1, WindowOf
    <3>3. TapsFrom(first, last, d, c, F, s, view, boundary)
            = {<<i, Weight(i)>> : i \in {j \in first..last :
                 Weight(j) # 0 /\ (boundary = "truncate" => j \in 0..s - 1)}}
      BY DEF TapsFrom
    <3> HIDE DEF Weight
    <3> QED BY <3>1, <3>2, <3>3
  <2>10. PICK low \in Int, high \in Int :
           /\ q \in low..high
           /\ \A j : j \in low..high
                <=> j \in first..last /\ (boundary = "truncate" => j \in 0..s - 1)
    <3>1. q \in first..last /\ q \in 0..s - 1
      <4>1. Away(q, d, c) <= reach
        <5>1. reach = 2 * (2 * F) \/ reach = 1 * (2 * F)
          BY <2>8
        <5> QED BY <2>6, <2>7, <5>1
      <4> QED BY <2>9, <4>1
    <3>2. CASE boundary # "truncate"
      BY <3>1, <3>2
    <3>3. CASE boundary = "truncate"
      <4> DEFINE l == IF first > 0 THEN first ELSE 0
                 h == IF last < s - 1 THEN last ELSE s - 1
      <4>1. l \in Int /\ h \in Int
        OBVIOUS
      <4>2. \A j : j \in l..h <=> j \in first..last /\ j \in 0..s - 1
        OBVIOUS
      <4> HIDE DEF l, h
      <4> QED BY <3>1, <3>3, <4>1, <4>2
    <3> QED BY <3>2, <3>3
  <2> DEFINE Taken == TapsIn(low, high, d, c, 2 * F, reach, view.interpolation)
  <2>11. Taps(p, s, r, view, boundary) = Taken
    <3>1. Taken = {<<i, Weight(i)>> : i \in {j \in low..high :
                     Away(j, d, c) <= reach /\ Weight(j) # 0}}
      BY DEF TapsIn
    <3> HIDE DEF Weight, Taken
    <3>2. \A j \in low..high : j \in Int
      OBVIOUS
    <3>3. {j \in first..last : Weight(j) # 0 /\ (boundary = "truncate" => j \in 0..s - 1)}
            = {j \in low..high : Away(j, d, c) <= reach /\ Weight(j) # 0}
      BY <2>9, <2>10, <3>2
    <3> QED BY <2>9, <3>1, <3>3
  <2> HIDE DEF Weight
  <2>12. WeightSum(Taken) > 0
    <3>1. CASE view.interpolation = "bicubic"
      <4>1. Away(q, d, c) <= F
        BY <2>6, <2>7
      <4>2. reach = 2 * (2 * F)
        BY <2>8, <3>1
      <4> QED BY <2>3, <2>5, <2>6, <2>10, <3>1, <4>1, <4>2, CubicSum
    <3>2. CASE view.interpolation # "bicubic"
      <4>1. PICK m \in Nat : m = 2 * F /\ m > 0 /\ Away(q, d, c) < m /\ reach = m
        BY <2>6, <2>7, <2>8, <3>2
      <4> QED BY <2>3, <2>10, <4>1, OtherSum
    <3> QED BY <3>1, <3>2
  <2>13. Taken # {}
    <3>1. SUFFICES ASSUME Taken = {} PROVE FALSE
      OBVIOUS
    <3>2. IsFiniteSet({}) /\ \A x \in {} : x[2] \in Int
      BY FS_EmptySet
    <3>3. WeightSum({}) = 0
      <4>1. PICK f : WeightSum({}) = f[{}] /\ Additive(f, {})
        BY <3>2, SumSplits
      <4> QED BY <4>1 DEF Additive
    <3> QED BY <2>12, <3>1, <3>3
  <2> HIDE DEF Taken
  <2>14. MapThenSumSet(LAMBDA t : t[2], Taken) # 0
    <3>1. WeightSum(Taken) # 0
      <4>1. ~(0 > 0)
        OBVIOUS
      <4> QED BY <2>12, <4>1
    <3> QED BY <3>1 DEF WeightSum
  <2>15. AxisSample(p, s, r, view, boundary) = {Clamped(tap[1], s) : tap \in Taken}
    BY <1>2, <2>11, <2>14 DEF AxisSample
  <2>16. PICK tap \in Taken : TRUE
    BY <2>13
  <2> QED BY <2>15, <2>16
<1> QED BY <1>1, <1>2

-----------------------------------------------------------------------------
(* The views of an accepted model and the images of a request. *)
(* Every view has a rectangle on the canvas, and one of its size. *)
LEMMA ViewsArePlaced ==
  ASSUME NEW spec, SpecTyped(spec), ValidViews(spec.views),
         ValidComposition(spec.composition, spec.views), spec.composition.kind = "canvas",
         NEW v \in DOMAIN spec.views
  PROVE  \E i \in DOMAIN spec.composition.placements :
           spec.composition.placements[i].role = spec.views[v].role
<1> DEFINE placed == spec.composition.placements
           views == spec.views
<1>1. PICK n \in Nat : n = Len(views) /\ DOMAIN views = 1..n /\ DOMAIN placed = 1..n
  BY DEF SpecTyped, CanvasTyped, ValidComposition
<1>2. \A i \in 1..n : \E u \in 1..n : views[u].role = placed[i].role
  BY <1>1 DEF ValidComposition, SizeOfView
<1>3. \A i, j \in 1..n : placed[i].role = placed[j].role => i = j
  BY <1>1 DEF ValidComposition, Distinct
<1> HIDE DEF placed, views
<1> DEFINE f == [i \in 1..n |-> CHOOSE u \in 1..n : views[u].role = placed[i].role]
<1>4. \A i \in 1..n : f[i] \in 1..n /\ views[f[i]].role = placed[i].role
  BY <1>2
<1>5. f \in Injection(1..n, 1..n)
  <2>1. f \in [1..n -> 1..n]
    BY <1>4
  <2>2. \A i, j \in 1..n : f[i] = f[j] => i = j
    BY <1>3, <1>4
  <2> HIDE DEF f
  <2> QED BY <2>1, <2>2 DEF Injection, IsInjective
<1> HIDE DEF f
<1>6. f \in Surjection(1..n, 1..n)
  <2>1. IsFiniteSet(1..n)
    BY FS_Interval
  <2> QED BY <1>5, <2>1, FS_Injection
<1>7. PICK i \in 1..n : f[i] = v
  BY <1>1, <1>6 DEF Surjection, views
<1> QED BY <1>1, <1>4, <1>7 DEF placed, views

LEMMA FramesFit ==
  ASSUME NEW spec, SpecTyped(spec), ValidViews(spec.views),
         ValidComposition(spec.composition, spec.views), spec.composition.kind = "canvas"
  PROVE  CanCompose([v \in DOMAIN spec.views |-> Frame(spec.views[v], spec.layout)], spec)
<1> DEFINE placed == spec.composition.placements
           views == spec.views
           frames == [v \in DOMAIN views |-> Frame(views[v], spec.layout)]
<1>1. PICK n \in Nat : n = Len(views) /\ DOMAIN views = 1..n
  BY DEF SpecTyped
<1>2. Len(frames) = Len(views)
  <2>1. frames \in Seq({Frame(views[v], spec.layout) : v \in 1..n})
    BY <1>1
  <2>2. DOMAIN frames = 1..n
    BY <1>1
  <2> HIDE DEF frames
  <2> QED BY <1>1, <2>1, <2>2
<1>3. Len(placed) = Len(views)
  BY DEF ValidComposition
<1>4. ASSUME NEW v \in DOMAIN views
      PROVE  /\ \E i \in DOMAIN placed : placed[i].role = views[v].role
             /\ frames[v].width = Placement(spec, views[v].role).width
             /\ frames[v].height = Placement(spec, views[v].role).height
             /\ frames[v].layout = spec.layout
  <2> DEFINE named == {i \in DOMAIN placed : placed[i].role = views[v].role}
  <2>1. named \in SUBSET Nat /\ named # {}
    <3>1. DOMAIN placed = 1..Len(placed) /\ Len(placed) \in Nat
      BY DEF SpecTyped, CanvasTyped
    <3>2. \E i \in DOMAIN placed : placed[i].role = views[v].role
      BY ViewsArePlaced
    <3> QED BY <3>1, <3>2
  <2>2. PICK i \in named : Placement(spec, views[v].role) = placed[i]
    BY <2>1, MinIsMember DEF Placement
  <2>3. PICK u \in DOMAIN views : /\ views[u].role = placed[i].role
                                  /\ views[u].width = placed[i].width
                                  /\ views[u].height = placed[i].height
    BY DEF ValidComposition, SizeOfView
  <2>4. u = v
    BY <2>2, <2>3 DEF ValidViews, Distinct
  <2> QED BY <2>1, <2>2, <2>3, <2>4 DEF Frame
<1> HIDE DEF frames
<1> QED BY <1>2, <1>3, <1>4 DEF CanCompose, frames

(* An image with pixels can be resized and cut to an accepted view. *)
LEMMA ImageTransforms ==
  ASSUME NEW image, ValidRgbImage(image), ImageTyped(image), NEW view, ViewTyped(view),
         view.width > 0, view.height > 0, NEW spec, NEW legacy,
         view.resize = "none" => image.width = view.width /\ image.height = view.height,
         Resizable(image, view, legacy)
  PROVE  CanTransform(image, view, spec, legacy)
<1> DEFINE resized == ResizedSize(image, view, legacy)
<1>1. PICK a \in Nat, b \in Nat : a = image.width /\ b = image.height /\ a > 0 /\ b > 0
  BY RgbSize
<1>2. PICK w \in Nat, h \in Nat : w = view.width /\ h = view.height /\ w > 0 /\ h > 0
  BY DEF ViewTyped
<1>3. PICK r \in Nat, q \in Nat :
        /\ FullSize(image, view, legacy).width = r
        /\ FullSize(image, view, legacy).height = q
        /\ resized = [width |-> r, height |-> q]
        /\ Crop([width |-> r, height |-> q], view)
             = [x |-> (r - view.width) \div 2, y |-> (q - view.height) \div 2]
        /\ view.width <= r /\ view.height <= q
        /\ WindowFits(image.width, r) /\ WindowFits(image.height, q)
  <2>1. /\ image.width \in Nat /\ image.height \in Nat
        /\ image.width > 0 /\ image.height > 0
    BY <1>1
  <2> QED BY <2>1, ResizedFits
<1>4. w <= r /\ h <= q /\ WindowFits(a, r) /\ WindowFits(b, q)
  BY <1>1, <1>2, <1>3
<1>5. PICK left \in Nat, top \in Nat : left = (r - w) \div 2 /\ top = (q - h) \div 2
  <2>1. \A n \in Nat : n \div 2 \in Nat
    OBVIOUS
  <2> QED BY <1>4, <2>1
<1>6. Crop(resized, view) = [x |-> left, y |-> top]
  BY <1>2, <1>3, <1>5
<1>7. \A x \in 0..w - 1 : AxisSample(x + left, a, r, view, spec.boundary) # {}
  <2> SUFFICES ASSUME NEW x \in 0..w - 1
               PROVE  AxisSample(x + left, a, r, view, spec.boundary) # {}
    OBVIOUS
  <2>1. PICK p \in 0..r - 1 : p = x + left
    BY <1>4, <1>5, CutInside
  <2> QED BY <1>1, <1>4, <2>1, SampleExists
<1>8. \A y \in 0..h - 1 : AxisSample(y + top, b, q, view, spec.boundary) # {}
  <2> SUFFICES ASSUME NEW y \in 0..h - 1
               PROVE  AxisSample(y + top, b, q, view, spec.boundary) # {}
    OBVIOUS
  <2>1. PICK p \in 0..q - 1 : p = y + top
    BY <1>4, <1>5, CutInside
  <2> QED BY <1>1, <1>4, <2>1, SampleExists
<1>9. /\ view.width <= MaxInt /\ view.height <= MaxInt
      /\ FullSize(image, view, legacy).width <= MaxU32
      /\ FullSize(image, view, legacy).height <= MaxU32
  BY DEF Resizable
<1>10. resized.width > 0 /\ resized.height > 0
  BY <1>2, <1>3, <1>4
<1>11. /\ \A p \in 0..view.width - 1 :
            {} # AxisSample(p + Crop(resized, view).x, image.width, resized.width,
                            view, spec.boundary)
       /\ \A p \in 0..view.height - 1 :
            {} # AxisSample(p + Crop(resized, view).y, image.height, resized.height,
                            view, spec.boundary)
  <2>1. /\ resized.width = r /\ resized.height = q
        /\ Crop(resized, view).x = left /\ Crop(resized, view).y = top
    BY <1>3, <1>6
  <2> HIDE DEF resized
  <2>2. \A p \in 0..view.width - 1 :
          {} # AxisSample(p + Crop(resized, view).x, image.width, resized.width,
                          view, spec.boundary)
    BY <1>1, <1>2, <1>7, <2>1
  <2>3. \A p \in 0..view.height - 1 :
          {} # AxisSample(p + Crop(resized, view).y, image.height, resized.height,
                          view, spec.boundary)
    BY <1>1, <1>2, <1>8, <2>1
  <2> QED BY <2>2, <2>3
<1> HIDE DEF resized
<1> QED BY <1>9, <1>10, <1>11, Zenon DEF CanTransform, resized

(* The call on record is one of a caller's. *)
AskedRight ==
  call.request # <<>> => \E request \in Requests : call.request = <<request>>

LEMMA AskedInit == Init => AskedRight
BY DEF Init, NoCall, AskedRight

LEMMA AskedStep == AskedRight /\ [Next]_vars => AskedRight'
<1> SUFFICES ASSUME AskedRight, [Next]_vars PROVE AskedRight'
  OBVIOUS
<1>1. ASSUME NEW load \in Loads, Load(load.path, load.config) PROVE AskedRight'
  BY <1>1 DEF Load, AskedRight
<1>2. CASE CreateSession
  BY <1>2 DEF CreateSession, NoCall, AskedRight
<1>3. ASSUME NEW request \in Requests, Predict(request) PROVE AskedRight'
  <2>1. call'.request = <<request>>
    BY <1>3 DEF Predict
  <2> QED BY <2>1 DEF AskedRight
<1>4. CASE Return
  BY <1>4 DEF Return, NoCall, AskedRight
<1>5. CASE Reset
  BY <1>5 DEF Reset, AskedRight
<1>6. CASE UNCHANGED vars
  BY <1>6 DEF vars, AskedRight
<1> QED BY <1>1, <1>2, <1>3, <1>4, <1>5, <1>6 DEF Next

LEMMA ImagesCompose == LoadedRight /\ AskedRight => AcceptedImagesCompose
<1> SUFFICES ASSUME LoadedRight, AskedRight, call.request # <<>>, model.state = "loaded"
             PROVE  AcceptedImagesCompose
  BY DEF AcceptedImagesCompose
<1>1. PICK request \in Requests : call.request = <<request>>
  BY DEF AskedRight
<1> DEFINE spec == model.spec
           views == spec.views
           images == request.images
           order == ImageOrder(images, views)
<1>2. call.request[1].images = images
  BY <1>1
<1>3. /\ SpecTyped(spec) /\ ValidViews(views)
      /\ ValidComposition(spec.composition, views) /\ spec.composition.kind = "canvas"
  BY DEF LoadedRight, ValidPolicySpec, GwpSemantics, WamSemantics
<1>4. CanCompose([v \in DOMAIN views |-> Frame(views[v], spec.layout)], spec)
  BY <1>3, FramesFit
<1>5. ASSUME ValidNamedImages(images, views), NEW v \in DOMAIN views,
             views[v].resize = "none" => /\ images[order[v]].width = views[v].width
                                         /\ images[order[v]].height = views[v].height,
             Resizable(images[order[v]], views[v], model.legacy)
      PROVE  CanTransform(images[order[v]], views[v], spec, model.legacy)
  <2> DEFINE named == {i \in DOMAIN images : images[i].name = views[v].role}
  <2>1. named \in SUBSET Nat
    <3>1. DOMAIN images = 1..Len(images) /\ Len(images) \in Nat
      BY RequestsAssumption
    <3> QED BY <3>1
  <2>2. named # {}
    BY <1>5 DEF ValidNamedImages
  <2>3. PICK i \in DOMAIN images : order[v] = i
    <3>1. Min(named) \in named
      BY <2>1, <2>2, MinIsMember
    <3> QED BY <3>1 DEF ImageOrder
  <2>4. ValidRgbImage(images[i])
    BY <1>5 DEF ValidNamedImages
  <2>5. ImageTyped(images[i])
    BY RequestsAssumption DEF ImageTyped
  <2>6. ViewTyped(views[v]) /\ views[v].width > 0 /\ views[v].height > 0
    BY <1>3 DEF SpecTyped, ValidViews
  <2> QED BY <1>5, <2>3, <2>4, <2>5, <2>6, ImageTransforms
<1> QED BY <1>2, <1>4, <1>5 DEF AcceptedImagesCompose

(* No observation whose images are whole, named after the views and of     *)
(* sizes the code can count (Resizable) is refused for its images: every   *)
(* window has a weight that is not zero, whatever the kernel and the       *)
(* boundary (transform_image_reference in src/policy/image_ops.cpp), and   *)
(* the views fit their rectangles.                                         *)
THEOREM AcceptedImagesAlwaysCompose == Spec => []AcceptedImagesCompose
<1>1. LoadedRight /\ AskedRight => AcceptedImagesCompose
  BY ImagesCompose
<1> QED BY <1>1, LoadedAlways, AskedInit, AskedStep, PTL DEF Spec
=============================================================================
