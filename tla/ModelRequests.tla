--------------------------- MODULE ModelRequests ---------------------------
(***************************************************************************)
(* One model and one session in one process, from the artifact on disk to  *)
(* the decoded actions: Model::load (src/model.cpp) of a file that may be  *)
(* anything Artifact and PolicySpec can describe, Session::predict of      *)
(* GWP-0.5 and of FastWAM (src/models/gwp05/model.cpp, inputs.cpp,         *)
(* pipeline.cpp; src/models/fastwam/model.cpp, inputs.cpp, pipeline.cpp)   *)
(* and Session::reset.  A session's methods run under its mutex, so each   *)
(* is one step.  What the network computes is any answer of Cores; the     *)
(* device work of a load succeeds or fails.  (What a session caches from   *)
(* one call to the next is GwpSession's and FastWam's subject.)            *)
(***************************************************************************)
EXTENDS ModelContract

CONSTANTS
  Loads,        \* what Model::load may be given: path and configuration
  Requests,     \* observations a caller may send
  Cores,        \* answers of the network: rows of normalised actions
  TestValues,   \* integers DecodeInverts tries
  MaxDraws      \* bound: noise vectors drawn since the last seed

(* The numbers of a file are what the format can hold: a value is of the   *)
(* type its key is stored under.                                           *)
Floats == Int \cup {NotFinite}

Typed(entry) ==
  /\ entry.type = "u32" => entry.value \in Nat
  /\ entry.type = "f32" => entry.value \in Floats
  /\ entry.type = "bool" => entry.value \in BOOLEAN
  /\ entry.type = "u32s" => entry.value \in Seq(Nat)
  /\ entry.type = "i32s" => entry.value \in Seq(Int)
  /\ entry.type = "strings" => entry.value \in Seq(STRING)

FileNumbers(file) ==
  /\ file.size \in Nat /\ file.data_offset \in 0..MaxU64
  /\ DOMAIN file.tensors = 1..Len(file.tensors) /\ Len(file.tensors) \in Nat
  /\ \A i \in DOMAIN file.tensors :
       /\ file.tensors[i].offset \in Nat
       /\ Product(file.tensors[i].shape) * ByteWidth[file.tensors[i].type] \in Nat
       /\ file.tensors[i].values \in Seq(Floats)
  /\ \A key \in DOMAIN file.keys : Typed(file.keys[key])
  /\ \A key \in DOMAIN file.model : Typed(file.model[key])
  /\ \A role \in DOMAIN file.views :
       \A key \in DOMAIN file.views[role] : Typed(file.views[role][key])

ASSUME LoadsAssumption ==
  \A load \in Loads :
    /\ ResolveBundle(load.path) = "ok" => FileNumbers(ModelPath(load.path))
    /\ load.config.fixed_prompt # <<>> =>
         /\ load.config.fixed_prompt[1].tokens \in Seq(Int)
         /\ load.config.fixed_prompt[1].mask \in Seq(Int)

ASSUME RequestsAssumption ==
  \A request \in Requests :
    /\ request.state.values \in Seq(Floats)
    /\ DOMAIN request.images = 1..Len(request.images) /\ Len(request.images) \in Nat
    /\ \A i \in DOMAIN request.images :
         /\ request.images[i].width \in Nat /\ request.images[i].height \in Nat
         /\ request.images[i].stride \in Nat
    /\ request.language.kind = "tokens" =>
         request.language.tokens \in Seq(Int) /\ request.language.mask \in Seq(Int)

ASSUME CoresAssumption ==
  \A core \in Cores : \A t \in DOMAIN core : core[t] \in Seq(Floats)

ASSUME TestValuesAssumption == TestValues \subseteq Int

ASSUME DrawsAssumption == MaxDraws \in Nat

VARIABLES
  model,        \* the result of Model::load
  session,      \* does its session exist?
  call,         \* the last call of predict and what became of it
  draws         \* noise vectors the session's generator has produced

vars == <<model, session, call, draws>>

NoModel == [state |-> "none"]
NoCall == [request |-> <<>>, prepared |-> <<>>, outcome |-> [state |-> "none"]]

Init ==
  /\ model = NoModel
  /\ session = FALSE
  /\ call = NoCall
  /\ draws = 0

-----------------------------------------------------------------------------
(* Loading.  A metadata-only load touches no device. *)
DeviceOutcomes(file, config) ==
  IF MetadataOnly(config) THEN {"ok"}
  ELSE {"ok", "resource_exhausted"} \cup
       (IF config.fixed_prompt # <<>> THEN {"inference_failed"} ELSE {})

LoadedModel(file, config) ==
  LET legacy == ~HasPolicySpec(file) IN
    [ state |-> "loaded", file |-> file, architecture |-> Architecture(file),
      legacy |-> legacy, metadata_only |-> MetadataOnly(config),
      spec |-> IF legacy THEN LegacySpec(file) ELSE ReadPolicySpec(file),
      language_mode |-> LanguageMode(file, config),
      fixed_prompt |-> config.fixed_prompt ]

Refused(error) == [state |-> "refused", error |-> error]

Load(path, config) ==
  /\ model = NoModel
  /\ LET error == LoadError(path, config) IN
       IF error # "ok" THEN model' = Refused(error)
       ELSE \E outcome \in DeviceOutcomes(ModelPath(path), config) :
              model' = IF outcome = "ok" THEN LoadedModel(ModelPath(path), config)
                       ELSE Refused(outcome)
  /\ UNCHANGED <<session, call, draws>>

(* A model loaded for its metadata makes sessions all the same. *)
CreateAnySession ==
  /\ model.state = "loaded" /\ ~session
  /\ session' = TRUE
  /\ draws' = 0
  /\ UNCHANGED <<model, call>>

CreateSession ==
  /\ model.state = "loaded" /\ ~session
  /\ IF model.metadata_only
       THEN /\ call' = [NoCall EXCEPT !.outcome = Refused("unsupported")]
            /\ UNCHANGED session
       ELSE /\ session' = TRUE
            /\ UNCHANGED call
  /\ draws' = 0
  /\ UNCHANGED model

-----------------------------------------------------------------------------
(* The observation: images, state and noise. *)
FirstBadImage(images) == images[Min({i \in DOMAIN images : ~ValidRgbImage(images[i])})]

ObservationError(request) ==
  IF ObservationAccepted(request, model.spec, model.legacy) THEN "ok"
  ELSE IF /\ Len(request.images) = Len(model.spec.views)
          /\ \E i \in DOMAIN request.images : ~ValidRgbImage(request.images[i])
          /\ FirstBadImage(request.images).encoding # "rgb_u8"
    THEN "unsupported" ELSE "invalid_argument"

DrawsNoise(request) == ObservationError(request) = "ok" /\ Omitted(request.noise)

(* The language: tokens with their mask, or an embedding with its. *)
ValidTokens(tokens, mask) ==
  /\ Len(tokens) \in 1..model.spec.language.max_tokens
  /\ mask = <<>> => ~model.spec.language.mask_required
  /\ ValidPrompt(tokens,
                 IF mask = <<>> THEN [i \in DOMAIN tokens |-> 1] ELSE mask,
                 ModelValue(model.file, "t5_vocab_size"),
                 model.spec.language.padding_side)

EmbeddingWidth ==
  ModelValue(model.file,
             IF model.architecture = "gwp05" THEN "t5_hidden" ELSE "text_dim")

CopiesI32(tensor, shape) ==
  /\ tensor.dtype = "i32" /\ tensor.order = "little" /\ tensor.shape = shape
  /\ tensor.byte_size = 4 * Product(tensor.shape)

EmbeddingMask(input) ==
  IF input.mask = <<>> THEN [i \in 1..input.embedding.shape[1] |-> 1]
  ELSE input.mask[1].values

ValidEmbedding(input) ==
  LET e == input.embedding IN
    /\ Len(e.shape) = 2 /\ e.shape[2] = EmbeddingWidth
    /\ e.shape[1] \in 1..model.spec.language.max_tokens
    /\ e.layout = "T,D" /\ e.order = "little" /\ e.dtype \in {"f32", "bf16"}
    /\ e.byte_size = Product(e.shape) * ByteWidth[e.dtype]
    /\ \A i \in DOMAIN e.values : IsFinite(e.values[i])
    /\ IF input.mask = <<>> THEN ~model.spec.language.mask_required
       ELSE CopiesI32(input.mask[1], <<e.shape[1]>>)
    /\ \A i \in DOMAIN EmbeddingMask(input) : EmbeddingMask(input)[i] \in {0, 1}
    /\ PaddedRight(EmbeddingMask(input))

FixedConflicts(language) ==
  \/ language.kind = "embedding"
  \/ /\ language.kind = "tokens"
     /\ \/ language.tokens # model.fixed_prompt[1].tokens
        \/ language.mask # model.fixed_prompt[1].mask

GwpPromptError(language) ==
  IF model.fixed_prompt # <<>>
    THEN IF FixedConflicts(language) THEN "failed_precondition"
         ELSE IF ValidTokens(model.fixed_prompt[1].tokens, model.fixed_prompt[1].mask)
           THEN "ok" ELSE "invalid_argument"
  ELSE IF model.language_mode = "tokens"
    THEN IF /\ language.kind = "tokens"
            /\ ValidTokens(language.tokens, language.mask)
           THEN "ok" ELSE "invalid_argument"
  ELSE IF /\ language.kind = "embedding"
          /\ ValidEmbedding(language)
          /\ ValidPrompt([i \in 1..language.embedding.shape[1] |-> 0],
                         EmbeddingMask(language), 1, model.spec.language.padding_side)
    THEN "ok" ELSE "invalid_argument"

WamPromptError(language) == IF ValidEmbedding(language) THEN "ok" ELSE "invalid_argument"

(* prepare_inputs: FastWAM looks at the kind of the language first, both   *)
(* at its contents last, when the noise has been drawn.                    *)
PrepareError(request) ==
  IF request.history THEN "unsupported"
  ELSE IF model.architecture = "fastwam" /\ request.language.kind # "embedding"
    THEN "invalid_argument"
  ELSE IF ObservationError(request) # "ok" THEN ObservationError(request)
  ELSE IF model.architecture = "gwp05" THEN GwpPromptError(request.language)
  ELSE WamPromptError(request.language)

ReachesNoise(request) ==
  /\ ~request.history
  /\ model.architecture = "fastwam" => request.language.kind = "embedding"
  /\ DrawsNoise(request)

(* What the pipeline is handed: the tokens that are not padding under a    *)
(* full mask, or the embedding as it came.                                 *)
PreparedLanguage(language) ==
  IF model.fixed_prompt # <<>>
    THEN [ tokens |-> ActiveTokens(model.fixed_prompt[1].tokens,
                                   model.fixed_prompt[1].mask), rows |-> 0 ]
  ELSE IF model.language_mode = "tokens"
    THEN [ tokens |-> ActiveTokens(
             language.tokens,
             IF language.mask = <<>> THEN [i \in DOMAIN language.tokens |-> 1]
             ELSE language.mask), rows |-> 0 ]
  ELSE [tokens |-> <<>>, rows |-> language.embedding.shape[1]]

Prepared(request) ==
  [ observation |-> PrepareObservation(request, model.spec, model.legacy),
    language |-> PreparedLanguage(request.language) ]

-----------------------------------------------------------------------------
(* The pipeline checks its input again. *)
GwpInputContract(prepared) ==
  LET image == prepared.observation.canvas IN
    /\ image.width = model.spec.composition.width
    /\ image.height = model.spec.composition.height
    /\ image.layout = "chw"
    /\ Cardinality(DOMAIN image.pixels) = image.width * image.height * Channels
    /\ Len(prepared.observation.model_state) = model.spec.state.model_dim
    /\ Product(prepared.observation.noise)
         = model.spec.action.horizon * model.spec.action.model_dim

(* The prompt stage of execute.  A fixed prompt was encoded at load and is *)
(* compared with the request's tokens, from which padding has gone.        *)
PromptRuns(prepared) ==
  IF model.language_mode = "external_embedding"
    THEN prepared.language.rows \in 1..PromptTokens
  ELSE IF model.fixed_prompt # <<>>
    THEN /\ prepared.language.tokens = model.fixed_prompt[1].tokens
         /\ \A i \in DOMAIN model.fixed_prompt[1].mask : model.fixed_prompt[1].mask[i] = 1
  ELSE Len(prepared.language.tokens) \in 1..PromptTokens

(* vae_pixels. *)
WamInputContract(prepared) ==
  LET image == prepared.observation.canvas IN
    /\ image.layout = "chw"
    /\ image.width = model.spec.composition.width
    /\ image.height = model.spec.composition.height
    /\ image.width % 2 = 0 /\ image.height % 2 = 0

PipelineError(prepared) ==
  IF model.architecture = "fastwam"
    THEN IF WamInputContract(prepared) THEN "ok" ELSE "inference_failed"
  ELSE IF ~GwpInputContract(prepared) THEN "invalid_argument"
  ELSE IF ~PromptRuns(prepared) THEN "inference_failed" ELSE "ok"

FiniteCore(core) == \A t \in DOMAIN core : \A i \in DOMAIN core[t] : IsFinite(core[t][i])

AsFractions(core) ==
  [t \in DOMAIN core |-> [i \in DOMAIN core[t] |-> Fraction(core[t][i])]]

Answer(core, prepared) ==
  IF ~ValidCoreAction(core, model.spec.action) \/ ~FiniteCore(core)
    THEN Refused("inference_failed")
  ELSE IF ~CanDecode(core, prepared.observation.raw_state, model.spec.action)
    THEN Refused("invalid_argument")
  ELSE [ state |-> "answered",
         action |-> DecodeAction(AsFractions(core), prepared.observation.raw_state,
                                 model.spec.action) ]

Outcomes(prepared) ==
  IF PipelineError(prepared) # "ok" THEN {Refused(PipelineError(prepared))}
  ELSE {Refused("inference_failed")} \cup {Answer(core, prepared) : core \in Cores}

Predict(request) ==
  /\ session /\ call = NoCall
  /\ draws < MaxDraws
  /\ draws' = draws + (IF ReachesNoise(request) THEN 1 ELSE 0)
  /\ IF PrepareError(request) # "ok"
       THEN call' = [ request |-> <<request>>, prepared |-> <<>>,
                      outcome |-> Refused(PrepareError(request)) ]
       ELSE \E outcome \in Outcomes(Prepared(request)) :
              call' = [ request |-> <<request>>, prepared |-> <<Prepared(request)>>,
                        outcome |-> outcome ]
  /\ UNCHANGED <<model, session>>

(* The caller takes the answer. *)
Return ==
  /\ call # NoCall
  /\ call' = NoCall
  /\ UNCHANGED <<model, session, draws>>

(* reset seeds the generator anew. *)
Reset ==
  /\ session /\ call = NoCall
  /\ draws' = 0
  /\ UNCHANGED <<model, session, call>>

Next ==
  \/ \E load \in Loads : Load(load.path, load.config)
  \/ CreateSession
  \/ \E request \in Requests : Predict(request)
  \/ Return
  \/ Reset

Spec == Init /\ [][Next]_vars

-----------------------------------------------------------------------------
TypeOK ==
  /\ model.state \in {"none", "refused", "loaded"}
  /\ session => model.state = "loaded" /\ ~model.metadata_only
  /\ call.outcome.state \in {"none", "refused", "answered"}
  /\ draws \in 0..MaxDraws

(* The bytes of every tensor of a loaded model lie inside the file, also   *)
(* where the offsets are so large that a 64-bit sum of them wraps.         *)
PayloadInside ==
  model.state = "loaded" =>
    \A i \in DOMAIN model.file.tensors :
      LET t == model.file.tensors[i] IN
        model.file.data_offset + t.offset + Product(t.shape) * ByteWidth[t.type]
          <= model.file.size

(* What prepare_inputs makes passes every check the pipeline makes of it   *)
(* again: the contract the model was loaded under is enough for the        *)
(* network.  Two accepted models are known not to serve: a fixed prompt    *)
(* with padding, and a FastWAM layout other than chw.                      *)
InputContractHolds ==
  call.prepared # <<>> =>
    IF model.architecture = "gwp05"
      THEN /\ GwpInputContract(call.prepared[1])
           /\ \/ PromptRuns(call.prepared[1])
              \/ /\ model.fixed_prompt # <<>>
                 /\ \E i \in DOMAIN model.fixed_prompt[1].mask :
                      model.fixed_prompt[1].mask[i] = 0
      ELSE model.spec.layout = "chw" => WamInputContract(call.prepared[1])

(* The sizes resizing can count: the target in an int, the whole resized   *)
(* image in 32 bits, and in an int how far the widest window of an axis    *)
(* reaches past the image.                                                 *)
WindowFits(source, resized) == source + 2 * (source \div resized) + 2 <= MaxInt

Resizable(image, view, legacy) ==
  LET full == FullSize(image, view, legacy) IN
    /\ view.width <= MaxInt /\ view.height <= MaxInt
    /\ full.width <= MaxU32 /\ full.height <= MaxU32
    /\ WindowFits(image.width, full.width) /\ WindowFits(image.height, full.height)

(* An observation whose images are whole, named after the views and of     *)
(* sizes the code can count is not refused for its images: no sampling     *)
(* window of an accepted view is empty and the views fit the canvas.       *)
AcceptedImagesCompose ==
  (call.request # <<>> /\ model.state = "loaded") =>
    LET images == call.request[1].images
        order == ImageOrder(images, model.spec.views)
        views == model.spec.views
    IN (/\ ValidNamedImages(images, views)
        /\ \A v \in DOMAIN views :
             /\ views[v].resize = "none" =>
                  /\ images[order[v]].width = views[v].width
                  /\ images[order[v]].height = views[v].height
             /\ Resizable(images[order[v]], views[v], model.legacy))
       => /\ \A v \in DOMAIN views : CanTransform(images[order[v]], views[v],
                                                  model.spec, model.legacy)
          /\ CanCompose([v \in DOMAIN views |-> Frame(views[v], model.spec.layout)],
                        model.spec)

(* The canvas the network reads, channel by channel and row by row: under  *)
(* a view's rectangle every pixel comes from the image named after that    *)
(* view, its own channel, and source pixels inside the payload; its window *)
(* never lies wholly past that of the next one, for sizes the code can     *)
(* count; no pixel of a GWP canvas is left as background.                  *)
ImageNamed(name) ==
  CHOOSE image \in Elements(call.request[1].images) : image.name = name

ViewNamed(name) == CHOOSE view \in Elements(model.spec.views) : view.role = name

InsidePayload(pixel) ==
  LET image == ImageNamed(pixel.image) IN
    \A row \in pixel.rows, column \in pixel.columns :
      row * Stride(image) + column * Channels + pixel.channel \in 0..image.byte_size - 1

CanvasExact ==
  (call.prepared # <<>> /\ model.spec.layout = "chw") =>
    LET canvas == call.prepared[1].observation.canvas
        placed == Elements(model.spec.composition.placements)
        Pixel(x, y, c) == canvas.pixels[c * canvas.width * canvas.height + y * canvas.width + x]
    IN \A x \in 0..canvas.width - 1, y \in 0..canvas.height - 1, c \in 0..Channels - 1 :
         LET at == {p \in placed : Covers(p, x, y)} IN
           IF at = {}
             THEN Pixel(x, y, c) = Background /\ model.architecture # "gwp05"
             ELSE LET p == CHOOSE p \in at : TRUE IN
                    /\ Pixel(x, y, c).image = p.role
                    /\ Pixel(x, y, c).channel = c
                    /\ InsidePayload(Pixel(x, y, c))
                    /\ Resizable(ImageNamed(p.role), ViewNamed(p.role), model.legacy) =>
                         /\ Covers(p, x + 1, y) =>
                              Min(Pixel(x, y, c).columns) <= Max(Pixel(x + 1, y, c).columns)
                         /\ Covers(p, x, y + 1) =>
                              Min(Pixel(x, y, c).rows) <= Max(Pixel(x, y + 1, c).rows)

(* What a clipping policy sends to the robot: each dimension the mask      *)
(* covers, less the state it was added to, is in the range of the          *)
(* statistics, whatever the network answered.                              *)
ClippedActionBounded ==
  call.outcome.state = "answered" =>
    LET action == model.spec.action
        added(i) == IF action.recovery = "add_current_state" /\ action.indices[i] >= 0
                      THEN call.prepared[1].observation.raw_state[action.indices[i] + 1]
                      ELSE 0
    IN action.norm.clip =>
         \A t \in 1..action.horizon, i \in 1..action.real_dim :
           Active(action.stats, i) =>
             /\ AtMost(Fraction(action.stats.lower[i] + added(i)), call.outcome.action[t][i])
             /\ AtMost(call.outcome.action[t][i], Fraction(action.stats.upper[i] + added(i)))

(* Decoding undoes the normalisation a state of the same statistics went   *)
(* through, wherever neither a clip nor a clamp cut it.                    *)
InRange(v, i, norm, stats) ==
  /\ norm.kind \in RangeKinds => v \in stats.lower[i]..stats.upper[i]
  /\ norm.clamp.lower # <<>> =>
       LET scaled == Standardize(Fraction(v), i, norm, stats) IN
         Same(scaled, OutputClamp(scaled, norm))

DecodeInverts ==
  model.state = "loaded" =>
    LET norm == model.spec.action.norm
        stats == model.spec.action.stats
    IN \A i \in 1..model.spec.action.real_dim, v \in TestValues :
         (Active(stats, i) /\ InRange(v, i, norm, stats)) =>
           Same(DecodeValue(OutputClamp(Standardize(Fraction(v), i, norm, stats), norm),
                            i, norm, stats),
                Fraction(v))

(* The prefix of a GWP sequence, the state and the image, can be computed  *)
(* once for all denoising steps: none of its tokens attends to an action,  *)
(* it is as long as the geometry says, and an action attends to all.       *)
PrefixClosed ==
  (model.state = "loaded" /\ model.architecture = "gwp05") =>
    LET geometry == SequenceGeometry(model.spec)
        layout == TokenLayout(geometry)
        tokens == 0..layout.total_tokens - 1
        prefix == {t \in tokens : t < layout.action_offset \/ t >= layout.visual_offset}
    IN /\ LayoutConsistent(layout)
       /\ Cardinality(prefix) = geometry.prefix_tokens
       /\ \A q \in tokens : {k \in tokens : Attends(layout, q, k)} =
            IF q \in prefix THEN prefix ELSE tokens
       /\ DOMAIN VisualPositions(model.spec.composition.height \div Patch,
                                 model.spec.composition.width \div Patch)
            = 0..geometry.visual_tokens - 1
=============================================================================
