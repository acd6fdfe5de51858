--------------------------- MODULE ModelContract ---------------------------
(***************************************************************************)
(* What each architecture demands of an artifact before it is a model: the *)
(* contract and the semantics of GWP-0.5 (src/models/gwp05/contract.cpp,   *)
(* semantics.cpp) and of FastWAM (src/models/fastwam/contract.cpp,         *)
(* semantics.cpp), the PolicySpec made up for GWP files older than the     *)
(* schema, and Model::load (src/model.cpp), which puts the steps in order. *)
(* Keys below gwp05. and fastwam. are file.model.                          *)
(***************************************************************************)
EXTENDS PolicyOps

CONSTANTS
  Patch,          \* pixels of a GWP image patch, 32 in the code
  PromptTokens,   \* kPromptTokens, 64 in the code
  HeadDim,        \* the attention head width GWP is built for, 128
  Audited,        \* the one supported GWP file without a PolicySpec: its
                  \* dimensions, field names, recovery indices and epsilon
  WamParts,       \* the last components of FastWAM's tensor names: "ends" of
                  \* a transformer, "block" of one layer, "vae", "video" and
                  \* "action" of one transformer alone
  WamCounts       \* how many tensors each FastWAM component holds

ASSUME NetworkAssumption == Patch \in Nat \ {0} /\ PromptTokens \in Nat

ASSUME AuditedAssumption == Audited.epsilon \in Int /\ Audited.indices \in Seq(Int)

HasModelKey(file, key, type) ==
  key \in DOMAIN file.model /\ file.model[key].type = type

ModelValue(file, key) == file.model[key].value

OptionalModelKey(file, key, type) == key \in DOMAIN file.model => HasModelKey(file, key, type)

-----------------------------------------------------------------------------
(* GWP-0.5: the geometry of the network. *)
GwpSizes ==
  { "hidden", "n_layers", "n_heads", "head_dim", "ffn_dim", "action_hidden",
    "action_ffn_dim", "num_embodiments", "inference_steps", "t5_vocab_size",
    "t5_hidden", "t5_ffn_dim", "t5_heads", "t5_head_dim", "t5_layers", "vae_z_dim" }

T5MaxLength(file) ==
  IF "t5_max_length" \in DOMAIN file.model THEN ModelValue(file, "t5_max_length") ELSE 512

GwpGeometryValid(file) ==
  /\ \A key \in GwpSizes : HasModelKey(file, key, "u32") /\ ModelValue(file, key) > 0
  /\ OptionalModelKey(file, "t5_max_length", "u32") /\ T5MaxLength(file) > 0
  /\ ModelValue(file, "hidden") = ModelValue(file, "n_heads") * ModelValue(file, "head_dim")
  /\ ModelValue(file, "t5_hidden")
       = ModelValue(file, "t5_heads") * ModelValue(file, "t5_head_dim")
  /\ HasModelKey(file, "embodiment_id", "u32")
  /\ ModelValue(file, "embodiment_id") < ModelValue(file, "num_embodiments")
  /\ \A key \in {"flow_shift", "norm_eps"} :
       /\ HasModelKey(file, key, "f32")
       /\ IsFinite(ModelValue(file, key)) /\ ModelValue(file, key) > 0

NativePolicies == {"mot-bf16-v1", "mot-vae-bf16-v1", "mot-vae-bf16-qkv-v1"}

(* The conversion policy, or the error of an unknown one.  An empty name is *)
(* that of a file from before there were any.                              *)
HasConversion(file) ==
  "conversion_policy" \in DOMAIN file.model /\ ModelValue(file, "conversion_policy") # ""

ConversionError(file) ==
  IF \E key \in {"conversion_policy", "weight_policy"} :
       ~OptionalModelKey(file, key, "string")
    THEN "incompatible_artifact"
  ELSE IF ~HasConversion(file)
    THEN IF "weight_policy" \in DOMAIN file.model /\ ModelValue(file, "weight_policy") # "source"
           THEN "unsupported" ELSE "ok"
  ELSE IF ModelValue(file, "conversion_policy") \notin NativePolicies \cup {"source-f32-v1"}
    THEN "unsupported"
  ELSE IF /\ "weight_policy" \in DOMAIN file.model
          /\ ModelValue(file, "weight_policy") # ModelValue(file, "conversion_policy")
    THEN "incompatible_artifact" ELSE "ok"

(* What the network can be built for; thrown as invalid_argument and       *)
(* reported as incompatible_artifact by validate_contract.                 *)
Area(rectangles) == MapThenSumSet(LAMBDA r : r.width * r.height, rectangles)

Elements(seq) == {seq[i] : i \in DOMAIN seq}

(* The layout the network is built for is not demanded. *)
GwpSemanticsAnyLayout(spec) ==
  LET canvas == spec.composition IN
    /\ Len(spec.views) = 3
    /\ canvas.kind = "canvas" /\ canvas.width > 0 /\ canvas.height > 0
    /\ canvas.width % Patch = 0 /\ canvas.height % Patch = 0
    /\ spec.pixel_range = "minus_one_to_one"
    /\ Area(Elements(canvas.placements)) = canvas.width * canvas.height
    /\ spec.state.model_dim = spec.action.model_dim
    /\ spec.state.norm.kind # "none" /\ spec.action.norm.kind # "none"
    /\ spec.language.max_tokens \in 1..PromptTokens
    /\ spec.language.text_encoder

GwpSemantics(spec) ==
  LET canvas == spec.composition IN
    /\ Len(spec.views) = 3
    /\ canvas.kind = "canvas" /\ canvas.width > 0 /\ canvas.height > 0
    /\ canvas.width % Patch = 0 /\ canvas.height % Patch = 0
    /\ spec.pixel_range = "minus_one_to_one" /\ spec.layout = "chw"
    /\ Area(Elements(canvas.placements)) = canvas.width * canvas.height
    /\ spec.state.model_dim = spec.action.model_dim
    /\ spec.state.norm.kind # "none" /\ spec.action.norm.kind # "none"
    /\ spec.language.max_tokens \in 1..PromptTokens
    /\ spec.language.text_encoder

(* Metadata older than the PolicySpec may repeat it, but not contradict it. *)
CrossCheck(file, key, expected) ==
  key \in DOMAIN file.model =>
    HasModelKey(file, key, "u32") /\ ModelValue(file, key) = expected

CrossCheckStat(file, name, expected) ==
  HasTensor(file, name) => /\ RequireShape(file, name, <<Len(expected)>>)
                           /\ ReadsF32(file, name)
                           /\ F32Values(file, name) = expected

GwpContract(file, spec, legacy) ==
  /\ ValidPolicySpec(spec) /\ GwpSemantics(spec)
  /\ \A domain \in {"state", "action"}, s \in {"mean", "std", "lower", "upper"} :
       ValidTensor(file, [ name |-> Stat(domain, s), dtypes |-> {"f32"},
                           shape |-> <<spec[domain].model_dim>>, required |-> FALSE ])
  /\ legacy \/ "t5_max_length" \in DOMAIN file.model
  /\ OptionalModelKey(file, "architecture", "string")
  /\ "architecture" \in DOMAIN file.model => ModelValue(file, "architecture") = "gwp05"
  /\ CrossCheck(file, "action_dim", spec.action.model_dim)
  /\ CrossCheck(file, "real_state_dim", spec.state.real_dim)
  /\ CrossCheck(file, "real_action_dim", spec.action.real_dim)
  /\ CrossCheck(file, "num_views", Len(spec.views))
  /\ CrossCheck(file, "action_chunk", spec.action.horizon)
  /\ CrossCheck(file, "image_height", spec.composition.height)
  /\ CrossCheck(file, "image_width", spec.composition.width)
  /\ \A domain \in {"state", "action"} :
       /\ CrossCheckStat(file, <<domain, "q01">>, spec[domain].stats.lower)
       /\ CrossCheckStat(file, <<domain, "q99">>, spec[domain].stats.upper)
  /\ T5MaxLength(file) >= PromptTokens /\ T5MaxLength(file) >= spec.language.max_tokens

(* The token sequence of the MoT network: state, actions, image patches.   *)
SequenceResolves(file, spec) ==
  /\ ModelValue(file, "head_dim") = HeadDim
  /\ spec.composition.height % Patch = 0 /\ spec.composition.width % Patch = 0
  /\ spec.action.horizon > 0

SequenceGeometry(spec) ==
  LET visual == (spec.composition.height \div Patch) * (spec.composition.width \div Patch)
  IN [ state_tokens |-> 1, visual_tokens |-> visual, prefix_tokens |-> 1 + visual,
       action_tokens |-> spec.action.horizon,
       full_tokens |-> 1 + visual + spec.action.horizon ]

TokenLayout(geometry) ==
  [ state_offset |-> 0, action_offset |-> 1,
    visual_offset |-> 1 + geometry.action_tokens,
    total_tokens |-> geometry.full_tokens,
    prefix_tokens |-> geometry.prefix_tokens,
    suffix_tokens |-> geometry.action_tokens ]

LayoutConsistent(l) ==
  /\ l.suffix_tokens > 0
  /\ l.visual_offset = l.action_offset + l.suffix_tokens
  /\ l.total_tokens > l.visual_offset
  /\ l.prefix_tokens = 1 + l.total_tokens - l.visual_offset

(* The first action is taken for a token of the prefix. *)
IsLaterAction(layout, t) == t > layout.action_offset /\ t < layout.visual_offset

(* complete_mot_attention_mask: may token "query" attend to token "key"?   *)
IsActionToken(layout, t) == t >= layout.action_offset /\ t < layout.visual_offset

Attends(layout, query, key) ==
  IsActionToken(layout, query) \/ ~IsActionToken(layout, key)

(* Rotary positions of the patch grid.                                     *)
VisualPositions(grid_height, grid_width) ==
  [i \in 0..grid_height * grid_width - 1 |->
     LET cell == CHOOSE c \in (0..grid_height - 1) \X (0..grid_width - 1) :
                   c[1] * grid_width + c[2] = i
     IN [time |-> 0, height |-> cell[1], width |-> cell[2]]]

(* The VAE's statistics, needed only to execute. *)
RuntimeContract(file) ==
  /\ \A key \in {"vae_latents_mean", "vae_latents_std"} :
       /\ HasModelKey(file, key, "f32s")
       /\ Len(ModelValue(file, key)) = ModelValue(file, "vae_z_dim")
  /\ \A i \in DOMAIN ModelValue(file, "vae_latents_std") :
       /\ IsFinite(ModelValue(file, "vae_latents_std")[i])
       /\ ModelValue(file, "vae_latents_std")[i] > 0

(* The PolicySpec of a GWP file older than the schema: one audited          *)
(* geometry, three cameras tiling the image, statistics from q01 and q99.   *)
LegacyKeys == { "action_dim", "real_state_dim", "real_action_dim", "image_height",
                "image_width", "num_views", "action_chunk" }

IsAudited(file) ==
  /\ ModelValue(file, "num_views") = 3
  /\ ModelValue(file, "real_state_dim") = Audited.state_dim
  /\ ModelValue(file, "real_action_dim") = Audited.action_dim
  /\ ModelValue(file, "action_dim") = Audited.model_dim
  /\ ModelValue(file, "action_chunk") = Audited.horizon
  /\ ModelValue(file, "image_height") # 0 /\ ModelValue(file, "image_width") # 0

LegacyTiles(height, width) ==
  LET top == height \div 2
      left == width \div 2
  IN << [role |-> "high", x |-> 0, y |-> 0, width |-> width, height |-> top],
        [role |-> "left", x |-> 0, y |-> top, width |-> left, height |-> height - top],
        [ role |-> "right", x |-> left, y |-> top,
          width |-> width - left, height |-> height - top ] >>

LegacyStats(file, domain, real_dim) ==
  [ mean |-> <<>>, stddev |-> <<>>,
    lower |-> F32Values(file, <<domain, "q01">>),
    upper |-> F32Values(file, <<domain, "q99">>),
    mask |-> [i \in 1..Audited.model_dim |-> IF i <= real_dim THEN 1 ELSE 0] ]

LegacySpec(file) ==
  LET tiles == LegacyTiles(ModelValue(file, "image_height"), ModelValue(file, "image_width"))
      norm == [ kind |-> "quantile", clip |-> FALSE, epsilon |-> Audited.epsilon,
                clamp |-> [lower |-> <<>>, upper |-> <<>>] ]
  IN [ schema |-> 3, identity |-> {"legacy"},
       views |-> [i \in 1..3 |->
                    [ role |-> tiles[i].role, height |-> tiles[i].height,
                      width |-> tiles[i].width, resize |-> "cover_center_crop",
                      interpolation |-> "bilinear", antialias |-> TRUE ]],
       composition |-> [ kind |-> "canvas", placements |-> tiles,
                         height |-> ModelValue(file, "image_height"),
                         width |-> ModelValue(file, "image_width") ],
       pixel_range |-> "minus_one_to_one", layout |-> "chw", boundary |-> "clamp",
       state |-> [ real_dim |-> Audited.state_dim, model_dim |-> Audited.model_dim,
                   pad_value |-> 0, fields |-> Audited.fields, norm |-> norm,
                   stats |-> LegacyStats(file, "state", Audited.state_dim) ],
       language |-> [ mode |-> "tokens_or_embedding", max_tokens |-> PromptTokens,
                      text_encoder |-> TRUE, padding_side |-> "right",
                      mask_required |-> TRUE, special |-> <<>> ],
       action |-> [ horizon |-> Audited.horizon, real_dim |-> Audited.action_dim,
                    model_dim |-> Audited.model_dim, fields |-> Audited.fields,
                    norm |-> norm,
                    stats |-> LegacyStats(file, "action", Audited.action_dim),
                    recovery |-> "add_current_state", indices |-> Audited.indices ] ]

LegacyError(file) ==
  IF \/ ~OptionalModelKey(file, "architecture", "string")
     \/ "architecture" \in DOMAIN file.model /\ ModelValue(file, "architecture") # "gwp05"
     \/ \E key \in LegacyKeys : ~HasModelKey(file, key, "u32")
    THEN "incompatible_artifact"
  ELSE IF ~IsAudited(file) THEN "unsupported"
  ELSE IF \/ \E domain \in {"state", "action"}, q \in {"q01", "q99"} :
               \/ ~RequireShape(file, <<domain, q>>, <<Audited.model_dim>>)
               \/ ~ReadsF32(file, <<domain, q>>)
          \/ ~ValidPolicySpec(LegacySpec(file))
    THEN "incompatible_artifact"
  ELSE IF ~GwpSemantics(LegacySpec(file)) THEN "invalid_argument" ELSE "ok"

(* gwp05::load_contract. *)
GwpContractError(file, spec, legacy) ==
  IF ~GwpGeometryValid(file) THEN "incompatible_artifact"
  ELSE IF ConversionError(file) # "ok" THEN ConversionError(file)
  ELSE IF /\ \A key \in {"vae_latents_mean", "vae_latents_std"} :
               OptionalModelKey(file, key, "f32s")
          /\ GwpContract(file, spec, legacy) /\ SequenceResolves(file, spec)
    THEN "ok" ELSE "incompatible_artifact"

-----------------------------------------------------------------------------
(* FastWAM. *)
WamSizes ==
  { "inference_steps", "latent_channels", "spatial_downsample",
    "temporal_downsample", "text_dim", "video_hidden_dim", "action_hidden_dim",
    "num_layers", "num_heads", "attn_head_dim" }

WamRevisions == {"legacy_revision", "revision"}    \* policy-spec-v2 and -v3

(* The spec's dimensions under the keys an older file repeats them with. *)
WamRepeated(spec) ==
  [ image_height |-> spec.composition.height, image_width |-> spec.composition.width,
    num_cameras |-> Len(spec.views), action_dim |-> spec.action.model_dim,
    proprio_dim |-> spec.state.model_dim, action_horizon |-> spec.action.horizon,
    context_len |-> spec.language.max_tokens ]

WamMetadata(file, spec) ==
  /\ HasModelKey(file, "conversion_policy", "string")
  /\ ModelValue(file, "conversion_policy") = "fastwam-bf16-policy-v2"
  /\ HasModelKey(file, "converter_revision", "string")
  /\ ModelValue(file, "converter_revision") \in WamRevisions
  /\ \A key \in WamSizes : HasModelKey(file, key, "u32") /\ ModelValue(file, key) > 0
  /\ \A key \in {"action_shift", "video_shift", "norm_eps"} :   \* a NaN is not refused
       /\ HasModelKey(file, key, "f32")
       /\ IsFinite(ModelValue(file, key)) => ModelValue(file, key) > 0
  /\ HasModelKey(file, "variant", "string")
  /\ ModelValue(file, "variant") = "uncond_action_only"
  /\ \A key \in DOMAIN WamRepeated(spec) :
       IF key \in DOMAIN file.model
         THEN CrossCheck(file, key, WamRepeated(spec)[key])
         ELSE ModelValue(file, "converter_revision") # "legacy_revision"

(* Video tokens are 2x2 patches of the VAE's latents.  Products are of 32  *)
(* bits; a stride that wraps to 0 stops the program, here the load.        *)
WamGeometryResolves(file, spec) ==
  LET downsample == ModelValue(file, "spatial_downsample")
      stride == U32(2 * downsample)
      grid(pixels) == (pixels \div downsample) \div 2
  IN
    /\ stride > 0 /\ spec.composition.height > 0 /\ spec.composition.width > 0
    /\ spec.composition.height % stride = 0 /\ spec.composition.width % stride = 0
    /\ grid(spec.composition.height) * grid(spec.composition.width) \in 1..MaxU32
    /\ ModelValue(file, "video_hidden_dim")
         = U32(ModelValue(file, "num_heads") * ModelValue(file, "attn_head_dim"))

WamTransformer(component, layers) ==
  {<<component, part>> : part \in WamParts.ends \cup WamParts[component]}
    \cup {<<component, "blk", layer, part>> :
            layer \in 0..layers - 1, part \in WamParts.block}

WamTensors(file) ==
  UNION {WamTransformer(c, ModelValue(file, "num_layers")) : c \in {"video", "action"}}
    \cup {<<"vae", part>> : part \in WamParts.vae}
    \cup {<<"proprio", "weight">>, <<"proprio", "bias">>}

TensorCount(file, component) ==
  Cardinality({i \in DOMAIN file.tensors : file.tensors[i].name[1] = component})

WamWeights(file, spec) ==
  /\ \A name \in WamTensors(file) :
       ValidTensor(file, [ name |-> name, dtypes |-> {"bf16"}, shape |-> <<>>,
                           required |-> TRUE ])
  /\ RequireShape(file, <<"proprio", "weight">>,
                  <<spec.state.model_dim, ModelValue(file, "text_dim")>>)
  /\ RequireShape(file, <<"proprio", "bias">>, <<ModelValue(file, "text_dim")>>)
  /\ \A name \in {<<"proprio", "weight">>, <<"proprio", "bias">>} :
       ReadTensor(file, name, FindTensor(file, name).bytes) # <<>>
  /\ \A component \in DOMAIN WamCounts :
       TensorCount(file, component) = WamCounts[component]

WamSemantics(spec) ==
  /\ spec.composition.kind = "canvas"
  /\ spec.state.real_dim = spec.state.model_dim
  /\ spec.action.real_dim = spec.action.model_dim
  /\ spec.language.mode = "embedding" /\ ~spec.language.text_encoder
  /\ spec.state.norm.kind = spec.action.norm.kind
  /\ spec.state.norm.kind \in {"min_max", "z_score"}
  /\ spec.action.recovery = "identity"

(* fastwam::load_contract; every failure is incompatible_artifact. *)
WamContract(file, spec) ==
  /\ WamMetadata(file, spec)
  /\ WamGeometryResolves(file, spec)
  /\ WamWeights(file, spec)
  /\ WamSemantics(spec)

-----------------------------------------------------------------------------
(* Model::load: the configuration, the file, the architecture's factory.   *)
ValidRuntimeConfig(config) ==
  /\ config.backend # "unknown" /\ config.precision # "unknown"
  /\ config.device_index >= 0
  /\ config.language_mode \in {"automatic", "tokens", "external_embedding"}
  /\ config.fixed_prompt # <<>> =>
       /\ config.fixed_prompt[1].tokens # <<>>
       /\ Len(config.fixed_prompt[1].mask) = Len(config.fixed_prompt[1].tokens)

SupportsTokens(mode) == mode \in {"tokens", "tokens_or_embedding"}
SupportsEmbedding(mode) == mode \in {"embedding", "tokens_or_embedding"}

GwpLanguageMode(config, spec) ==
  IF config.language_mode # "automatic" THEN config.language_mode
  ELSE IF SupportsTokens(spec.language.mode) THEN "tokens" ELSE "external_embedding"

(* prepare_prompt: between 1 and PromptTokens tokens of the vocabulary,     *)
(* under a mask of zeros and ones that pads one side only, not all of it.   *)
PaddedRight(mask) == \A i, j \in DOMAIN mask : i < j /\ mask[j] = 1 => mask[i] = 1
PaddedLeft(mask) == \A i, j \in DOMAIN mask : i < j /\ mask[i] = 1 => mask[j] = 1

ValidPrompt(tokens, mask, vocabulary, padding_side) ==
  /\ Len(tokens) \in 1..PromptTokens
  /\ Len(mask) = Len(tokens)
  /\ \A i \in DOMAIN tokens : tokens[i] \in 0..vocabulary - 1
  /\ \A i \in DOMAIN mask : mask[i] \in {0, 1}
  /\ IF padding_side = "right" THEN PaddedRight(mask) ELSE PaddedLeft(mask)
  /\ \E i \in DOMAIN mask : mask[i] = 1

ActiveTokens(tokens, mask) ==
  LET active == {i \in DOMAIN tokens : mask[i] = 1}
      place(k) == CHOOSE i \in active : Cardinality(active \cap 1..i) = k
  IN [k \in 1..Cardinality(active) |-> tokens[place(k)]]

GwpLanguageError(file, spec, config) ==
  LET mode == GwpLanguageMode(config, spec) IN
    IF \/ mode = "tokens" /\ ~SupportsTokens(spec.language.mode)
       \/ mode = "external_embedding" /\ ~SupportsEmbedding(spec.language.mode)
      THEN "unsupported"
    ELSE IF config.fixed_prompt = <<>> THEN "ok"
    ELSE LET fixed == config.fixed_prompt[1] IN
      IF /\ mode = "tokens"
         /\ Len(fixed.tokens) <= spec.language.max_tokens
         /\ ValidPrompt(fixed.tokens, fixed.mask, ModelValue(file, "t5_vocab_size"),
                        spec.language.padding_side)
        THEN "ok" ELSE "invalid_argument"

Conversion(file) ==
  IF HasConversion(file) THEN ModelValue(file, "conversion_policy") ELSE "legacy-source"

Precision(config, file) ==
  IF config.precision # "automatic" THEN config.precision
  ELSE IF Conversion(file) \in NativePolicies THEN "bf16" ELSE "f32"

(* resolve_kernel_dispatch: F32 weights run in F32, native ones in BF16,   *)
(* and those on CUDA only.                                                 *)
KernelError(config, file) ==
  IF \/ Precision(config, file) = "f32" /\ Conversion(file) \notin NativePolicies
     \/ /\ Precision(config, file) = "bf16" /\ Conversion(file) \in NativePolicies
        /\ config.backend \in {"automatic", "cuda"}
    THEN "ok" ELSE "unsupported"

MetadataOnly(config) == config.backend = "cpu_metadata"

MetadataError(config) ==
  IF config.precision \in {"automatic", "f32"} THEN "ok" ELSE "unsupported"

GwpSpec(file) == IF HasPolicySpec(file) THEN ReadPolicySpec(file) ELSE LegacySpec(file)

GwpError(file, config) ==
  LET legacy == ~HasPolicySpec(file) IN
    IF legacy /\ LegacyError(file) # "ok" THEN LegacyError(file)
    ELSE IF GwpContractError(file, GwpSpec(file), legacy) # "ok"
      THEN GwpContractError(file, GwpSpec(file), legacy)
    ELSE IF GwpLanguageError(file, GwpSpec(file), config) # "ok"
      THEN GwpLanguageError(file, GwpSpec(file), config)
    ELSE IF MetadataOnly(config) THEN MetadataError(config)
    ELSE IF ~RuntimeContract(file) THEN "incompatible_artifact"
    ELSE KernelError(config, file)

WamError(file, config) ==
  IF ~HasPolicySpec(file) THEN "incompatible_artifact"
  ELSE IF config.language_mode = "tokens" \/ config.fixed_prompt # <<>> THEN "unsupported"
  ELSE IF ~WamContract(file, ReadPolicySpec(file)) THEN "incompatible_artifact"
  ELSE IF MetadataOnly(config) THEN MetadataError(config)
  ELSE IF config.backend \in {"automatic", "cuda"} /\ config.precision \in {"automatic", "bf16"}
    THEN "ok" ELSE "unsupported"

Architecture(file) == Value(file, "architecture")

LoadError(path, config) ==
  IF path.kind = "empty" \/ ~ValidRuntimeConfig(config) THEN "invalid_argument"
  ELSE IF ResolveBundle(path) # "ok" THEN ResolveBundle(path)
  ELSE LET file == ModelPath(path) IN
    IF OpenReader(file) # "ok" THEN OpenReader(file)
    ELSE IF ~RequireKey(file, "architecture", "string") THEN "incompatible_artifact"
    ELSE IF Architecture(file) = "" THEN "unsupported"
    ELSE IF HalfMarked(file) \/ (HasPolicySpec(file) /\ ~AcceptsPolicySpec(file))
      THEN "incompatible_artifact"
    ELSE IF Architecture(file) = "gwp05" THEN GwpError(file, config)
    ELSE IF Architecture(file) = "fastwam" THEN WamError(file, config)
    ELSE "unsupported"

LanguageMode(file, config) ==
  IF Architecture(file) = "gwp05" THEN GwpLanguageMode(config, GwpSpec(file))
  ELSE "external_embedding"
=============================================================================
