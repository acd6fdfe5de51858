-------------------------- MODULE MCModelRequests --------------------------
(* Small artifacts, configurations and requests.  A canvas of 4x4 pixels   *)
(* with patches of 2, three views, two real of three model dimensions.     *)
EXTENDS ModelRequests

K(type, value) == [type |-> type, value |-> value]

Alter(record, key, value) ==
  [k \in DOMAIN record \cup {key} |-> IF k = key THEN value ELSE record[k]]

Without(record, keys) == [k \in DOMAIN record \ keys |-> record[k]]

MCAudited ==
  [ state_dim |-> 2, action_dim |-> 2, model_dim |-> 3, horizon |-> 2,
    fields |-> <<"joint", "gripper">>, indices |-> <<0, -1>>, epsilon |-> 1 ]

MCWamParts ==
  [ ends |-> {"time.0.weight"}, block |-> {"sa.q.weight"}, vae |-> {"in.weight"},
    video |-> {"patch.weight"}, action |-> {"head.weight"} ]

MCWamCounts == [video |-> 3, action |-> 3, vae |-> 1, proprio |-> 2, norm |-> 4]

-----------------------------------------------------------------------------
View(height, width, resize, interpolation, antialias, rect) ==
  [ target_height |-> K("u32", height), target_width |-> K("u32", width),
    resize_mode |-> K("string", resize), interpolation |-> K("string", interpolation),
    antialias |-> K("bool", antialias), rect |-> K("u32s", rect) ]

BaseViews ==
  [ high  |-> View(2, 4, "cover_center_crop", "bilinear", TRUE, <<0, 0, 4, 2>>),
    left  |-> View(2, 2, "stretch", "bilinear", FALSE, <<0, 2, 2, 2>>),
    right |-> View(2, 2, "cover_center_crop", "nearest", FALSE, <<2, 2, 2, 2>>) ]

BaseKeys ==
  [ architecture |-> K("string", "gwp05"), artifact_schema_version |-> K("u32", 3),
    profile |-> K("string", "p"), embodiment |-> K("string", "e"),
    training_dataset |-> K("string", "d"), checkpoint_revision |-> K("string", "c"),
    roles |-> K("strings", <<"high", "left", "right">>),
    composition_kind |-> K("string", "canvas"), composition_height |-> K("u32", 4),
    composition_width |-> K("u32", 4), color_space |-> K("string", "rgb"),
    pixel_range |-> K("string", "minus_one_to_one"),
    tensor_layout |-> K("string", "chw"), resample_boundary |-> K("string", "truncate"),
    state_real_dim |-> K("u32", 2), state_model_dim |-> K("u32", 3),
    pad_value |-> K("f32", 0), state_fields |-> K("strings", <<"joint", "gripper">>),
    input_mode |-> K("string", "tokens_or_embedding"), prompt_template |-> K("string", "{task}"),
    tokenizer_family |-> K("string", "t"), tokenizer_revision |-> K("string", "r"),
    max_tokens |-> K("u32", 2),
    text_encoder_in_artifact |-> K("bool", TRUE), padding_side |-> K("string", "right"),
    truncation_side |-> K("string", "right"), attention_mask_required |-> K("bool", TRUE),
    horizon |-> K("u32", 2), action_real_dim |-> K("u32", 2),
    action_model_dim |-> K("u32", 3), action_fields |-> K("strings", <<"joint", "gripper">>),
    representation |-> K("string", "joint_position"), frame |-> K("string", "controller"),
    gripper |-> K("string", "continuous"), recovery_kind |-> K("string", "identity"),
    epsilon |-> K("f32", 1), state_kind |-> K("string", "quantile"),
    state_clip |-> K("bool", FALSE), action_kind |-> K("string", "quantile"),
    action_clip |-> K("bool", TRUE) ]

Range3(domain, low, high, at) ==
  << [name |-> <<"norm", domain, "lower">>, type |-> "f32", shape |-> <<3>>,
      offset |-> at, values |-> low],
     [name |-> <<"norm", domain, "upper">>, type |-> "f32", shape |-> <<3, 1>>,
      offset |-> at + 12, values |-> high] >>

GwpModel ==
  [key \in GwpSizes \cup { "t5_max_length", "embodiment_id", "flow_shift", "norm_eps",
                           "vae_latents_mean", "vae_latents_std" } |->
     IF key = "hidden" \/ key = "t5_hidden" THEN K("u32", 4)
     ELSE IF key = "vae_z_dim" \/ key = "embodiment_id" THEN K("u32", 1)
     ELSE IF key \in {"flow_shift", "norm_eps"} THEN K("f32", 1)
     ELSE IF key \in {"vae_latents_mean", "vae_latents_std"} THEN K("f32s", <<1>>)
     ELSE K("u32", 2)]

GwpFile ==
  [ kind |-> "regular", parses |-> TRUE, size |-> 72, data_offset |-> 16,
    unreadable |-> FALSE, keys |-> BaseKeys, views |-> BaseViews, model |-> GwpModel,
    tensors |-> Range3("state", <<0, 0, 0>>, <<4, 2, 2>>, 0) \o
                Range3("action", <<-2, 0, 0>>, <<2, 4, 2>>, 24) \o
                << [ name |-> <<"gwp", "head">>, type |-> "bf16", shape |-> <<2, 2>>,
                     offset |-> 48, values |-> <<>> ] >> ]

Key(file, key, type, value) == [file EXCEPT !.keys = Alter(@, key, K(type, value))]
ModelKey(file, key, type, value) == [file EXCEPT !.model = Alter(@, key, K(type, value))]
Rect(file, role, rect) == [file EXCEPT !.views[role].rect.value = rect]

GwpRecovers ==
  Key(Key(GwpFile, "recovery_kind", "string", "add_current_state"),
      "reference_state_indices", "i32s", <<0, -1>>)

GwpClamped ==
  Key(Key(Key(Key(GwpFile, "action_output_clamp_lower", "f32", -1),
              "action_output_clamp_upper", "f32", 1),
          "action_clip", "bool", FALSE),
      "padding_side", "string", "left")

(* z-scores under a mask, prompts without one, bicubic windows. *)
GwpScored ==
  LET stats == [name |-> <<"norm", "action", "mean">>, type |-> "f32", shape |-> <<3>>,
                offset |-> 0, values |-> <<1, 2, 0>>]
  IN [ Key(Key(GwpFile, "action_kind", "string", "z_score"), "action_clip", "bool", FALSE)
         EXCEPT !.tensors = Range3("state", <<0, 0, 0>>, <<4, 2, 2>>, 0) \o
                  << stats, [stats EXCEPT !.name[3] = "std", !.values = <<2, 3, 2>>],
                     [stats EXCEPT !.name[3] = "mask", !.values = <<1, 0, 0>>] >>,
                !.keys.attention_mask_required.value = FALSE,
                !.views.high = View(2, 4, "stretch", "bicubic", TRUE, <<0, 0, 4, 2>>),
                !.views.left = View(2, 2, "none", "bicubic", FALSE, <<0, 2, 2, 2>>) ]

(* Schema 2, tokens only, views in another order than the canvas's. *)
GwpTokens ==
  [ GwpFile EXCEPT !.keys = Without(Alter(Alter(@, "artifact_schema_version", K("u32", 2)),
                                          "input_mode", K("string", "tokens")),
                                    {"resample_boundary"}),
                   !.keys.roles.value = <<"right", "high", "left">>,
                   !.model = Alter(@, "conversion_policy", K("string", "mot-bf16-v1")) ]

Quartiles(domain, at) ==
  << [ name |-> <<domain, "q01">>, type |-> "f32", shape |-> <<3>>, offset |-> at,
       values |-> <<0, 0, 0>> ],
     [ name |-> <<domain, "q99">>, type |-> "f32", shape |-> <<3>>, offset |-> at + 12,
       values |-> <<4, 2, 0>> ] >>

LegacyValue ==
  [ action_dim |-> 3, real_state_dim |-> 2, real_action_dim |-> 2, image_height |-> 4,
    image_width |-> 4, num_views |-> 3, action_chunk |-> 2 ]

GwpLegacy ==
  [ GwpFile EXCEPT !.keys = [architecture |-> K("string", "gwp05")], !.views = <<>>,
      !.model = [key \in DOMAIN GwpModel \cup LegacyKeys |->
                   IF key \in LegacyKeys THEN K("u32", LegacyValue[key]) ELSE GwpModel[key]],
      !.tensors = Quartiles("state", 0) \o Quartiles("action", 24) ]

-----------------------------------------------------------------------------
WamModel ==
  [key \in WamSizes \cup { "action_shift", "video_shift", "norm_eps", "variant",
                           "conversion_policy", "converter_revision" } |->
     IF key \in {"action_shift", "video_shift", "norm_eps"} THEN K("f32", 1)
     ELSE IF key = "variant" THEN K("string", "uncond_action_only")
     ELSE IF key = "conversion_policy" THEN K("string", "fastwam-bf16-policy-v2")
     ELSE IF key = "converter_revision" THEN K("string", "revision")
     ELSE IF key \in {"text_dim", "video_hidden_dim"} THEN K("u32", 4)
     ELSE IF key \in {"num_heads", "attn_head_dim"} THEN K("u32", 2)
     ELSE K("u32", 1)]

Weight(name, shape) ==
  [name |-> name, type |-> "bf16", shape |-> shape, offset |-> 0, values |-> <<>>]

Range2(domain, kind, values) ==
  [ name |-> <<"norm", domain, kind>>, type |-> "f32", shape |-> <<2>>, offset |-> 32,
    values |-> values ]

WamFile ==
  [ GwpFile EXCEPT !.model = WamModel,
      !.keys = [k \in DOMAIN BaseKeys |->
                  IF k = "architecture" THEN K("string", "fastwam")
                  ELSE IF k = "input_mode" THEN K("string", "embedding")
                  ELSE IF k = "text_encoder_in_artifact" THEN K("bool", FALSE)
                  ELSE IF k \in {"state_model_dim", "action_model_dim"} THEN K("u32", 2)
                  ELSE IF k \in {"state_kind", "action_kind"} THEN K("string", "min_max")
                  ELSE BaseKeys[k]],
      !.tensors =
        << Weight(<<"video", "time.0.weight">>, <<1>>), Weight(<<"video", "patch.weight">>, <<1>>),
           Weight(<<"video", "blk", 0, "sa.q.weight">>, <<1>>),
           Weight(<<"action", "time.0.weight">>, <<1>>), Weight(<<"action", "head.weight">>, <<1>>),
           Weight(<<"action", "blk", 0, "sa.q.weight">>, <<1>>),
           Weight(<<"vae", "in.weight">>, <<1>>), Weight(<<"proprio", "weight">>, <<2, 4>>),
           Weight(<<"proprio", "bias">>, <<4, 1>>),
           Range2("state", "lower", <<0, 0>>), Range2("state", "upper", <<4, 2>>),
           Range2("action", "lower", <<-2, 0>>), Range2("action", "upper", <<2, 4>>) >> ]

WamOlder ==
  [ WamFile EXCEPT !.model =
      [k \in DOMAIN WamModel \cup DOMAIN WamRepeated(ReadPolicySpec(WamFile)) |->
         IF k = "converter_revision" THEN K("string", "legacy_revision")
         ELSE IF k \in DOMAIN WamModel THEN WamModel[k]
         ELSE K("u32", WamRepeated(ReadPolicySpec(WamFile))[k])] ]

GoodFiles ==
  { GwpFile, GwpRecovers, GwpClamped, GwpScored, GwpTokens, GwpLegacy, WamFile, WamOlder,
    Key(GwpFile, "resample_boundary", "string", "clamp"),
    Key(WamFile, "tensor_layout", "string", "hwc"),
    ModelKey(WamFile, "num_heads", "u32", 34) }                   \* 34 * 2 wraps to 4

(* One thing wrong in each. *)
BadFiles ==
  { [GwpFile EXCEPT !.kind = "missing"], [GwpFile EXCEPT !.parses = FALSE],
    [GwpFile EXCEPT !.size = 71],                                 \* truncated
    [GwpFile EXCEPT !.tensors[5].offset = MaxU64 - 15],           \* wraps to 0
    [GwpFile EXCEPT !.tensors[1].values[1] = NotFinite],
    [GwpFile EXCEPT !.tensors[4].values[1] = -1],                 \* upper - lower = epsilon
    [GwpFile EXCEPT !.tensors[1].name[3] = "q01"],                \* mixed names
    [GwpFile EXCEPT !.tensors[1].type = "i32"],
    [GwpFile EXCEPT !.unreadable = TRUE],
    [GwpFile EXCEPT !.keys = Without(@, {"artifact_schema_version"})],
    [GwpFile EXCEPT !.keys = Without(@, {"resample_boundary"})],
    [GwpFile EXCEPT !.views = Without(@, {"left"})],
    Rect(GwpFile, "left", <<0, 2, 3, 2>>),                        \* not the view's size
    Rect(GwpFile, "right", <<1, 2, 2, 2>>),                       \* overlap
    Rect(GwpFile, "right", <<3, 2, 2, 2>>),                       \* off the canvas
    [GwpFile EXCEPT !.views.left.target_height.value = 4],        \* a view larger than its place
    Key(GwpFile, "composition_height", "u32", 6),                 \* uncovered
    Key(GwpFile, "composition_kind", "string", "none"),
    Key(GwpFile, "tensor_layout", "string", "hwc"),
    Key(GwpFile, "pixel_range", "string", "zero_to_one"),
    Key(GwpFile, "roles", "strings", <<"high", "left", "left">>),
    Key(GwpFile, "action_output_clamp_lower", "f32", 0),          \* half a clamp
    Key(GwpFile, "reference_state_indices", "i32s", <<0, 1>>),
    Key(GwpRecovers, "reference_state_indices", "i32s", <<0, 2>>),
    Key(GwpFile, "state_clip", "u32", 0),
    Key(GwpFile, "architecture", "string", ""),
    Key(GwpFile, "architecture", "string", "other"),
    Key(GwpFile, "max_tokens", "u32", 3),
    ModelKey(GwpFile, "num_views", "u32", 2),
    ModelKey(GwpFile, "embodiment_id", "u32", 2),
    ModelKey(GwpFile, "head_dim", "u32", 4),
    ModelKey(GwpFile, "t5_max_length", "u32", 1),
    ModelKey(GwpFile, "conversion_policy", "string", "newer"),
    ModelKey(GwpFile, "weight_policy", "string", "mot-bf16-v1"),
    ModelKey(GwpTokens, "weight_policy", "string", "source"),
    ModelKey(GwpFile, "vae_latents_std", "f32s", <<0>>),
    ModelKey(GwpLegacy, "action_chunk", "u32", 3),
    ModelKey(GwpLegacy, "image_height", "u32", 5),
    [GwpLegacy EXCEPT !.tensors = Quartiles("state", 0)],
    [WamFile EXCEPT !.keys = Without(@, {"artifact_schema_version", "profile", "roles", "horizon"})],
    [WamFile EXCEPT !.tensors = Tail(@)],
    [WamFile EXCEPT !.tensors[8].shape = <<4, 2>>],
    ModelKey(WamFile, "spatial_downsample", "u32", 2 + 1),
    ModelKey(WamFile, "spatial_downsample", "u32", 33),           \* the stride wraps to 2
    ModelKey(WamFile, "variant", "string", "other"),
    ModelKey(WamOlder, "context_len", "u32", 1),
    [WamOlder EXCEPT !.model = Without(@, {"context_len"})],
    Key(WamFile, "action_kind", "string", "quantile") }

-----------------------------------------------------------------------------
FilePath(file) == [kind |-> "file", file |-> file]

Place(file) == [ absolute |-> FALSE, climbs |-> FALSE, is_file |-> TRUE,
                 below_root |-> TRUE, file |-> file ]

M(key, type, value) == [key |-> key, type |-> type, value |-> value]

Bundle ==
  [ kind |-> "directory", has_manifest |-> TRUE,
    members |-> << M("format", "string", "wam-bundle-v1"),
                   M("manifest_schema_version", "number", 1),
                   M("model", "string", "model"), M("tokenizer", "string", "tokenizer"),
                   M("language_encoder", "null", "") >>,
    resources |-> [ model |-> Place(GwpFile), tokenizer |-> Place(<<>>),
                    gone |-> [Place(GwpFile) EXCEPT !.is_file = FALSE],
                    above |-> [Place(GwpFile) EXCEPT !.climbs = TRUE],
                    link |-> [Place(GwpFile) EXCEPT !.below_root = FALSE] ] ]

BadPaths ==
  { [kind |-> "empty"], [kind |-> "missing"], [Bundle EXCEPT !.has_manifest = FALSE],
    [Bundle EXCEPT !.members = Append(@, M("model", "string", "model"))],
    [Bundle EXCEPT !.members = Append(@, M("other", "string", "x"))],
    [Bundle EXCEPT !.members[2] = M("manifest_schema_version", "number", 2)],
    [Bundle EXCEPT !.members[4].value = "gone"], [Bundle EXCEPT !.members[3].value = "above"],
    [Bundle EXCEPT !.members[3].value = "link"], [Bundle EXCEPT !.members[4].type = "number"],
    [Bundle EXCEPT !.members[3].value = ""] }

Auto ==
  [ backend |-> "automatic", precision |-> "automatic", device_index |-> 0,
    language_mode |-> "automatic", fixed_prompt |-> <<>> ]

External == [Auto EXCEPT !.language_mode = "external_embedding"]

Fixed(tokens, mask) == [Auto EXCEPT !.fixed_prompt = <<[tokens |-> tokens, mask |-> mask]>>]

OtherConfigs ==
  { [Auto EXCEPT !.backend = "cpu_metadata"], [Auto EXCEPT !.backend = "unknown"],
    [Auto EXCEPT !.backend = "cpu_metadata", !.precision = "bf16"],
    [Auto EXCEPT !.precision = "bf16"], [Auto EXCEPT !.device_index = -1],
    [Auto EXCEPT !.language_mode = "tokens"], [Auto EXCEPT !.backend = "cpu"],
    Fixed(<<1>>, <<1, 1>>), Fixed(<<2>>, <<1>>),
    [Fixed(<<1>>, <<1>>) EXCEPT !.language_mode = "external_embedding"] }

L(path, config) == [path |-> path, config |-> config]

MCLoads ==
  {L(path, Auto) : path \in BadPaths \cup {Bundle}}
    \cup {L(FilePath(file), Auto) : file \in GoodFiles \cup BadFiles}
    \cup {L(FilePath(file), External) : file \in {GwpClamped, GwpScored, GwpTokens}}
    \cup {L(FilePath(file), config) : file \in {GwpFile, WamFile}, config \in OtherConfigs}
    \cup {L(FilePath(GwpTokens), [Auto EXCEPT !.backend = backend]) : backend \in {"cpu", "cuda"}}
    \cup {L(FilePath(GwpFile), Fixed(<<1, 0>>, mask)) : mask \in {<<1, 1>>, <<1, 0>>}}

-----------------------------------------------------------------------------
Image(name, width, height) ==
  [ name |-> name, encoding |-> "rgb_u8", width |-> width, height |-> height,
    channels |-> 3, stride |-> 0, byte_size |-> 3 * width * height ]

Strided(name, width, height, stride) ==
  [Image(name, width, height) EXCEPT !.stride = stride, !.byte_size = stride * height]

F32(shape, layout, values) ==
  [ dtype |-> "f32", order |-> "little", shape |-> shape, layout |-> layout,
    byte_size |-> 4 * Product(shape), values |-> values ]

Tokens(tokens, mask) == [kind |-> "tokens", tokens |-> tokens, mask |-> mask]

I32(values) ==
  [ dtype |-> "i32", order |-> "little", shape |-> <<Len(values)>>,
    byte_size |-> 4 * Len(values), values |-> values ]

Embedded(rows, mask) ==
  [ kind |-> "embedding", mask |-> mask,
    embedding |-> [F32(<<rows, 4>>, "T,D", <<>>) EXCEPT !.dtype = "bf16",
                                                        !.byte_size = 8 * rows] ]

Straight == <<Image("high", 4, 2), Image("left", 2, 2), Image("right", 2, 2)>>
Shuffled == <<Image("right", 5, 3), Image("high", 1, 1), Strided("left", 2, 2, 8)>>
Uneven == <<Strided("left", 3, 5, 9), Image("right", 1, 7), Strided("high", 9, 4, 32)>>

(* Resized to 60 and to 64 rows, which 32 bits (6 here) do not hold. *)
Tall(height) == <<Image("high", 1, height), Image("left", 2, 2), Image("right", 2, 2)>>

Ask(images, language) ==
  [ images |-> images, language |-> language, state |-> F32(<<2>>, "D", <<1, 3>>),
    noise |-> <<>>, history |-> FALSE ]

Good == Ask(Straight, Tokens(<<1, 0>>, <<1, 1>>))
GoodWam == Ask(Shuffled, Embedded(2, <<I32(<<1, 1>>)>>))

MCRequests ==
  { Good, GoodWam, [Good EXCEPT !.images = Shuffled], [GoodWam EXCEPT !.images = Uneven],
    [Good EXCEPT !.images = Uneven], [Good EXCEPT !.history = TRUE],
    [Good EXCEPT !.images[2].encoding = "jpeg"], [Good EXCEPT !.images = Tail(@)],
    [Good EXCEPT !.images = Tall(15)], [Good EXCEPT !.images = Tall(16)],
    [Good EXCEPT !.images = Tall(17)], [Good EXCEPT !.images = Tall(28)],
    [Good EXCEPT !.images = Tall(32)],
    [Good EXCEPT !.images[2].name = "high"], [Good EXCEPT !.images[1].byte_size = 23],
    [Good EXCEPT !.state.shape = <<3>>, !.state.byte_size = 12],
    [Good EXCEPT !.state.values[1] = NotFinite],
    [Good EXCEPT !.noise = <<F32(<<2, 3>>, "T,A", <<0>>)>>],
    [GoodWam EXCEPT !.noise = <<F32(<<2, 2>>, "", <<0>>)>>],
    [Good EXCEPT !.noise = <<F32(<<6>>, "T,A", <<0>>)>>],
    [Good EXCEPT !.language = [kind |-> "none"]],
    [Good EXCEPT !.language = Tokens(<<1, 0>>, <<1, 0>>)],
    [Good EXCEPT !.language = Tokens(<<0, 1>>, <<0, 1>>)],
    [Good EXCEPT !.language = Tokens(<<1>>, <<>>)],
    [Good EXCEPT !.language = Tokens(<<1, 0, 1>>, <<1, 1, 1>>)],
    [Good EXCEPT !.language = Tokens(<<2>>, <<1>>)],
    [GoodWam EXCEPT !.language = Embedded(1, <<>>)],
    [GoodWam EXCEPT !.language = Embedded(2, <<I32(<<1, 0>>)>>)],
    [GoodWam EXCEPT !.language = Embedded(2, <<I32(<<0, 1>>)>>)],
    [GoodWam EXCEPT !.language.embedding.shape = <<2, 3>>] }

MCCores ==
  { <<<<0, 1, 0>>, <<-1, 3, 0>>>>, <<<<0, 1>>, <<-1, 3>>>>,
    <<<<0, 1, 0>>, <<-1, NotFinite, 0>>>> }

MCTestValues == -3..5
=============================================================================
