---------------------------- MODULE PolicySpec ----------------------------
(***************************************************************************)
(* The policy a GGUF file states: how its images, state, language and      *)
(* actions are laid out (src/policy/policy_spec.cpp).  ReadPolicySpec is   *)
(* the translation of the metadata, PolicySpecReadable the conditions      *)
(* under which it succeeds, ValidPolicySpec what is then demanded of it.   *)
(* Every failure is the same error, incompatible_artifact.                 *)
(*                                                                         *)
(* Metadata keys keep their last components: composition_kind is           *)
(* wam.input.image.composition.kind.  The keys of one view are in          *)
(* file.views[role].  Floating-point values are integers or NotFinite.     *)
(***************************************************************************)
EXTENDS Artifact

CONSTANT NotFinite      \* NaN or an infinity

ASSUME NotFiniteAssumption == NotFinite \notin Int

IsFinite(v) == v # NotFinite

SchemaVersions == {2, 3}
Normalizations == {"none", "z_score", "min_max", "quantile"}
RangeKinds == {"min_max", "quantile"}

(* The type of every key that must be there. *)
RequiredType ==
  [ artifact_schema_version |-> "u32", profile |-> "string",
    embodiment |-> "string", training_dataset |-> "string",
    checkpoint_revision |-> "string", roles |-> "strings",
    composition_kind |-> "string", color_space |-> "string",
    pixel_range |-> "string", tensor_layout |-> "string",
    state_real_dim |-> "u32", state_model_dim |-> "u32", pad_value |-> "f32",
    state_fields |-> "strings", input_mode |-> "string",
    prompt_template |-> "string", tokenizer_family |-> "string",
    tokenizer_revision |-> "string", max_tokens |-> "u32",
    text_encoder_in_artifact |-> "bool", padding_side |-> "string",
    truncation_side |-> "string", attention_mask_required |-> "bool",
    horizon |-> "u32", action_real_dim |-> "u32", action_model_dim |-> "u32",
    action_fields |-> "strings", representation |-> "string",
    frame |-> "string", gripper |-> "string", recovery_kind |-> "string",
    epsilon |-> "f32", state_kind |-> "string", state_clip |-> "bool",
    action_kind |-> "string", action_clip |-> "bool" ]

(* The words a key may hold where it names a choice. *)
Words ==
  [ composition_kind |-> {"none", "canvas"}, color_space |-> {"rgb"},
    pixel_range |-> {"zero_to_one", "minus_one_to_one"},
    tensor_layout |-> {"chw", "hwc"},
    resample_boundary |-> {"truncate", "clamp"},
    input_mode |-> {"tokens", "embedding", "tokens_or_embedding"},
    padding_side |-> {"left", "right"}, truncation_side |-> {"left", "right"},
    representation |-> {"joint_position", "eef_delta_pose", "eef_absolute_pose"},
    frame |-> {"world", "robot_base", "eef", "controller"},
    gripper |-> {"none", "continuous", "discrete"},
    recovery_kind |-> {"identity", "add_current_state"},
    state_kind |-> Normalizations, action_kind |-> Normalizations ]

ViewType ==
  [ target_height |-> "u32", target_width |-> "u32", resize_mode |-> "string",
    interpolation |-> "string", antialias |-> "bool" ]

ViewWords ==
  [ resize_mode |-> {"none", "stretch", "cover_center_crop"},
    interpolation |-> {"nearest", "bilinear", "bicubic"} ]

Optional(file, key, otherwise) ==
  IF HasKey(file, key) THEN Value(file, key) ELSE otherwise

OptionalKeys ==
  [ state_output_clamp_lower |-> "f32", state_output_clamp_upper |-> "f32",
    action_output_clamp_lower |-> "f32", action_output_clamp_upper |-> "f32",
    special_token_ids |-> "i32s", reference_state_indices |-> "i32s" ]

(* A file without the schema marker has no PolicySpec; one that has parts  *)
(* of it all the same is refused.                                          *)
HasPolicySpec(file) == HasKey(file, "artifact_schema_version")

HalfMarked(file) ==
  ~HasPolicySpec(file) /\ \E key \in {"profile", "roles", "horizon"} : HasKey(file, key)

-----------------------------------------------------------------------------
(* Statistics are tensors named <<"norm", domain, statistic>>; q01 and q99 *)
(* are the older names of lower and upper, which cannot be mixed.          *)
Stat(domain, statistic) == <<"norm", domain, statistic>>

RangeName(file, domain, current, legacy) ==
  IF \E s \in {"lower", "upper"} : HasTensor(file, Stat(domain, s))
    THEN Stat(domain, current) ELSE Stat(domain, legacy)

StatNames(file, domain) ==
  [ mean |-> Stat(domain, "mean"), stddev |-> Stat(domain, "std"),
    lower |-> RangeName(file, domain, "lower", "q01"),
    upper |-> RangeName(file, domain, "upper", "q99"),
    mask |-> Stat(domain, "mask") ]

MixedRange(file, domain) ==
  /\ \E s \in {"lower", "upper"} : HasTensor(file, Stat(domain, s))
  /\ \E s \in {"q01", "q99"} : HasTensor(file, Stat(domain, s))

StatsReadable(file, domain, model_dim) ==
  /\ ~MixedRange(file, domain)
  /\ LET names == StatNames(file, domain) IN
       \A s \in DOMAIN names :
         HasTensor(file, names[s]) =>
           /\ RequireShape(file, names[s], <<model_dim>>)
           /\ ReadsF32(file, names[s])
           /\ s = "mask" => \A i \in DOMAIN F32Values(file, names[s]) :
                              F32Values(file, names[s])[i] \in {0, 1}

ReadStats(file, domain) ==
  LET names == StatNames(file, domain) IN
    [s \in DOMAIN names |->
       IF HasTensor(file, names[s]) THEN F32Values(file, names[s]) ELSE <<>>]

-----------------------------------------------------------------------------
ViewReadable(view) ==
  /\ \A key \in DOMAIN ViewType :
       key \in DOMAIN view /\ view[key].type = ViewType[key]
  /\ \A key \in DOMAIN ViewWords : view[key].value \in ViewWords[key]

RectReadable(view) ==
  "rect" \in DOMAIN view /\ view.rect.type = "u32s" /\ Len(view.rect.value) = 4

Roles(file) == Value(file, "roles")

PolicySpecReadable(file) ==
  /\ \A key \in DOMAIN RequiredType : RequireKey(file, key, RequiredType[key])
  /\ Value(file, "artifact_schema_version") \in SchemaVersions
  /\ \A key \in DOMAIN Words \ {"resample_boundary"} : Value(file, key) \in Words[key]
  /\ Value(file, "artifact_schema_version") >= 3 =>
       /\ RequireKey(file, "resample_boundary", "string")
       /\ Value(file, "resample_boundary") \in Words.resample_boundary
  /\ \A i \in DOMAIN Roles(file) : /\ Roles(file)[i] \in DOMAIN file.views
                                   /\ ViewReadable(file.views[Roles(file)[i]])
  /\ IF Value(file, "composition_kind") = "canvas"
       THEN /\ \A key \in {"composition_height", "composition_width"} :
                 RequireKey(file, key, "u32")
            /\ \A i \in DOMAIN Roles(file) : RectReadable(file.views[Roles(file)[i]])
       ELSE /\ ~HasKey(file, "composition_height") /\ ~HasKey(file, "composition_width")
            /\ \A i \in DOMAIN Roles(file) :
                 "rect" \notin DOMAIN file.views[Roles(file)[i]]
  /\ \A key \in DOMAIN OptionalKeys :
       HasKey(file, key) => file.keys[key].type = OptionalKeys[key]
  /\ Value(file, "recovery_kind") = "add_current_state" =>
       HasKey(file, "reference_state_indices")
  /\ StatsReadable(file, "state", Value(file, "state_model_dim"))
  /\ StatsReadable(file, "action", Value(file, "action_model_dim"))

ReadView(file, role) ==
  LET view == file.views[role] IN
    [ role |-> role, height |-> view.target_height.value,
      width |-> view.target_width.value, resize |-> view.resize_mode.value,
      interpolation |-> view.interpolation.value,
      antialias |-> view.antialias.value ]

ReadPlacement(file, role) ==
  LET rect == file.views[role].rect.value IN
    [role |-> role, x |-> rect[1], y |-> rect[2], width |-> rect[3], height |-> rect[4]]

ReadComposition(file) ==
  IF Value(file, "composition_kind") = "none"
    THEN [kind |-> "none", height |-> 0, width |-> 0, placements |-> <<>>]
    ELSE [ kind |-> "canvas", height |-> Value(file, "composition_height"),
           width |-> Value(file, "composition_width"),
           placements |-> [i \in DOMAIN Roles(file) |->
                             ReadPlacement(file, Roles(file)[i])] ]

ReadNormalization(file, kind, clip, lower, upper) ==
  [ kind |-> Value(file, kind), clip |-> Value(file, clip),
    epsilon |-> Value(file, "epsilon"),
    clamp |-> [ lower |-> IF HasKey(file, lower) THEN <<Value(file, lower)>> ELSE <<>>,
                upper |-> IF HasKey(file, upper) THEN <<Value(file, upper)>> ELSE <<>> ] ]

ReadPolicySpec(file) ==
  [ schema |-> Value(file, "artifact_schema_version"),
    identity |-> { Value(file, "profile"), Value(file, "embodiment"),
                   Value(file, "training_dataset"),
                   Value(file, "checkpoint_revision") },
    views |-> [i \in DOMAIN Roles(file) |-> ReadView(file, Roles(file)[i])],
    composition |-> ReadComposition(file),
    pixel_range |-> Value(file, "pixel_range"),
    layout |-> Value(file, "tensor_layout"),
    boundary |-> IF Value(file, "artifact_schema_version") >= 3
                   THEN Value(file, "resample_boundary") ELSE "truncate",
    state |-> [ real_dim |-> Value(file, "state_real_dim"),
                model_dim |-> Value(file, "state_model_dim"),
                pad_value |-> Value(file, "pad_value"),
                fields |-> Value(file, "state_fields"),
                norm |-> ReadNormalization(file, "state_kind", "state_clip",
                           "state_output_clamp_lower", "state_output_clamp_upper"),
                stats |-> ReadStats(file, "state") ],
    language |-> [ mode |-> Value(file, "input_mode"),
                   max_tokens |-> Value(file, "max_tokens"),
                   text_encoder |-> Value(file, "text_encoder_in_artifact"),
                   padding_side |-> Value(file, "padding_side"),
                   mask_required |-> Value(file, "attention_mask_required"),
                   special |-> Optional(file, "special_token_ids", <<>>) ],
    action |-> [ horizon |-> Value(file, "horizon"),
                 real_dim |-> Value(file, "action_real_dim"),
                 model_dim |-> Value(file, "action_model_dim"),
                 fields |-> Value(file, "action_fields"),
                 norm |-> ReadNormalization(file, "action_kind", "action_clip",
                            "action_output_clamp_lower", "action_output_clamp_upper"),
                 stats |-> ReadStats(file, "action"),
                 recovery |-> Value(file, "recovery_kind"),
                 indices |-> Optional(file, "reference_state_indices", <<>>) ] ]

-----------------------------------------------------------------------------
(* validate_policy_spec.  The enumerations are in range by their type; a   *)
(* role's spelling is abstracted to being nonempty.                        *)
Distinct(seq) == \A i, j \in DOMAIN seq : seq[i] = seq[j] => i = j

ValidViews(views) ==
  /\ views # <<>>
  /\ \A i \in DOMAIN views : /\ views[i].role # ""
                             /\ views[i].height > 0 /\ views[i].width > 0
  /\ Distinct([i \in DOMAIN views |-> views[i].role])

Overlap(a, b) == /\ a.x < b.x + b.width /\ b.x < a.x + a.width
                 /\ a.y < b.y + b.height /\ b.y < a.y + a.height

InCanvas(canvas, p) == /\ p.width > 0 /\ p.height > 0
                       /\ p.x + p.width <= canvas.width
                       /\ p.y + p.height <= canvas.height

(* The rectangle need only belong to a view. *)
NamesView(views, p) == \E i \in DOMAIN views : views[i].role = p.role

SizeOfView(views, p) ==
  \E i \in DOMAIN views : /\ views[i].role = p.role
                          /\ views[i].width = p.width /\ views[i].height = p.height

ValidComposition(canvas, views) ==
  IF canvas.kind = "none"
    THEN canvas.width = 0 /\ canvas.height = 0 /\ canvas.placements = <<>>
    ELSE LET placed == canvas.placements IN
           /\ canvas.width > 0 /\ canvas.height > 0
           /\ Len(placed) = Len(views)
           /\ Distinct([i \in DOMAIN placed |-> placed[i].role])
           /\ \A i \in DOMAIN placed : InCanvas(canvas, placed[i])
           /\ \A i \in DOMAIN placed : SizeOfView(views, placed[i])
           /\ \A i, j \in DOMAIN placed : i # j => ~Overlap(placed[i], placed[j])

ValidFields(fields, dimension) ==
  Len(fields) = dimension /\ Distinct(fields) /\ \A i \in DOMAIN fields : fields[i] # ""

Active(stats, i) == stats.mask = <<>> \/ stats.mask[i] # 0

ValidClamp(clamp) ==
  /\ (clamp.lower = <<>>) <=> (clamp.upper = <<>>)
  /\ clamp.lower # <<>> => /\ IsFinite(clamp.lower[1]) /\ IsFinite(clamp.upper[1])
                           /\ clamp.lower[1] < clamp.upper[1]

ValidStatVector(values, dimension) ==
  values # <<>> => /\ Len(values) = dimension
                   /\ \A i \in DOMAIN values : IsFinite(values[i])

ValidStats(norm, stats, dimension) ==
  IF norm.kind = "none"
    THEN ~norm.clip /\ \A s \in DOMAIN stats : stats[s] = <<>>
  ELSE IF norm.kind = "z_score"
    THEN /\ ~norm.clip /\ stats.mean # <<>> /\ stats.stddev # <<>>
         /\ \A i \in 1..dimension : Active(stats, i) => stats.stddev[i] > norm.epsilon
  ELSE /\ stats.lower # <<>> /\ stats.upper # <<>>
       /\ \A i \in 1..dimension :
            Active(stats, i) => stats.upper[i] - stats.lower[i] > norm.epsilon

ValidNormalization(norm, stats, dimension) ==
  /\ IsFinite(norm.epsilon) /\ norm.epsilon >= 0
  /\ norm.kind # "none" => norm.epsilon > 0
  /\ ValidClamp(norm.clamp)
  /\ \A s \in {"mean", "stddev", "lower", "upper"} :
       ValidStatVector(stats[s], dimension)
  /\ Len(stats.mask) \in {0, dimension}
  /\ ValidStats(norm, stats, dimension)

ValidState(state) ==
  /\ state.real_dim > 0 /\ state.model_dim >= state.real_dim
  /\ IsFinite(state.pad_value)
  /\ ValidFields(state.fields, state.real_dim)
  /\ ValidNormalization(state.norm, state.stats, state.model_dim)

ValidLanguage(language) ==
  /\ language.max_tokens > 0
  /\ language.mode \in {"tokens", "tokens_or_embedding"} => language.text_encoder
  /\ \A i \in DOMAIN language.special : language.special[i] >= 0

ValidRecovery(action, state) ==
  IF action.recovery = "identity" THEN action.indices = <<>>
  ELSE /\ Len(action.indices) = action.real_dim
       /\ \A i \in DOMAIN action.indices : action.indices[i] \in -1..state.real_dim - 1

ValidAction(action, state) ==
  /\ action.horizon > 0 /\ action.real_dim > 0
  /\ action.model_dim >= action.real_dim
  /\ ValidFields(action.fields, action.real_dim)
  /\ ValidNormalization(action.norm, action.stats, action.model_dim)
  /\ ValidRecovery(action, state)

ValidPolicySpec(spec) ==
  /\ spec.schema \in SchemaVersions
  /\ "" \notin spec.identity
  /\ ValidViews(spec.views)
  /\ ValidComposition(spec.composition, spec.views)
  /\ ValidState(spec.state)
  /\ ValidLanguage(spec.language)
  /\ ValidAction(spec.action, spec.state)

(* try_read_policy_spec's refusals, the validation included. *)
AcceptsPolicySpec(file) ==
  PolicySpecReadable(file) /\ ValidPolicySpec(ReadPolicySpec(file))
=============================================================================
