----------------------------- MODULE Artifact -----------------------------
(***************************************************************************)
(* What an artifact on disk may be, and how it is opened: the path that    *)
(* names a GGUF file or a bundle directory with a manifest                 *)
(* (src/artifact/manifest.cpp), the table of tensors the reader builds     *)
(* from the parsed file (src/artifact/gguf_reader.cpp), and the checks     *)
(* other parts make on a tensor (src/artifact/tensor_spec.cpp).            *)
(*                                                                         *)
(* A file is a record: whether the GGUF library parses it, its size, the   *)
(* offset of its data section, its metadata keys (name -> type and value)  *)
(* and its tensors.  The library's own parsing is external.  Names are     *)
(* tuples of strings, so that a prefix is the first component.             *)
(***************************************************************************)
EXTENDS Integers, Sequences, FiniteSetsExt

CONSTANTS
  MaxU64,       \* the largest unsigned 64-bit value, 2^64 - 1 in the code
  MaxSeek,      \* the largest offset fseeko takes, 2^63 - 1 in the code
  MaxInt        \* the largest int, 2^31 - 1 in the code

ASSUME WidthAssumption == MaxU64 \in Nat /\ MaxSeek \in Nat /\ MaxInt \in Nat

(* An unsigned int keeps the low bits of a result. *)
MaxU32 == 2 * MaxInt + 1
U32(n) == n % (MaxU32 + 1)

(* Bytes of an element in the storage types a file may hold; f16 stands    *)
(* for the types this program has no name for.                             *)
ByteWidth == [f32 |-> 4, bf16 |-> 2, i32 |-> 4, f16 |-> 2]

ToDtype(type) == IF type \in {"f32", "bf16", "i32"} THEN type ELSE "unknown"

Product(shape) ==
  LET p[i \in 0..Len(shape)] == IF i = 0 THEN 1 ELSE shape[i] * p[i - 1]
  IN p[Len(shape)]

(* Trailing dimensions of one are not part of a shape. *)
NormalizedShape(shape) ==
  SubSeq(shape, 1, Max({1} \cup {i \in DOMAIN shape : shape[i] # 1}))

-----------------------------------------------------------------------------
(* The manifest is a sequence of members: a key and a value, which is a    *)
(* string, a number or null.  Anything else, a key that repeats and a key  *)
(* the format does not know are refused.                                   *)
ManifestKeys ==
  {"format", "manifest_schema_version", "model", "tokenizer", "language_encoder"}

ValidManifest(members) ==
  /\ \A i, j \in DOMAIN members : members[i].key = members[j].key => i = j
  /\ \A i \in DOMAIN members : /\ members[i].type \in {"string", "number", "null"}
                               /\ members[i].key \in ManifestKeys

Member(members, key) ==
  LET found == {members[i] : i \in {j \in DOMAIN members : members[j].key = key}}
  IN IF found = {} THEN [key |-> key, type |-> "null", value |-> ""]
     ELSE CHOOSE m \in found : TRUE

IsString(member) == member.type = "string" /\ member.value # ""

(* A resource is named relative to the bundle and must be a regular file   *)
(* whose resolved place is below the bundle's root.  "resources" gives the *)
(* name's shape and where it leads.                                        *)
ResolveResource(bundle, name) ==
  LET place == bundle.resources[name] IN
    IF place.absolute \/ place.climbs THEN "incompatible_artifact"
    ELSE IF ~place.is_file THEN "not_found"
    ELSE IF ~place.below_root THEN "incompatible_artifact"
    ELSE "ok"

ResolveOptional(bundle, member) ==
  IF member.type = "null" THEN "ok"
  ELSE IF ~IsString(member) THEN "incompatible_artifact"
  ELSE ResolveResource(bundle, member.value)

(* The first thing in a sequence of outcomes that is not "ok". *)
FirstError(outcomes) ==
  LET bad == {i \in DOMAIN outcomes : outcomes[i] # "ok"}
  IN IF bad = {} THEN "ok" ELSE outcomes[Min(bad)]

Format(members) ==
  /\ Member(members, "format") = [key |-> "format", type |-> "string",
                                  value |-> "wam-bundle-v1"]
  /\ Member(members, "manifest_schema_version")
       = [key |-> "manifest_schema_version", type |-> "number", value |-> 1]
  /\ IsString(Member(members, "model"))

ResolveBundle(path) ==
  IF path.kind = "empty" THEN "invalid_argument"
  ELSE IF path.kind = "file" THEN "ok"
  ELSE IF path.kind # "directory" \/ ~path.has_manifest THEN "not_found"
  ELSE IF ~ValidManifest(path.members) \/ ~Format(path.members)
    THEN "incompatible_artifact"
  ELSE FirstError(
         << ResolveResource(path, Member(path.members, "model").value),
            ResolveOptional(path, Member(path.members, "tokenizer")),
            ResolveOptional(path, Member(path.members, "language_encoder")) >>)

(* The GGUF file that is opened: the path itself, or the bundle's model. *)
ModelPath(path) ==
  IF path.kind = "file" THEN path.file
  ELSE path.resources[Member(path.members, "model").value].file

-----------------------------------------------------------------------------
(* The reader's entry for a tensor of the file.  The offset is a 64-bit    *)
(* sum.                                                                    *)
TensorInfo(file, t) ==
  [ name |-> t.name,
    dtype |-> ToDtype(t.type),
    shape |-> NormalizedShape(t.shape),
    elements |-> Product(t.shape),
    bytes |-> Product(t.shape) * ByteWidth[t.type],
    file_offset |-> (file.data_offset + t.offset) % (MaxU64 + 1) ]

(* The sum is not checked for a wrap. *)
AnyOffset(file, t) == TRUE

OffsetFits(file, t) == t.offset <= MaxU64 - file.data_offset

InFile(file, info) ==
  /\ info.file_offset <= file.size
  /\ info.bytes <= file.size - info.file_offset

OpenReader(file) ==
  IF file.kind # "regular" THEN "not_found"
  ELSE IF ~file.parses THEN "incompatible_artifact"
  ELSE IF \A i \in DOMAIN file.tensors :
            /\ file.tensors[i].name # <<>>
            /\ OffsetFits(file, file.tensors[i])
            /\ InFile(file, TensorInfo(file, file.tensors[i]))
       THEN "ok"
       ELSE "incompatible_artifact"

(* The table of an open reader, in the order of the file. *)
Tensors(file) == [i \in DOMAIN file.tensors |-> TensorInfo(file, file.tensors[i])]

Positions(file, name) == {i \in DOMAIN file.tensors : file.tensors[i].name = name}

HasTensor(file, name) == Positions(file, name) # {}

FindTensor(file, name) == Tensors(file)[Min(Positions(file, name))]

RequireShape(file, name, shape) ==
  /\ HasTensor(file, name)
  /\ FindTensor(file, name).shape = NormalizedShape(shape)

(* read_tensor: the bytes [offset, offset + length) of the file, if the    *)
(* caller's buffer has the tensor's size and the place can be sought.      *)
ReadTensor(file, name, length) ==
  IF /\ HasTensor(file, name)
     /\ FindTensor(file, name).bytes = length
     /\ FindTensor(file, name).file_offset <= MaxSeek
     /\ ~file.unreadable
  THEN <<[from |-> FindTensor(file, name).file_offset, length |-> length]>>
  ELSE <<>>

(* read_f32_tensor: a vector of as many floats as the tensor has elements. *)
ReadsF32(file, name) ==
  /\ HasTensor(file, name)
  /\ LET info == FindTensor(file, name) IN
       /\ info.dtype = "f32"
       /\ info.elements <= MaxU64 \div 4
       /\ info.bytes = info.elements * 4
       /\ ReadTensor(file, name, info.bytes) # <<>>

F32Values(file, name) == file.tensors[Min(Positions(file, name))].values

(* A TensorSpec: the storage types it accepts (none: any) and the shape    *)
(* it demands (<<>>: any).                                                 *)
ValidTensor(file, spec) ==
  IF ~HasTensor(file, spec.name) THEN ~spec.required
  ELSE LET info == FindTensor(file, spec.name) IN
         /\ spec.dtypes # {} => info.dtype \in spec.dtypes
         /\ spec.shape # <<>> => info.shape = NormalizedShape(spec.shape)

-----------------------------------------------------------------------------
(* Metadata: a key is required with one type. *)
HasKey(file, key) == key \in DOMAIN file.keys

RequireKey(file, key, type) == HasKey(file, key) /\ file.keys[key].type = type

Value(file, key) == file.keys[key].value
=============================================================================
