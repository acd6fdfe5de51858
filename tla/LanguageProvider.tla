-------------------------- MODULE LanguageProvider --------------------------
(***************************************************************************)
(* WanUmt5EmbeddingProvider.prepare (src/python/wam/language.py): the      *)
(* instruction's prompt is looked up in a cache of bounded size, ordered   *)
(* by use, and encoded on a miss; one lock is held from the lookup to the  *)
(* insertion.  The callers are threads of one process that share the       *)
(* provider.  Tokenizer and encoder are external: a prompt has a mask, the *)
(* encoder answers one row per position, and either may raise.             *)
(***************************************************************************)
EXTENDS Integers, Sequences, FiniteSets, SequencesExt

CONSTANTS
  Callers,      \* threads
  Instructions, \* what may be asked
  PromptOf,     \* the prompt of an instruction: the template with {task} replaced
  MaskOf,       \* the tokenizer's mask of a prompt
  MaxTokens,    \* positions of a mask
  Capacities    \* values of cache_capacity

Prompts == {PromptOf[i] : i \in Instructions}

ASSUME LanguageAssumption ==
  /\ PromptOf \in [Instructions -> Prompts]
  /\ MaxTokens \in Nat /\ Capacities \subseteq Int
  /\ MaskOf \in [Prompts -> [1..MaxTokens -> Nat]]
  /\ "free" \notin Callers

VARIABLES
  capacity,     \* the provider's cache_capacity
  cache,        \* entries [prompt, language], least recently used first
  lock,         \* the caller inside prepare, if any
  call,         \* of each caller: its stage, instruction and answer
  recent        \* history: the prompts answered so far, each once, latest last

vars == <<capacity, cache, lock, call, recent>>

Free == "free"
NoAnswer == [values |-> <<>>, mask |-> <<>>]

-----------------------------------------------------------------------------
(* Encoding.  The encoder has a row for every position, padding included. *)
EncoderRows(prompt) == [i \in 1..MaxTokens |-> <<prompt, i>>]

Binary(mask) == \A i \in DOMAIN mask : mask[i] \in {0, 1}
PaddedRight(mask) == \A i \in 2..Len(mask) : mask[i] <= mask[i - 1]

ValidTokens(mask) == Cardinality({i \in DOMAIN mask : mask[i] = 1})

(* Mutant: the rows of the padding go to the model as they are. *)
KeepPaddingRows(values, mask) ==
  [values |-> values, mask |-> [i \in DOMAIN mask |-> 1]]

ApplyWanPromptPadding(values, mask) ==
  [ values |-> [i \in DOMAIN values |-> IF i <= ValidTokens(mask) THEN values[i] ELSE <<>>],
    mask |-> [i \in DOMAIN mask |-> 1] ]

CanEncode(prompt) == Binary(MaskOf[prompt]) /\ PaddedRight(MaskOf[prompt])
Encode(prompt) == ApplyWanPromptPadding(EncoderRows(prompt), MaskOf[prompt])

-----------------------------------------------------------------------------
(* The cache, an OrderedDict. *)
Position(prompt) == {i \in DOMAIN cache : cache[i].prompt = prompt}

(* An OrderedDict has a key once: what stands at the key's position, if it *)
(* has one, is taken out.                                                  *)
Without(entries, position) ==
  IF position = {} THEN entries ELSE RemoveAt(entries, CHOOSE i \in position : TRUE)

(* Mutant: a hit leaves the entry where it is. *)
Untouched(entries, i) == entries

MoveToEnd(entries, i) == Append(RemoveAt(entries, i), entries[i])

(* Insert, then drop the least recently used while there are too many. *)
Insert(entries, prompt, language) ==
  LET all == Append(Without(entries, Position(prompt)),
                    [prompt |-> prompt, language |-> language])
      extra == IF Len(all) > capacity THEN Len(all) - capacity ELSE 0 IN
    SubSeq(all, extra + 1, Len(all))

-----------------------------------------------------------------------------
Init ==
  /\ capacity \in {IF c > 0 THEN c ELSE 0 : c \in Capacities}
  /\ cache = <<>>
  /\ lock = Free
  /\ call = [c \in Callers |-> [stage |-> "idle", instruction |-> "none", answer |-> NoAnswer]]
  /\ recent = <<>>

SetStage(c, stage) == call' = [call EXCEPT ![c].stage = stage]
PromptIn(c) == PromptOf[call[c].instruction]

Ask(c, instruction) ==
  /\ call[c].stage = "idle"
  /\ call' = [call EXCEPT ![c] =
       [stage |-> "waiting", instruction |-> instruction, answer |-> NoAnswer]]
  /\ UNCHANGED <<capacity, cache, lock, recent>>

(* The answer leaves prepare, and the lock with it. *)
Answers(c, language) ==
  /\ call' = [call EXCEPT ![c].stage = "answered", ![c].answer = language]
  /\ recent' = Append(Without(recent, {i \in DOMAIN recent : recent[i] = PromptIn(c)}),
                      PromptIn(c))
  /\ lock' = Free
  /\ UNCHANGED capacity

Enter(c) ==
  /\ call[c].stage = "waiting" /\ lock = Free
  /\ lock' = c
  /\ SetStage(c, "inside")
  /\ UNCHANGED <<capacity, cache, recent>>

Hit(c) ==
  /\ call[c].stage = "inside"
  /\ \E i \in Position(PromptIn(c)) :
       /\ cache' = MoveToEnd(cache, i)
       /\ Answers(c, cache[i].language)

Miss(c) ==
  /\ call[c].stage = "inside" /\ Position(PromptIn(c)) = {}
  /\ SetStage(c, "encoding")
  /\ UNCHANGED <<capacity, cache, lock, recent>>

Encoded(c) ==
  /\ call[c].stage = "encoding" /\ CanEncode(PromptIn(c))
  /\ cache' = IF capacity > 0 THEN Insert(cache, PromptIn(c), Encode(PromptIn(c))) ELSE cache
  /\ Answers(c, Encode(PromptIn(c)))

(* Tokenizer, encoder or padding raises; the with statement lets go. *)
EncodeRaises(c) ==
  /\ call[c].stage = "encoding"
  /\ SetStage(c, "failed")
  /\ lock' = Free
  /\ UNCHANGED <<capacity, cache, recent>>

Collect(c) ==
  /\ call[c].stage \in {"answered", "failed"}
  /\ call' = [call EXCEPT ![c] = [stage |-> "idle", instruction |-> "none", answer |-> NoAnswer]]
  /\ UNCHANGED <<capacity, cache, lock, recent>>

Next ==
  \E c \in Callers :
    \/ \E instruction \in Instructions : Ask(c, instruction)
    \/ Enter(c) \/ Hit(c) \/ Miss(c) \/ Encoded(c) \/ EncodeRaises(c) \/ Collect(c)

Spec == Init /\ [][Next]_vars

-----------------------------------------------------------------------------
(* Warm or cold, and whatever other callers did to the cache, an answer is *)
(* the encoding of the prompt that was asked: the encoder's rows under the *)
(* mask, zero elsewhere, and the full mask the FastWAM contract takes.     *)
AnswerIsEncoding ==
  \A c \in Callers : call[c].stage = "answered" =>
    LET mask == MaskOf[PromptIn(c)] IN
      /\ call[c].answer.values =
           [i \in 1..MaxTokens |-> IF mask[i] = 1 THEN <<PromptIn(c), i>> ELSE <<>>]
      /\ call[c].answer.mask = [i \in 1..MaxTokens |-> 1]

(* The cache holds exactly the prompts answered last, as many as it may,   *)
(* in that order: a full cache never evicts what was just used, calls that *)
(* raise do not disturb it, and it never outgrows its capacity.            *)
KeepsMostRecent ==
  LET kept == IF Len(recent) < capacity THEN Len(recent) ELSE capacity IN
    [i \in DOMAIN cache |-> cache[i].prompt]
      = SubSeq(recent, Len(recent) - kept + 1, Len(recent))
=============================================================================
