------------------------ MODULE LanguageProviderProofs ------------------------
(***************************************************************************)
(* Proofs about LanguageProvider: every answer is the encoding of its own  *)
(* prompt and the cache holds the prompts answered last, for any number of *)
(* threads, instructions and positions of a mask, and any cache_capacity.  *)
(***************************************************************************)
EXTENDS LanguageProvider, FiniteSetTheorems, SequenceTheorems, WellFoundedInduction,
        TLAPS

-----------------------------------------------------------------------------
(* The inductive invariant.                                                *)

TypeOK ==
  /\ capacity \in Nat
  /\ cache \in Seq([prompt : Prompts, language : {Encode(p) : p \in Prompts}])
  /\ lock \in Callers \cup {Free}
  /\ call \in [Callers -> [stage : {"idle", "waiting", "inside", "encoding", "answered",
                                    "failed"},
                           instruction : Instructions \cup {"none"},
                           answer : {Encode(p) : p \in Prompts} \cup {NoAnswer}]]
  /\ recent \in Seq(Prompts)

(* A caller between the lookup and the answer holds the lock, and what it  *)
(* encodes is still not in the cache.                                      *)
CallOK(c) ==
  /\ call[c].stage # "idle" => call[c].instruction \in Instructions
  /\ call[c].stage \in {"inside", "encoding"} <=> lock = c
  /\ call[c].stage = "encoding" => Position(PromptIn(c)) = {}
  /\ call[c].stage = "answered" =>
       CanEncode(PromptIn(c)) /\ call[c].answer = Encode(PromptIn(c))

(* An entry is the encoding of its prompt.                                 *)
EntriesOK ==
  \A i \in 1..Len(cache) :
    CanEncode(cache[i].prompt) /\ cache[i].language = Encode(cache[i].prompt)

(* A prompt is in recent once, and the cache is the end of recent.         *)
OrderOK ==
  /\ \A i, j \in 1..Len(recent) : recent[i] = recent[j] => i = j
  /\ Len(cache) = IF Len(recent) < capacity THEN Len(recent) ELSE capacity
  /\ \A i \in 1..Len(cache) :
       cache[i].prompt = recent[Len(recent) - Len(cache) + i]

LanguageInv == TypeOK /\ (\A c \in Callers : CallOK(c)) /\ EntriesOK /\ OrderOK

-----------------------------------------------------------------------------
(* Numbers and sequences.                                                  *)

Below == {ss \in Nat \X Nat : ss[1] < ss[2]}

(* A set of natural numbers that is not empty has a least element.         *)
LEMMA Least ==
  ASSUME NEW S \in SUBSET Nat, S # {}
  PROVE  \E n \in S : \A m \in S : n <= m
<1>1. IsWellFoundedOn(Below, Nat)
  BY NatLessThanWellFounded, Zenon DEF OpToRel, Below
<1>2. PICK n \in S : \A m \in S : ~(<<m, n>> \in Below)
  BY <1>1, WFMin
<1>3. \A m \in S : ~(m < n)
  <2>1. SUFFICES ASSUME NEW m \in S, m < n PROVE FALSE
    OBVIOUS
  <2>2. <<m, n>> \in Nat \X Nat /\ <<m, n>>[1] = m /\ <<m, n>>[2] = n
    OBVIOUS
  <2>3. <<m, n>> \in Below
    BY <2>1, <2>2 DEF Below
  <2>4. QED
    BY <1>2, <2>3
<1>4. \A m \in S : m \in Nat /\ n \in Nat
  OBVIOUS
<1>5. QED
  BY <1>3, <1>4

LEMMA PrefixSize ==
  ASSUME NEW n \in Nat
  PROVE  Cardinality(1..n) = n
<1>1. Cardinality(1..n) = IF 1 > n THEN 0 ELSE n - 1 + 1
  BY FS_Interval
<1>2. QED
  BY <1>1

LEMMA RemoveAtShape ==
  ASSUME NEW S, NEW s \in Seq(S), NEW i \in 1..Len(s)
  PROVE  /\ RemoveAt(s, i) \in Seq(S)
         /\ Len(RemoveAt(s, i)) = Len(s) - 1
         /\ \A k \in 1..(Len(s) - 1) : RemoveAt(s, i)[k] = s[IF k < i THEN k ELSE k + 1]
<1>1. PICK n \in Nat : n = Len(s) /\ i \in 1..n
  OBVIOUS
<1>2. /\ SubSeq(s, 1, i - 1) \in Seq(S) /\ Len(SubSeq(s, 1, i - 1)) = i - 1
      /\ \A k \in 1..(i - 1) : SubSeq(s, 1, i - 1)[k] = s[k]
  BY <1>1
<1>3. /\ SubSeq(s, i + 1, n) \in Seq(S) /\ Len(SubSeq(s, i + 1, n)) = n - i
      /\ \A k \in 1..(n - i) : SubSeq(s, i + 1, n)[k] = s[i + k]
  BY <1>1
<1> DEFINE a == SubSeq(s, 1, i - 1)
           b == SubSeq(s, i + 1, n)
<1>4. /\ RemoveAt(s, i) = a \o b /\ Len(a) = i - 1 /\ Len(b) = n - i
      /\ a \in Seq(S) /\ b \in Seq(S)
      /\ \A k \in 1..(i - 1) : a[k] = s[k]
      /\ \A k \in 1..(n - i) : b[k] = s[i + k]
  BY <1>1, <1>2, <1>3 DEF RemoveAt
<1> HIDE DEF a, b
<1>5. /\ a \o b \in Seq(S) /\ Len(a \o b) = n - 1
      /\ \A k \in 1..(n - 1) : (a \o b)[k] = IF k <= i - 1 THEN a[k] ELSE b[k - (i - 1)]
  <2>1. /\ a \o b \in Seq(S) /\ Len(a \o b) = Len(a) + Len(b)
        /\ \A k \in 1..(Len(a) + Len(b)) :
             (a \o b)[k] = IF k <= Len(a) THEN a[k] ELSE b[k - Len(a)]
    BY <1>4, ConcatProperties
  <2>2. Len(a) + Len(b) = n - 1
    BY <1>1, <1>4
  <2>3. QED
    BY <1>4, <2>1, <2>2
<1>6. ASSUME NEW k \in 1..(n - 1) PROVE (a \o b)[k] = s[IF k < i THEN k ELSE k + 1]
  <2>1. CASE k < i
    BY <1>1, <1>4, <1>5, <2>1
  <2>2. CASE ~(k < i)
    <3>1. k - (i - 1) \in 1..(n - i) /\ i + (k - (i - 1)) = k + 1 /\ ~(k <= i - 1)
      BY <1>1, <2>2
    <3>2. QED
      BY <1>4, <1>5, <2>2, <3>1
  <2>3. QED
    BY <2>1, <2>2
<1>7. QED
  BY <1>1, <1>4, <1>5, <1>6

-----------------------------------------------------------------------------
(* Encoding: of a mask of ones and then zeros, the first ValidTokens are   *)
(* the ones.                                                               *)

LEMMA MaskIsPrefix ==
  ASSUME NEW p \in Prompts, CanEncode(p), NEW i \in 1..MaxTokens
  PROVE  (i <= ValidTokens(MaskOf[p])) <=> (MaskOf[p][i] = 1)
<1> DEFINE mask == MaskOf[p]
           zeros == {j \in 1..MaxTokens : mask[j] = 0}
           ones == {j \in DOMAIN mask : mask[j] = 1}
<1>1. /\ MaxTokens \in Nat /\ mask \in [1..MaxTokens -> Nat]
      /\ DOMAIN mask = 1..MaxTokens /\ Len(mask) = MaxTokens
  BY LanguageAssumption
<1>2. \A j \in 1..MaxTokens : mask[j] \in {0, 1}
  BY <1>1 DEF CanEncode, Binary
<1>3. \A j \in 2..MaxTokens : mask[j] <= mask[j - 1]
  BY <1>1 DEF CanEncode, PaddedRight
<1>4. ASSUME NEW k \in Nat, k <= MaxTokens,
             \A j \in 1..MaxTokens : (mask[j] = 1) <=> (j <= k)
      PROVE  (i <= ValidTokens(mask)) <=> (mask[i] = 1)
  <2>1. ones = 1..k
    BY <1>1, <1>4
  <2>2. Cardinality(1..k) = k
    BY <1>4, PrefixSize
  <2>3. ValidTokens(mask) = k
    BY <2>1, <2>2 DEF ValidTokens
  <2>4. QED
    BY <1>4, <2>3
<1>5. CASE zeros = {}
  <2>1. \A j \in 1..MaxTokens : mask[j] = 1
    BY <1>2, <1>5
  <2>2. \A j \in 1..MaxTokens : (mask[j] = 1) <=> (j <= MaxTokens)
    BY <1>1, <2>1
  <2>3. MaxTokens \in Nat /\ MaxTokens <= MaxTokens
    BY <1>1
  <2>4. QED
    BY <1>4, <2>2, <2>3
<1>6. CASE zeros # {}
  <2>1. PICK z \in zeros : \A j \in zeros : z <= j
    <3>1. zeros \in SUBSET Nat
      OBVIOUS
    <3> HIDE DEF zeros
    <3>2. QED
      BY <1>6, <3>1, Least
  <2> DEFINE later == {j \in 1..MaxTokens : z <= j /\ mask[j] = 1}
  <2>2. later = {}
    <3>1. SUFFICES ASSUME later # {} PROVE FALSE
      OBVIOUS
    <3>2. PICK b \in later : \A j \in later : b <= j
      <4>1. later \in SUBSET Nat
        OBVIOUS
      <4> HIDE DEF later
      <4>2. QED
        BY <3>1, <4>1, Least
    <3>3. b \in 1..MaxTokens /\ z < b /\ mask[b] = 1 /\ z \in 1..MaxTokens
      BY <2>1, <3>2
    <3>4. b \in 2..MaxTokens /\ b - 1 \in 1..MaxTokens /\ z <= b - 1
      BY <1>1, <3>3
    <3>5. mask[b - 1] = 1
      BY <1>2, <1>3, <3>3, <3>4
    <3>6. b - 1 \in later
      BY <3>4, <3>5
    <3>7. QED
      BY <3>2, <3>3, <3>6
  <2>3. \A j \in 1..MaxTokens : (mask[j] = 1) <=> (j <= z - 1)
    <3>1. ASSUME NEW j \in 1..MaxTokens PROVE (mask[j] = 1) <=> (j <= z - 1)
      <4>1. z <= j => mask[j] # 1
        BY <2>2
      <4>2. ~(z <= j) => mask[j] = 1
        BY <1>2, <2>1
      <4>3. QED
        BY <2>1, <4>1, <4>2
    <3>2. QED
      BY <3>1
  <2>4. z - 1 \in Nat /\ z - 1 <= MaxTokens
    BY <1>1, <2>1
  <2>5. QED
    BY <1>4, <2>3, <2>4
<1>7. QED
  BY <1>5, <1>6

-----------------------------------------------------------------------------
(* A prompt that is answered goes to the end of recent.                    *)

Places(p) == {i \in DOMAIN recent : recent[i] = p}

LEMMA WithoutRecent ==
  ASSUME TypeOK, NEW p \in Prompts
  PROVE  \/ Places(p) = {} /\ Without(recent, Places(p)) = recent
         \/ \E q \in 1..Len(recent) :
              recent[q] = p /\ Without(recent, Places(p)) = RemoveAt(recent, q)
<1>1. DOMAIN recent = 1..Len(recent)
  BY DEF TypeOK
<1>2. CASE Places(p) = {}
  BY <1>2 DEF Without
<1>3. CASE Places(p) # {}
  <2>1. PICK q \in Places(p) : q = CHOOSE i \in Places(p) : TRUE
    BY <1>3
  <2>2. QED
    BY <1>1, <1>3, <2>1 DEF Without, Places
<1>4. QED
  BY <1>2, <1>3

(* recent with p moved to its end: nothing twice, and what was behind p's  *)
(* old place is one place further to the front.                            *)
LEMMA AppendedRecent ==
  ASSUME TypeOK, \A i, j \in 1..Len(recent) : recent[i] = recent[j] => i = j,
         NEW p \in Prompts, recent' = Append(Without(recent, Places(p)), p)
  PROVE  /\ recent' \in Seq(Prompts)
         /\ \A i, j \in 1..Len(recent') : recent'[i] = recent'[j] => i = j
         /\ \/ /\ Places(p) = {} /\ Len(recent') = Len(recent) + 1
               /\ recent'[Len(recent) + 1] = p
               /\ \A i \in 1..Len(recent) : recent'[i] = recent[i]
            \/ \E q \in 1..Len(recent) :
                 /\ recent[q] = p /\ Len(recent') = Len(recent)
                 /\ recent'[Len(recent)] = p
                 /\ \A i \in 1..(Len(recent) - 1) :
                      recent'[i] = recent[IF i < q THEN i ELSE i + 1]
<1>1. PICK n \in Nat : n = Len(recent)
  BY DEF TypeOK
<1>2. recent \in Seq(Prompts)
  BY DEF TypeOK
<1>3. CASE Places(p) = {} /\ Without(recent, Places(p)) = recent
  <2>1. /\ recent' \in Seq(Prompts) /\ Len(recent') = n + 1 /\ recent'[n + 1] = p
        /\ \A i \in 1..n : recent'[i] = recent[i]
    BY <1>1, <1>2, <1>3
  <2>2. \A i \in 1..n : recent[i] # p
    BY <1>1, <1>2, <1>3 DEF Places
  <2>3. ASSUME NEW i \in 1..(n + 1), NEW j \in 1..(n + 1), recent'[i] = recent'[j]
        PROVE  i = j
    <3>1. CASE i \in 1..n /\ j \in 1..n
      BY <1>1, <2>1, <2>3, <3>1
    <3>2. CASE i = n + 1 /\ j \in 1..n
      BY <2>1, <2>2, <2>3, <3>2
    <3>3. CASE i \in 1..n /\ j = n + 1
      BY <2>1, <2>2, <2>3, <3>3
    <3>4. QED
      BY <1>1, <3>1, <3>2, <3>3
  <2>4. QED
    BY <1>1, <1>3, <2>1, <2>3
<1>4. ASSUME NEW q \in 1..Len(recent), recent[q] = p,
             Without(recent, Places(p)) = RemoveAt(recent, q)
      PROVE  /\ recent' \in Seq(Prompts) /\ Len(recent') = n /\ recent'[n] = p
             /\ \A i \in 1..(n - 1) : recent'[i] = recent[IF i < q THEN i ELSE i + 1]
             /\ \A i, j \in 1..n : recent'[i] = recent'[j] => i = j
  <2> DEFINE rest == RemoveAt(recent, q)
  <2>1. /\ rest \in Seq(Prompts) /\ Len(rest) = n - 1 /\ q \in 1..n /\ n - 1 \in Nat
        /\ \A i \in 1..(n - 1) : rest[i] = recent[IF i < q THEN i ELSE i + 1]
    BY <1>1, <1>2, <1>4, RemoveAtShape
  <2> HIDE DEF rest
  <2>2. recent' = Append(rest, p)
    BY <1>4 DEF rest
  <2>3. /\ recent' \in Seq(Prompts) /\ Len(recent') = n /\ recent'[n] = p
        /\ \A i \in 1..(n - 1) : recent'[i] = rest[i]
    BY <2>1, <2>2
  <2>4. \A i \in 1..(n - 1) :
          LET k == IF i < q THEN i ELSE i + 1 IN
            /\ k \in 1..n /\ k # q /\ recent'[i] = recent[k] /\ recent'[i] # p
    BY <1>1, <1>4, <2>1, <2>3
  <2>5. ASSUME NEW i \in 1..n, NEW j \in 1..n, recent'[i] = recent'[j] PROVE i = j
    <3>1. CASE i \in 1..(n - 1) /\ j \in 1..(n - 1)
      <4> DEFINE k == IF i < q THEN i ELSE i + 1
                 l == IF j < q THEN j ELSE j + 1
      <4>1. k \in 1..n /\ l \in 1..n /\ recent[k] = recent[l]
        BY <2>4, <2>5, <3>1
      <4>2. k = l
        BY <1>1, <4>1
      <4>3. QED
        BY <2>1, <3>1, <4>2
    <3>2. CASE i = n /\ j \in 1..(n - 1)
      BY <2>3, <2>4, <2>5, <3>2
    <3>3. CASE i \in 1..(n - 1) /\ j = n
      BY <2>3, <2>4, <2>5, <3>3
    <3>4. QED
      BY <2>1, <3>1, <3>2, <3>3
  <2>6. QED
    BY <2>1, <2>3, <2>5
<1>5. QED
  BY <1>1, <1>3, <1>4, WithoutRecent

-----------------------------------------------------------------------------
(* The steps that change the cache.                                        *)

Entries == [prompt : Prompts, language : {Encode(p) : p \in Prompts}]

LEMMA PromptOfCaller ==
  ASSUME NEW c \in Callers, CallOK(c), call[c].stage # "idle"
  PROVE  PromptIn(c) \in Prompts
BY DEF CallOK, PromptIn, Prompts

LEMMA CacheIsEnd ==
  ASSUME TypeOK, OrderOK
  PROVE  \E n \in Nat, m \in Nat, off \in Nat :
           /\ n = Len(recent) /\ m = Len(cache) /\ n = off + m /\ m <= capacity
           /\ m = IF n < capacity THEN n ELSE capacity
           /\ \A k \in 1..m : cache[k].prompt = recent[off + k]
           /\ \A k, l \in 1..n : recent[k] = recent[l] => k = l
<1>1. Len(recent) \in Nat /\ Len(cache) \in Nat /\ capacity \in Nat
  BY DEF TypeOK
<1>2. Len(cache) = IF Len(recent) < capacity THEN Len(recent) ELSE capacity
  BY DEF OrderOK
<1>3. PICK n \in Nat, m \in Nat : n = Len(recent) /\ m = Len(cache)
  BY <1>1
<1>4. /\ m <= capacity /\ n - m \in Nat /\ n = (n - m) + m
      /\ m = IF n < capacity THEN n ELSE capacity
  BY <1>1, <1>2, <1>3
<1>5. /\ \A k \in 1..m : cache[k].prompt = recent[(n - m) + k]
      /\ \A k, l \in 1..n : recent[k] = recent[l] => k = l
  BY <1>3 DEF OrderOK
<1>6. QED
  BY <1>3, <1>4, <1>5

(* A hit: the entry goes to the end of the cache as its prompt goes to the *)
(* end of recent.                                                          *)
LEMMA HitKeepsCache ==
  ASSUME LanguageInv, NEW c \in Callers, Hit(c)
  PROVE  cache' \in Seq(Entries) /\ recent' \in Seq(Prompts) /\ EntriesOK' /\ OrderOK'
<1> DEFINE p == PromptIn(c)
<1>1. /\ TypeOK /\ CallOK(c) /\ EntriesOK /\ OrderOK /\ cache \in Seq(Entries)
      /\ recent \in Seq(Prompts) /\ capacity \in Nat
  BY DEF LanguageInv, TypeOK, Entries
<1>2. p \in Prompts
  BY <1>1, PromptOfCaller DEF Hit
<1>3. PICK i \in 1..Len(cache) :
        /\ cache[i].prompt = p
        /\ cache' = Append(RemoveAt(cache, i), cache[i])
        /\ recent' = Append(Without(recent, Places(p)), p)
        /\ capacity' = capacity
  <2>1. PICK i \in Position(p) : /\ cache' = MoveToEnd(cache, i)
                                /\ Answers(c, cache[i].language)
    BY DEF Hit
  <2>2. i \in 1..Len(cache) /\ cache[i].prompt = p
    BY <1>1, <2>1 DEF Position
  <2>3. QED
    BY <2>1, <2>2 DEF MoveToEnd, Answers, Places
<1>4. PICK n \in Nat, m \in Nat, off \in Nat :
        /\ n = Len(recent) /\ m = Len(cache) /\ n = off + m
        /\ m = IF n < capacity THEN n ELSE capacity
        /\ \A k \in 1..m : cache[k].prompt = recent[off + k]
        /\ \A k, l \in 1..n : recent[k] = recent[l] => k = l
  BY <1>1, CacheIsEnd
<1>5. /\ i \in 1..m /\ off + i \in 1..n
      /\ \A k \in 1..m : cache[k].prompt = recent[off + k]
      /\ \A k, l \in 1..n : recent[k] = recent[l] => k = l
  <2>1. i \in 1..m
    BY <1>3, <1>4
  <2>2. \A k \in 1..m : off + k \in 1..n
    BY <1>4
  <2>3. QED
    BY <1>4, <2>1, <2>2
<1>6. /\ RemoveAt(cache, i) \in Seq(Entries) /\ Len(RemoveAt(cache, i)) = m - 1
      /\ \A k \in 1..(m - 1) : RemoveAt(cache, i)[k] = cache[IF k < i THEN k ELSE k + 1]
  <2>1. /\ RemoveAt(cache, i) \in Seq(Entries)
        /\ Len(RemoveAt(cache, i)) = Len(cache) - 1
        /\ \A k \in 1..(Len(cache) - 1) :
             RemoveAt(cache, i)[k] = cache[IF k < i THEN k ELSE k + 1]
    BY <1>1, <1>3, RemoveAtShape
  <2>2. QED
    BY <1>4, <2>1
<1>7. /\ cache' \in Seq(Entries) /\ Len(cache') = m /\ cache'[m] = cache[i]
      /\ \A k \in 1..(m - 1) : cache'[k] = cache[IF k < i THEN k ELSE k + 1]
  <2> DEFINE rest == RemoveAt(cache, i)
  <2>1. cache[i] \in Entries
    BY <1>1, <1>3
  <2>2. m - 1 \in Nat
    BY <1>4, <1>5
  <2>3. rest \in Seq(Entries) /\ Len(rest) = m - 1 /\ cache' = Append(rest, cache[i])
    BY <1>3, <1>6
  <2>4. \A k \in 1..(m - 1) : rest[k] = cache[IF k < i THEN k ELSE k + 1]
    BY <1>6
  <2> HIDE DEF rest
  <2>5. QED
    BY <2>1, <2>2, <2>3, <2>4
<1>8. EntriesOK'
  <2>1. \A k \in 1..m : \E l \in 1..m : cache'[k] = cache[l]
    <3>1. \A k \in 1..(m - 1) : k \in 1..m /\ k + 1 \in 1..m
      BY <1>4
    <3>2. \A k \in 1..m : k \in 1..(m - 1) \/ k = m
      BY <1>4
    <3>3. \A k \in 1..(m - 1) : \E l \in 1..m : cache'[k] = cache[l]
      BY <1>7, <3>1
    <3>4. \E l \in 1..m : cache'[m] = cache[l]
      BY <1>5, <1>7
    <3>5. QED
      BY <3>2, <3>3, <3>4
  <2>2. \A l \in 1..m : CanEncode(cache[l].prompt) /\ cache[l].language = Encode(cache[l].prompt)
    BY <1>1, <1>4 DEF EntriesOK
  <2>3. \A k \in 1..m :
          CanEncode(cache'[k].prompt) /\ cache'[k].language = Encode(cache'[k].prompt)
    BY <2>1, <2>2
  <2>4. QED
    BY <1>7, <2>3 DEF EntriesOK
<1>9. /\ recent' \in Seq(Prompts)
      /\ \A k, l \in 1..Len(recent') : recent'[k] = recent'[l] => k = l
      /\ Len(recent') = n /\ recent'[n] = p
      /\ \A k \in 1..(n - 1) : recent'[k] = recent[IF k < off + i THEN k ELSE k + 1]
  <2>1. recent[off + i] = p
    BY <1>3, <1>5
  <2>2. Places(p) # {}
    <3>1. DOMAIN recent = 1..Len(recent)
      BY <1>1
    <3>2. DOMAIN recent = 1..n
      BY <1>4, <3>1
    <3>3. QED
      BY <1>5, <2>1, <3>2 DEF Places
  <2>3. \A q \in 1..n : recent[q] = p => q = off + i
    BY <1>5, <2>1
  <2>4. /\ recent' \in Seq(Prompts)
        /\ \A k, l \in 1..Len(recent') : recent'[k] = recent'[l] => k = l
        /\ \E q \in 1..n :
             /\ recent[q] = p /\ Len(recent') = n /\ recent'[n] = p
             /\ \A k \in 1..(n - 1) : recent'[k] = recent[IF k < q THEN k ELSE k + 1]
    <3>1. \A k, l \in 1..Len(recent) : recent[k] = recent[l] => k = l
      BY <1>1 DEF OrderOK
    <3>2. /\ recent' \in Seq(Prompts)
          /\ \A k, l \in 1..Len(recent') : recent'[k] = recent'[l] => k = l
          /\ \E q \in 1..Len(recent) :
               /\ recent[q] = p /\ Len(recent') = Len(recent)
               /\ recent'[Len(recent)] = p
               /\ \A k \in 1..(Len(recent) - 1) :
                    recent'[k] = recent[IF k < q THEN k ELSE k + 1]
      BY <1>1, <1>2, <1>3, <2>2, <3>1, AppendedRecent
    <3>3. QED
      BY <1>4, <3>2
  <2>5. QED
    BY <2>3, <2>4
<1>10. ASSUME NEW k \in 1..m PROVE cache'[k].prompt = recent'[off + k]
  <2>1. CASE k = m
    <3>1. off + k = n
      BY <1>4, <2>1
    <3>2. QED
      BY <1>3, <1>7, <1>9, <2>1, <3>1
  <2>2. CASE k \in 1..(m - 1) /\ k < i
    <3>1. off + k \in 1..(n - 1) /\ off + k < off + i
      BY <1>4, <1>5, <2>2
    <3>2. cache'[k] = cache[k] /\ recent'[off + k] = recent[off + k]
      BY <1>7, <1>9, <2>2, <3>1
    <3>3. QED
      BY <1>5, <3>2
  <2>3. CASE k \in 1..(m - 1) /\ ~(k < i)
    <3>1. /\ off + k \in 1..(n - 1) /\ ~(off + k < off + i)
          /\ k + 1 \in 1..m /\ off + k + 1 = off + (k + 1)
      BY <1>4, <1>5, <2>3
    <3>2. cache'[k] = cache[k + 1] /\ recent'[off + k] = recent[off + (k + 1)]
      BY <1>7, <1>9, <2>3, <3>1
    <3>3. QED
      BY <1>5, <3>1, <3>2
  <2>4. QED
    BY <1>4, <2>1, <2>2, <2>3
<1>11. OrderOK'
  <2>1. \A k \in 1..m : n - m + k = off + k
    BY <1>4
  <2>2. Len(cache') = m /\ Len(recent') = n /\ capacity' = capacity
    BY <1>3, <1>7, <1>9
  <2>3. \A k, l \in 1..Len(recent') : recent'[k] = recent'[l] => k = l
    BY <1>9
  <2>4. \A k \in 1..Len(cache') :
          cache'[k].prompt = recent'[Len(recent') - Len(cache') + k]
    BY <1>10, <2>1, <2>2
  <2>5. Len(cache') = IF Len(recent') < capacity' THEN Len(recent') ELSE capacity'
    BY <1>4, <2>2
  <2>6. QED
    BY <2>3, <2>4, <2>5 DEF OrderOK
<1>12. QED
  BY <1>7, <1>8, <1>9, <1>11

(* A miss: the new entry is the last of the cache, and the least recently  *)
(* used goes if there are too many.                                        *)
LEMMA EncodedKeepsCache ==
  ASSUME LanguageInv, NEW c \in Callers, Encoded(c)
  PROVE  cache' \in Seq(Entries) /\ recent' \in Seq(Prompts) /\ EntriesOK' /\ OrderOK'
<1> DEFINE p == PromptIn(c)
           e == [prompt |-> p, language |-> Encode(p)]
           all == Append(cache, e)
<1>1. /\ TypeOK /\ CallOK(c) /\ EntriesOK /\ OrderOK /\ cache \in Seq(Entries)
      /\ recent \in Seq(Prompts) /\ capacity \in Nat
  BY DEF LanguageInv, TypeOK, Entries
<1>2. p \in Prompts /\ CanEncode(p) /\ Position(p) = {} /\ e \in Entries
  BY <1>1, PromptOfCaller DEF Encoded, CallOK, Entries
<1>3. /\ recent' = Append(Without(recent, Places(p)), p)
      /\ capacity' = capacity
      /\ capacity = 0 => cache' = cache
      /\ capacity > 0 => cache' = Insert(cache, p, Encode(p))
  BY <1>1 DEF Encoded, Answers, Places
<1>4. PICK n \in Nat, m \in Nat, off \in Nat :
        /\ n = Len(recent) /\ m = Len(cache) /\ n = off + m /\ m <= capacity
        /\ m = IF n < capacity THEN n ELSE capacity
        /\ \A k \in 1..m : cache[k].prompt = recent[off + k]
        /\ \A k, l \in 1..n : recent[k] = recent[l] => k = l
  BY <1>1, CacheIsEnd
<1>5. \A k \in 1..m : recent[off + k] # p
  <2>1. DOMAIN cache = 1..Len(cache)
    BY <1>1
  <2>2. \A k \in 1..m : cache[k].prompt # p
    BY <1>2, <1>4, <2>1 DEF Position
  <2>3. QED
    BY <1>4, <2>2
<1>6. /\ recent' \in Seq(Prompts)
      /\ \A k, l \in 1..Len(recent') : recent'[k] = recent'[l] => k = l
      /\ \/ /\ Len(recent') = n + 1 /\ recent'[n + 1] = p
            /\ \A k \in 1..n : recent'[k] = recent[k]
         \/ \E q \in 1..n :
              /\ recent[q] = p /\ Len(recent') = n /\ recent'[n] = p
              /\ \A k \in 1..(n - 1) : recent'[k] = recent[IF k < q THEN k ELSE k + 1]
  <2>1. \A k, l \in 1..Len(recent) : recent[k] = recent[l] => k = l
    BY <1>1 DEF OrderOK
  <2>2. /\ recent' \in Seq(Prompts)
        /\ \A k, l \in 1..Len(recent') : recent'[k] = recent'[l] => k = l
        /\ \/ /\ Places(p) = {} /\ Len(recent') = Len(recent) + 1
              /\ recent'[Len(recent) + 1] = p
              /\ \A k \in 1..Len(recent) : recent'[k] = recent[k]
           \/ \E q \in 1..Len(recent) :
                /\ recent[q] = p /\ Len(recent') = Len(recent)
                /\ recent'[Len(recent)] = p
                /\ \A k \in 1..(Len(recent) - 1) :
                     recent'[k] = recent[IF k < q THEN k ELSE k + 1]
    BY <1>1, <1>2, <1>3, <2>1, AppendedRecent
  <2>3. QED
    BY <1>4, <2>2
<1> HIDE DEF e
<1>7. /\ all \in Seq(Entries) /\ Len(all) = m + 1 /\ all[m + 1] = e
      /\ \A k \in 1..m : all[k] = cache[k]
  <2>1. /\ all \in Seq(Entries) /\ Len(all) = Len(cache) + 1 /\ all[Len(cache) + 1] = e
        /\ \A k \in 1..Len(cache) : all[k] = cache[k]
    BY <1>1, <1>2
  <2>2. QED
    BY <1>4, <2>1
<1>8. ASSUME capacity > 0
      PROVE  cache' = SubSeq(all, (IF m + 1 > capacity THEN m + 1 - capacity ELSE 0) + 1, m + 1)
  <2>1. Insert(cache, p, Encode(p))
          = SubSeq(all, (IF Len(all) > capacity THEN Len(all) - capacity ELSE 0) + 1, Len(all))
    BY <1>2 DEF Insert, Without, e
  <2> HIDE DEF all
  <2>2. cache' = Insert(cache, p, Encode(p)) /\ Len(all) = m + 1
    BY <1>3, <1>7, <1>8
  <2>3. PICK extra : extra = IF Len(all) > capacity THEN Len(all) - capacity ELSE 0
    OBVIOUS
  <2>4. extra = IF m + 1 > capacity THEN m + 1 - capacity ELSE 0
    <3>1. Len(all) = m + 1 /\ m \in Nat /\ capacity \in Nat
      BY <1>1, <1>4, <2>2
    <3>2. QED
      BY <2>3, <3>1
  <2>5. cache' = SubSeq(all, extra + 1, m + 1)
    BY <2>1, <2>2, <2>3
  <2>6. QED
    BY <2>4, <2>5
<1> HIDE DEF all
<1>9. \A k \in 1..(m + 1) : CanEncode(all[k].prompt) /\ all[k].language = Encode(all[k].prompt)
  <2>1. \A k \in 1..m : CanEncode(cache[k].prompt) /\ cache[k].language = Encode(cache[k].prompt)
    BY <1>1, <1>4 DEF EntriesOK
  <2>2. \A k \in 1..(m + 1) : k \in 1..m \/ k = m + 1
    BY <1>4
  <2>3. CanEncode(e.prompt) /\ e.language = Encode(e.prompt)
    BY <1>2 DEF e
  <2>4. \A k \in 1..m : CanEncode(all[k].prompt) /\ all[k].language = Encode(all[k].prompt)
    BY <1>7, <2>1
  <2>5. CanEncode(all[m + 1].prompt) /\ all[m + 1].language = Encode(all[m + 1].prompt)
    BY <1>7, <2>3
  <2>6. ASSUME NEW k \in 1..(m + 1)
        PROVE  CanEncode(all[k].prompt) /\ all[k].language = Encode(all[k].prompt)
    <3>1. CASE k \in 1..m
      BY <2>4, <3>1
    <3>2. CASE k = m + 1
      BY <2>5, <3>2
    <3>3. QED
      BY <2>2, <3>1, <3>2
  <2>7. QED
    BY <2>6, Zenon
<1>10. CASE capacity = 0
  <2>1. cache' = cache /\ capacity' = capacity
    BY <1>3, <1>10
  <2>2. m = 0
    <3>1. m <= 0 /\ m \in Nat
      BY <1>4, <1>10
    <3>2. QED
      BY <3>1
  <2>3. Len(recent') \in Nat
    BY <1>6
  <2>4. Len(cache') = 0
    BY <1>4, <2>1, <2>2
  <2>5. EntriesOK' /\ cache' \in Seq(Entries)
    BY <1>1, <2>1 DEF EntriesOK
  <2>6. OrderOK'
    BY <1>6, <1>10, <2>1, <2>3, <2>4 DEF OrderOK
  <2>7. QED
    BY <1>6, <2>5, <2>6
<1>11. CASE capacity > 0 /\ m < capacity
  <2>1. m = n /\ off = 0
    BY <1>4, <1>11
  <2>2. cache' = SubSeq(all, 1, m + 1)
    <3>1. ~(m + 1 > capacity)
      BY <1>1, <1>4, <1>11
    <3>2. QED
      BY <1>8, <1>11, <3>1
  <2>3. /\ cache' \in Seq(Entries) /\ Len(cache') = m + 1
        /\ \A k \in 1..(m + 1) : cache'[k] = all[k]
    BY <1>4, <1>7, <2>2
  <2>4. EntriesOK'
    BY <1>9, <2>3 DEF EntriesOK
  <2>5. /\ Len(recent') = n + 1 /\ recent'[n + 1] = p
        /\ \A k \in 1..n : recent'[k] = recent[k]
    <3>1. \A k \in 1..n : recent[k] # p
      BY <1>4, <1>5, <2>1
    <3>2. QED
      BY <1>6, <3>1
  <2>6. \A k \in 1..(m + 1) : cache'[k].prompt = recent'[k]
    <3>1. \A k \in 1..m : cache[k].prompt = recent[k]
      BY <1>4, <2>1
    <3>2. \A k \in 1..(m + 1) : k \in 1..m \/ k = m + 1
      BY <1>4
    <3>3. QED
      BY <1>7, <2>1, <2>3, <2>5, <3>1, <3>2 DEF e
  <2>7. Len(cache') = IF Len(recent') < capacity' THEN Len(recent') ELSE capacity'
    BY <1>1, <1>3, <1>4, <1>11, <2>1, <2>3, <2>5
  <2>8. \A k \in 1..(m + 1) : Len(recent') - Len(cache') + k = k
    BY <1>4, <2>1, <2>3, <2>5
  <2>9. OrderOK'
    BY <1>6, <2>3, <2>6, <2>7, <2>8 DEF OrderOK
  <2>10. QED
    BY <1>6, <2>3, <2>4, <2>9
<1>12. CASE capacity > 0 /\ m = capacity
  <2>1. cache' = SubSeq(all, 2, m + 1)
    <3>1. m + 1 > capacity /\ (m + 1 - capacity) + 1 = 2
      BY <1>1, <1>4, <1>12
    <3>2. QED
      BY <1>8, <1>12, <3>1
  <2>2. /\ cache' \in Seq(Entries) /\ Len(cache') = m
        /\ \A k \in 1..m : cache'[k] = all[k + 1]
    BY <1>4, <1>7, <1>12, <2>1
  <2>3. EntriesOK'
    <3>1. \A k \in 1..m : k + 1 \in 1..(m + 1)
      BY <1>4
    <3>2. QED
      BY <1>9, <2>2, <3>1 DEF EntriesOK
  <2>4. PICK ahead \in Nat :
          /\ Len(recent') = ahead + m /\ recent'[ahead + m] = p
          /\ \A k \in 1..(m - 1) : recent'[ahead + k] = recent[off + (k + 1)]
    <3>1. CASE /\ Len(recent') = n + 1 /\ recent'[n + 1] = p
               /\ \A k \in 1..n : recent'[k] = recent[k]
      <4>1. n + 1 = (off + 1) + m
        BY <1>4
      <4>2. \A k \in 1..(m - 1) :
              (off + 1) + k \in 1..n /\ (off + 1) + k = off + (k + 1)
        BY <1>4
      <4>3. \A k \in 1..(m - 1) : recent'[(off + 1) + k] = recent[off + (k + 1)]
        BY <3>1, <4>2
      <4>4. Len(recent') = (off + 1) + m /\ recent'[(off + 1) + m] = p /\ off + 1 \in Nat
        BY <3>1, <4>1
      <4>5. QED
        BY <4>3, <4>4
    <3>2. ASSUME NEW q \in 1..n, recent[q] = p, Len(recent') = n, recent'[n] = p,
                 \A k \in 1..(n - 1) : recent'[k] = recent[IF k < q THEN k ELSE k + 1]
          PROVE  /\ Len(recent') = off + m /\ recent'[off + m] = p
                 /\ \A k \in 1..(m - 1) : recent'[off + k] = recent[off + (k + 1)]
      <4>1. q <= off
        <5>1. \A o, s, r \in Nat : r \in 1..(o + s) /\ ~(r <= o) =>
                \E k \in 1..s : r = o + k
          <6>1. ASSUME NEW o \in Nat, NEW s \in Nat, NEW r \in Nat,
                       r \in 1..(o + s), ~(r <= o)
                PROVE  r - o \in 1..s /\ r = o + (r - o)
            BY <6>1
          <6>2. QED
            BY <6>1
        <5>2. q \in Nat /\ q \in 1..(off + m)
          BY <1>4
        <5>3. QED
          BY <1>4, <1>5, <3>2, <5>1, <5>2
      <4>2. \A k \in 1..(m - 1) :
              /\ off + k \in 1..(n - 1) /\ ~(off + k < q)
              /\ off + k + 1 = off + (k + 1)
        BY <1>4, <4>1
      <4>3. QED
        BY <1>4, <3>2, <4>2
    <3>3. QED
      BY <1>4, <1>6, <3>1, <3>2
  <2>5. \A k \in 1..m : cache'[k].prompt = recent'[ahead + k]
    <3>1. ASSUME NEW k \in 1..(m - 1) PROVE cache'[k].prompt = recent'[ahead + k]
      <4>1. k \in 1..m /\ k + 1 \in 1..m
        BY <1>4
      <4>2. cache'[k] = cache[k + 1]
        BY <1>7, <2>2, <4>1
      <4>3. cache[k + 1].prompt = recent[off + (k + 1)]
        BY <1>4, <4>1
      <4>4. QED
        BY <2>4, <4>2, <4>3
    <3>2. cache'[m].prompt = recent'[ahead + m]
      <4>1. m \in 1..m
        BY <1>4, <1>12
      <4>2. QED
        BY <1>7, <2>2, <2>4, <4>1 DEF e
    <3>3. \A k \in 1..m : k \in 1..(m - 1) \/ k = m
      BY <1>4
    <3>4. QED
      BY <3>1, <3>2, <3>3
  <2>6. Len(cache') = IF Len(recent') < capacity' THEN Len(recent') ELSE capacity'
    BY <1>1, <1>3, <1>4, <1>12, <2>2, <2>4
  <2>7. \A k \in 1..m : Len(recent') - Len(cache') + k = ahead + k
    BY <1>4, <2>2, <2>4
  <2>8. OrderOK'
    BY <1>6, <2>2, <2>5, <2>6, <2>7 DEF OrderOK
  <2>9. QED
    BY <1>6, <2>2, <2>3, <2>8
<1>13. QED
  BY <1>1, <1>4, <1>10, <1>11, <1>12

-----------------------------------------------------------------------------
(* The invariant is inductive.                                             *)

Stages == {"idle", "waiting", "inside", "encoding", "answered", "failed"}
Languages == {Encode(p) : p \in Prompts} \cup {NoAnswer}
Calls == [stage : Stages, instruction : Instructions \cup {"none"}, answer : Languages]

LEMMA Types ==
  TypeOK <=> /\ capacity \in Nat /\ cache \in Seq(Entries)
             /\ lock \in Callers \cup {Free} /\ call \in [Callers -> Calls]
             /\ recent \in Seq(Prompts)
BY DEF TypeOK, Entries, Calls, Stages, Languages

LEMMA InitEstablishes == Init => LanguageInv
<1> SUFFICES ASSUME Init PROVE LanguageInv
  OBVIOUS
<1>1. capacity \in Nat
  <2>1. \A c \in Capacities : (IF c > 0 THEN c ELSE 0) \in Nat
    BY LanguageAssumption
  <2>2. QED
    BY <2>1 DEF Init
<1>2. /\ cache = <<>> /\ recent = <<>> /\ Len(cache) = 0 /\ Len(recent) = 0
      /\ cache \in Seq(Entries) /\ recent \in Seq(Prompts)
  BY DEF Init
<1>3. lock = Free /\ \A c \in Callers : c # Free
  BY LanguageAssumption DEF Init, Free
<1>4. call \in [Callers -> Calls]
  BY DEF Init, Calls, Stages, Languages
<1>5. TypeOK
  BY <1>1, <1>2, <1>3, <1>4, Types
<1>6. ASSUME NEW c \in Callers PROVE CallOK(c)
  BY <1>3 DEF Init, CallOK
<1>7. EntriesOK /\ OrderOK
  BY <1>1, <1>2 DEF EntriesOK, OrderOK
<1>8. QED
  BY <1>5, <1>6, <1>7 DEF LanguageInv

(* What a step of c leaves of another caller: only who holds the lock       *)
(* changes the cache or gives the lock away.                               *)
LEMMA OthersKeep ==
  ASSUME LanguageInv, NEW c \in Callers, NEW d \in Callers, d # c,
         call'[d] = call[d], cache' = cache \/ lock = c,
         lock' = lock \/ (lock \in {c, Free} /\ lock' \in {c, Free})
  PROVE  CallOK(d)'
<1>1. CallOK(d) /\ d # Free
  BY LanguageAssumption DEF LanguageInv, Free
<1>2. PromptIn(d)' = PromptIn(d)
  BY DEF PromptIn
<1>3. lock' = d <=> lock = d
  BY <1>1
<1>4. call'[d].stage = "encoding" => Position(PromptIn(d))' = {}
  <2>1. SUFFICES ASSUME call[d].stage = "encoding" PROVE Position(PromptIn(d))' = {}
    OBVIOUS
  <2>2. lock = d /\ Position(PromptIn(d)) = {}
    BY <1>1, <2>1 DEF CallOK
  <2>3. cache' = cache
    BY <2>2
  <2>4. QED
    BY <1>2, <2>2, <2>3 DEF Position
<1>5. QED
  BY <1>1, <1>2, <1>3, <1>4 DEF CallOK

(* A step that leaves cache, capacity and recent alone.                    *)
LEMMA SameCache ==
  ASSUME LanguageInv, UNCHANGED <<capacity, cache, recent>>
  PROVE  EntriesOK' /\ OrderOK'
BY DEF LanguageInv, EntriesOK, OrderOK

LEMMA QuietStep ==
  ASSUME LanguageInv, NEW c \in Callers, UNCHANGED <<capacity, cache, recent>>,
         NEW record \in Calls, call' = [call EXCEPT ![c] = record],
         lock' = lock \/ (lock \in {c, Free} /\ lock' \in {c, Free}),
         CallOK(c)'
  PROVE  LanguageInv'
<1>1. TypeOK'
  <2>1. /\ capacity \in Nat /\ cache \in Seq(Entries) /\ lock \in Callers \cup {Free}
        /\ call \in [Callers -> Calls] /\ recent \in Seq(Prompts)
    BY Types DEF LanguageInv
  <2>2. call' \in [Callers -> Calls] /\ lock' \in Callers \cup {Free}
    BY <2>1
  <2>3. QED
    BY <2>1, <2>2 DEF TypeOK, Entries, Calls, Stages, Languages
<1>2. ASSUME NEW d \in Callers PROVE CallOK(d)'
  <2>1. CASE d = c
    BY <2>1
  <2>2. CASE d # c
    <3>1. call'[d] = call[d]
      BY <2>2, Types DEF LanguageInv
    <3>2. QED
      BY <2>2, <3>1, OthersKeep
  <2>3. QED
    BY <2>1, <2>2
<1>3. QED
  BY <1>1, <1>2, SameCache DEF LanguageInv

(* A step that answers.                                                    *)
LEMMA AnswerStep ==
  ASSUME LanguageInv, NEW c \in Callers, lock = c, call[c].stage # "idle",
         NEW language \in Languages, Answers(c, language),
         CanEncode(PromptIn(c)), language = Encode(PromptIn(c)),
         cache' \in Seq(Entries), recent' \in Seq(Prompts), EntriesOK', OrderOK'
  PROVE  LanguageInv'
<1>1. /\ capacity \in Nat /\ lock \in Callers \cup {Free} /\ call \in [Callers -> Calls]
      /\ call[c].instruction \in Instructions
  BY Types DEF LanguageInv, CallOK
<1>2. /\ call' = [call EXCEPT ![c].stage = "answered", ![c].answer = language]
      /\ lock' = Free /\ capacity' = capacity
  BY DEF Answers
<1>3. /\ call'[c] = [stage |-> "answered", instruction |-> call[c].instruction,
                     answer |-> language]
      /\ \A d \in Callers : d # c => call'[d] = call[d]
      /\ call' \in [Callers -> Calls]
  BY <1>1, <1>2 DEF Calls, Stages
<1>4. TypeOK'
  BY <1>1, <1>2, <1>3 DEF TypeOK, Entries, Calls, Stages, Languages
<1>5. CallOK(c)'
  <2>1. PromptIn(c)' = PromptIn(c)
    BY <1>3 DEF PromptIn
  <2>2. c # Free
    BY LanguageAssumption DEF Free
  <2>3. QED
    BY <1>1, <1>2, <1>3, <2>1, <2>2 DEF CallOK
<1>6. ASSUME NEW d \in Callers PROVE CallOK(d)'
  BY <1>2, <1>3, <1>5, OthersKeep
<1>7. QED
  BY <1>4, <1>6 DEF LanguageInv

LEMMA NextKeeps == LanguageInv /\ [Next]_vars => LanguageInv'
<1> SUFFICES ASSUME LanguageInv, [Next]_vars PROVE LanguageInv'
  OBVIOUS
<1>1. CASE UNCHANGED vars
  BY <1>1 DEF vars, LanguageInv, TypeOK, CallOK, EntriesOK, OrderOK, PromptIn, Position
<1>2. ASSUME NEW c \in Callers PROVE call[c] \in Calls /\ CallOK(c) /\ c # Free
  BY Types, LanguageAssumption DEF LanguageInv, Free
<1>3. call \in [Callers -> Calls]
  BY Types DEF LanguageInv
<1>4. ASSUME NEW c \in Callers, NEW instruction \in Instructions, Ask(c, instruction)
      PROVE  LanguageInv'
  <2>1. PICK record \in Calls :
          record = [stage |-> "waiting", instruction |-> instruction, answer |-> NoAnswer]
    BY DEF Calls, Stages, Languages
  <2>2. /\ call' = [call EXCEPT ![c] = record] /\ call'[c] = record
        /\ lock' = lock /\ lock # c /\ record \in Calls
        /\ UNCHANGED <<capacity, cache, recent>>
    BY <1>2, <1>3, <1>4, <2>1 DEF Ask, CallOK
  <2>3. CallOK(c)'
    BY <1>3, <2>1, <2>2 DEF CallOK
  <2>4. QED
    BY <2>2, <2>3, QuietStep
<1>5. ASSUME NEW c \in Callers, NEW stage \in Stages, SetStage(c, stage)
      PROVE  \E record \in Calls :
               /\ call' = [call EXCEPT ![c] = record] /\ call'[c] = record
               /\ record.stage = stage /\ record.instruction = call[c].instruction
               /\ PromptIn(c)' = PromptIn(c)
  <2> DEFINE record == [call[c] EXCEPT !.stage = stage]
  <2>1. /\ record \in Calls /\ record.stage = stage
        /\ record.instruction = call[c].instruction
    BY <1>2 DEF Calls
  <2>2. call' = [call EXCEPT ![c] = record]
    BY <1>5 DEF SetStage
  <2>3. call'[c] = record
    BY <1>3, <2>2
  <2>4. PromptIn(c)' = PromptIn(c)
    BY <2>1, <2>3 DEF PromptIn
  <2>5. QED
    BY <2>1, <2>2, <2>3, <2>4
<1>6. ASSUME NEW c \in Callers, Enter(c) PROVE LanguageInv'
  <2>1. PICK record \in Calls :
          /\ call' = [call EXCEPT ![c] = record] /\ call'[c] = record
          /\ record.stage = "inside" /\ record.instruction = call[c].instruction
    BY <1>5, <1>6 DEF Enter, Stages
  <2>2. lock = Free /\ lock' = c /\ UNCHANGED <<capacity, cache, recent>>
    BY <1>6 DEF Enter
  <2>3. CallOK(c)'
    BY <1>2, <1>6, <2>1, <2>2 DEF CallOK, Enter
  <2>4. QED
    BY <2>1, <2>2, <2>3, QuietStep
<1>7. ASSUME NEW c \in Callers, Miss(c) PROVE LanguageInv'
  <2>1. PICK record \in Calls :
          /\ call' = [call EXCEPT ![c] = record] /\ call'[c] = record
          /\ record.stage = "encoding" /\ record.instruction = call[c].instruction
          /\ PromptIn(c)' = PromptIn(c)
    BY <1>5, <1>7 DEF Miss, Stages
  <2>2. /\ lock = c /\ lock' = lock /\ UNCHANGED <<capacity, cache, recent>>
        /\ Position(PromptIn(c)) = {}
    BY <1>2, <1>7 DEF Miss, CallOK
  <2>3. Position(PromptIn(c))' = {}
    BY <2>1, <2>2 DEF Position
  <2>4. CallOK(c)'
    BY <1>2, <1>7, <2>1, <2>2, <2>3 DEF CallOK, Miss
  <2>5. QED
    BY <2>1, <2>2, <2>4, QuietStep
<1>8. ASSUME NEW c \in Callers, EncodeRaises(c) PROVE LanguageInv'
  <2>1. PICK record \in Calls :
          /\ call' = [call EXCEPT ![c] = record] /\ call'[c] = record
          /\ record.stage = "failed" /\ record.instruction = call[c].instruction
    BY <1>5, <1>8 DEF EncodeRaises, Stages
  <2>2. lock = c /\ lock' = Free /\ UNCHANGED <<capacity, cache, recent>>
    BY <1>2, <1>8 DEF EncodeRaises, CallOK
  <2>3. CallOK(c)'
    BY <1>2, <1>8, <2>1, <2>2 DEF CallOK, EncodeRaises
  <2>4. QED
    BY <2>1, <2>2, <2>3, QuietStep
<1>9. ASSUME NEW c \in Callers, Collect(c) PROVE LanguageInv'
  <2>1. PICK record \in Calls :
          record = [stage |-> "idle", instruction |-> "none", answer |-> NoAnswer]
    BY DEF Calls, Stages, Languages
  <2>2. /\ call' = [call EXCEPT ![c] = record] /\ call'[c] = record
        /\ lock' = lock /\ lock # c /\ record \in Calls
        /\ UNCHANGED <<capacity, cache, recent>>
    BY <1>2, <1>3, <1>9, <2>1 DEF Collect, CallOK
  <2>3. CallOK(c)'
    BY <1>3, <2>1, <2>2 DEF CallOK
  <2>4. QED
    BY <2>2, <2>3, QuietStep
<1>10. ASSUME NEW c \in Callers, Hit(c) PROVE LanguageInv'
  <2>1. PICK i \in Position(PromptIn(c)) : Answers(c, cache[i].language)
    BY <1>10 DEF Hit
  <2>2. /\ i \in 1..Len(cache) /\ cache[i].prompt = PromptIn(c)
        /\ cache[i].language \in Languages
    <3>1. cache \in Seq(Entries)
      BY Types DEF LanguageInv
    <3>2. i \in 1..Len(cache) /\ cache[i].prompt = PromptIn(c) /\ cache[i] \in Entries
      BY <2>1, <3>1 DEF Position
    <3>3. QED
      BY <3>2 DEF Entries, Languages
  <2>3. CanEncode(PromptIn(c)) /\ cache[i].language = Encode(PromptIn(c))
    BY <2>2 DEF LanguageInv, EntriesOK
  <2>4. lock = c /\ call[c].stage # "idle"
    BY <1>2, <1>10 DEF Hit, CallOK
  <2>5. QED
    BY <1>10, <2>1, <2>2, <2>3, <2>4, HitKeepsCache, AnswerStep
<1>11. ASSUME NEW c \in Callers, Encoded(c) PROVE LanguageInv'
  <2>1. /\ CanEncode(PromptIn(c)) /\ Answers(c, Encode(PromptIn(c)))
        /\ lock = c /\ call[c].stage # "idle"
    BY <1>2, <1>11 DEF Encoded, CallOK
  <2>2. Encode(PromptIn(c)) \in Languages
    BY <1>2, <2>1, PromptOfCaller DEF Languages
  <2>3. QED
    BY <1>11, <2>1, <2>2, EncodedKeepsCache, AnswerStep
<1>12. QED
  BY <1>1, <1>4, <1>6, <1>7, <1>8, <1>9, <1>10, <1>11 DEF Next

LEMMA Invariance == Spec => []LanguageInv
BY InitEstablishes, NextKeeps, PTL DEF Spec

-----------------------------------------------------------------------------
(* Results.                                                                *)

(* prepare answers with the encoding of its own prompt: fresh or from the  *)
(* cache, the encoder's rows where the tokenizer has a token and zeros     *)
(* elsewhere, whatever the other threads asked meanwhile.                  *)
THEOREM Answered == Spec => []AnswerIsEncoding
<1>1. LanguageInv => AnswerIsEncoding
  <2> SUFFICES ASSUME LanguageInv, NEW c \in Callers, call[c].stage = "answered"
               PROVE  LET mask == MaskOf[PromptIn(c)] IN
                        /\ call[c].answer.values =
                             [i \in 1..MaxTokens |->
                                IF mask[i] = 1 THEN <<PromptIn(c), i>> ELSE <<>>]
                        /\ call[c].answer.mask = [i \in 1..MaxTokens |-> 1]
    BY DEF AnswerIsEncoding
  <2> DEFINE p == PromptIn(c)
  <2>1. p \in Prompts /\ CanEncode(p) /\ call[c].answer = Encode(p)
    BY PromptOfCaller DEF LanguageInv, CallOK
  <2>2. DOMAIN MaskOf[p] = 1..MaxTokens
    BY <2>1, LanguageAssumption
  <2> HIDE DEF p
  <2>3. Encode(p).values = [i \in 1..MaxTokens |->
                              IF i <= ValidTokens(MaskOf[p]) THEN <<p, i>> ELSE <<>>]
    BY DEF Encode, ApplyWanPromptPadding, EncoderRows
  <2>4. \A i \in 1..MaxTokens : (i <= ValidTokens(MaskOf[p])) <=> (MaskOf[p][i] = 1)
    BY <2>1, MaskIsPrefix
  <2>5. Encode(p).values = [i \in 1..MaxTokens |->
                              IF MaskOf[p][i] = 1 THEN <<p, i>> ELSE <<>>]
    BY <2>3, <2>4
  <2>6. Encode(p).mask = [i \in 1..MaxTokens |-> 1]
    BY <2>2 DEF Encode, ApplyWanPromptPadding
  <2>7. QED
    BY <2>1, <2>5, <2>6 DEF p
<1>2. QED
  BY Invariance, <1>1, PTL

LEMMA EndOfSeq ==
  ASSUME NEW S, NEW s \in Seq(S), NEW o \in Nat, NEW l \in Nat, Len(s) = o + l
  PROVE  SubSeq(s, o + 1, o + l) = [i \in 1..l |-> s[o + i]]
<1>1. PICK t : t = SubSeq(s, o + 1, o + l)
  OBVIOUS
<1>2. \A i \in (o + 1)..(o + l) : i \in 1..Len(s)
  OBVIOUS
<1>3. t \in Seq(S) /\ Len(t) = l /\ \A i \in 1..l : t[i] = s[o + i]
  BY <1>1, <1>2
<1>4. t = [i \in 1..l |-> t[i]]
  BY <1>3
<1>5. QED
  BY <1>1, <1>3, <1>4

(* The OrderedDict of prepare keeps the prompts answered last, in their    *)
(* order and never more than cache_capacity of them.                       *)
THEOREM MostRecent == Spec => []KeepsMostRecent
<1>1. LanguageInv => KeepsMostRecent
  <2> SUFFICES ASSUME LanguageInv PROVE KeepsMostRecent
    OBVIOUS
  <2>1. TypeOK /\ OrderOK /\ cache \in Seq(Entries) /\ recent \in Seq(Prompts)
    BY Types DEF LanguageInv
  <2>2. PICK n \in Nat, m \in Nat, off \in Nat :
          /\ n = Len(recent) /\ m = Len(cache) /\ n = off + m /\ m <= capacity
          /\ m = IF n < capacity THEN n ELSE capacity
          /\ \A k \in 1..m : cache[k].prompt = recent[off + k]
          /\ \A k, l \in 1..n : recent[k] = recent[l] => k = l
    BY <2>1, CacheIsEnd
  <2>3. n - m + 1 = off + 1
    <3>1. \A a, b, c \in Nat : a = b + c => a - c + 1 = b + 1
      OBVIOUS
    <3>2. n = off + m
      BY <2>2
    <3>3. QED
      BY <3>1, <3>2
  <2>4. SubSeq(recent, off + 1, n) = [i \in 1..m |-> recent[off + i]]
    <3>1. n = off + m /\ Len(recent) = off + m
      BY <2>2
    <3>2. recent \in Seq(Prompts)
      BY <2>1
    <3>3. SubSeq(recent, off + 1, off + m) = [i \in 1..m |-> recent[off + i]]
      BY <3>1, <3>2, EndOfSeq
    <3>4. QED
      BY <3>1, <3>3
  <2>5. [i \in DOMAIN cache |-> cache[i].prompt] = [i \in 1..m |-> recent[off + i]]
    <3>1. DOMAIN cache = 1..Len(cache)
      BY <2>1
    <3>2. DOMAIN cache = 1..m
      BY <2>2, <3>1
    <3>3. QED
      BY <2>2, <3>2
  <2>6. SubSeq(recent, n - m + 1, n) = [i \in DOMAIN cache |-> cache[i].prompt]
    BY <2>3, <2>4, <2>5
  <2>7. QED
    BY <2>2, <2>6 DEF KeepsMostRecent
<1>2. QED
  BY Invariance, <1>1, PTL
=============================================================================
