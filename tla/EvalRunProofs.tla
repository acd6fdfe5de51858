---------------------------- MODULE EvalRunProofs ----------------------------
(***************************************************************************)
(* Proofs about EvalRun: the files of a directory and the memory of its    *)
(* client have their types, what a directory records is complete whenever  *)
(* one looks, what may follow a line cut short is settled, and a merge     *)
(* that succeeds has everything once, for any number of directories, clients,   *)
(* episodes, requests, crashes and resumed runs.                           *)
(***************************************************************************)
EXTENDS EvalRun, FiniteSetTheorems, WellFoundedInduction, TLAPS

-----------------------------------------------------------------------------
(* The inductive invariant.                                                *)

(* What a client has settled by the stage it is at.                        *)
ClientOK(d) ==
  /\ pc[d] # "off" => /\ plan[d] \in Plans
                      /\ Parses(requestsTail[d]) /\ episodesTail[d] # "cut"
  /\ pc[d] \in {"connect", "next", "record", "summary"} => requestsTail[d] = "ended"
  /\ pc[d] \in {"retain", "connect", "next", "record", "summary"} =>
       selection[d] = plan[d].selection
  /\ pc[d] \in {"next", "record", "summary"} => server[d] \in Models
  /\ pc[d] = "record" => /\ current[d] \in Results
                         /\ current[d].episode \in Selected(selection[d])
                         /\ current[d].episode \notin Completed(d)

(* Every episode is recorded once, and in the selection.                   *)
RecordedOnce(d) ==
  /\ Completed(d) # {} =>
       selection[d] # Nothing /\ Completed(d) \subseteq Selected(selection[d])
  /\ \A i, j \in 1..Len(episodes[d]) :
       episodes[d][i].episode = episodes[d][j].episode => i = j

(* The first m rows of the file are those of recorded episodes.            *)
Settled(d, m) ==
  /\ \A i \in 1..Len(requests[d]) :
       requests[d][i].episode \in Completed(d) <=> i <= m
  /\ \A e \in ToSet(episodes[d]) :
       \E p \in 0..m : p + e.count <= m /\ RowsStand(d, e, p)

(* After them stand the rows of the episode being recorded, and what is    *)
(* still to be appended completes them.                                    *)
Appending(d, m) ==
  LET done == Len(requests[d]) - m
      rows == RowsOf(current[d].episode, current[d].count) IN
    /\ Len(pending[d]) + done = current[d].count
    /\ \A i \in 1..done : requests[d][m + i] = rows[i]
    /\ \A i \in 1..Len(pending[d]) : pending[d][i] = rows[done + i]

RowsInOrder(d) ==
  \E m \in 0..Len(requests[d]) :
    /\ Settled(d, m)
    /\ pc[d] \in {"connect", "next", "summary"} => m = Len(requests[d])
    /\ pc[d] = "record" => Appending(d, m)
    /\ requestsTail[d] = "unended" => m < Len(requests[d])

DirectoryOK(d) == ClientOK(d) /\ RecordedOnce(d) /\ RowsInOrder(d)

(* The episodes of the directory the merge is reading.                     *)
BeingRead ==
  IF merge.stage \in {"episodes", "requests"}
    THEN Selected(selection[Head(merge.shards)]) ELSE {}

Indices(e) == {r.index : r \in {r \in merge.requests : r.episode = e.episode}}

(* What was merged is in the selections merged so far; the results are     *)
(* unlike; and those of the directories read to their end have their rows. *)
MergeOK ==
  /\ merge.stage \in {"header", "episodes", "requests"} => merge.shards # <<>>
  /\ merge.stage \in {"episodes", "requests"} =>
       selection[Head(merge.shards)] # Nothing
  /\ BeingRead \subseteq merge.covered
  /\ \A e \in merge.episodes : e.episode \in merge.covered
  /\ \A e, f \in merge.episodes : e.episode = f.episode => e = f
  /\ \A r \in merge.requests : r.episode \in merge.covered \ BeingRead
  /\ merge.stage = "episodes" =>
       \A e \in merge.episodes : e.episode \notin BeingRead
  /\ merge.stage = "requests" =>
       merge.shard = {e \in merge.episodes : e.episode \in BeingRead}
  /\ \A e \in merge.episodes :
       e.episode \notin BeingRead => Indices(e) = 0..e.count - 1
  /\ merge.stage = "merged" => {e.episode : e \in merge.episodes} = Episodes

IInv == TypeOK /\ (\A d \in Shards : DirectoryOK(d)) /\ MergeOK

-----------------------------------------------------------------------------
(* Numbers and sequences.                                                  *)

Below == {ss \in Nat \X Nat : ss[1] < ss[2]}

(* A set of natural numbers that is not empty has a least element.         *)
LEMMA Least ==
  ASSUME NEW S \in SUBSET Nat, S # {}
  PROVE  \E n \in S : \A m \in S : n <= m
<1>1. IsWellFoundedOn(Below, Nat)
  BY NatLessThanWellFounded, Zenon DEF OpToRel, Below
<1>2. PICK n \in S : \A m \in S : ~(<<m, n>> \in Below)
  BY <1>1, WFMin
<1>3. \A m \in S : ~(m < n)
  <2>1. SUFFICES ASSUME NEW m \in S, m < n PROVE FALSE
    OBVIOUS
  <2>2. <<m, n>> \in Nat \X Nat /\ <<m, n>>[1] = m /\ <<m, n>>[2] = n
    OBVIOUS
  <2>3. <<m, n>> \in Below
    BY <2>1, <2>2 DEF Below
  <2>4. QED
    BY <1>2, <2>3
<1>4. \A m \in S : m \in Nat /\ n \in Nat
  OBVIOUS
<1>5. QED
  BY <1>3, <1>4

(* Min, by which run_libero_client.py's next episode is named, is one.     *)
LEMMA MinIsMember ==
  ASSUME NEW S \in SUBSET Nat, S # {}
  PROVE  Min(S) \in S
BY Least DEF Min

LEMMA PlannedEpisodes ==
  /\ Len(Planned) \in Nat
  /\ Episodes \subseteq Nat
  /\ \A s \in Selections : Selected(s) \subseteq Episodes
<1>1. Len(Planned) \in Nat /\ Episodes = 1..Len(Planned)
  BY EvalAssumption DEF Episodes
<1>2. \A s \in Selections : s.first \in Episodes /\ s.last \in Episodes
  BY DEF Selections
<1>3. QED
  BY <1>1, <1>2 DEF Selected

LEMMA RowsOfShape ==
  ASSUME NEW e \in Episodes, NEW n \in Counts
  PROVE  /\ RowsOf(e, n) \in Seq(Rows)
         /\ Len(RowsOf(e, n)) = n
         /\ \A i \in 1..n : /\ RowsOf(e, n)[i] = [episode |-> e, index |-> i - 1]
                            /\ RowsOf(e, n)[i].episode = e
<1>1. Counts \subseteq Nat
  BY EvalAssumption
<1>2. \A i \in 1..n : [episode |-> e, index |-> i - 1] \in Rows
  BY <1>1 DEF Rows
<1>3. QED
  BY <1>1, <1>2 DEF RowsOf

LEMMA ResultShape ==
  /\ \A e \in Results : /\ e.episode \in Episodes /\ e.count \in Nat
                        /\ e.count \in Counts
  /\ TypeOK => \A d \in Shards : ToSet(episodes[d]) \subseteq Results
<1>1. Counts \subseteq Nat
  BY EvalAssumption
<1>2. \A e \in Results : /\ e.episode \in Episodes /\ e.count \in Nat
                        /\ e.count \in Counts
  BY <1>1 DEF Results
<1>3. TypeOK => \A d \in Shards : ToSet(episodes[d]) \subseteq Results
  BY DEF TypeOK, ToSet
<1>4. QED
  BY <1>2, <1>3

(* When the rows of recorded episodes are the first m, retaining them is   *)
(* cutting the file there.                                                 *)
LEMMA RetainedPrefix ==
  ASSUME NEW d \in Shards, requests[d] \in Seq(Rows),
         NEW m \in 0..Len(requests[d]), Settled(d, m)
  PROVE  /\ RetainedRows(d) = [k \in 1..m |-> requests[d][k]]
         /\ RetainedRows(d) \in Seq(Rows)
         /\ Len(RetainedRows(d)) = m
<1> DEFINE kept == {i \in DOMAIN requests[d] : requests[d][i].episode \in Completed(d)}
           place(k) == CHOOSE i \in kept : Cardinality(kept \cap 1..i) = k
<1>1. m \in Nat /\ DOMAIN requests[d] = 1..Len(requests[d])
  OBVIOUS
<1>2. kept = 1..m
  BY <1>1 DEF Settled
<1> HIDE DEF kept
<1>3. \A n \in Nat : Cardinality(1..n) = n
  <2>1. ASSUME NEW n \in Nat PROVE Cardinality(1..n) = n
    <3>1. Cardinality(1..n) = IF 1 > n THEN 0 ELSE n - 1 + 1
      BY FS_Interval
    <3>2. QED
      BY <3>1
  <2>2. QED
    BY <2>1
<1>4. ASSUME NEW k \in 1..m PROVE place(k) = k
  <2>1. \A i \in 1..m : kept \cap 1..i = 1..i /\ i \in Nat
    BY <1>1, <1>2
  <2>2. \A i \in kept : Cardinality(kept \cap 1..i) = i
    BY <1>2, <1>3, <2>1
  <2>3. QED
    BY <1>2, <2>2
<1> HIDE DEF place
<1>5. RetainedRows(d) = [k \in 1..m |-> requests[d][place(k)]]
  BY <1>1, <1>2, <1>3 DEF RetainedRows, place, kept
<1>6. RetainedRows(d) = [k \in 1..m |-> requests[d][k]]
  BY <1>4, <1>5
<1>7. QED
  BY <1>1, <1>6

-----------------------------------------------------------------------------
(* Types.                                                                  *)

LEMMA InitOK == Init => IInv
<1> SUFFICES ASSUME Init PROVE IInv
  OBVIOUS
<1>1. TypeOK
  <2>1. NoMerge \in [stage : MergeStages, shards : Seq(Shards),
                     manifest : Manifests \cup {Nothing},
                     model : Models \cup {Nothing}, covered : SUBSET Episodes,
                     shard : SUBSET Results, episodes : SUBSET Results,
                     requests : SUBSET Rows]
    BY DEF NoMerge, MergeStages
  <2>2. QED
    BY <2>1 DEF Init, TypeOK, Tails
<1>2. ASSUME NEW d \in Shards PROVE DirectoryOK(d)
  <2>1. /\ episodes[d] = <<>> /\ requests[d] = <<>> /\ pc[d] = "off"
        /\ Len(requests[d]) = 0 /\ Len(episodes[d]) = 0
        /\ requestsTail[d] = "ended"
    BY DEF Init
  <2>2. ToSet(episodes[d]) = {} /\ Completed(d) = {}
    BY <2>1 DEF ToSet, Completed
  <2>3. ClientOK(d)
    BY <2>1 DEF ClientOK
  <2>4. RecordedOnce(d)
    BY <2>1, <2>2 DEF RecordedOnce
  <2>5. Settled(d, 0) /\ 0 \in 0..Len(requests[d])
    BY <2>1, <2>2 DEF Settled
  <2>6. RowsInOrder(d)
    BY <2>1, <2>5 DEF RowsInOrder
  <2>7. QED
    BY <2>3, <2>4, <2>6 DEF DirectoryOK
<1>3. MergeOK
  BY DEF Init, NoMerge, MergeOK, BeingRead, Indices
<1>4. QED
  BY <1>1, <1>2, <1>3 DEF IInv

(* A step of a client keeps every file and every variable typed.           *)
LEMMA ClientTypes ==
  ASSUME IInv, NEW d \in Shards, Client(d)
  PROVE  TypeOK'
<1> USE DEF IInv, TypeOK, tails
<1>0. DirectoryOK(d) /\ ClientOK(d)
  BY DEF DirectoryOK
<1>1. ASSUME NEW p \in Plans, Start(d, p) PROVE TypeOK'
  BY <1>1 DEF Start, disk
<1>2. CASE Snapshot(d)
  BY <1>0, <1>2 DEF Snapshot, Goes, ClientOK, Plans
<1>3. CASE SelectStep(d)
  <2>1. plan[d].selection \in Selections
    BY <1>0, <1>3 DEF SelectStep, ClientOK, Plans
  <2>2. CASE selection[d] \in {Nothing, plan[d].selection}
    BY <1>3, <2>1, <2>2 DEF SelectStep, Goes
  <2>3. CASE selection[d] \notin {Nothing, plan[d].selection}
    <3>1. Ends(d) /\ UNCHANGED selection
      BY <1>3, <2>3 DEF SelectStep
    <3>2. UNCHANGED <<snapshot, episodes, requests, tails, summary, merge>>
      BY <1>3 DEF SelectStep
    <3>3. QED
      BY <3>1, <3>2 DEF Ends
  <2>4. QED
    BY <2>2, <2>3
<1>4. CASE Retain(d)
  <2>1. RetainedRows(d) \in Seq(Rows)
    BY <1>0, RetainedPrefix DEF DirectoryOK, RowsInOrder
  <2>2. requestsTail' \in [Shards -> Tails]
    BY <1>4 DEF Retain, Tails
  <2>3. QED
    BY <1>4, <2>1, <2>2 DEF Retain, Goes
<1>5. CASE Connect(d)
  <2>1. ASSUME NEW model \in Models,
               server' = [server EXCEPT ![d] = model],
               pc' = [pc EXCEPT ![d] = "next"],
               UNCHANGED <<plan, current, pending>>
        PROVE  TypeOK'
    BY <1>5, <2>1 DEF Connect, disk
  <2>2. CASE Ends(d)
    BY <1>5, <2>2 DEF Connect, Ends, disk
  <2>3. QED
    BY <1>5, <2>1, <2>2 DEF Connect
<1>6. CASE RunEpisode(d)
  <2>1. plan[d] \in Plans /\ server[d] \in Models
    BY <1>0, <1>6 DEF RunEpisode, ClientOK
  <2>2. ToDo(d) \subseteq Episodes /\ ToDo(d) \subseteq Nat /\ ToDo(d) # {}
    BY <1>6, <2>1, PlannedEpisodes DEF RunEpisode, ToDo, Plans
  <2>3. Min(ToDo(d)) \in Episodes
    BY <2>2, MinIsMember
  <2>4. PICK n \in Counts :
          /\ current' = [current EXCEPT ![d] = [episode |-> Min(ToDo(d)),
                                               count |-> n, model |-> server[d]]]
          /\ pending' = [pending EXCEPT ![d] = RowsOf(Min(ToDo(d)), n)]
    BY <1>6 DEF RunEpisode
  <2>5. [episode |-> Min(ToDo(d)), count |-> n, model |-> server[d]] \in Results
    BY <2>1, <2>3 DEF Results
  <2>6. RowsOf(Min(ToDo(d)), n) \in Seq(Rows)
    BY <2>3, RowsOfShape
  <2>7. QED
    BY <1>6, <2>4, <2>5, <2>6 DEF RunEpisode, disk
<1>7. CASE EpisodeFails(d)
  BY <1>0, <1>7 DEF EpisodeFails, WriteSummary, Ends, ClientOK, Plans
<1>8. CASE AppendRequest(d)
  <2>1. Head(pending[d]) \in Rows /\ Tail(pending[d]) \in Seq(Rows)
    BY <1>8 DEF AppendRequest
  <2>2. Append(requests[d], Head(pending[d])) \in Seq(Rows)
    BY <2>1
  <2>3. TailAfter(requestsTail[d]) \in Tails
    BY DEF TailAfter, Tails
  <2>4. QED
    BY <1>8, <2>1, <2>2, <2>3 DEF AppendRequest
<1>9. CASE AppendEpisode(d)
  <2>1. Append(episodes[d], current[d]) \in Seq(Results)
    BY <1>0, <1>9 DEF AppendEpisode, ClientOK
  <2>2. TailAfter(episodesTail[d]) \in Tails
    BY DEF TailAfter, Tails
  <2>3. QED
    BY <1>9, <2>1, <2>2 DEF AppendEpisode, Goes
<1>10. CASE Summarize(d)
  BY <1>0, <1>10 DEF Summarize, WriteSummary, Goes, ClientOK, Plans
<1>11. CASE Finish(d)
  BY <1>0, <1>11 DEF Finish, WriteSummary, Ends, ClientOK, Plans
<1>12. CASE Crash(d)
  <2>1. snapshot' \in [Shards -> Manifests \cup {Nothing, Torn}]
    BY <1>12 DEF Crash
  <2>2. /\ Ends(d)
        /\ UNCHANGED <<selection, episodes, requests, tails, summary, merge>>
    BY <1>12 DEF Crash
  <2>3. QED
    BY <2>1, <2>2 DEF Ends
<1>13. CASE CrashInRequest(d)
  <2>1. Head(pending[d]) \in Rows
    BY <1>13 DEF CrashInRequest
  <2>2. CutWithin(requestsTail[d]) \in Tails /\ "unended" \in Tails
    BY DEF CutWithin, Tails
  <2>3. Append(requests[d], Head(pending[d])) \in Seq(Rows)
    BY <2>1
  <2>4. requests' \in [Shards -> Seq(Rows)] /\ requestsTail' \in [Shards -> Tails]
    <3>1. \/ requests' = requests
          \/ requests' = [requests EXCEPT ![d] = Append(@, Head(pending[d]))]
      BY <1>13 DEF CrashInRequest
    <3>2. \/ requestsTail' = [requestsTail EXCEPT ![d] = CutWithin(@)]
          \/ requestsTail' = [requestsTail EXCEPT ![d] = "unended"]
      BY <1>13 DEF CrashInRequest
    <3>3. requests' \in [Shards -> Seq(Rows)]
      BY <2>3, <3>1
    <3>4. requestsTail' \in [Shards -> Tails]
      BY <2>2, <3>2
    <3>5. QED
      BY <3>3, <3>4
  <2>5. /\ Ends(d)
        /\ UNCHANGED <<snapshot, selection, episodes, episodesTail, summary, merge>>
    BY <1>13 DEF CrashInRequest
  <2>6. /\ pc' \in [Shards -> {"off", "snapshot", "select", "retain", "connect", "next",
                              "record", "summary"}]
        /\ plan' \in [Shards -> Plans \cup {Nothing}]
        /\ server' \in [Shards -> Models \cup {Nothing}]
        /\ current' \in [Shards -> Results \cup {Nothing}]
        /\ pending' \in [Shards -> Seq(Rows)]
    BY <2>5 DEF Ends
  <2>7. QED
    BY <2>4, <2>5, <2>6
<1>14. CASE CrashInEpisode(d)
  <2>1. current[d] \in Results
    BY <1>0, <1>14 DEF CrashInEpisode, ClientOK
  <2>2. CutWithin(episodesTail[d]) \in Tails /\ "unended" \in Tails
    BY DEF CutWithin, Tails
  <2>3. Append(episodes[d], current[d]) \in Seq(Results)
    BY <2>1
  <2>4. episodes' \in [Shards -> Seq(Results)] /\ episodesTail' \in [Shards -> Tails]
    <3>1. \/ episodes' = episodes
          \/ episodes' = [episodes EXCEPT ![d] = Append(@, current[d])]
      BY <1>14 DEF CrashInEpisode
    <3>2. \/ episodesTail' = [episodesTail EXCEPT ![d] = CutWithin(@)]
          \/ episodesTail' = [episodesTail EXCEPT ![d] = "unended"]
      BY <1>14 DEF CrashInEpisode
    <3>3. PICK new \in Seq(Results) : new = Append(episodes[d], current[d])
      BY <2>3
    <3>3a. episodes' = episodes \/ episodes' = [episodes EXCEPT ![d] = new]
      BY <3>1, <3>3, Zenon
    <3>3b. episodes' \in [Shards -> Seq(Results)]
      BY <3>3, <3>3a
    <3>4. episodesTail' \in [Shards -> Tails]
      BY <2>2, <3>2
    <3>5. QED
      BY <3>3b, <3>4
  <2>5. /\ Ends(d)
        /\ UNCHANGED <<snapshot, selection, requests, requestsTail, summary, merge>>
    BY <1>14 DEF CrashInEpisode
  <2>6. /\ pc' \in [Shards -> {"off", "snapshot", "select", "retain", "connect", "next",
                              "record", "summary"}]
        /\ plan' \in [Shards -> Plans \cup {Nothing}]
        /\ server' \in [Shards -> Models \cup {Nothing}]
        /\ current' \in [Shards -> Results \cup {Nothing}]
        /\ pending' \in [Shards -> Seq(Rows)]
    BY <2>5 DEF Ends
  <2>7. QED
    BY <2>4, <2>5, <2>6
<1>15. QED
  BY <1>1, <1>2, <1>3, <1>4, <1>5, <1>6, <1>7, <1>8, <1>9, <1>10, <1>11, <1>12,
     <1>13, <1>14
  DEF Client

-----------------------------------------------------------------------------
(* Steps that leave the records of a directory as they are.                *)

SameRecords(d) ==
  /\ selection'[d] = selection[d]
  /\ episodes'[d] = episodes[d]
  /\ requests'[d] = requests[d]

SameDirectory(d) ==
  /\ SameRecords(d)
  /\ episodesTail'[d] = episodesTail[d] /\ requestsTail'[d] = requestsTail[d]
  /\ pc'[d] = pc[d] /\ plan'[d] = plan[d]
  /\ server'[d] = server[d] /\ current'[d] = current[d] /\ pending'[d] = pending[d]

LEMMA RecordsStay ==
  ASSUME NEW d \in Shards, SameRecords(d)
  PROVE  /\ Completed(d)' = Completed(d)
         /\ RecordedOnce(d) => RecordedOnce(d)'
         /\ \A m : Settled(d, m) => Settled(d, m)'
<1>1. Completed(d)' = Completed(d)
  BY DEF SameRecords, Completed
<1>2. \A e, p : RowsStand(d, e, p)' <=> RowsStand(d, e, p)
  BY DEF SameRecords, RowsStand
<1>3. RecordedOnce(d) => RecordedOnce(d)'
  BY <1>1 DEF SameRecords, RecordedOnce
<1>4. \A m : Settled(d, m) => Settled(d, m)'
  BY <1>1, <1>2 DEF SameRecords, Settled
<1>5. QED
  BY <1>1, <1>3, <1>4

LEMMA DirectoryStays ==
  ASSUME NEW d \in Shards, DirectoryOK(d), SameDirectory(d)
  PROVE  DirectoryOK(d)'
<1>1. SameRecords(d)
  BY DEF SameDirectory
<1>2. ClientOK(d)'
  BY <1>1, RecordsStay DEF DirectoryOK, ClientOK, SameDirectory, SameRecords
<1>3. PICK m \in 0..Len(requests[d]) :
        /\ Settled(d, m)
        /\ pc[d] \in {"connect", "next", "summary"} => m = Len(requests[d])
        /\ pc[d] = "record" => Appending(d, m)
        /\ requestsTail[d] = "unended" => m < Len(requests[d])
  BY DEF DirectoryOK, RowsInOrder
<1>4. Appending(d, m) => Appending(d, m)'
  BY DEF SameDirectory, SameRecords, Appending
<1>5. RowsInOrder(d)'
  BY <1>1, <1>3, <1>4, RecordsStay DEF RowsInOrder, SameDirectory, SameRecords
<1>6. QED
  BY <1>1, <1>2, <1>5, RecordsStay DEF DirectoryOK

(* A client writes in its own directory only.                              *)
LEMMA OthersStay ==
  ASSUME TypeOK, NEW c \in Shards, Client(c), NEW d \in Shards, d # c
  PROVE  SameDirectory(d)
<1> USE DEF TypeOK, SameDirectory, SameRecords, tails
<1>1. ASSUME NEW p \in Plans, Start(c, p) PROVE SameDirectory(d)
  BY <1>1 DEF Start, disk
<1>2. CASE Snapshot(c)
  BY <1>2 DEF Snapshot, Goes
<1>3. CASE SelectStep(c)
  BY <1>3 DEF SelectStep, Goes, Ends
<1>4. CASE Retain(c)
  BY <1>4 DEF Retain, Goes
<1>5. CASE Connect(c)
  BY <1>5 DEF Connect, Ends, disk
<1>6. CASE RunEpisode(c)
  BY <1>6 DEF RunEpisode, disk
<1>7. CASE EpisodeFails(c)
  BY <1>7 DEF EpisodeFails, Ends
<1>8. CASE AppendRequest(c)
  BY <1>8 DEF AppendRequest
<1>9. CASE AppendEpisode(c)
  BY <1>9 DEF AppendEpisode, Goes
<1>10. CASE Summarize(c)
  BY <1>10 DEF Summarize, Goes
<1>11. CASE Finish(c)
  BY <1>11 DEF Finish, Ends
<1>12. CASE Crash(c)
  BY <1>12 DEF Crash, Ends
<1>13. CASE CrashInRequest(c)
  BY <1>13 DEF CrashInRequest, Ends
<1>14. CASE CrashInEpisode(c)
  BY <1>14 DEF CrashInEpisode, Ends
<1>15. QED
  BY <1>1, <1>2, <1>3, <1>4, <1>5, <1>6, <1>7, <1>8, <1>9, <1>10, <1>11, <1>12,
     <1>13, <1>14
  DEF Client

(* A client that ends at any moment leaves records that are in order.      *)
LEMMA EndingKeeps ==
  ASSUME TypeOK, NEW d \in Shards, DirectoryOK(d), Ends(d), SameRecords(d),
         requestsTail'[d] = "unended" => requestsTail[d] = "unended"
  PROVE  DirectoryOK(d)'
<1>1. pc'[d] = "off"
  BY DEF TypeOK, Ends
<1>2. ClientOK(d)'
  BY <1>1 DEF ClientOK
<1>3. RowsInOrder(d)'
  BY <1>1, RecordsStay DEF DirectoryOK, RowsInOrder, SameRecords
<1>4. QED
  BY <1>2, <1>3, RecordsStay DEF DirectoryOK

-----------------------------------------------------------------------------
(* Steps of a client in its own directory.                                 *)

LEMMA OpeningSteps ==
  ASSUME TypeOK, NEW d \in Shards, DirectoryOK(d),
         (\E p \in Plans : Start(d, p)) \/ Snapshot(d) \/ SelectStep(d)
  PROVE  DirectoryOK(d)'
<1> USE DEF TypeOK, tails
<1>1. ASSUME NEW p \in Plans, Start(d, p) PROVE DirectoryOK(d)'
  <2>1. /\ SameRecords(d) /\ pc'[d] = "snapshot" /\ plan'[d] = p
        /\ Parses(requestsTail'[d]) /\ episodesTail'[d] # "cut"
        /\ requestsTail'[d] = requestsTail[d]
    BY <1>1 DEF Start, disk, Loads, Parses, SameRecords
  <2>2. ClientOK(d)'
    BY <2>1 DEF ClientOK
  <2>3. RowsInOrder(d)'
    BY <2>1, RecordsStay DEF DirectoryOK, RowsInOrder, SameRecords
  <2>4. QED
    BY <2>1, <2>2, <2>3, RecordsStay DEF DirectoryOK
<1>2. CASE Snapshot(d)
  <2>1. /\ SameRecords(d) /\ pc'[d] = "select" /\ plan'[d] \in Plans
        /\ Parses(requestsTail'[d]) /\ episodesTail'[d] # "cut"
        /\ requestsTail'[d] = requestsTail[d]
    BY <1>2 DEF Snapshot, Goes, SameRecords, DirectoryOK, ClientOK
  <2>2. ClientOK(d)'
    BY <2>1 DEF ClientOK
  <2>3. RowsInOrder(d)'
    BY <2>1, RecordsStay DEF DirectoryOK, RowsInOrder, SameRecords
  <2>4. QED
    BY <2>1, <2>2, <2>3, RecordsStay DEF DirectoryOK
<1>3. CASE SelectStep(d)
  <2>1. CASE selection[d] \notin {Nothing, plan[d].selection}
    <3>1. Ends(d) /\ SameRecords(d) /\ requestsTail'[d] = requestsTail[d]
      BY <1>3, <2>1 DEF SelectStep, SameRecords
    <3>2. QED
      BY <3>1, EndingKeeps
  <2>2. CASE selection[d] \in {Nothing, plan[d].selection}
    <3>1. /\ selection'[d] = plan[d].selection /\ pc'[d] = "retain"
          /\ plan'[d] = plan[d] /\ tails' = tails
          /\ episodes'[d] = episodes[d] /\ requests'[d] = requests[d]
      BY <1>3, <2>2 DEF SelectStep, Goes
    <3>2. /\ plan[d] \in Plans /\ plan[d].selection # Nothing
          /\ Parses(requestsTail[d]) /\ episodesTail[d] # "cut"
      BY <1>3, EvalAssumption DEF SelectStep, DirectoryOK, ClientOK, Plans
    <3>3. ClientOK(d)'
      BY <3>1, <3>2 DEF ClientOK
    <3>4. Completed(d)' = Completed(d)
      BY <3>1 DEF Completed
    <3>5. RecordedOnce(d)'
      BY <2>2, <3>1, <3>2, <3>4 DEF DirectoryOK, RecordedOnce
    <3>6. \A m : Settled(d, m) => Settled(d, m)'
      BY <3>1, <3>4 DEF Settled, RowsStand
    <3>7. RowsInOrder(d)'
      BY <3>1, <3>6 DEF DirectoryOK, RowsInOrder
    <3>8. QED
      BY <3>3, <3>5, <3>7 DEF DirectoryOK
  <2>3. QED
    BY <2>1, <2>2
<1>4. QED
  BY <1>1, <1>2, <1>3

(* What is cut off is of no recorded episode.                              *)
LEMMA RetainingKeeps ==
  ASSUME TypeOK, NEW d \in Shards, DirectoryOK(d), Retain(d)
  PROVE  DirectoryOK(d)'
<1> USE DEF TypeOK
<1>1. PICK m \in 0..Len(requests[d]) :
        Settled(d, m) /\ (requestsTail[d] = "unended" => m < Len(requests[d]))
  BY DEF DirectoryOK, RowsInOrder
<1>2. /\ requests'[d] = [k \in 1..m |-> requests[d][k]]
      /\ requests'[d] \in Seq(Rows) /\ Len(requests'[d]) = m
  BY <1>1, RetainedPrefix DEF Retain
<1>3. /\ selection'[d] = selection[d] /\ episodes'[d] = episodes[d]
      /\ pc'[d] = "connect" /\ plan'[d] = plan[d]
      /\ episodesTail'[d] = episodesTail[d]
  BY DEF Retain, Goes
<1>3a. requestsTail'[d] = "ended"
  <2>1. requestsTail[d] \in {"ended", "unended"}
    BY DEF DirectoryOK, ClientOK, Retain, Parses
  <2>2. CASE Len(RetainedRows(d)) # Len(requests[d])
    BY <2>2 DEF Retain
  <2>3. CASE Len(RetainedRows(d)) = Len(requests[d])
    <3>1. m = Len(requests[d]) /\ Len(requests[d]) \in Nat
      BY <1>1, <2>3, RetainedPrefix
    <3>2. requestsTail[d] = "ended"
      BY <1>1, <2>1, <3>1
    <3>3. QED
      BY <2>3, <3>2 DEF Retain
  <2>4. QED
    BY <2>2, <2>3
<1>4. Completed(d)' = Completed(d)
  BY <1>3 DEF Completed
<1>5. ClientOK(d)'
  BY <1>3, <1>3a DEF DirectoryOK, ClientOK, Retain, Parses
<1>6. RecordedOnce(d)'
  BY <1>3, <1>4 DEF DirectoryOK, RecordedOnce
<1>7. ASSUME NEW e \in Results, NEW p \in 0..m, p + e.count <= m, RowsStand(d, e, p)
      PROVE  RowsStand(d, e, p)'
  BY <1>2, <1>7 DEF RowsStand
<1>8. ToSet(episodes[d]) \subseteq Results
  BY DEF ToSet
<1>9. Settled(d, m)'
  <2>1. \A i \in 1..Len(requests'[d]) :
          requests'[d][i].episode \in Completed(d)' <=> i <= m
    BY <1>1, <1>2, <1>4 DEF Settled
  <2>2. \A e \in ToSet(episodes[d]) :
          \E p \in 0..m : p + e.count <= m /\ RowsStand(d, e, p)'
    BY <1>1, <1>7, <1>8 DEF Settled
  <2>3. QED
    BY <1>3, <2>1, <2>2 DEF Settled
<1>10. RowsInOrder(d)'
  BY <1>2, <1>3, <1>3a, <1>9 DEF RowsInOrder
<1>11. QED
  BY <1>5, <1>6, <1>10 DEF DirectoryOK

(* Between two episodes every row of the file is of a recorded one.        *)
LEMMA BetweenEpisodesKeeps ==
  ASSUME TypeOK, NEW d \in Shards, DirectoryOK(d),
         \/ Connect(d) \/ RunEpisode(d) \/ EpisodeFails(d) \/ Summarize(d)
         \/ Finish(d) \/ Crash(d)
  PROVE  DirectoryOK(d)'
<1> USE DEF TypeOK, tails
<1>1. CASE Ends(d) /\ SameRecords(d) /\ requestsTail'[d] = requestsTail[d]
  BY <1>1, EndingKeeps
<1>2. CASE EpisodeFails(d) \/ Finish(d) \/ Crash(d)
  BY <1>1, <1>2 DEF EpisodeFails, Finish, Crash, SameRecords
<1>3. ASSUME SameRecords(d), pc'[d] = "next", pc[d] \in {"connect", "summary"},
             plan'[d] = plan[d], tails' = tails, server'[d] \in Models
      PROVE  DirectoryOK(d)'
  <2>1. ClientOK(d)'
    BY <1>3 DEF DirectoryOK, ClientOK, SameRecords
  <2>2. RowsInOrder(d)'
    BY <1>3, RecordsStay DEF DirectoryOK, RowsInOrder, SameRecords
  <2>3. QED
    BY <1>3, <2>1, <2>2, RecordsStay DEF DirectoryOK
<1>4. CASE Connect(d)
  <2>1. SameRecords(d)
    BY <1>4 DEF Connect, disk, SameRecords
  <2>2. ASSUME NEW model \in Models,
               server' = [server EXCEPT ![d] = model],
               pc' = [pc EXCEPT ![d] = "next"],
               UNCHANGED <<plan, current, pending>>
        PROVE  DirectoryOK(d)'
    BY <1>3, <1>4, <2>1, <2>2 DEF Connect, disk
  <2>3. QED
    BY <1>1, <1>4, <2>1, <2>2 DEF Connect, disk
<1>5. CASE Summarize(d)
  <2>1. SameRecords(d)
    BY <1>5 DEF Summarize, SameRecords
  <2>2. QED
    BY <1>3, <1>5, <2>1 DEF Summarize, Goes, DirectoryOK, ClientOK
<1>6. CASE RunEpisode(d)
  <2>1. /\ plan[d] \in Plans /\ server[d] \in Models
        /\ requestsTail[d] = "ended" /\ episodesTail[d] # "cut"
        /\ selection[d] = plan[d].selection
    BY <1>6 DEF RunEpisode, DirectoryOK, ClientOK
  <2>2. /\ SameRecords(d) /\ pc[d] = "next" /\ pc'[d] = "record"
        /\ plan'[d] = plan[d] /\ server'[d] = server[d] /\ tails' = tails
    BY <1>6 DEF RunEpisode, disk, SameRecords
  <2>3. ToDo(d) \subseteq Episodes /\ ToDo(d) \subseteq Nat /\ ToDo(d) # {}
    BY <1>6, <2>1, PlannedEpisodes DEF RunEpisode, ToDo, Plans
  <2>4. Min(ToDo(d)) \in ToDo(d)
    BY <2>3, MinIsMember
  <2>5. PICK n \in Counts :
          /\ current'[d] = [episode |-> Min(ToDo(d)), count |-> n, model |-> server[d]]
          /\ pending'[d] = RowsOf(Min(ToDo(d)), n)
    BY <1>6 DEF RunEpisode
  <2>6. ClientOK(d)'
    BY <2>1, <2>2, <2>3, <2>4, <2>5, RecordsStay
    DEF ClientOK, Results, SameRecords, ToDo, Parses
  <2>7. PICK m \in 0..Len(requests[d]) :
          m = Len(requests[d]) /\ m = Len(requests'[d]) /\ Settled(d, m)'
    BY <2>2, RecordsStay DEF DirectoryOK, RowsInOrder, SameRecords
  <2>8. Appending(d, m)'
    <3>1. /\ Len(pending'[d]) = n /\ current'[d].count = n
          /\ current'[d].episode = Min(ToDo(d))
      BY <2>3, <2>4, <2>5, RowsOfShape
    <3>2. Len(requests'[d]) = Len(requests[d]) /\ Len(requests[d]) \in Nat
      BY <2>2 DEF SameRecords
    <3>3. QED
      BY <2>2, <2>5, <2>7, <3>1, <3>2 DEF Appending, SameRecords
  <2>9. RowsInOrder(d)'
    BY <2>1, <2>2, <2>7, <2>8 DEF RowsInOrder, SameRecords
  <2>10. QED
    BY <2>2, <2>6, <2>9, RecordsStay DEF DirectoryOK
<1>7. QED
  BY <1>2, <1>4, <1>5, <1>6

AppendsRow(d) ==
  /\ pc[d] = "record" /\ pending[d] # <<>>
  /\ requests' = [requests EXCEPT ![d] = Append(@, Head(pending[d]))]
  /\ UNCHANGED <<selection, episodes>>

(* The next row of the episode being recorded comes after m settled ones,  *)
(* and no result in the directory is of that episode.                      *)
LEMMA RowAppended ==
  ASSUME TypeOK, NEW d \in Shards, DirectoryOK(d), AppendsRow(d),
         NEW m \in 0..Len(requests[d]), Settled(d, m), Appending(d, m)
  PROVE  /\ Completed(d)' = Completed(d)
         /\ RecordedOnce(d)'
         /\ Settled(d, m)'
         /\ m \in 0..Len(requests'[d]) /\ m < Len(requests'[d])
         /\ Len(requests'[d]) = Len(requests[d]) + 1
         /\ Head(pending[d]) = RowsOf(current[d].episode, current[d].count)
                                 [Len(requests[d]) - m + 1]
<1> DEFINE e == current[d]
           rows == RowsOf(e.episode, e.count)
<1>0. /\ requests[d] \in Seq(Rows) /\ pending[d] \in Seq(Rows)
      /\ Len(requests[d]) \in Nat /\ Len(pending[d]) \in Nat
  BY DEF TypeOK
<1>2. PICK row \in Rows : row = Head(pending[d]) /\ row = pending[d][1]
  BY <1>0 DEF AppendsRow
<1>3. PICK old \in Nat, left \in Nat :
        /\ old = Len(requests[d]) /\ left = Len(pending[d])
        /\ left >= 1 /\ m \in 0..old
  <2>1. Len(pending[d]) >= 1
    BY <1>0 DEF AppendsRow
  <2>2. QED
    BY <1>0, <2>1
<1>3a. m \in Nat /\ m <= old /\ left >= 1
  BY <1>3
<1>4. /\ requests'[d] = Append(requests[d], row) /\ Len(requests'[d]) = old + 1
      /\ \A i \in 1..old : requests'[d][i] = requests[d][i]
      /\ requests'[d][old + 1] = row
  BY <1>0, <1>2, <1>3 DEF AppendsRow, TypeOK
<1>6. selection'[d] = selection[d] /\ episodes'[d] = episodes[d]
  BY DEF AppendsRow
<1>7. /\ e \in Results /\ e.episode \in Episodes /\ e.count \in Counts
      /\ e.count \in Nat /\ e.episode \notin Completed(d)
  BY ResultShape DEF AppendsRow, DirectoryOK, ClientOK
<1>8. row = rows[old - m + 1] /\ row.episode = e.episode
  <2>1. /\ left + (old - m) = e.count
        /\ row = rows[old - m + 1]
    BY <1>2, <1>3 DEF Appending
  <2>2. \A l, o, k, n \in Nat :
          l >= 1 /\ k <= o /\ l + (o - k) = n => o - k + 1 \in 1..n
    OBVIOUS
  <2>4. old - m + 1 \in 1..e.count
    BY <1>7, <1>3a, <2>1, <2>2
  <2>5. QED
    BY <1>7, <2>1, <2>4, RowsOfShape
<1>9. Completed(d)' = Completed(d)
  BY <1>6 DEF Completed
<1>11. RecordedOnce(d)'
  BY <1>6, <1>9 DEF DirectoryOK, RecordedOnce
<1>12. Settled(d, m)'
  <2>1. \A i \in 1..(old + 1) : requests'[d][i].episode \in Completed(d) <=> i <= m
    <3>1. \A i \in 1..old : requests'[d][i].episode \in Completed(d) <=> i <= m
      BY <1>3, <1>4 DEF Settled
    <3>2. requests'[d][old + 1].episode \notin Completed(d)
      BY <1>4, <1>7, <1>8
    <3>3. QED
      BY <1>3a, <3>1, <3>2
  <2>2. ASSUME NEW f \in ToSet(episodes[d]), NEW p \in 0..m, p + f.count <= m,
               RowsStand(d, f, p)
        PROVE  RowsStand(d, f, p)'
    <3>1. f \in Results /\ f.count \in Nat /\ f.episode \in Completed(d)
      BY ResultShape DEF Completed
    <3>2. row.episode # f.episode
      BY <1>7, <1>8, <3>1
    <3>3. \A i \in 1..old :
            IF p < i /\ i <= p + f.count
              THEN requests'[d][i] = RowsOf(f.episode, f.count)[i - p]
              ELSE requests'[d][i].episode # f.episode
      BY <1>3, <1>4, <2>2 DEF RowsStand
    <3>4. ~(old + 1 <= p + f.count) /\ p + f.count <= old + 1
      BY <1>3a, <2>2, <3>1
    <3>5. \A i \in 1..(old + 1) :
            IF p < i /\ i <= p + f.count
              THEN requests'[d][i] = RowsOf(f.episode, f.count)[i - p]
              ELSE requests'[d][i].episode # f.episode
      BY <1>3, <1>4, <3>2, <3>3, <3>4
    <3>6. QED
      BY <1>4, <3>4, <3>5 DEF RowsStand
  <2>3. \A f \in ToSet(episodes[d]) :
          \E p \in 0..m : p + f.count <= m /\ RowsStand(d, f, p)'
    BY <2>2 DEF Settled
  <2>4. QED
    BY <1>4, <1>6, <1>9, <2>1, <2>3 DEF Settled
<1>14. m \in 0..Len(requests'[d]) /\ m < Len(requests'[d])
  BY <1>3a, <1>4
<1>15. QED
  BY <1>2, <1>3, <1>4, <1>8, <1>9, <1>11, <1>12, <1>14

(* A row is appended: the rest of the episode's rows are still to come.    *)
LEMMA AppendRequestKeeps ==
  ASSUME TypeOK, NEW d \in Shards, DirectoryOK(d), AppendRequest(d)
  PROVE  DirectoryOK(d)'
<1> DEFINE e == current[d]
           rows == RowsOf(e.episode, e.count)
<1>0. /\ requests[d] \in Seq(Rows) /\ pending[d] \in Seq(Rows)
      /\ Len(requests[d]) \in Nat /\ Len(pending[d]) \in Nat
  BY DEF TypeOK
<1>1. PICK m \in 0..Len(requests[d]) : Settled(d, m) /\ Appending(d, m)
  BY DEF AppendRequest, DirectoryOK, RowsInOrder
<1>2. PICK row \in Rows : row = Head(pending[d]) /\ row = pending[d][1]
  BY <1>0 DEF AppendRequest
<1>3. PICK old \in Nat, left \in Nat :
        /\ old = Len(requests[d]) /\ left = Len(pending[d])
        /\ left >= 1 /\ m \in 0..old
  <2>1. Len(pending[d]) >= 1
    BY <1>0 DEF AppendRequest
  <2>2. QED
    BY <1>0, <1>1, <2>1
<1>3a. m \in Nat /\ m <= old /\ left >= 1
  BY <1>3
<1>4. /\ requests'[d] = Append(requests[d], row) /\ Len(requests'[d]) = old + 1
      /\ \A i \in 1..old : requests'[d][i] = requests[d][i]
      /\ requests'[d][old + 1] = row
  BY <1>0, <1>2, <1>3 DEF AppendRequest, TypeOK
<1>5. /\ Len(pending'[d]) = left - 1
      /\ \A i \in 1..(left - 1) : pending'[d][i] = pending[d][i + 1]
  BY <1>0, <1>3 DEF AppendRequest, TypeOK
<1>6. /\ selection'[d] = selection[d] /\ episodesTail'[d] = episodesTail[d]
      /\ pc[d] = "record" /\ pc'[d] = pc[d] /\ plan'[d] = plan[d]
      /\ server'[d] = server[d] /\ current'[d] = current[d]
  BY DEF AppendRequest, TypeOK
<1>6a. requestsTail'[d] = "ended"
  BY DEF AppendRequest, DirectoryOK, ClientOK, TailAfter, TypeOK
<1>8. /\ Completed(d)' = Completed(d) /\ RecordedOnce(d)' /\ Settled(d, m)'
      /\ m \in 0..Len(requests'[d]) /\ row = rows[old - m + 1]
  BY <1>1, <1>2, <1>3, RowAppended DEF AppendRequest, AppendsRow
<1>10. ClientOK(d)'
  BY <1>6, <1>6a, <1>8 DEF DirectoryOK, ClientOK, Parses
<1>13. Appending(d, m)'
  <2>1. /\ left + (old - m) = e.count
        /\ \A i \in 1..(old - m) : requests[d][m + i] = rows[i]
        /\ \A i \in 1..left : pending[d][i] = rows[old - m + i]
    BY <1>1, <1>3 DEF Appending
  <2>2. \A i \in 1..(old + 1 - m) : requests'[d][m + i] = rows[i]
    <3>1. \A i \in 1..(old - m) : m + i \in 1..old
      BY <1>3a
    <3>2. \A i \in 1..(old - m) : requests'[d][m + i] = rows[i]
      BY <1>4, <2>1, <3>1
    <3>3. m + (old - m + 1) = old + 1
      BY <1>3a
    <3>4. requests'[d][m + (old - m + 1)] = rows[old - m + 1]
      BY <1>4, <1>8, <3>3
    <3>5. QED
      BY <1>3a, <3>2, <3>4
  <2>3. \A i \in 1..(left - 1) : pending'[d][i] = rows[old + 1 - m + i]
    <3>1. \A l, o, k \in Nat : \A i \in 1..(l - 1) :
            i + 1 \in 1..l /\ o - k + (i + 1) = o + 1 - k + i
      OBVIOUS
    <3>2. \A i \in 1..(left - 1) :
            i + 1 \in 1..left /\ old - m + (i + 1) = old + 1 - m + i
      BY <1>3a, <3>1
    <3>3. QED
      BY <1>5, <2>1, <3>2
  <2>4. left - 1 + (old + 1 - m) = e.count
    <3>1. \A l, o, k \in Nat :
            l - 1 + (o + 1 - k) = l + (o - k)
      OBVIOUS
    <3>2. QED
      BY <1>3a, <2>1, <3>1
  <2>5. RowsOf(current'[d].episode, current'[d].count) = rows /\ current'[d].count = e.count
    BY <1>6
  <2>6. PICK rs : rs = RowsOf(current'[d].episode, current'[d].count) /\ rs = rows
    BY <2>5
  <2>7. /\ Len(pending'[d]) + (Len(requests'[d]) - m) = current'[d].count
        /\ \A i \in 1..(Len(requests'[d]) - m) : requests'[d][m + i] = rs[i]
        /\ \A i \in 1..Len(pending'[d]) :
             pending'[d][i] = rs[(Len(requests'[d]) - m) + i]
    <3>1. Len(requests'[d]) - m = old + 1 - m /\ Len(pending'[d]) = left - 1
      BY <1>4, <1>5
    <3>2. QED
      BY <2>2, <2>3, <2>4, <2>5, <2>6, <3>1, Zenon
  <2>8. QED
    BY <2>6, <2>7, Zenon DEF Appending
<1>15. RowsInOrder(d)'
  BY <1>6, <1>6a, <1>8, <1>13 DEF RowsInOrder
<1>16. QED
  BY <1>8, <1>10, <1>15 DEF DirectoryOK

(* So does a row whose newline a crash kept from being written: it is of   *)
(* no recorded episode.                                                    *)
LEMMA CrashInRequestKeeps ==
  ASSUME TypeOK, NEW d \in Shards, DirectoryOK(d), CrashInRequest(d)
  PROVE  DirectoryOK(d)'
<1>1. PICK m \in 0..Len(requests[d]) : Settled(d, m) /\ Appending(d, m)
  BY DEF CrashInRequest, DirectoryOK, RowsInOrder
<1>2. pc'[d] = "off" /\ UNCHANGED <<selection, episodes>>
  BY DEF CrashInRequest, Ends, TypeOK
<1>3. CASE UNCHANGED requests /\ requestsTail'[d] = CutWithin(requestsTail[d])
  <2>1. requestsTail'[d] # "unended"
    BY <1>3 DEF CutWithin
  <2>2. SameRecords(d) /\ Ends(d)
    BY <1>2, <1>3 DEF SameRecords, CrashInRequest
  <2>3. QED
    BY <2>1, <2>2, EndingKeeps
<1>4. CASE requests' = [requests EXCEPT ![d] = Append(@, Head(pending[d]))]
  <2>1. /\ RecordedOnce(d)' /\ Settled(d, m)'
        /\ m \in 0..Len(requests'[d]) /\ m < Len(requests'[d])
    BY <1>1, <1>2, <1>4, RowAppended DEF CrashInRequest, AppendsRow
  <2>2. ClientOK(d)'
    BY <1>2 DEF ClientOK
  <2>3. RowsInOrder(d)'
    BY <1>2, <2>1 DEF RowsInOrder
  <2>4. QED
    BY <2>1, <2>2, <2>3 DEF DirectoryOK
<1>5. QED
  BY <1>3, <1>4 DEF CrashInRequest, TypeOK

(* The result follows its rows, which stand together at the end.           *)
LEMMA ResultAppended ==
  ASSUME TypeOK, NEW d \in Shards, DirectoryOK(d),
         pc[d] = "record", pending[d] = <<>>,
         episodes' = [episodes EXCEPT ![d] = Append(@, current[d])],
         UNCHANGED <<selection, requests>>
  PROVE  /\ RecordedOnce(d)'
         /\ Settled(d, Len(requests[d]))'
         /\ Len(requests[d]) \in 0..Len(requests'[d])
<1> DEFINE e == current[d]
           rows == RowsOf(e.episode, e.count)
<1>0. /\ requests[d] \in Seq(Rows) /\ episodes[d] \in Seq(Results)
      /\ Len(requests[d]) \in Nat /\ Len(episodes[d]) \in Nat
  BY DEF TypeOK
<1>1. PICK m \in 0..Len(requests[d]) : Settled(d, m) /\ Appending(d, m)
  BY DEF DirectoryOK, RowsInOrder
<1>2. PICK len \in Nat, n \in Nat :
        len = Len(requests[d]) /\ n = Len(episodes[d]) /\ m \in 0..len
  BY <1>0, <1>1
<1>3. /\ episodes'[d] = Append(episodes[d], e) /\ Len(episodes'[d]) = n + 1
      /\ \A i \in 1..n : episodes'[d][i] = episodes[d][i]
      /\ episodes'[d][n + 1] = e
  BY <1>0, <1>2 DEF DirectoryOK, ClientOK, TypeOK
<1>4. /\ selection'[d] = selection[d] /\ requests'[d] = requests[d]
      /\ pc[d] = "record" /\ pending[d] = <<>>
  OBVIOUS
<1>5. /\ e \in Results /\ e.episode \in Episodes /\ e.count \in Counts
      /\ e.count \in Nat
      /\ e.episode \in Selected(selection[d]) /\ e.episode \notin Completed(d)
      /\ selection[d] = plan[d].selection /\ plan[d] \in Plans
  BY <1>4, ResultShape DEF DirectoryOK, ClientOK
<1>6. ToSet(episodes[d])' = ToSet(episodes[d]) \cup {e}
  <2>1. \A i \in 1..(n + 1) : i \in 1..n \/ i = n + 1
    BY <1>2
  <2>2. DOMAIN episodes[d] = 1..n /\ DOMAIN episodes'[d] = 1..(n + 1) /\ n + 1 \in 1..(n + 1)
        /\ 1..n \subseteq 1..(n + 1)
    BY <1>2, <1>3, <1>5
  <2>3. QED
    BY <1>3, <2>1, <2>2 DEF ToSet
<1>7. Completed(d)' = Completed(d) \cup {e.episode}
  BY <1>6 DEF Completed
<1>9. RecordedOnce(d)'
  <2>1. selection[d] # Nothing
    BY <1>5, EvalAssumption DEF Plans
  <2>2. Completed(d)' \subseteq Selected(selection[d])
    BY <1>5, <1>7 DEF DirectoryOK, RecordedOnce
  <2>3. \A i \in 1..n : episodes[d][i].episode # e.episode
    BY <1>2, <1>5 DEF Completed, ToSet
  <2>4. ASSUME NEW i \in 1..(n + 1), NEW j \in 1..(n + 1),
               episodes'[d][i].episode = episodes'[d][j].episode
        PROVE  i = j
    <3>1. CASE i \in 1..n /\ j \in 1..n
      BY <1>2, <1>3, <2>4, <3>1 DEF DirectoryOK, RecordedOnce
    <3>2. CASE i = n + 1 /\ j \in 1..n
      BY <1>3, <2>3, <2>4, <3>2
    <3>3. CASE i \in 1..n /\ j = n + 1
      BY <1>3, <2>3, <2>4, <3>3
    <3>4. QED
      BY <1>2, <3>1, <3>2, <3>3
  <2>5. QED
    BY <1>3, <1>4, <2>1, <2>2, <2>4 DEF RecordedOnce
<1>10. len - m = e.count /\ \A i \in 1..(len - m) : requests[d][m + i] = rows[i]
  BY <1>1, <1>2, <1>4, <1>5 DEF Appending
<1>11. ASSUME NEW i \in 1..len
       PROVE  IF m < i THEN requests[d][i] = rows[i - m] /\ requests[d][i].episode = e.episode
                       ELSE requests[d][i].episode \in Completed(d)
  <2>1. CASE m < i
    <3>1. i - m \in 1..(len - m) /\ m + (i - m) = i
      BY <1>2, <2>1
    <3>2. requests[d][i] = rows[i - m]
      BY <1>10, <3>1
    <3>3. i - m \in 1..e.count
      BY <1>10, <3>1
    <3>4. rows[i - m].episode = e.episode
      BY <1>5, <3>3, RowsOfShape
    <3>5. QED
      BY <2>1, <3>2, <3>4
  <2>2. CASE ~(m < i)
    BY <1>1, <1>2, <2>2 DEF Settled
  <2>3. QED
    BY <2>1, <2>2
<1>12. RowsStand(d, e, m)
  <2>1. m + e.count = len
    BY <1>2, <1>5, <1>10
  <2>2. \A i \in 1..len :
          IF m < i /\ i <= m + e.count THEN requests[d][i] = rows[i - m]
                                     ELSE requests[d][i].episode # e.episode
    BY <1>5, <1>11, <2>1
  <2>3. QED
    BY <1>2, <2>1, <2>2 DEF RowsStand
<1>13. \A f, p : RowsStand(d, f, p)' <=> RowsStand(d, f, p)
  BY <1>4 DEF RowsStand
<1>14. Settled(d, len)'
  <2>1. \A i \in 1..len : requests[d][i].episode \in Completed(d)' /\ i <= len
    BY <1>7, <1>11, <1>2
  <2>2. m + e.count <= len /\ m \in 0..len
    BY <1>2, <1>10, <1>5
  <2>3. ASSUME NEW f \in ToSet(episodes[d])
        PROVE  \E p \in 0..len : p + f.count <= len /\ RowsStand(d, f, p)
    <3>1. PICK p \in 0..m : p + f.count <= m /\ RowsStand(d, f, p)
      BY <1>1 DEF Settled
    <3>2. f.count \in Nat
      BY ResultShape
    <3>3. p \in 0..len /\ p + f.count <= len
      BY <1>2, <3>1, <3>2
    <3>4. QED
      BY <3>1, <3>3
  <2>4. \A f \in ToSet(episodes[d])' :
          \E p \in 0..len : p + f.count <= len /\ RowsStand(d, f, p)'
    BY <1>6, <1>12, <1>13, <2>2, <2>3
  <2>5. QED
    BY <1>2, <1>4, <2>1, <2>4 DEF Settled
<1>15. QED
  BY <1>2, <1>4, <1>9, <1>14

LEMMA AppendEpisodeKeeps ==
  ASSUME TypeOK, NEW d \in Shards, DirectoryOK(d), AppendEpisode(d)
  PROVE  DirectoryOK(d)'
<1>1. /\ RecordedOnce(d)' /\ Settled(d, Len(requests[d]))'
      /\ Len(requests[d]) \in 0..Len(requests'[d])
  BY ResultAppended DEF AppendEpisode
<1>2. /\ UNCHANGED <<selection, requests, requestsTail>>
      /\ pc[d] = "record" /\ pc'[d] = "summary" /\ plan'[d] = plan[d]
      /\ server'[d] = server[d] /\ episodesTail'[d] = TailAfter(episodesTail[d])
  BY DEF AppendEpisode, Goes, TypeOK
<1>3. ClientOK(d)'
  BY <1>2 DEF DirectoryOK, ClientOK, TailAfter
<1>4. requestsTail'[d] = "ended"
  BY <1>2 DEF DirectoryOK, ClientOK
<1>5. RowsInOrder(d)'
  BY <1>1, <1>2, <1>4 DEF RowsInOrder
<1>6. QED
  BY <1>1, <1>3, <1>5 DEF DirectoryOK

(* A result whose newline a crash kept from being written is recorded.     *)
LEMMA CrashInEpisodeKeeps ==
  ASSUME TypeOK, NEW d \in Shards, DirectoryOK(d), CrashInEpisode(d)
  PROVE  DirectoryOK(d)'
<1>1. /\ pc'[d] = "off" /\ UNCHANGED <<selection, requests, requestsTail>>
      /\ requestsTail[d] = "ended"
  BY DEF CrashInEpisode, Ends, TypeOK, DirectoryOK, ClientOK
<1>2. CASE UNCHANGED episodes
  <2>1. SameRecords(d) /\ Ends(d)
    BY <1>1, <1>2 DEF SameRecords, CrashInEpisode
  <2>2. QED
    BY <1>1, <2>1, EndingKeeps
<1>3. CASE episodes' = [episodes EXCEPT ![d] = Append(@, current[d])]
  <2>1. /\ RecordedOnce(d)' /\ Settled(d, Len(requests[d]))'
        /\ Len(requests[d]) \in 0..Len(requests'[d])
    BY <1>1, <1>3, ResultAppended DEF CrashInEpisode
  <2>2. ClientOK(d)'
    BY <1>1 DEF ClientOK
  <2>3. RowsInOrder(d)'
    BY <1>1, <2>1 DEF RowsInOrder
  <2>4. QED
    BY <2>1, <2>2, <2>3 DEF DirectoryOK
<1>4. QED
  BY <1>2, <1>3 DEF CrashInEpisode

LEMMA ClientStepKeepsDirectories ==
  ASSUME IInv, NEW c \in Shards, Client(c), NEW d \in Shards
  PROVE  DirectoryOK(d)'
<1>1. TypeOK /\ DirectoryOK(d)
  BY DEF IInv
<1>2. CASE d # c
  BY <1>1, <1>2, OthersStay, DirectoryStays
<1>3. CASE d = c
  BY <1>1, <1>3, OpeningSteps, RetainingKeeps, BetweenEpisodesKeeps,
     AppendRequestKeeps, AppendEpisodeKeeps, CrashInRequestKeeps, CrashInEpisodeKeeps
  DEF Client
<1>4. QED
  BY <1>2, <1>3

-----------------------------------------------------------------------------
(* The merge.                                                              *)

(* selection.json, once written, stays as it is.                           *)
LEMMA SelectionStays ==
  ASSUME TypeOK, NEW c \in Shards, Client(c), NEW d \in Shards,
         selection[d] # Nothing
  PROVE  selection'[d] = selection[d]
<1>1. CASE SelectStep(c)
  BY <1>1 DEF SelectStep, TypeOK
<1>2. CASE ~SelectStep(c)
  BY <1>2 DEF Client, Start, disk, Snapshot, Retain, Connect, RunEpisode,
              EpisodeFails, AppendRequest, AppendEpisode, Summarize, Finish, Crash,
              CrashInRequest, CrashInEpisode
<1>3. QED
  BY <1>1, <1>2

(* While a client writes, the merge keeps what it has read.                *)
LEMMA ClientStepKeepsMerge ==
  ASSUME IInv, NEW c \in Shards, Client(c)
  PROVE  MergeOK'
<1>1. merge' = merge
  BY DEF Client, Start, Snapshot, SelectStep, Retain, Connect, RunEpisode,
         EpisodeFails, AppendRequest, AppendEpisode, Summarize, Finish, Crash,
         CrashInRequest, CrashInEpisode
<1>2. ASSUME merge.stage \in {"episodes", "requests"}
      PROVE  selection'[Head(merge.shards)] = selection[Head(merge.shards)]
  <2>1. merge.shards \in Seq(Shards) /\ merge.shards # <<>>
        /\ selection[Head(merge.shards)] # Nothing
    BY <1>2 DEF IInv, TypeOK, MergeOK
  <2>2. Head(merge.shards) \in Shards
    BY <2>1
  <2>3. QED
    BY <2>1, <2>2, SelectionStays DEF IInv
<1>3. BeingRead' = BeingRead
  BY <1>1, <1>2 DEF BeingRead
<1>4. \A e : Indices(e)' = Indices(e)
  BY <1>1 DEF Indices
<1>5. QED
  BY <1>1, <1>2, <1>3, <1>4 DEF IInv, MergeOK

(* The steps of the merge keep what it holds typed.                        *)
LEMMA MergeTypes ==
  ASSUME IInv, Merge
  PROVE  TypeOK'
<1> DEFINE MergeType ==
      [stage : MergeStages, shards : Seq(Shards),
       manifest : Manifests \cup {Nothing}, model : Models \cup {Nothing},
       covered : SUBSET Episodes, shard : SUBSET Results,
       episodes : SUBSET Results, requests : SUBSET Rows]
<1>1. merge \in MergeType /\ NoMerge \in MergeType
  BY DEF IInv, TypeOK, NoMerge, MergeStages
<1>2. ASSUME merge.stage \in {"header", "episodes", "requests"}
      PROVE  /\ merge.shards # <<>> /\ Head(merge.shards) \in Shards
             /\ Tail(merge.shards) \in Seq(Shards)
  BY <1>1, <1>2 DEF IInv, MergeOK
<1>3. ASSUME NEW d \in Shards
      PROVE  ToSet(episodes[d]) \subseteq Results /\ ToSet(requests[d]) \subseteq Rows
  BY DEF IInv, TypeOK, ToSet
<1>4. UNCHANGED <<disk, client>>
  BY DEF Merge, MergeStart, MergeHeader, MergeEpisodes, MergeRequests
<1>5. merge' \in MergeType
  <2>1. ASSUME NEW m \in Manifests, NEW n \in 1..Cardinality(Shards),
               NEW ds \in [1..n -> Shards], MergeStart(m, ds)
        PROVE  merge' \in MergeType
    <3>1. ds \in Seq(Shards)
      OBVIOUS
    <3>2. QED
      BY <1>1, <2>1, <3>1 DEF MergeStart, MergeStages
  <2>2. CASE MergeHeader
    <3>1. PICK d \in Shards : d = Head(merge.shards)
      BY <1>2, <2>2 DEF MergeHeader
    <3>2. CASE HeaderFits(d)
      <4>1. selection[d] \in Selections /\ summary[d].model \in Models
        BY <3>2 DEF HeaderFits, IInv, TypeOK
      <4>2. Selected(selection[d]) \subseteq Episodes
        BY <4>1, PlannedEpisodes
      <4>3. merge' = [merge EXCEPT !.stage = "episodes", !.model = summary[d].model,
                               !.covered = @ \cup Selected(selection[d])]
        BY <2>2, <3>1, <3>2 DEF MergeHeader
      <4>4. QED
        BY <1>1, <4>1, <4>2, <4>3 DEF MergeStages
    <3>3. CASE ~HeaderFits(d)
      BY <1>1, <2>2, <3>1, <3>3 DEF MergeHeader, Refused
    <3>4. QED
      BY <3>2, <3>3
  <2>3. CASE MergeEpisodes
    <3>1. PICK d \in Shards : d = Head(merge.shards)
      BY <1>2, <2>3 DEF MergeEpisodes
    <3>2. \/ merge' = [merge EXCEPT !.stage = "requests", !.shard = ToSet(episodes[d]),
                                 !.episodes = @ \cup ToSet(episodes[d])]
          \/ merge' = NoMerge
      BY <2>3, <3>1 DEF MergeEpisodes, Refused
    <3>3. PICK new \in SUBSET Results : new = ToSet(episodes[d])
      BY <1>3
    <3>4. CASE merge' = [merge EXCEPT !.stage = "requests", !.shard = new,
                                    !.episodes = @ \cup new]
      <4>1. "requests" \in MergeStages /\ merge.episodes \cup new \in SUBSET Results
        BY <1>1 DEF MergeStages
      <4>2. QED
        BY <1>1, <3>4, <4>1
    <3>5. QED
      BY <1>1, <3>2, <3>3, <3>4
  <2>4. CASE MergeRequests
    <3>1. PICK d \in Shards : d = Head(merge.shards)
      BY <1>2, <2>4 DEF MergeRequests
    <3>2. Tail(merge.shards) \in Seq(Shards)
      BY <1>2, <2>4 DEF MergeRequests
    <3>3. \/ \E stage \in {"header", "merged"} :
               merge' = [merge EXCEPT !.shards = Tail(merge.shards), !.shard = {},
                                    !.requests = @ \cup ToSet(requests[d]),
                                    !.stage = stage]
          \/ merge' = NoMerge
      BY <2>4, <3>1 DEF MergeRequests, Refused
    <3>4. QED
      BY <1>1, <1>3, <3>2, <3>3 DEF MergeStages
  <2>5. QED
    BY <2>1, <2>2, <2>3, <2>4 DEF Merge
<1>6. QED
  BY <1>4, <1>5 DEF IInv, TypeOK, disk, tails, client

(* A merge that starts, or is refused, holds nothing.                      *)
LEMMA EmptyMergeOK ==
  ASSUME merge'.episodes = {}, merge'.requests = {}, merge'.covered = {},
         \/ merge'.stage = "off"
         \/ merge'.stage = "header" /\ merge'.shards # <<>>
  PROVE  MergeOK'
<1>1. BeingRead' = {}
  BY DEF BeingRead
<1>2. QED
  BY <1>1 DEF MergeOK

LEMMA MergeStartKeeps ==
  ASSUME IInv, NEW m \in Manifests, NEW n \in 1..Cardinality(Shards),
         NEW ds \in [1..n -> Shards], MergeStart(m, ds)
  PROVE  MergeOK'
<1>1. ds # <<>>
  OBVIOUS
<1>2. /\ merge'.stage = "header" /\ merge'.shards = ds /\ merge'.episodes = {}
      /\ merge'.requests = {} /\ merge'.covered = {}
  BY DEF MergeStart, NoMerge
<1>3. QED
  BY <1>1, <1>2, EmptyMergeOK

LEMMA RefusedKeeps == Refused => MergeOK'
<1> SUFFICES ASSUME Refused PROVE MergeOK'
  OBVIOUS
<1>1. /\ merge'.stage = "off" /\ merge'.episodes = {} /\ merge'.requests = {}
      /\ merge'.covered = {}
  BY DEF Refused, NoMerge
<1>2. QED
  BY <1>1, EmptyMergeOK

(* The next directory's selection is apart from those merged before.       *)
LEMMA MergeHeaderKeeps ==
  ASSUME IInv, MergeHeader
  PROVE  MergeOK'
<1> DEFINE d == Head(merge.shards)
<1>1. CASE ~HeaderFits(d)
  BY <1>1, RefusedKeeps DEF MergeHeader
<1>2. CASE HeaderFits(d)
  <2>1. PICK own, old : own = Selected(selection[d]) /\ old = merge.covered
    OBVIOUS
  <2>2. /\ selection' = selection /\ selection[d] # Nothing
        /\ merge.stage = "header" /\ old \cap own = {}
    BY <1>2, <2>1 DEF MergeHeader, HeaderFits, disk
  <2>3. /\ merge'.stage = "episodes" /\ merge'.shards = merge.shards
        /\ merge'.covered = old \cup own /\ merge'.episodes = merge.episodes
        /\ merge'.requests = merge.requests
    BY <1>2, <2>1 DEF MergeHeader, IInv, TypeOK
  <2>4. BeingRead = {} /\ BeingRead' = own
    BY <2>1, <2>2, <2>3 DEF BeingRead
  <2>5. \A e : Indices(e)' = Indices(e)
    BY <2>3 DEF Indices
  <2>6. /\ merge.shards # <<>>
        /\ \A e \in merge.episodes : e.episode \in old
        /\ \A e, f \in merge.episodes : e.episode = f.episode => e = f
        /\ \A r \in merge.requests : r.episode \in old
        /\ \A e \in merge.episodes : Indices(e) = 0..e.count - 1
    BY <2>1, <2>2, <2>4 DEF IInv, MergeOK
  <2>7. QED
    BY <2>2, <2>3, <2>4, <2>5, <2>6 DEF MergeOK
<1>3. QED
  BY <1>1, <1>2

(* The results read are of the directory's selection, and each is alone.   *)
LEMMA MergeEpisodesKeeps ==
  ASSUME IInv, MergeEpisodes
  PROVE  MergeOK'
<1>1. CASE Refused
  BY <1>1, RefusedKeeps
<1>2. CASE ~Refused
  <2>1. PICK d : d = Head(merge.shards)
    OBVIOUS
  <2>2. PICK own, new : own = Selected(selection[d]) /\ new = ToSet(episodes[d])
    OBVIOUS
  <2>3. /\ selection' = selection /\ merge.stage = "episodes"
        /\ Completed(d) \subseteq own
        /\ \A i, j \in 1..Len(episodes[d]) :
             episodes[d][i].episode = episodes[d][j].episode => i = j
        /\ merge' = [merge EXCEPT !.stage = "requests", !.shard = new,
                                 !.episodes = @ \cup new]
    BY <1>2, <2>1, <2>2 DEF MergeEpisodes, disk
  <2>4. /\ merge'.stage = "requests" /\ merge'.shards = merge.shards
        /\ merge'.covered = merge.covered /\ merge'.shard = new
        /\ merge'.episodes = merge.episodes \cup new
        /\ merge'.requests = merge.requests
    BY <2>3 DEF IInv, TypeOK
  <2>5. BeingRead = own /\ BeingRead' = own
    BY <2>1, <2>2, <2>3, <2>4 DEF BeingRead
  <2>6. /\ \A e \in new : e.episode \in own
        /\ \A e, f \in new : e.episode = f.episode => e = f
    <3>1. d \in Shards
      BY <2>1, <2>3 DEF IInv, TypeOK, MergeOK
    <3>2. DOMAIN episodes[d] = 1..Len(episodes[d])
      BY <3>1 DEF IInv, TypeOK
    <3>3. QED
      BY <2>2, <2>3, <3>2 DEF ToSet, Completed
  <2>7. \A e : Indices(e)' = Indices(e)
    BY <2>4 DEF Indices
  <2>8. /\ merge.shards # <<>> /\ selection[Head(merge.shards)] # Nothing
        /\ own \subseteq merge.covered
        /\ \A e \in merge.episodes : e.episode \in merge.covered /\ e.episode \notin own
        /\ \A e, f \in merge.episodes : e.episode = f.episode => e = f
        /\ \A r \in merge.requests : r.episode \in merge.covered \ own
        /\ \A e \in merge.episodes : Indices(e) = 0..e.count - 1
    BY <2>3, <2>5 DEF IInv, MergeOK
  <2>9. QED
    BY <2>3, <2>4, <2>5, <2>6, <2>7, <2>8 DEF MergeOK
<1>3. QED
  BY <1>1, <1>2

(* The rows read are of the selection too, and each result has its own.    *)
LEMMA MergeRequestsKeeps ==
  ASSUME IInv, MergeRequests
  PROVE  MergeOK'
<1>1. CASE Refused
  BY <1>1, RefusedKeeps
<1>2. CASE ~Refused
  <2>1. PICK d : d = Head(merge.shards)
    OBVIOUS
  <2>2. PICK own, new : own = Selected(selection[d]) /\ new = ToSet(requests[d])
    OBVIOUS
  <2>3. /\ merge.stage = "requests"
        /\ \A r \in new : r.episode \in own
        /\ \A e \in merge.shard :
             {r.index : r \in {r \in new : r.episode = e.episode}} = 0..e.count - 1
    BY <1>2, <2>1, <2>2 DEF MergeRequests, RowsFit
  <2>4. PICK stage \in {"header", "merged"} :
          /\ merge' = [merge EXCEPT !.shards = Tail(merge.shards), !.shard = {},
                                   !.requests = @ \cup new, !.stage = stage]
          /\ stage = "header" => Tail(merge.shards) # <<>>
          /\ stage = "merged" => {e.episode : e \in merge.episodes} = Episodes
    BY <1>2, <2>1, <2>2 DEF MergeRequests, AllThere
  <2>5. /\ merge'.stage = stage /\ merge'.shards = Tail(merge.shards)
        /\ merge'.covered = merge.covered /\ merge'.episodes = merge.episodes
        /\ merge'.requests = merge.requests \cup new
    BY <2>4 DEF IInv, TypeOK
  <2>6. BeingRead = own /\ BeingRead' = {}
    BY <2>1, <2>2, <2>3, <2>5 DEF BeingRead
  <2>7. /\ own \subseteq merge.covered
        /\ merge.shard = {e \in merge.episodes : e.episode \in own}
        /\ \A r \in merge.requests : r.episode \in merge.covered \ own
        /\ \A e \in merge.episodes :
             e.episode \notin own => Indices(e) = 0..e.count - 1
        /\ \A e \in merge.episodes : e.episode \in merge.covered
        /\ \A e, f \in merge.episodes : e.episode = f.episode => e = f
    BY <2>3, <2>6 DEF IInv, MergeOK
  <2>8. ASSUME NEW e \in merge.episodes PROVE Indices(e)' = 0..e.count - 1
    <3>1. CASE e.episode \in own
      <4>1. {r \in merge.requests \cup new : r.episode = e.episode}
              = {r \in new : r.episode = e.episode}
        BY <2>7, <3>1
      <4>2. e \in merge.shard
        BY <2>7, <3>1
      <4>3. QED
        BY <2>3, <2>5, <4>1, <4>2 DEF Indices
    <3>2. CASE e.episode \notin own
      <4>1. {r \in merge.requests \cup new : r.episode = e.episode}
              = {r \in merge.requests : r.episode = e.episode}
        BY <2>3, <3>2
      <4>2. QED
        BY <2>5, <2>7, <3>2, <4>1 DEF Indices
    <3>3. QED
      BY <3>1, <3>2
  <2>9. QED
    BY <2>3, <2>4, <2>5, <2>6, <2>7, <2>8 DEF MergeOK
<1>3. QED
  BY <1>1, <1>2

-----------------------------------------------------------------------------
(* The invariant, and what follows from it.                                *)

LEMMA MergeStepKeepsDirectories ==
  ASSUME IInv, Merge, NEW d \in Shards
  PROVE  DirectoryOK(d)'
<1>1. UNCHANGED <<disk, client>>
  BY DEF Merge, MergeStart, MergeHeader, MergeEpisodes, MergeRequests
<1>2. SameDirectory(d)
  BY <1>1 DEF disk, tails, client, SameDirectory, SameRecords
<1>3. QED
  BY <1>2, DirectoryStays DEF IInv

LEMMA Invariance == Spec => []IInv
<1>1. IInv /\ [Next]_vars => IInv'
  <2> SUFFICES ASSUME IInv, [Next]_vars PROVE IInv'
    OBVIOUS
  <2>1. ASSUME NEW c \in Shards, Client(c) PROVE IInv'
    BY <2>1, ClientTypes, ClientStepKeepsDirectories, ClientStepKeepsMerge DEF IInv
  <2>2. CASE Merge
    <3>1. TypeOK'
      BY <2>2, MergeTypes
    <3>2. \A d \in Shards : DirectoryOK(d)'
      BY <2>2, MergeStepKeepsDirectories
    <3>3. MergeOK'
      BY <2>2, MergeStartKeeps, MergeHeaderKeeps, MergeEpisodesKeeps, MergeRequestsKeeps
      DEF Merge
    <3>4. QED
      BY <3>1, <3>2, <3>3 DEF IInv
  <2>3. CASE UNCHANGED vars
    <3>1. UNCHANGED <<disk, client, merge>>
      BY <2>3 DEF vars
    <3>2. TypeOK'
      BY <3>1 DEF IInv, TypeOK, disk, tails, client
    <3>3. ASSUME NEW d \in Shards PROVE DirectoryOK(d)'
      <4>1. SameDirectory(d)
        BY <3>1 DEF disk, tails, client, SameDirectory, SameRecords
      <4>2. QED
        BY <4>1, DirectoryStays DEF IInv
    <3>4. MergeOK'
      BY <3>1 DEF IInv, MergeOK, BeingRead, Indices, disk
    <3>5. QED
      BY <3>2, <3>3, <3>4 DEF IInv
  <2>4. QED
    BY <2>1, <2>2, <2>3 DEF Next
<1>2. QED
  BY InitOK, <1>1, PTL DEF Spec

(* Files, clients and merge always have their types; requests.jsonl only   *)
(* ever holds rows of planned episodes (run_libero_client.py, main).       *)
THEOREM TypeCorrect == Spec => []TypeOK
<1>1. IInv => TypeOK
  BY DEF IInv
<1>2. QED
  BY Invariance, <1>1, PTL

(* A directory is complete in what it records at every moment, whatever    *)
(* runs and crashes it has seen: run_libero_client.py appends the rows     *)
(* before the result, and drops the rows that have none when it resumes.   *)
THEOREM DirectoriesComplete == Spec => []RecordsComplete
<1>1. IInv => RecordsComplete
  <2> SUFFICES ASSUME IInv, NEW d \in Shards
               PROVE  /\ Completed(d) # {} => Completed(d) \subseteq Selected(selection[d])
                      /\ \A i, j \in 1..Len(episodes[d]) :
                           episodes[d][i].episode = episodes[d][j].episode => i = j
                      /\ \A e \in ToSet(episodes[d]) :
                           \E p \in 0..Len(requests[d]) : RowsStand(d, e, p)
    BY DEF RecordsComplete
  <2>1. RecordedOnce(d) /\ RowsInOrder(d)
    BY DEF IInv, DirectoryOK
  <2>2. PICK m \in 0..Len(requests[d]) : Settled(d, m)
    BY <2>1 DEF RowsInOrder
  <2>3. Len(requests[d]) \in Nat
    BY DEF IInv, TypeOK
  <2>4. 0..m \subseteq 0..Len(requests[d])
    BY <2>3
  <2>5. \A e \in ToSet(episodes[d]) :
          \E p \in 0..Len(requests[d]) : RowsStand(d, e, p)
    BY <2>2, <2>4 DEF Settled
  <2>6. QED
    BY <2>1, <2>5 DEF RecordedOnce
<1>2. QED
  BY Invariance, <1>1, PTL

(* A merge that merge_libero_results.py does not refuse has every planned  *)
(* episode once and exactly its requests, whatever clients wrote while it  *)
(* read.                                                                   *)
THEOREM MergesComplete == Spec => []MergeComplete
<1>1. IInv => MergeComplete
  <2> SUFFICES ASSUME IInv, merge.stage = "merged"
               PROVE  /\ {e.episode : e \in merge.episodes} = Episodes
                      /\ \A e, f \in merge.episodes : e.episode = f.episode => e = f
                      /\ merge.requests = UNION {ToSet(RowsOf(e.episode, e.count)) :
                                                   e \in merge.episodes}
    BY DEF MergeComplete
  <2>1. /\ {e.episode : e \in merge.episodes} = Episodes
        /\ \A e, f \in merge.episodes : e.episode = f.episode => e = f
        /\ \A e \in merge.episodes : Indices(e) = 0..e.count - 1
    BY DEF IInv, MergeOK, BeingRead
  <2>2. merge.requests \subseteq Rows /\ merge.episodes \subseteq Results
    BY DEF IInv, TypeOK
  <2>3. ASSUME NEW e \in merge.episodes
        PROVE  /\ e.count \in Nat
               /\ ToSet(RowsOf(e.episode, e.count))
                    = {[episode |-> e.episode, index |-> i - 1] : i \in 1..e.count}
    <3>1. e.count \in Counts /\ e.count \in Nat /\ e.episode \in Episodes
      BY <2>2, ResultShape
    <3>2. DOMAIN RowsOf(e.episode, e.count) = 1..e.count
      BY <3>1, RowsOfShape DEF RowsOf
    <3>3. QED
      BY <3>1, <3>2 DEF ToSet, RowsOf
  <2>4. ASSUME NEW r \in merge.requests
        PROVE  \E e \in merge.episodes : r \in ToSet(RowsOf(e.episode, e.count))
    <3>1. r.episode \in Episodes /\ r = [episode |-> r.episode, index |-> r.index]
      BY <2>2 DEF Rows
    <3>2. PICK e \in merge.episodes : e.episode = r.episode
      BY <2>1, <3>1
    <3>3. r.index \in Indices(e)
      BY <3>2 DEF Indices
    <3>4. r.index \in 0..e.count - 1 /\ e.count \in Nat
      BY <2>1, <2>3, <3>3
    <3>5. r.index + 1 \in 1..e.count /\ (r.index + 1) - 1 = r.index
      BY <3>4
    <3>6. QED
      BY <2>3, <3>1, <3>2, <3>5
  <2>5. ASSUME NEW e \in merge.episodes, NEW i \in 1..e.count
        PROVE  [episode |-> e.episode, index |-> i - 1] \in merge.requests
    <3>1. i - 1 \in 0..e.count - 1
      BY <2>3
    <3>2. i - 1 \in Indices(e)
      BY <2>1, <3>1
    <3>3. PICK r \in merge.requests : r.episode = e.episode /\ r.index = i - 1
      BY <3>2 DEF Indices
    <3>4. r = [episode |-> r.episode, index |-> r.index]
      BY <2>2 DEF Rows
    <3>5. QED
      BY <3>3, <3>4
  <2>6. \A e \in merge.episodes : ToSet(RowsOf(e.episode, e.count)) \subseteq merge.requests
    BY <2>3, <2>5
  <2>7. merge.requests
          = UNION {ToSet(RowsOf(e.episode, e.count)) : e \in merge.episodes}
    BY <2>4, <2>6
  <2>8. QED
    BY <2>1, <2>7
<1>2. QED
  BY Invariance, <1>1, PTL

(* What a line cut short may be followed by: load_jsonl refuses one that   *)
(* ends within its record, and a resume drops a request row that lacks     *)
(* only its newline, which is always of an episode with no result, before  *)
(* run_libero_client.py appends to the file.                               *)
THEOREM TornLines == Spec => TornLinesStayLast
<1>1. IInv /\ [Next]_vars =>
        [\A d \in Shards :
           /\ "cut" \in {episodesTail[d], requestsTail[d]} =>
                episodes'[d] = episodes[d] /\ requests'[d] = requests[d]
           /\ requestsTail[d] = "unended" =>
                Len(requests'[d]) <= Len(requests[d])]_vars
  <2> SUFFICES ASSUME IInv, Next, NEW d \in Shards,
                      "cut" \in {episodesTail[d], requestsTail[d]}
                        \/ requestsTail[d] = "unended"
               PROVE  /\ "cut" \in {episodesTail[d], requestsTail[d]} =>
                           episodes'[d] = episodes[d] /\ requests'[d] = requests[d]
                      /\ requestsTail[d] = "unended" =>
                           Len(requests'[d]) <= Len(requests[d])
    OBVIOUS
  <2>1. TypeOK /\ DirectoryOK(d) /\ Len(requests[d]) \in Nat
    BY DEF IInv, TypeOK
  <2>2. pc[d] \notin {"connect", "next", "record", "summary"}
    BY <2>1 DEF DirectoryOK, ClientOK, Parses
  <2>3. CASE episodes'[d] = episodes[d] /\ requests'[d] = requests[d]
    BY <2>1, <2>3
  <2>4. ASSUME NEW c \in Shards, Client(c)
        PROVE  \/ episodes'[d] = episodes[d] /\ requests'[d] = requests[d]
               \/ Retain(d)
    <3>1. CASE c # d
      BY <2>1, <2>4, <3>1, OthersStay DEF SameDirectory, SameRecords
    <3>2. CASE c = d
      BY <2>2, <2>4, <3>2
      DEF Client, Start, disk, Snapshot, SelectStep, Retain, Connect, RunEpisode,
          EpisodeFails, AppendRequest, AppendEpisode, Summarize, Finish, Crash,
          CrashInRequest, CrashInEpisode
    <3>3. QED
      BY <3>1, <3>2
  <2>5. CASE Retain(d)
    <3>1. "cut" \notin {episodesTail[d], requestsTail[d]}
      BY <2>1, <2>5 DEF Retain, DirectoryOK, ClientOK, Parses
    <3>2. PICK m \in 0..Len(requests[d]) : Settled(d, m)
      BY <2>1 DEF DirectoryOK, RowsInOrder
    <3>3. Len(requests'[d]) = m
      BY <2>1, <2>5, <3>2, RetainedPrefix DEF Retain, TypeOK
    <3>4. QED
      BY <2>1, <3>1, <3>2, <3>3
  <2>6. CASE Merge
    BY <2>3, <2>6 DEF Merge, MergeStart, MergeHeader, MergeEpisodes, MergeRequests, disk
  <2>7. QED
    BY <2>3, <2>4, <2>5, <2>6 DEF Next
<1>2. QED
  BY Invariance, <1>1, PTL DEF Spec, TornLinesStayLast
=============================================================================
