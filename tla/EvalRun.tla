------------------------------ MODULE EvalRun ------------------------------
(***************************************************************************)
(* A LIBERO evaluation of one manifest in shards: clients that run, crash  *)
(* and resume (eval/sim/run_libero_client.py), each with an output         *)
(* directory of its own, and the merge of those directories, which no lock *)
(* keeps from reading while a client writes (merge_libero_results.py).     *)
(*                                                                         *)
(* A step is what a client or the merge does up to its next write or read  *)
(* of a file.  At most one client runs in a directory, so the lists it     *)
(* holds in memory are the records of its files.                           *)
(***************************************************************************)
EXTENDS Naturals, Sequences, FiniteSets, SequencesExt, FiniteSetsExt

CONSTANTS Shards,       \* output directories
          Manifests,    \* manifests that list the same episodes
          Planned,      \* the task of each episode of a manifest
          Models,       \* what a server may serve
          Nothing,      \* no file; no value
          Torn,         \* a manifest.json whose write was cut short
          Counts,       \* bound: how many predictions an episode may take
          MaxClients,   \* bound: clients that run at once; they share nothing
          MaxDamaged    \* bound: directories with a damaged jsonl file

Episodes == 1..Len(Planned)

(* A selection that starts and ends where a task does.                     *)
Selections ==
  {s \in [first : Episodes, last : Episodes] :
     /\ s.first <= s.last
     /\ s.first = 1 \/ Planned[s.first] # Planned[s.first - 1]
     /\ s.last = Len(Planned) \/ Planned[s.last] # Planned[s.last + 1]}

Plans == [manifest : Manifests, selection : Selections]

(* Lines of requests.jsonl and of episodes.jsonl.  model is not in the     *)
(* file: it is history, the model that the episode ran on.                 *)
Rows    == [episode : Episodes, index : Nat]
Results == [episode : Episodes, count : Counts, model : Models]

ASSUME EvalAssumption ==
  /\ Planned \in Seq(Nat) /\ Planned # <<>>
  /\ Counts \subseteq Nat /\ MaxClients \in Nat /\ MaxDamaged \in Nat
  /\ Nothing \notin Models \cup Manifests \cup Selections /\ Torn \notin Manifests \cup {Nothing}

VARIABLES
  snapshot,   \* manifest.json of a directory
  selection,  \* selection.json
  episodes,   \* episodes.jsonl
  requests,   \* requests.jsonl
  episodesTail, requestsTail,   \* how these two files end
  summary,    \* summary.json: its manifest and model
  pc,         \* of the directory's client; "off" when none runs
  plan,       \* its --manifest and --episode-start, --episode-end
  server,     \* the model of the server it is connected to
  current,    \* the episode it ran last
  pending,    \* the request rows of that episode not yet appended
  merge

tails  == <<episodesTail, requestsTail>>
disk   == <<snapshot, selection, episodes, requests, tails, summary>>
client == <<pc, plan, server, current, pending>>
vars   == <<disk, client, merge>>

(* An append is one write of a line, record and newline.  "ended": every   *)
(* line has its newline; "unended": the last lacks it, but its record is   *)
(* whole; "cut": the last line ends within a record; "glued": a line holds *)
(* two records.                                                            *)
Tails == {"ended", "unended", "cut", "glued"}

MergeStages == {"off", "header", "episodes", "requests", "merged"}

TypeOK ==
  /\ snapshot \in [Shards -> Manifests \cup {Nothing, Torn}]
  /\ selection \in [Shards -> Selections \cup {Nothing}]
  /\ episodes \in [Shards -> Seq(Results)]
  /\ requests \in [Shards -> Seq(Rows)]
  /\ episodesTail \in [Shards -> Tails]
  /\ requestsTail \in [Shards -> Tails]
  /\ summary \in [Shards -> [manifest : Manifests, model : Models] \cup {Nothing}]
  /\ pc \in [Shards -> {"off", "snapshot", "select", "retain", "connect", "next",
                        "record", "summary"}]
  /\ plan \in [Shards -> Plans \cup {Nothing}]
  /\ server \in [Shards -> Models \cup {Nothing}]
  /\ current \in [Shards -> Results \cup {Nothing}]
  /\ pending \in [Shards -> Seq(Rows)]
  /\ merge \in [stage : MergeStages, shards : Seq(Shards),
                manifest : Manifests \cup {Nothing},
                model : Models \cup {Nothing}, covered : SUBSET Episodes,
                shard : SUBSET Results, episodes : SUBSET Results,
                requests : SUBSET Rows]

NoMerge == [stage |-> "off", shards |-> <<>>, manifest |-> Nothing,
            model |-> Nothing, covered |-> {}, shard |-> {}, episodes |-> {},
            requests |-> {}]

Init ==
  /\ snapshot = [d \in Shards |-> Nothing]
  /\ selection = [d \in Shards |-> Nothing]
  /\ episodes = [d \in Shards |-> <<>>]
  /\ requests = [d \in Shards |-> <<>>]
  /\ episodesTail = [d \in Shards |-> "ended"]
  /\ requestsTail = [d \in Shards |-> "ended"]
  /\ summary = [d \in Shards |-> Nothing]
  /\ pc = [d \in Shards |-> "off"]
  /\ plan = [d \in Shards |-> Nothing]
  /\ server = [d \in Shards |-> Nothing]
  /\ current = [d \in Shards |-> Nothing]
  /\ pending = [d \in Shards |-> <<>>]
  /\ merge = NoMerge

Selected(s) == s.first..s.last

Completed(d) == {e.episode : e \in ToSet(episodes[d])}

-----------------------------------------------------------------------------
(* A client: the output directory is opened and checked.                   *)

(* The client ends: an exception, or the end of its work.                  *)
Ends(d) ==
  /\ pc' = [pc EXCEPT ![d] = "off"]
  /\ plan' = [plan EXCEPT ![d] = Nothing]
  /\ server' = [server EXCEPT ![d] = Nothing]
  /\ current' = [current EXCEPT ![d] = Nothing]
  /\ pending' = [pending EXCEPT ![d] = <<>>]

Goes(d, stage) == /\ pc' = [pc EXCEPT ![d] = stage]
                  /\ UNCHANGED <<plan, server, current, pending>>

(* Only the record of a line is parsed: load_jsonl does not miss a newline *)
(* at the end of the file, and raises on a line that is no JSON.           *)
Parses(tail) == tail \in {"ended", "unended"}

SkipsTorn(d) == TRUE     \* mutant: load_jsonl passes over a bad last line

Loads(d) == Parses(episodesTail[d]) /\ Parses(requestsTail[d])

(* A directory with results in it is opened only with --resume, which the  *)
(* operator may give.                                                      *)
Start(d, p) ==
  /\ Cardinality({c \in Shards : pc[c] # "off"}) < MaxClients
  /\ pc[d] = "off" /\ Loads(d)
  /\ snapshot[d] \in {Nothing, p.manifest}
  /\ plan' = [plan EXCEPT ![d] = p]
  /\ pc' = [pc EXCEPT ![d] = "snapshot"]
  /\ UNCHANGED <<disk, server, current, pending, merge>>

Snapshot(d) ==
  /\ pc[d] = "snapshot"
  /\ snapshot' = [snapshot EXCEPT ![d] = plan[d].manifest]
  /\ Goes(d, "select")
  /\ UNCHANGED <<selection, episodes, requests, tails, summary, merge>>

SelectStep(d) ==
  /\ pc[d] = "select"
  /\ IF selection[d] \in {Nothing, plan[d].selection}
       THEN /\ selection' = [selection EXCEPT ![d] = plan[d].selection]
            /\ Goes(d, "retain")
       ELSE Ends(d) /\ UNCHANGED selection
  /\ UNCHANGED <<snapshot, episodes, requests, tails, summary, merge>>

AllRows(d) == requests[d]                \* mutant: nothing is dropped

(* Rows of an episode that was not completed are dropped: the k-th row of  *)
(* the new file is the k-th that is kept.  Only if there are such rows is  *)
(* the file written anew, every line with its newline.                     *)
RetainedRows(d) ==
  LET kept == {i \in DOMAIN requests[d] : requests[d][i].episode \in Completed(d)}
      place(k) == CHOOSE i \in kept : Cardinality(kept \cap 1..i) = k
  IN  [k \in 1..Cardinality(kept) |-> requests[d][place(k)]]

Retain(d) ==
  /\ pc[d] = "retain"
  /\ requests' = [requests EXCEPT ![d] = RetainedRows(d)]
  /\ requestsTail' = [requestsTail EXCEPT ![d] =
       IF Len(RetainedRows(d)) # Len(requests[d]) THEN "ended" ELSE @]
  /\ Goes(d, "connect")
  /\ UNCHANGED <<snapshot, selection, episodes, episodesTail, summary, merge>>

(* The server may be gone or serve another model than it did; a summary,   *)
(* if there is one, must name the model.                                   *)
SameModel(d, model) ==
  summary[d] = Nothing \/ summary[d] = [manifest |-> plan[d].manifest,
                                        model |-> model]

ConnectUnasked(d) ==                     \* mutant: keeps no answer to Hello
  /\ pc[d] = "connect"
  /\ \/ Goes(d, "next")
     \/ Ends(d)
  /\ UNCHANGED <<disk, merge>>

Connect(d) ==
  /\ pc[d] = "connect"
  /\ \/ \E model \in Models :
          /\ SameModel(d, model)
          /\ server' = [server EXCEPT ![d] = model]
          /\ pc' = [pc EXCEPT ![d] = "next"]
          /\ UNCHANGED <<plan, current, pending>>
     \/ Ends(d)
  /\ UNCHANGED <<disk, merge>>

-----------------------------------------------------------------------------
(* The episodes, in the order of the manifest.                             *)

ToDo(d) == Selected(plan[d].selection) \ Completed(d)

WriteSummary(d) ==
  summary' = [summary EXCEPT ![d] = [manifest |-> plan[d].manifest,
                                     model |-> server[d]]]

RowsOf(e, n) == [i \in 1..n |-> [episode |-> e, index |-> i - 1]]

RunEpisode(d) ==
  /\ pc[d] = "next" /\ ToDo(d) # {}
  /\ LET e == Min(ToDo(d)) IN
       \E n \in Counts :
         /\ current' = [current EXCEPT ![d] = [episode |-> e, count |-> n,
                                               model |-> server[d]]]
         /\ pending' = [pending EXCEPT ![d] = RowsOf(e, n)]
  /\ pc' = [pc EXCEPT ![d] = "record"]
  /\ UNCHANGED <<disk, plan, server, merge>>

(* runner.run raises: the summary of what was there is written, and the    *)
(* client ends.                                                            *)
EpisodeFails(d) ==
  /\ pc[d] = "next" /\ ToDo(d) # {}
  /\ WriteSummary(d)
  /\ Ends(d)
  /\ UNCHANGED <<snapshot, selection, episodes, requests, tails, merge>>

(* How a file ends after a line was appended to it, at its very end.       *)
TailAfter(tail) == IF tail = "unended" THEN "glued" ELSE tail

AppendRequest(d) ==
  /\ pc[d] = "record" /\ pending[d] # <<>>
  /\ requests' = [requests EXCEPT ![d] = Append(@, Head(pending[d]))]
  /\ requestsTail' = [requestsTail EXCEPT ![d] = TailAfter(@)]
  /\ pending' = [pending EXCEPT ![d] = Tail(@)]
  /\ UNCHANGED <<snapshot, selection, episodes, episodesTail, summary, pc, plan,
                 server, current, merge>>

AppendEpisode(d) ==
  /\ pc[d] = "record" /\ pending[d] = <<>>
  /\ episodes' = [episodes EXCEPT ![d] = Append(@, current[d])]
  /\ episodesTail' = [episodesTail EXCEPT ![d] = TailAfter(@)]
  /\ Goes(d, "summary")
  /\ UNCHANGED <<snapshot, selection, requests, requestsTail, summary, merge>>

Summarize(d) ==
  /\ pc[d] = "summary"
  /\ WriteSummary(d)
  /\ Goes(d, "next")
  /\ UNCHANGED <<snapshot, selection, episodes, requests, tails, merge>>

Finish(d) ==
  /\ pc[d] = "next" /\ ToDo(d) = {}
  /\ WriteSummary(d)
  /\ Ends(d)
  /\ UNCHANGED <<snapshot, selection, episodes, requests, tails, merge>>

-----------------------------------------------------------------------------
(* Crashes.  Files written whole are replaced atomically; manifest.json    *)
(* and the line being appended may be cut short, the line within its       *)
(* record or before its newline.                                           *)

CutWithin(tail) == IF tail = "glued" THEN tail ELSE "cut"

Damaged == {d \in Shards : episodesTail[d] # "ended" \/ requestsTail[d] # "ended"}

MayDamage(d) == d \in Damaged \/ Cardinality(Damaged) < MaxDamaged

CrashInRequest(d) ==
  /\ pc[d] = "record" /\ pending[d] # <<>> /\ MayDamage(d)
  /\ \/ /\ requestsTail' = [requestsTail EXCEPT ![d] = CutWithin(@)]
        /\ UNCHANGED requests
     \/ /\ requestsTail[d] = "ended"
        /\ requestsTail' = [requestsTail EXCEPT ![d] = "unended"]
        /\ requests' = [requests EXCEPT ![d] = Append(@, Head(pending[d]))]
  /\ Ends(d)
  /\ UNCHANGED <<snapshot, selection, episodes, episodesTail, summary, merge>>

CrashInEpisode(d) ==
  /\ pc[d] = "record" /\ pending[d] = <<>> /\ MayDamage(d)
  /\ \/ /\ episodesTail' = [episodesTail EXCEPT ![d] = CutWithin(@)]
        /\ UNCHANGED episodes
     \/ /\ episodesTail[d] = "ended"
        /\ episodesTail' = [episodesTail EXCEPT ![d] = "unended"]
        /\ episodes' = [episodes EXCEPT ![d] = Append(@, current[d])]
  /\ Ends(d)
  /\ UNCHANGED <<snapshot, selection, requests, requestsTail, summary, merge>>

Crash(d) ==
  /\ pc[d] # "off"
  /\ Ends(d)
  /\ \/ UNCHANGED snapshot
     \/ /\ pc[d] = "snapshot" /\ snapshot[d] = Nothing
        /\ snapshot' = [snapshot EXCEPT ![d] = Torn]
  /\ UNCHANGED <<selection, episodes, requests, tails, summary, merge>>

-----------------------------------------------------------------------------
(* The merge.  What refuses it raises, and it may be run again; a merge    *)
(* that succeeds leaves an output that no other merge overwrites.          *)

MergeStart(m, ds) ==
  /\ merge.stage = "off"
  /\ merge' = [NoMerge EXCEPT !.stage = "header", !.shards = ds, !.manifest = m]
  /\ UNCHANGED <<disk, client>>

Refused == merge' = NoMerge

(* manifest.json, selection.json and summary.json, which once written keep *)
(* naming the same manifest, selection and model.                          *)
HeaderFits(d) ==
  /\ snapshot[d] = merge.manifest
  /\ selection[d] # Nothing
  /\ merge.covered \cap Selected(selection[d]) = {}
  /\ summary[d] # Nothing /\ summary[d].manifest = merge.manifest
  /\ merge.model \in {Nothing, summary[d].model}

MergeHeader ==
  /\ merge.stage = "header"
  /\ LET d == Head(merge.shards) IN
       IF HeaderFits(d)
         THEN merge' = [merge EXCEPT
                !.stage = "episodes", !.model = summary[d].model,
                !.covered = @ \cup Selected(selection[d])]
         ELSE Refused
  /\ UNCHANGED <<disk, client>>

MergeEpisodes ==
  /\ merge.stage = "episodes"
  /\ LET d == Head(merge.shards) IN
       IF /\ Parses(episodesTail[d])
          /\ Completed(d) \subseteq Selected(selection[d])
          /\ \A i, j \in 1..Len(episodes[d]) :
               episodes[d][i].episode = episodes[d][j].episode => i = j
         THEN merge' = [merge EXCEPT !.stage = "requests",
                                     !.shard = ToSet(episodes[d]),
                                     !.episodes = @ \cup ToSet(episodes[d])]
         ELSE Refused
  /\ UNCHANGED <<disk, client>>

RowsFit(d) ==
  /\ Parses(requestsTail[d])
  /\ \A r \in ToSet(requests[d]) : r.episode \in Selected(selection[d])
  /\ IsInjective(requests[d])
  /\ \A e \in merge.shard :
       {r.index : r \in {r \in ToSet(requests[d]) : r.episode = e.episode}}
         = 0..e.count - 1

(* mutant: that the selections cover the manifest is taken for enough      *)
CoversAll(episodeSet) == merge.covered = Episodes

(* Every planned episode was selected, and is there.                       *)
AllThere(episodeSet) ==
  merge.covered = Episodes /\ {e.episode : e \in episodeSet} = Episodes

MergeRequests ==
  /\ merge.stage = "requests"
  /\ LET d == Head(merge.shards)
         rest == Tail(merge.shards)
         read == [merge EXCEPT !.shards = rest, !.shard = {},
                               !.requests = @ \cup ToSet(requests[d])]
     IN  IF ~RowsFit(d) THEN Refused
         ELSE IF rest # <<>> THEN merge' = [read EXCEPT !.stage = "header"]
         ELSE IF AllThere(merge.episodes)
           THEN merge' = [read EXCEPT !.stage = "merged"]
         ELSE Refused
  /\ UNCHANGED <<disk, client>>

Client(d) ==
  \/ \E p \in Plans : Start(d, p)
  \/ Snapshot(d) \/ SelectStep(d) \/ Retain(d) \/ Connect(d)
  \/ RunEpisode(d) \/ EpisodeFails(d) \/ AppendRequest(d) \/ AppendEpisode(d)
  \/ Summarize(d) \/ Finish(d)
  \/ CrashInRequest(d) \/ CrashInEpisode(d) \/ Crash(d)

Merge ==
  \/ \E m \in Manifests, n \in 1..Cardinality(Shards) : \E ds \in [1..n -> Shards] :
       MergeStart(m, ds)
  \/ MergeHeader \/ MergeEpisodes \/ MergeRequests

Next == (\E d \in Shards : Client(d)) \/ Merge

Spec == Init /\ [][Next]_vars

-----------------------------------------------------------------------------
(* Properties                                                              *)

(* The rows of a result stand together after the first p of the file, in   *)
(* their order, and nowhere else.                                          *)
RowsStand(d, e, p) ==
  /\ p + e.count <= Len(requests[d])
  /\ \A i \in 1..Len(requests[d]) :
       IF p < i /\ i <= p + e.count
         THEN requests[d][i] = RowsOf(e.episode, e.count)[i - p]
         ELSE requests[d][i].episode # e.episode

(* Whenever a client stops, however often it was resumed: an episode is    *)
(* recorded once, in the directory's selection, and with exactly its       *)
(* requests.                                                               *)
RecordsComplete ==
  \A d \in Shards :
    /\ Completed(d) # {} => Completed(d) \subseteq Selected(selection[d])
    /\ \A i, j \in 1..Len(episodes[d]) :
         episodes[d][i].episode = episodes[d][j].episode => i = j
    /\ \A e \in ToSet(episodes[d]) :
         \E p \in 0..Len(requests[d]) : RowsStand(d, e, p)

(* A merge that succeeds has every planned episode once and exactly its    *)
(* requests, although clients may have written while it read.              *)
MergeComplete ==
  merge.stage = "merged" =>
    /\ {e.episode : e \in merge.episodes} = Episodes
    /\ \A e, f \in merge.episodes : e.episode = f.episode => e = f
    /\ merge.requests = UNION {ToSet(RowsOf(e.episode, e.count)) :
                                 e \in merge.episodes}

(* Nothing is written after a line that ends within its record, in either  *)
(* file; and when only the newline of a request row is missing, a resume   *)
(* drops the row before it appends another.  An episode that lacks only    *)
(* its newline is kept, and the next one is glued to it: no later resume   *)
(* or merge can load that file (results.py, load_jsonl and append).        *)
TornLinesStayLast ==
  [][\A d \in Shards :
       /\ "cut" \in {episodesTail[d], requestsTail[d]} =>
            episodes'[d] = episodes[d] /\ requests'[d] = requests[d]
       /\ requestsTail[d] = "unended" => Len(requests'[d]) <= Len(requests[d])]_vars

(* The model a summary names is the model every episode ran on             *)
(* (run_libero_client.py: "resume server model differs from existing       *)
(* results").                                                              *)
OneModel ==
  \A d \in Shards : summary[d] # Nothing =>
    \A e \in ToSet(episodes[d]) : e.model = summary[d].model
=============================================================================
