# A verification project for wam.cpp

wam.cpp serves world-action models: a C++ library loads a model from GGUF
files and runs sessions that turn an observation (images, robot state, an
instruction) into a chunk of robot actions; a Python server exposes one model
over WebSockets; evaluation clients drive simulators against that server and
record what happened. This directory holds TLA+ modules that model the parts of
it that have state, order or concurrency, the TLC configurations that check
them on small instances, and TLAPS proofs of the most important properties.

Paths below are relative to the repository's root; `core.py` is
`python/wam/serving/core.py`, `websocket.py` is `python/wam/serving/websocket.py`,
`remote.py` is `python/wam/remote.py`.

## 1. Inventory

| Component | State | Operations | What is hard |
|---|---|---|---|
| Server: `ServiceCore`, `ServiceConnection`, WebSocket handler | `inference_lock`; per connection: native session, `expected_request_id`, `closed`; one task per socket, one worker thread per call | handle Hello, Predict, Reset, Close; `execute`; send, hang up, close; stop | interleaved handlers, calls that fail or crash in a thread, cancellation, peers that pipeline or leave |
| Remote client: `remote.Client` | `socket`, `request_id`, `model_info` | `connect`, `predict`, `reset`, `close` | a counter kept on both sides, lost connections, reconnecting by itself, an interrupted `recv` |
| GWP05 session (`ExecutionState`) | prompt cache, projected prompt and its signature, prefix keys and values, six kept graphs, the action on the device | `predict` in stages, `reset` | what each cache holds after a failed stage; 2^8 combinations of tuning |
| GWP05 model loading (`ModelResources`, `WeightStore`) | per model: backend, three weight stores, the map from names to tensors, telemetry; owners of both | load and unload a component, encode the fixed prompt, share with sessions, free | a load that fails half-way; a model closed before its sessions |
| Model contracts (both architectures) | none after the load | validate the metadata, the tensors and the policy; prepare inputs; check them again before the network runs | 250 keys and conditions that must agree with what the network later assumes |
| FastWAM sessions | per model: key/value cache, action graph, `execution_mutex`; per session: `mutex_`, random generator | `predict`, `reset` | sessions that share device memory; what a failed call has already changed |
| C API and Python bindings | handles, last error, a session's random generator | create, predict, reset, free | lifetime of handles, errors crossing the boundary |
| Language provider | LRU of embeddings behind a lock | `prepare` | capacity, order of use, padding |
| Policy | none | read and validate a policy; crop, resize, normalise, compose observations, draw noise, decode actions | geometry at boundaries; what is validated at load and relied on per request |
| Artifact reader | none after opening | resolve a bundle, validate tensors and metadata | offsets whose sum wraps, truncated files |
| Evaluation client (LIBERO) | `manifest.json`, `selection.json`, `episodes.jsonl`, `requests.jsonl`, `summary.json` | run, resume, record, summarise | crashes between writes, torn lines, another server at resume |
| Merge of shards | its output directory | read, compare, write | reads files that clients may be writing |
| Other clients, adapters, conversion scripts, tools | none of note | | |

How they interact:

- A **peer** (usually `remote.Client`) opens a socket; the server's handler
  creates a `ServiceConnection`; Hello makes it create a native session through
  the C API, on the event loop. Predict and Reset go through
  `ServiceCore.execute` into a worker thread, under `inference_lock` unless the
  model declares `concurrent_sessions` (no model of the repository does).
- A **native session** belongs to one connection. A GWP05 session has all its
  caches to itself and shares weights; FastWAM sessions share the cache and the
  graph as well, and threads may share a session.
- A **model** is loaded in layers: `Model::load` resolves the artifact, opens the
  GGUF file, picks the architecture, and each architecture validates policy and
  tensors before it touches the device. A request passes the same layers in the
  other direction: the policy prepares the observation, the architecture its
  language, the pipeline checks both again.
- **Handles** of the C API own a `ModelImpl` and sessions; model and sessions
  share `ModelResources`, which owns the device buffers.
- An **evaluation client** owns a `remote.Client` and an output directory; the
  merge shares nothing with the clients but their files.

What makes each correct, in one line: the server runs one inference at a time,
answers each request once and in order, and never leaks a session; the client's
view of the conversation agrees with the server's; a session's answer depends
on its own request and not on what is cached; what a load accepts is enough for
every request it later serves; no weight is freed under a session that uses it;
an evaluation's records are complete, whatever was interrupted. The hazards
behind these are listed one by one, with their lines and the properties that
catch them, in `PROJECT.json`.

## 2. Modules

| Module | Models | Theorems in |
|---|---|---|
| `ServiceCore` | server and transport | `ServiceCoreProofs` |
| `RemotePolicy` | what a caller of the client may rely on (abstract) | |
| `RpcSystem` | `ServiceCore` composed with clients; implements `RemotePolicy` | `RpcSystemProofs` |
| `GwpSession` | a GWP05 session's stages and caches | `GwpSessionProofs` |
| `SessionPolicy` | what a caller of a session may rely on (abstract) | |
| `FastWam` | FastWAM sessions on one device; implements `SessionPolicy` | `FastWamProofs` |
| `EvalRun` | evaluation clients, their directories, the merge | `EvalRunProofs` |
| `Artifact` | bundles, the GGUF reader's table, tensor specifications (operators) | |
| `PolicySpec` | the policy a file states: reading and validation (operators) | |
| `PolicyOps` | what a policy does to images, states, noise and actions (operators) | |
| `ModelContract` | what each architecture demands of a file, and `Model::load`'s errors (operators) | |
| `ModelRequests` | a model and a session from file to action; uses the four above | `ModelRequestsProofs` |
| `LocalRuntime` | handles, models, sessions and the weights on the device | `LocalRuntimeProofs` |
| `LanguageProvider` | the instruction encoder and its cache | `LanguageProviderProofs` |
| `MC...` | instances of the above for TLC | |

### ServiceCore

Code between two awaits runs without interruption on the event loop, so it is
one action; `pc` is the await a handler is suspended at.

| `pc` | Await |
|---|---|
| `recv` | `websocket.recv()` (`websocket.py:20`) |
| `acquire` | `async with self.inference_lock` (`core.py:41`) |
| `inflight` | `asyncio.to_thread(...)` |
| `send` | `websocket.send(...)` |
| `hangup` | `websocket.close(...)` after a fatal error |
| `done` | the handler returned; its `finally` has run |

`session`, `expected`, `closed` are the fields of `ServiceConnection`;
`locked` and `ahead` are `asyncio.Lock` with its FIFO of waiters, which hands
over in two steps (`release` wakes the first waiter, which takes the lock when
it resumes); `worker` is the thread. A thread ends in one of five ways the code
tells apart: a result, a `ValueError`, a `WamError` that `_native_error` maps to
non-fatal or to fatal, anything else. `inbox` and `outbox` are what the
WebSocket library holds. `asked` is a history variable: the requests a peer
still waits for.

The environment is free: a peer may send anything, pipeline and leave;
`create_session` may fail; the server may be stopped at any time, which
cancels every task but no thread.

One line of `handle`, "connection is closed" (`core.py:152`), cannot be reached
through the transport, whose loop ends when `closed` is set; it has no action.

### RpcSystem and RemotePolicy

Each client method is a sequence of steps: open a socket, send, wait, take the
response. A client performs the peer actions of `ServiceCore` on the connection
its `socket` names. `Disconnect` is the network, `Interrupt` a Ctrl-C in
`recv`. `connect` with a socket, `close` or `reset` without one end at once and
change nothing; they are not steps.

`RemotePolicy` has one variable per client and says: a predict or reset that
returns ran on the model during the call; one that raises may or may not have;
every call ends. The refinement mapping reads it off `method`, `exchange`,
`raised`, and `ran`, a history variable that records which connection's last
request finished in its thread.

### GwpSession

Tensors are named by what they were computed from: an embedding by its prompt,
prefix keys and values by the observation and the prompts that went in, an
action by its noise and by everything its steps attended to. This is what lets
one invariant say that nothing stale was used.

`predict` is modelled stage by stage (`vision`, `prompt`, `storage`,
`projection`, `prefix`, `denoise`), since each stage may fail and leave its
caches for the next call. `config` is the part of `RuntimeConfig` and of the
session's options that selects a path. A graph is absent, built but without
memory, or ready; `Fragile` says which allocations the device may refuse. Using
a graph or a storage that has no memory ends the process (`dead`), as ggml's
assertions do.

### FastWam and SessionPolicy

Threads call `predict` and `reset` of sessions, several threads perhaps of the
same session. `pc` says between which of these a thread is:

| `pc` | What comes next | Holds |
|---|---|---|
| `prepare` | `mutex_` (`model.cpp:51`, `:76`), then `prepare_inputs` | |
| `execute` | `execution_mutex` (`pipeline.cpp:146`, `:224`) | `mutex_` |
| `prefill` | the video cache is written | both |
| `graph` | the action graph is kept or replaced | both |
| `upload` | its input tensors are written | both |
| `compute` | it runs, and the action is read back | both |
| `decode`, `seed` | the end of `predict`, of `reset` | `mutex_` |

`owner` and `running` are the two mutexes, `draws` counts what each session's
`rng_` has given since it was seeded, `video`, `graph` and `inputs` are what the
device holds. A cache may be allocated and not written, and a new graph's
inputs hold nothing until the upload. `prediction_count` is counted for
telemetry and read by nothing else, so `reset_session` only takes and releases
the mutex. `create_session` writes nothing that another session reads and has
no step; a session is not freed under a call (`NoFreeUnderCall` is about that).

`SessionPolicy` has no device. In it a call first draws its noise, one call of a
session at a time, and is then answered from its own observation, instruction
and noise, or fails, after drawing or before. The refinement mapping reads the
stage of a call off `pc` (`At`) and shows a result once the call has returned
(`Answer`); it needs no history variable.

### EvalRun

A step is what a client does up to its next read or write of a file. Files
written through a temporary file and a rename are replaced atomically;
`manifest.json` is written in place and a JSON line is appended, so either may
be cut short by a crash. `episodesTail` and `requestsTail` say how the two JSON
files end: with a newline (`ended`), with a whole record that lacks only its
newline (`unended`), within a record (`cut`), or with a line that holds two
records (`glued`). `load_jsonl` takes the first two and refuses the others, and
what is appended to an `unended` file is glued to its last line; a client that
finds its requests unended writes that file anew, its episodes it only appends
to. `MaxDamaged` bounds how many directories are damaged at a time. A process
may crash, the file system does not: writes are not reordered by power loss. One
client at a time runs in a directory, which nothing in the code enforces and the
model assumes. A client is resumed with any plan and any server, and the code
must refuse the wrong ones. The merge reads header, episodes and requests of
each shard as separate steps, between which clients write.

Each episode's record carries the model it ran on as history; the file does not
have it.

### Artifact, PolicySpec, PolicyOps, ModelContract and ModelRequests

The first four have no variables; each is a layer of pure code and EXTENDS the
one below. `ModelRequests` has the state: the loaded model, whether its session
exists, the last call, and how often the session's generator was drawn from. It
is where the layers meet, and its properties are about what one layer promises
the next.

| Module | Code |
|---|---|
| `Artifact` | `src/artifact/manifest.cpp`, `gguf_reader.cpp`, `tensor_spec.cpp` |
| `PolicySpec` | `src/policy/policy_spec.cpp` |
| `PolicyOps` | `image_ops.cpp`, `state_ops.cpp`, `tensor_input.cpp`, `action_noise.cpp`, `observation_processor.cpp`, `action_decoder.cpp`, `language_ops.cpp` of `src/policy/` |
| `ModelContract` | `contract.cpp` and `semantics.cpp` of both architectures, the layout of GWP05's token sequence, the order of errors in `src/model.cpp` |
| `ModelRequests` | `Model::load`, `create_session`, `predict`, `reset`; `inputs.cpp`, and the checks in `pipeline.cpp`, of both architectures |

A file is a record: its keys with their types and values, its tensors with
type, shape, offset and (for statistics) values. A word such as
`"minus_one_to_one"` is itself; a name is a tuple whose first component is its
prefix. A pixel's value is its origin: image, channel and the source rows and
columns that weigh in it. Numbers of states and actions are exact fractions;
single precision is not modelled, so `DecodeInverts` is an equality and not an
approximation. NaN and infinities are one value, `NotFinite`. The 64-bit sum in
`gguf_reader.cpp` wraps at `MaxU64 + 1`, as the code's does. `MaxInt` is the
greatest `int`: an image or view is at most that wide and high, a 32-bit size or
product wraps at twice that plus two (`U32`), and a sampling position beyond an
`int` converts to the least one (`ToInt`), which C++ leaves undefined and x86-64
does. A resized size beyond 32 bits is refused by `round_ties_to_even` and wraps
on the `f32` path of older artifacts (`FullSize`, `ResizedSize`). A FastWAM
stride that wraps to 0 divides by zero in the code; the model takes such a file
as one that does not load.

An error is modelled by its status code where a caller is told one, and the
order of the checks by the order in which codes win.

### LocalRuntime

`Models` and `Sessions` are the Python objects; `implOwners` and `resOwners` are
the owners of the two shared pointers behind them, so that closing a handle is
removing an owner and the last one frees. `resources[m]` is the `ModelResources`
structure: per component the tensors its store defines (`stores`), the map of
names (`weights`), what is loaded, and the telemetry. `device` is the truth: the
buffers that exist. `model[m].next` is the position in `LoadSteps`, the order in
which `load_model_resources` loads, encodes and unloads in each language mode. A
component that fails to load may fail after any subset of its tensors was
defined (`FailedLoads`); the device refuses a buffer beyond `Capacity`.

One component is one step, since nobody else sees a model that is loading;
other models and sessions take their steps in between, and compete for the
device. A session's destructor is two steps, its own state and then its
references, in the order of the members. That a caller does not close a session
under its own call is assumed; `NoFreeUnderCall` shows it of the server.

### LanguageProvider

`call[c].stage` says where a thread is in `prepare`: waiting for the lock,
inside it, encoding. The cache is the `OrderedDict`, as a sequence of entries.
`recent` is a history variable: the prompts answered, each once, latest last.
Tokenizer and encoder are external; an embedding is a row per position, named by
prompt and position, so that padding that is not cleared shows.

## 3. What is checked

The next state may be a deadlock only where the configuration says so
(`EvalRun`: when no client starts again and a merge is done, nothing is left;
`ModelRequests`: a refused load is the end).

| Run | Instance | Shows |
|---|---|---|
| `ServiceCore_safety` | 2 connections, all payloads, ids 0 and 1, one request in flight | `TypeOK`, `NoFreeUnderCall`, `NoSessionLeak`, `OneInference`, `LockHeldWhileRunning`, `ClosedIsFinal` |
| `ServiceCore_pipelined` | 1 connection of a concurrent model, 2 requests in flight, all payloads | `AnswersInOrder` |
| `ServiceCore_live` | 2 connections, Hello, Predict, Reset, fair | `RequestsFinish`, `SessionsReclaimed` |
| `RpcSystem_interrupt` | 1 client, 1 socket, interrupts, 3 requests in flight | `OneStaleResponse` |
| `RpcSystem_policy` | 1 client, 2 sockets, ids to 2, fair | `ClientTypeOK`, `IdsAgree`, `ImplementsPolicy` |
| `GwpSession` | 2 observations and noises, 3 prompts, 2 steps, 16 configurations, every allocation may be refused | `TypeOK`, `FreshAnswer`, `PromptCacheSound`, `SignatureHonest`, `GraphsInStorage`, `DiesOnlyStarved` |
| `FastWam_shared` | 2 threads, 2 sessions, 2 observations, instructions of 2 lengths | `TypeOK`, `OneOnDevice`, `GraphFits`, `ImplementsPolicy` |
| `EvalRun_resume` | 2 shards, 2 tasks, 0 or 2 requests an episode, one damaged directory at a time | `TypeOK`, `RecordsComplete`, `MergeComplete`, `TornLinesStayLast` |
| `EvalRun_identity` | 1 shard, 2 models, 2 tasks of 2 and 1 episodes | `OneModel` is violated |
| `ModelRequests` | 11 whole files and 48 with one fault, 11 broken paths and bundles, 15 configurations, 30 requests | `TypeOK`, `PayloadInside`, `InputContractHolds`, `AcceptedImagesCompose`, `CanvasExact`, `ClippedActionBounded`, `DecodeInverts`, `PrefixClosed` |
| `LocalRuntime` | 2 models, 3 sessions, 3 language modes, a device of 10 | `WeightsAlive`, `DeviceAccounted` |
| `LanguageProvider` | 3 threads, 5 instructions of 4 prompts, capacities -1 to 2 | `AnswerIsEncoding`, `KeepsMostRecent` |

Why the bounds are enough:

- Two connections are what `inference_lock` needs to be contended; a queue of
  three, in which the middle waiter can be cancelled, is covered by the proof of
  `MutualExclusion`, for any number. An id that is not
  the expected one is fatal whatever its value, so ids beyond the bound add
  nothing. With `Window` = 1 a peer is synchronous, as the repository's client
  is; with 2 it has a frame waiting behind one that turns out to be fatal.
- Two sockets let a client lose one connection and go on with a fresh one.
  An interrupted client needs three requests on one socket: the interrupted
  one, the one that takes its answer, and the one after. Interrupts are limited
  to one instance, because they break agreement on ids by design of the client;
  `OneStaleResponse` states what is left.
- Two steps have a first and a last step that differ in what they upload and
  read back; two of each input tell a stale one from the request's own. The
  configurations cover each branch of the tuning with its neighbours; the
  proofs cover all of them.
- Two threads may call two sessions or the same one. Instructions of two
  lengths make a kept graph the wrong one; `MaxDraws` = 2 lets a session draw a
  first and a second noise, so that their order and a reset between them show.
- Two shards overlap or leave gaps; two requests make an episode that can be cut
  in the middle, none one without rows. `MaxDamaged` = 1: directories do not
  read each other. `MaxClients` = 1 lets one client run at a time: clients in
  different directories share nothing, while the merge runs at any time.
- `ModelRequests`: the smallest canvas with a view beside and a view below
  another is 4 by 4 (`Patch` = 2); images are larger, smaller, strided and of
  other proportions than their views, so every branch of the resize, both
  interpolations and both resampling boundaries are taken. `MaxU64` = 4095 is
  small enough for an offset of the instance to wrap. `MaxInt` = 31 makes images
  of 15 to 32 rows and one column those whose resized size is the last that
  fits, is refused, and wraps, and the last whose height is an `int`; a stride
  of 33 and 34 heads wrap too. Each faulty file has one fault, since every fault
  has the same effect, a refusal. `MaxDraws` = 2 lets a second request draw
  after a first.
- `LocalRuntime`: a device of 10 has room for one model with the encoder, for
  two without it, and for two that take turns with it, so a model's load may
  fail for want of memory another holds. Three sessions let a model have two
  and the other one. One tensor has a prefix of no component.
- `LanguageProvider`: two entries are what an order of use needs; a negative
  capacity is 0. Two instructions make one prompt; one mask is padded on the
  left and is refused.

**Fairness.** `FairSpec` gives weak fairness to each handler and each worker
thread. asyncio resumes every ready task in FIFO order, so a handler that can
go on does; a native call is a finite computation. Nothing is assumed of peers
(they may never read or send) nor of the operator. `RpcFairness` adds that a
client's call goes on when it can: it is a thread of its own. Reconnecting does
not go on for ever, `connect_timeout` ends it (`GiveUp`). `FastWam` states no
fairness and no liveness: `std::mutex` does not promise a waiting thread its
turn, so nothing can be said of a thread among several. The same holds of
`LocalRuntime` and of `LanguageProvider`, whose `threading.Lock` is no fairer.

**A disagreement.** `EvalRun_identity` shows how a resumed evaluation can
attribute episodes to a model that did not run them. `run_libero_client.py:474`
refuses a resume when "resume server model differs from existing results", but
the comparison needs `summary.json`, which is first written after the first
episode's line (`:497`, `:501`). A client stopped between the two leaves one
episode and no summary, and a resume against another model is accepted.

**Things the models show that no document settles.** No comment or document of
the repository speaks of these, so the properties say what is left beside them:

- A fixed prompt whose mask has padding is accepted at load and encoded; every
  `predict` then fails, because the request's tokens have lost their padding
  before they are compared with it (`src/models/gwp05/pipeline.cpp:417`).
  `InputContractHolds` names the case.
- FastWAM's contract accepts any tensor layout and pixel range of the policy;
  `vae_pixels` refuses a canvas that is not `chw` with `inference_failed`, and
  takes one of `zero_to_one` as if it were `minus_one_to_one`.
  `InputContractHolds` excludes the first; values of pixels are not modelled.
- With an external embedding the mask is validated and not applied. With
  padding on the left no padded embedding is accepted at all, since
  `validate_embedding` wants it on the right and `validate_prompt` on the left.
- A predict that fails for its language alone has already drawn its noise
  (`src/models/gwp05/model.cpp:108`), so later predictions of the session
  differ until it is reset.
- A client that died between an episode's record and its newline is resumed
  without complaint, as the line parses, and appends the next episode to that
  very line (`src/eval/sim/run_libero_client.py:497`). From then on neither a
  resume nor a merge can load the file. `TornLinesStayLast` says what is left: to
  a file cut within a record nothing is appended, and nothing to unended
  requests.
- An artifact of the older kind has its images' resized sizes kept in 32 bits
  without a check (`src/src/policy/image_ops.cpp:307`), where a newer one is
  refused (`:65`): a very long and thin image is then resampled from a wrong
  size. What it shows still comes from inside its payload (`CanvasExact`).
- A file without a policy that fails the semantic checks of GWP05 raises
  `invalid_argument` where a failed check of its contract is
  `incompatible_artifact`.
- FastWAM's `action_shift`, `video_shift` and `norm_eps` are compared with
  `<= 0.0F` (`src/models/fastwam/contract.cpp:262`), which a NaN passes.
- GWP05 on `Backend::cpu` selects no backend and is not refused for it
  (`src/models/gwp05/runtime.cpp:242`); the load fails at its first component
  with `resource_exhausted`. `LocalRuntime` has the case as `"null"`.

## 4. What is proved

TLAPS proves the following for every value of the constants that satisfies the
module's assumption.

**ServiceCoreProofs**, from `ServiceAssumption` (`Concurrent` is a Boolean,
`Frames` is any set of requests, `Window` any number; `Connections` is any set,
finite or not). `Invariance` proves `Spec => []ServiceInv`, whose parts are:

- `TypeOK`.
- `WireInv`: for each connection, what a peer asked is what is in the outbox,
  in service, and in the inbox, in this order. `AnswersInOrder` alone is not
  inductive because it says nothing of requests under way.
- `FinalInv`: a closed connection is past serving; a fatal or close response
  is the last one.
- `HandlerInv`: what each `pc` implies for the session, the request and the
  worker.
- The lock part: `locked` exactly while a handler is `inflight`, at most one
  of these, and a thread runs only then, or after the server was stopped.

From it: `TypeCorrect`, `MutualExclusion` (`OneInference`), `LockDiscipline`
(`LockHeldWhileRunning`), `NoUseAfterFree` (`NoFreeUnderCall`),
`SessionLifetime` (`NoSessionLeak`), `OrderedAnswers` (`AnswersInOrder`), and
the action property `Finality` (`ClosedIsFinal`).

**RpcSystemProofs**, from `ClientAssumption` as well (`NoSocket` is no
connection, `LastId` is positive, and `Frames` holds what a client can send:
`ClientFrames`). Any number of clients on any number of connections. A client's
step is a peer's step on its own socket or on one nobody had yet, or none of
the server's (`ClientForm`), so `ServiceInv` holds in the composition too
(`SystemInvariance`), and `ClientTypeCorrect` follows. `IdsAgree` is not
inductive: it speaks of the moments between two requests. `LinkInv` says of a
socket whose peer would still be answered that it has at most one request under
way, which is the one the client waits for, and that the server has counted it
exactly when it has answered it without closing (`LinkOf`). The server's steps
keep this (`LinkServes`); a client that reads finds the answer to its own
request, not a final one (`Reading`), and counts the same way (`LinkAfterRead`).
With `~Interrupts` this gives `IdsStayInStep`; after an interrupt a second
request is under way and `OneStaleResponse` is what is left.

`StaleIsLast` proves it without any assumption on interrupts, so for a socket
with any number of requests under way. `CountedInv` is about the server alone: a
result has an id below the one expected next and below every later answer that
is not fatal. `RiseInv` is about the client: the ids of its unanswered requests
do not fall and none exceeds its counter. Together they say what accepting a
result with a second request behind it means (`StaleDooms`): both have the same
id, the server has counted it once, and so the second is refused fatally,
wherever it is: in the inbox, at the handler, or answered already. `DoomedOf`
says that of the socket, no step of clients or server undoes it (`DoomedStep`),
and a call that returns would need a result `DoomedOf` excludes
(`ReturnsFresh`).

`ReturnedCallsRan` is the refinement of `RemotePolicy` without its fairness,
under `~Interrupts`: initial states map to initial states and each step to a
step of `RemotePolicy` or a stutter (`PolicyStep`). It needs more than
`LinkInv`: that one request is under way while a client waits, and none
otherwise, unless the server hung up (`AskedInv`), and that a result is in a
thread, about to be sent or in the outbox only if the history `ran` has its
connection (`RanInv`). `CallSteps`, `CallOthers` and `CallServed` then say what
becomes of a call at a step of its client, of another one, and of the server.

**GwpSessionProofs**, from `GwpAssumption` (`Configs` is any set of
configurations, `Steps` any positive number, any prompts, observations, noises
and any set of refusable allocations). `FreshAnswer` is not inductive: it speaks
of the last stage only. `GwpInv` says of every stage what the call has put or
found in the caches (`RequestInv`, `StageInv`), of every denoising step that
what the device, and the host where it reads back, hold is this request's
action after exactly `step` steps (`PartInv`), and of memory that whatever is
unallocated is counted in `starved` (`StarvedInv`). From it: `TypeCorrect`,
`FreshAnswers`, `CacheCoherence` (`PromptCacheSound`), `HonestSignature`
(`SignatureHonest`), `GraphLifetime` (`GraphsInStorage`) and
`AbortsOnlyStarved` (`DiesOnlyStarved`).

**FastWamProofs**, from `FastWamAssumption` (any sets of threads, sessions,
observations and embeddings of any length; the special values differ from what
they must be told apart from). `OneOnDevice` and `GraphFits` are not inductive:
they say nothing of a call before it reaches the device or of what it left
there. `FastWamInv` adds, for each thread, which mutexes it holds at each stage
(`CallInv`), and what the cache, the graph, its inputs and the result hold of
this call at each stage (`DeviceInv`). `OthersCalls` and `OthersDevice` are the
heart of it: a step of one thread leaves what the invariant says of another, by
the mutexes alone. From it: `TypeCorrect`, `DeviceProtected` (`OneOnDevice`),
`GraphFitsCall` (`GraphFits`) and `SessionsAreAlone`, `Spec => ImplementsPolicy`: initial states
map to initial states and each step to a step of `SessionPolicy` or a stutter
(`AloneStep`).

**ModelRequestsProofs**; files, configurations, requests and answers of the
network are any. The assumptions say what a format or a type of the code
guarantees: a value is of the type its key or tensor is stored under
(`LoadsAssumption`), images are a vector and have sizes, tokens and masks are integers
(`RequestsAssumption`), answers are numbers or not finite (`CoresAssumption`,
`NotFiniteAssumption`), a patch has a positive width (`NetworkAssumption`), the
audited legacy model has integer constants (`AuditedAssumption`); and
`WidthAssumption`, `DrawsAssumption`, `TestValuesAssumption`.

`PayloadInside` is not inductive: it needs that the file a model was loaded from
passed the reader (`OpenedFile`), and then that a sum of two offsets whose wrap
was excluded is the sum (`NoWrap`). From it `TensorsInFile`.

The other properties rest on three invariants. `LoadedRight`: what a load
accepted is a policy whose every number has its type (`SpecRead` for a file
with a policy, `LegacyRead` for one without) and which passed the checks of its
architecture; it is the long way from a file of any content to something one
can calculate with. `PreparedRight`: what was prepared is what the model's
`prepare_inputs` makes of the request. `AnswerRight`: an answer is the decoding
of a finite answer of the network.

- `InputsHoldContract` (`InputContractHolds`): the sizes of canvas, state and
  noise are those of the contract, a prompt has 1 to `PromptTokens` tokens left
  under any mask that was accepted (`ActiveCount`), all of them under one
  without padding (`AllActive`), and FastWAM's canvas is even, also where its
  stride wraps (`EvenMultiple`).
- `ClippedActionIsBounded` (`ClippedActionBounded`): a value between -1 and 1 is
  mapped between the statistics (`DecodedBetween`).
- `DecodingInverts` (`DecodeInverts`): one lemma per kind of normalisation
  (`ScoreInverts`, `NoneInverts`, `RangeInverts`), over fractions that are equal
  as numbers but not as pairs (`Kept`), with the clamp and the clip that keep a
  value inside them (`ClampKeeps`, `WithinKeeps`).
- `PrefixIsClosed` (`PrefixClosed`): the layout of any number of patches and
  actions (`PrefixOfLayout`).
- `CanvasIsExact` (`CanvasExact`): the place of a pixel in the flat vector gives
  its column, row and channel back (`PlaceOfPixel`); views and rectangles
  correspond one to one and no point is under two of them (`PlaceOfView`,
  `ViewOfPlace`, `OneViewCovers`), so the order of copying does not matter; a
  window lies in its image whatever the sizes (`SampleInside`). That windows are
  in order is for sizes the code can count, `Resizable`: the resized image is
  then at least as large as what is cut out of it (`FullCovers`,
  `ResizedFits`), also where rounding goes down; the ends of a window are ints
  (`WindowEnds`), so the window has all taps the kernel reaches (`WindowOf`) and
  with them the source pixel nearest to its center (`SampleNear`), because both
  kernels are positive there (`KernelPositive`), and that pixel moves on with the
  output pixel (`WindowsInOrder`). That a GWP canvas has no
  background is a count: three rectangles that do not overlap have as many
  cells as the sum of their areas (`AreaOfThree`, `CellCount`), which is the
  canvas's, so they are all of it (`NoBackground`).
- `AcceptedImagesAlwaysCompose` (`AcceptedImagesCompose`), for images that are
  `Resizable`: target and resized sizes fit in an `int` and in 32 bits, and no
  sampling position is beyond an `int`. Larger ones the code does refuse, or
  cannot count. `transform_image_reference` refuses a window whose weights add up to zero, and the bicubic kernel has
  negative ones. `CubicSum` shows that the sum is positive wherever the image
  ends: a negative weight a whole number of steps past the kernel's first zero
  has a partner on the same side and inside the image that outweighs it
  (`Partner`, `CubicPair`); at most four have none of their own, and the tap
  nearest to the center, at least 9/8 of them together, is left for those
  (`CubicNear`, `CubicLeast`). The other kernels have no negative weight
  (`OtherSum`). That a fold over a set may be taken in any order is `SumSplits`,
  by way of a smallest set for which it fails (`Smallest`). Each view has a
  rectangle because different rectangles have different views and there are as
  many of both (`ViewsArePlaced`). The weights are exact; rounding is not
  modelled.

**LocalRuntimeProofs**, from `TensorsAssumption` (which also says that the
tensors of a component have a size together), `NamesAssumption` (sessions are
not called like the other owners) and `ConfigsAssumption`; models, sessions,
tensors, their sizes and the device are any. `WeightsAlive` is not inductive:
it says nothing of a load under way, nor why a model closed first keeps its
weights. `Inv` adds that what a model has loaded is decided by how far its load
has come (`LoadedBefore`), that stores and map agree with what is loaded at
every point (`Good`, kept by `UnloadMakesGood` and `LoadMakesGood` also when a
load fails with some names defined), and that a session is an owner of both its
model and its resources, so that a release by anybody else leaves them
(`ReleaseKeeps`, `SessionOnReleased`). From it: `SessionsKeepTheirWeights`.
`DeviceAccounted` is not inductive either: it does not say whose a buffer is
while a load, an unload or a destructor is half-way. `Books` has three parts:
a model's buffers are those of what it has loaded and its peak is the high mark
of their bytes (`Accounted`), what is loaded has an owner that will free it
(`Owned`), and a session reports what its model does (`Reported`). From it:
`DeviceIsAccounted`.

**EvalRunProofs**, from `EvalAssumption` (directories, manifests, selections,
models and episodes are any; an episode has one of `Counts` requests, any set of
numbers, and `Nothing` is none of the values it stands in for).
`RecordsComplete` is not inductive: it says nothing of the rows already appended
for the episode being recorded, nor of those a crash left behind. `RowsInOrder`
says of every directory that its requests are first the rows of recorded
episodes, each episode's together (`Settled`), and then, while one is recorded,
the beginning of that episode's rows, of which what is still to be appended is
the rest (`Appending`); what follows after a crash is dropped by the next client
before it appends. That dropping rows keeps the order of the others is what
`Retain`'s part of the proof shows: the k-th row of the new file is the k-th
that is kept. `ClientOK` says what a client has settled by the stage it is at,
so that a resume cannot change the selection under records that exist.
`MergeComplete` speaks of the end of a merge; `MergeOK` says of every moment
before it that what was merged lies in the selections already covered and that
the directory being read contributes nothing yet but what was just read of it.
The merge's own checks do the rest: nothing is assumed of the order in which
clients write between its reads. From it: `TypeCorrect`, `DirectoriesComplete`,
`MergesComplete` and the action property `TornLines` (`TornLinesStayLast`),
which rests on `RowsInOrder` too: a request row without its newline is of an
episode without a result, so a resume drops it before anything is appended.

**LanguageProviderProofs**, from `LanguageAssumption` (callers, instructions,
masks of any length and values, and any set of integers as capacities).
`LanguageInv` says that an entry is the encoding of its prompt (`EntriesOK`),
that a caller between lookup and answer holds the lock and that what it encodes
is still not in the cache (`CallOK`), and that the cache is the end of the
history of prompts (`OrderOK`). A hit moves an entry, and the same prompt in the
history, to the end, with the same shift of what was behind it
(`HitKeepsCache`); a miss may find the prompt in the part of the history the
cache has forgotten, and nowhere else (`EncodedKeepsCache`). `MaskIsPrefix`
shows that a mask the code does not refuse is ones and then zeros, so that
counting them finds the padding. From it: `Answered` (`AnswerIsEncoding`) and
`MostRecent` (`KeepsMostRecent`).

The last two, and `ModelRequestsProofs`, need induction over positions, for which
the library's theorems cannot be used here. `Least` takes its place: a set of
natural numbers that is not empty has a least element, so a claim that fails
somewhere fails at a first position.

Model-checked only:

- the liveness properties, and the fairness of `RemotePolicy` (liveness and
  `ENABLED` are out of the prover's reach).

## 5. What is not modelled

- **Arithmetic of the networks**: convolutions, attention, quantisation and
  their numerical accuracy. Modules name a tensor by its inputs.
- **Host memory and debug dumps**: no step fails because an allocation of the
  host does (not for a very large image either), and nothing is dumped.
- **The order of destruction inside one owner**: which member of a session, a
  model or its resources goes first, and a session's graphs before their device.
- **Bytes**: protobuf, the parsing of JSON and GGUF, and the values of pixels.
- **Rounding**: single precision in resizing, normalising and decoding; the sizes
  at which a limit is met are those of exact arithmetic.
- **ggml and CUDA**, submodules or libraries outside the repository; their
  outcomes (success, refused memory, failed graph, abort) are choices.
- **A GWP05 session's mutex**: `GwpSession` and `ModelRequests` take one call of
  a session at a time; `FastWam` has the mutexes, whose use is the same.
- **The C API's conversions** of structures, and its last-error string.
- **The simulators**, videos, metrics, the single-episode mode, and
  `errors.jsonl`, which nothing reads back.
- Components listed as `not_modelled` in `PROJECT.json`, each with its reason.

## 6. Plan

Done: `ServiceCore` with proofs; `RpcSystem` against `RemotePolicy`, with proofs;
`GwpSession` with proofs; `FastWam` against `SessionPolicy`, with proofs;
`EvalRun` with proofs; `ModelRequests` over `Artifact`, `PolicySpec`,
`PolicyOps` and `ModelContract`, with proofs; `LocalRuntime` with proofs;
`LanguageProvider` with proofs.

Next, in this order:

1. A GWP05 session against `SessionPolicy`: `GwpSession` with the session's mutex
   and generator, as `FastWam` has them.
2. The plan of device memory of FastWAM's load, and `LocalRuntime`'s
   counterpart for it.
3. The other evaluation clients, where they keep records of their own.

## 7. Running

In this directory, with TLC, the community modules and TLAPS 1.4.5 on the path:

    tlc -workers 2 -config ServiceCore_safety.cfg MCServiceCore
    tlapm ServiceCoreProofs.tla

The longest run, `GwpSession`, has 3.6 million distinct states. Operators
marked "mutant" in a comment are faults a change to the code could introduce.
None is used by the specification; substituting one for the definition that
follows it makes the property named in `PROJECT.json` fail.
