# A TLA+ development of RoboRT

RoboRT is a C++ runtime for vision-language-action models. A server process
(`src/serving`) loads one model (`src/api`, `src/models/*`) and answers
`PredictRequest` messages over ZeroMQ with chunks of robot actions, either one
request at a time (REP) or in a two-thread pipeline (ROUTER, `--async`).

This directory holds TLA+ models of its control logic, the TLC configurations
that check them, and TLAPS proofs about them.

## 1. Inventory

| Component | State it keeps | Operations | Talks to |
|---|---|---|---|
| **Async server** `serving/server.cpp: run_async_router` | `jobs`, `replies` under `q_mu`/`q_cv`; `done`; the ROUTER socket, owned by the receive thread | drain and send replies, poll, receive, parse, prepare, push and notify; wait, pop, compute, queue the reply; shut down and join | clients (ZeroMQ), `vla::prepare` and `vla::compute` on different threads |
| **Sync server** `serving/server_base.cpp: run`, `VlaServer::handle_request` | the REP socket, `served_`, `s_shutdown_` | poll, receive, handle, send | clients, `vla::predict` |
| **Request validation** `parse_request`, `decode_image` | none between requests; the buffers of a `ParsedRequest` must outlive the call that reads them | check fields in order, decode images, build the observation | adapter |
| **Input adapter** `serving/adapter.cpp` | a `ModelInputStorage` per request | pad the state, check noise, count the previous chunk's steps, set borrowed pointers | models |
| **Model loading** `api/model.cpp`, `Create` of every model | the handle: backend, contexts, buffers, vision context | detect the architecture from GGUF keys, call its factory, acquire stage by stage, return nullptr from any of them; `model_free` | GGUF, ggml, mtmd |
| **FasterWAM** `models/fasterwam` | cached text, prefill graph and fused KV, proprio and text embedding graphs, constant buffer, denoising graph, time modulation, random generator | `predict`, `prepare`, `compute` | ggml |
| **pi0.5** `models/pi05` | one cached compute graph with five keys, RTC configuration, statistics under `stats_mu_`, random generator | `prepare_inputs`, `compute_actions`, `predict`; token pruning; RTC guidance | ggml, the vision tower (mtmd) |
| **HY-VLA** `models/hy_vla` | weights; two graph allocators that the environment may ask to keep | `predict`: vision tower camera by camera, prefix layout, masks, action expert; a dozen debug modes | ggml |
| **LingBot-VLA v2** `models/lingbot_vla_v2` | one cached compute graph with its input pointers and debug taps, F16 KV caches, the robot's last state | `predict`, `prepare_inputs`, `compute_actions`, `dump_debug` | ggml, the vision tower (mtmd) |
| **Converters**, comparison scripts | none | rename and copy tensors | files |
| **Vendored** ggml, mtmd, gguf-py, stb | | | |

What is hard in it, and what makes each part correct:

- *Async server.* Two threads, a mutex, a condition variable, a shutdown flag set
  by a signal handler. Every accepted request must be answered once, to the
  connection it came from, with its own id, whichever stage it fails at; no wakeup
  may be lost; shutdown must end. Clients time out, close and come back.
- *Sync server.* The same promise to clients from a loop without threads, and an
  end after shutdown, which the poll timeout alone provides.
- *FasterWAM.* Six cached objects with a validity key each, updated at different
  points of a function with ten early returns, two of them after something was
  freed and before it was replaced. An answer must be computed from the text of its
  own request. The two-phase entry points touch the same caches from two threads.
- *pi0.5.* One graph cached on shapes and RTC mode. A wrong key either rebuilds the
  graph on every request or runs a stale one. RTC copies and weights a prefix whose
  length comes from the client, from the configuration and from the chunk.
- *Adapter and validation.* Two modules compute with two different widths (real and
  padded) of the same array. What a request borrows must outlive its use.
- *pi0.5's token pruning.* Two stages that reorder a view's tokens, rounds that drop
  pairs until a budget is met that pairs may not be able to hit, sorts that are not stable.
- *Model loading.* Four factories with some ten early returns each, a retry that replaces
  the backend half way, and four destructors with orders of their own. Nothing may leak, be
  freed twice, or outlive its backend; a handle must be of the file's architecture.
- *LingBot.* A graph cached on the length of the instruction; pointers into it that a
  failed rebuild leaves dangling; KV caches whose only order is the order in which nodes are
  registered; a state that travels beside the prepared input.
- *HY-VLA.* Index arithmetic that partitions a token sequence into runs, groups and
  segments; a prefix rebuilt from several sources; allocators kept over failures; the same
  clean-up written out at every return.

`PROJECT.json` lists the hazards line by line.

## 2. Modules

| Module | What it is |
|---|---|
| `PredictRequest` | requests, replies, clients: the vocabulary of the next three |
| `PredictService` | abstract: what either server promises to clients |
| `SyncServer` | the REP loop; implements `PredictService` |
| `SyncServerProof` | proofs about `SyncServer` |
| `AsyncPipeline` | the ROUTER pipeline; implements `PredictService` |
| `MCAsyncPipeline` | its symmetry for TLC |
| `AsyncPipelineProof` | proofs about `AsyncPipeline` |
| `FasterWamCache` | the caches of `FasterWAMModel` across calls |
| `FasterWamTwoPhase` | its use one request at a time, `prepare` and `compute` included |
| `MCFasterWamCache` | text lengths for TLC |
| `FasterWamCacheProof` | proofs about the two |
| `Pi05Rtc` | pi0.5's requests; the leftover of the previous chunk from the wire to the guidance |
| `Pi05Predict` | abstract: what pi0.5 promises its callers |
| `Pi05Graph` | pi0.5 under the two threads: cached graph, generator, RTC; implements `Pi05Predict` |
| `MCPi05Graph` | requests for TLC |
| `Pi05GraphProof` | proofs about `Pi05Graph` and `Pi05Rtc` |
| `VisPruner` | pi0.5's token pruning, view by view |
| `MCVisPruner` | views for TLC |
| `VisPrunerProof` | proofs about `VisPruner` |
| `ModelLoad` | `model_load`, the four factories, the destructors |
| `MCModelLoad` | checkpoints and machines for TLC |
| `ModelLoadProof` | proofs about `ModelLoad` |
| `LingBotPrefix` | rows, positions, masks and the robot's state that LingBot uploads |
| `LingBotKv` | the order of LingBot's graph, and what its attention reads from the KV caches |
| `LingBot` | LingBot's entry points and cached graph; uses the two above |
| `MCLingBot` | requests and environments for TLC |
| `LingBotProof` | proofs about the three LingBot modules |
| `HyPrefix` | HY-VLA's prefix, runs, groups, segments and masks |
| `HyVision` | attention over time in HY-VLA's vision tower |
| `HyVla` | HY-VLA's `predict`; uses the two above |
| `MCHyVla` | requests and environments for TLC |
| `HyVlaProof` | proofs about the three HY-VLA modules |

### Requests and clients

A request is `[conn, rid, kind]`: the connection, the id, and *where it fails, if it
does*. `garbled` bodies do not parse and are answered with id 0; `invalid` ones fail a
check of `parse_request`; `unprepared` ones are turned down by `prepare`; `failing` ones
get no actions from the model; `good` ones get a chunk. Images, tokens and floats are
not represented: nothing stated about the servers depends on them.

A client is a REQ socket: one request at a time, any message that arrives is taken for
the reply. A client that gives up closes its socket; a retry is another connection.
Requests of a closed client may still be queued or computed; the ROUTER and REP sockets
drop replies to a peer that is gone. The clients and their sockets are the external part
of the model.

### AsyncPipeline

| Code | Action |
|---|---|
| `while (!s_shutdown_)` | `RLoop` |
| the drain of `replies` under `q_mu` | `RLock`, `RSend` (one reply each), `RDrained` |
| poll, nothing to read (timeout, EINTR) | `RIdle` |
| three-frame receive | `RRecv` |
| `parse_request`, `vla::prepare`, the early `continue`s | `RHandle`, `RReject` |
| push under `q_mu`, `notify_one` | `RPush`, `RNotify` |
| `done.store`, `notify_all`, `join` | `RSetDone`, `RNotifyAll`, `RJoin` |
| `q_cv.wait`: lock, test, block, spurious return | `CLock`, `CTestNothing`, `CBlock`, `CSpurious` |
| pop; leave | `CPop`, `CQuit` |
| `compute_and_build_response`, `enqueue_reply` | `CReply` |

Critical sections that touch only the queues are single actions that need the mutex free.
Two are split because another thread's *unlocked* step can fall into them: the drain,
and the wait, whose test and block are separate so that an unlocked `done.store` can come
between. The signal handler is `Signal`, at any time. At exit the socket closes with
LINGER 0, which may lose what it has not delivered (`RJoin`). `served_` is not
modelled in either server: it counts every reply, where its comment speaks of
"successfully completed requests", and is only printed.

### FasterWamCache

A KV buffer is represented by *whose* KV it holds: a text, or no text's (`garbage` memory,
`zero` fallback, a `dangling` pointer, an `unmodulated` prefill). A graph is its shape and its
key. `predict` is a sequence of steps in the order of the code (prefill, proprio, text
embedding, constant buffer, KV upload, denoising), each with the allocations that may
fail in it; a failure goes back to `idle` and leaves everything as the code does at that
`return {}`. `prepare` and `compute` are one action each. Requests with images carry no
text, as `parse_request` never passes both. The noise, the state and the numbers are left
out; `const_buf` and its key `cached_text_seq`, always set and reset together, are one variable.

### Pi05Rtc, Pi05Graph, Pi05Predict

A request is its token counts, the number of floats of its leftover, and whether it brings its
own noise. A graph is the token counts it was built for, and the key is what `need_rebuild`
compares. The noise generator is its state on a cycle. `Prepare` is `parse_request`'s check of the
leftover, the adapter's count of its steps and `prepare_inputs`; it may come at any point of a
`compute_actions`, whose steps are `Start`, `KeepGraph` / `BuildGraph` / `BuildFails` and `Run` /
`RunFails`. The first of `jobs` is the one in hand. What is computed is a record of where each part
comes from: the request, the draw of the generator, the rows inpainted, known, steered and pinned.
Weights are integers over a common denominator, which is all an order between them needs; the
"exp" schedule is an increasing map of the linear one and is not told apart.

`Pi05Predict` has no graph and no steps: a queue, the generator, and for each request the actions
its own inputs call for, or a failure. `Prepare` is its `Accept`, `Run` its `Answer`, a failed build or
run its `Fail`, the other steps stutter; `queue` is the calls of `jobs`.

### VisPruner

A token is its place in a view, counted from 1; attention and embeddings are numbers. `Encode` takes the
next view, `Rank` is stage 1, `Round` one round of stage 2, `Merge` the reordering, `AppendView` the
insertion into `img_emb_host`. `Rankings` is the set of all orders `std::sort` may
produce, and what survives a round is found by the places of the dropped. Floating point is left out: the ratio is a percentage, and similarity an order.

What the code does that its comments do not say: the result has T tokens or T - 1, whichever
differs from N by an even number; with T_imp = T and an odd N - T there is no
pair to drop, `new_remaining.reserve` gets a negative size and throws; with T_imp < 1 the view is not
pruned. pi05_vispruner.h says of `keep_order = false` that tokens come by importance; those of
stage 2 come in the order in which the last round left its pairs.

### ModelLoad

Tensors are named by group (those that one loop of a factory makes), a resource is the
member that owns it and the device it is for. `Detect` and `Dispatch` are `model_load`; every stage
of a factory is an action that acquires something, or checks something, or returns nullptr, after which
the destructor (`Destroy`) frees member by member in the order of its architecture. `Predict` is any number of
requests: they leave some of the caches allocated. `HyVlaRetry` replaces the CUDA backend by a CPU one.

Where tensors are looked for, the handle has them (`HandleSound`). model.h:229-230 says of loading that it
"Fails loud"; FasterWAM's `mk` returns nullptr for a missing tensor (fasterwam.cpp:697-703) and nothing looks at it, and so does
HY-VLA's for all but the vision tower (hy_vla.cpp:1662-1667, 1924): such a file gives a handle.

### LingBotPrefix, LingBotKv, LingBot

`LingBotPrefix` gives the rows of the prefix, positions and masks as functions of the length of the
instruction, in the numbers of the code (66 rows a view, 8 queries). `LingBotKv` builds the graph as
`ggml_build_forward_expand` does, sources first, in the order in which the code registers nodes, and runs it: a cache
holds what the last copy in front of a node put there, so what each attention finds is a consequence of the order.
`InOrderOf` is what the expansion makes of an order of roots, which the proofs start from. In `LingBot` a pointer is the number of the build that
made it, so that a dangling pointer differs from a live one (`RunsLiveGraph`). `dump_debug` re-reads tensors after the run, which is right only
for those that the keep-alive views pinned (`DumpIsIntact`).

The file's raw maps are assumed to lie inside the canonical state (`PrefixAssumption`): the code checks their
length only.

### HyPrefix, HyVision, HyVla

`HyPrefix` is the pure part: the prefix of a request, and everything that is read off a modality mask. `PrefixRows` gives
the row at each place, as the code's index arithmetic with `expected_tokens` does; rows of one modality are `Picked` from the mask in
`Ascending` order, as its loops do.
`HyVision` follows one element of a tensor through permutation, attention and back. In `HyVla` a graph is what `predict` does with it:
the inputs its nodes use (only these get memory), the inputs that are filled without asking whether they have memory,
the images prepared for it, the allocator. One pass is `NewContext`, `AllocGraph`, `FillInputs`, `ComputeGraph`, whatever the graph; the cameras of a request
are passes of their own. `AllocGraph` over-approximates failures: ggml needs no new buffer if the old one is large enough.

What the run shows beside its properties: a call stops the process (`GGML_ASSERT` in `ggml_backend_tensor_set`) in
the debug modes `prefix` without text layers, and `suffix`, `block` and `vt` with several steps, and when an allocator is kept whose
buffer could not be allocated in an earlier call of the same shape. With fewer than four vision layers the earlier
frames of a camera are encoded and then ignored. The answer has rows of `max_action_dim`.

### More on pi0.5

`LeftoverAssumption` is about clients and configuration: the code bounds neither the leftover nor the
horizon by the chunk, whose vectors the schedule is written to, and one of the two has to be.

## 3. Runs

| Run | Bounds | Result |
|---|---|---|
| `async_safety` | 2 connections, 2 requests each, all 5 kinds, symmetry | safe |
| `async_live` | 2 connections, 1 request each, 3 kinds | implements `PredictService` with liveness; shutdown ends unless it falls between test and block |
| `async_shutdown` | 1 connection, 1 request | **violated**: lost wakeup, `join` never returns |
| `sync` | 2 connections, 2 requests, 3 kinds | implements `PredictService`; shutdown ends |
| `fasterwam` | 4 texts of lengths 1, 2, 2, 3; images; 5 failing allocations; two-phase calls one at a time | answers are fresh, graphs live |
| `pi05` | 6 requests, 2 in flight, RTC and inpainting on, all failures | implements `Pi05Predict` with liveness; guidance well formed; graph rebuilt on change only |
| `vispruner` | up to 2 views of 6 tokens, 6 budgets, 3 ratios, both orders | ends, counts, keeps and drops what it should |
| `model_load` | complete files and files with one defect for each architecture; 9 machines; every allocation may fail | nothing leaks, outlives its backend or is the wrong architecture |
| `lingbot` | instructions of 1 and 2 tokens, each kind of refusal, 2 layers, 2 steps, all environments, one prepared input waiting | live graph, own KV, own state, sound upload |
| `lingbot_two_phase` | the same | **violated**: `prepare` and `compute` lose the robot's state |
| `hy_vla` | up to 4 images, prefixes of up to 4 rows with every mask, 2 calls, all debug modes and failures | everything freed, images seen, masks sound |
| `hy_batched` | one camera of two frames, 3 patches, 2 heads | **violated**: patches are mixed where frames should be |

*Why the bounds are enough.* Both threads hold at most one request and the queues are FIFO,
so two connections already give every relation between two requests: same queue, different
queues, one queued and one in hand; the second request of a connection is there for a
closed-and-late or answered-and-again one. The FasterWAM run needs two texts of one length (graph
reused, content not), one of another (everything rebuilt), and calls without a bound on their number:
its state is finite. The pi0.5 requests differ in one token count, the other, both or none, and their
leftovers are absent, shorter than the horizon, as long, and longer than the chunk; two in flight are all the
overlap there is, as one is computed at a time. The theorems of section 4 remove the bounds for every safety property of these runs.

Six tokens give rounds that drop one, two and three pairs, an odd token at the end, and a second round; the budgets cover more, as
many and fewer tokens than a view has, a share of one, and no pruning. A checkpoint with two defects is refused for the first, so one is
enough. LingBot's only key is the length of the instruction: two lengths, with a failed build between them, give every relation between a graph and a
request; `lang = 2` has a row that is neither first nor last. A HY-VLA call leaves nothing behind but its two allocators, so two calls, the second of them of the same
shape, smaller or larger, are all the history there is; cameras of one and two frames, one and two cameras, and a count that a history does not divide, are all its paths.
The head dimension of the attention over time is 1: no permutation moves it.

*What `fasterwam` leaves out.* Once a `predict` has returned early nothing is prepared any more (`TwoPhaseNext`): what `prepare` makes of the caches
such a call left is not claimed to be right, and is not (`FreshKV` fails). Nor is it with two prepared inputs at once, with
`const_buf` (fasterwam.cpp:1929) or the time modulation (1598) failing; see section 3's end.

*Fairness.* Weak fairness of each thread's own steps: both threads run. Strong fairness
of the steps that wait for `q_mu`: no thread keeps it across a poll, a prepare or a compute, and
a comment at server.cpp:476-481 says the design is there to prevent starvation; the holder always
releases it. Strong fairness of receiving per connection: ROUTER and REP sockets
fair-queue their peers. Weak fairness of delivery to an open client. Clients, signals and
spurious wakeups are not fair. A poll that finds a message returns it (`RIdle` needs an
empty inbox or a shutdown), so a loop of idle polls cannot starve a request.
In `Pi05Graph` the compute thread runs (weak fairness); callers owe nothing. In `VisPruner` `prepare_inputs` runs.

*Deadlock checking* is off where the system stops: after shutdown both servers have exited and
clients wait; `prepare_inputs` returns; a load has failed or a model is freed; the process stops.

*What the violations mean.* `async_shutdown`: `done.store(true)` at server.cpp:602 should be made
under `q_mu`. `lingbot_two_phase`: the state belongs into the `PreparedInput`; the asynchronous server, which uses only
these two calls, drives LingBot without the robot's state. `hy_batched`: the permutation at
hy_vla.cpp:528 should be (0, 2, 3, 1), and so on back; the loop over patches, which is the default, mixes what it should (`CausalMemory` holds with
`batched` false).

*Other disagreements between comments and code*, met while modelling and not runs of their own:

- fasterwam.cpp:1768-1769 says that requests with images "fall through to zero KV" as `vp_fused_k[0]` is null; it still points to the
  prefill graph of an earlier text request (1988).
- fasterwam.cpp:1980 says that `vid_kv_stale` will be true after a reallocation of `const_buf`; `cached_text_ctx_f32` is not cleared on that
  path (1901-1908), which matters if the reallocation fails.
- `compute` of FasterWAM copies the KV of the request prepared last (2331), whichever it computes. The async server never reaches this:
  `prepare` refuses until a `predict` has built the graphs, and that server calls none; programs that use the `robo::` functions do.
- pi05.cpp:109 says that the graph is "Rebuilt only when input token counts change."; with RTC off, the default, line 827 compares 10 with the 0 that line
  947 stored, and the graph is rebuilt on every request.
- model.h:181 says that `n_prev_chunk` counts leftover steps; adapter.cpp:117 divides by the padded width of the action space, while `parse_request` and
  the model take rows of the real one, so a padded space loses the last steps.
- lingbot_vla_v2.cpp:311 sets `lp.use_bf16`, whatever was chosen before the configuration was read.

## 4. Proofs

Every safety invariant and action property of a passing run is a theorem for all values of the constants, under
the assumptions that the modules declare and, for FasterWAM, pi0.5 and LingBot, the hypotheses named below. For each component there is
an inductive invariant, in the section "Why" of its module, from which the properties follow.

`AsyncPipelineProof`, for any finite or infinite set of connections, any kinds and any number of
requests:

- `Invariance`: `Inv` is inductive. `NothingLost` and `AtMostOnce` are not inductive alone: that a
  request in a thread's hands becomes a job *or* a reply needs to know who has one in hand at which step
  (`Hands`), who holds the mutex (`Locking`), that the compute thread leaves only when the queue is
  empty (`Idleness`), and that what becomes a job was not rejected (`Admission`). `Owned`, which ties
  everything under way to the open connection's outstanding request, makes the refinement go through.
- `TypeCorrect`, `RequestsConserved`, `NoDuplicates`, `NoMixups`, `NoLostWakeup`, `Drained` follow from it.
- `Refinement`: `Spec => Service!SafeSpec`: `Receive` is the service's `Answer`, `Signal` its `Stop`,
  every step of the threads a stutter.

`SyncServerProof`, for any connections: `SyncInvariance` (`Owed`: whatever is under way is its client's outstanding
request, or the reply to it; `OnePlace`: in one place only, which keeps a late reply from standing beside its request) and `SyncRefinement`,
the same refinement for the REP loop.

`FasterWamCacheProof`, for any set of texts with any lengths, if only the allocations of `Benign` fail:

- `CacheInvariance` is for `PredictOnly`. Its key part is `CachedKV`, "a constant buffer that *fits* the cached text holds
  its KV": in the window between the reallocation and the upload the buffer does not fit, which is why
  the uncleared cached text does no harm as long as the allocation succeeds.
  `CacheTypes`, `AnswersAreFresh`, `EmbeddingsAreFresh`, `GraphIsLive` follow.
- `SerialInvariance` is for `OneAtATime`: a request is predicted, or prepared and then computed, before the next one, and nothing is prepared
  after a predict that returned early. Between `prepare` and `compute` the cached text is that of a KV that is not in the buffer yet
  (`Waiting`). That it will be needs `Warmed`: the prefill's KV is that of the cached text (`FusedOfText`), and the embedding
  graph has the length that the constant buffer has (`EmbeddingOfText`), so that `prepare`, which looks at the former, refuses what `compute`
  would give up on. `TwoPhaseIsFresh` follows.

`Pi05GraphProof`, for any requests, widths, chunk, horizon, delay, mode and sequence of failures:

- `GraphInvariance`: types, `GraphFits` and `GuidedByLeftover` together are inductive. `GraphFits` says more than
  that the graph that runs fits: a graph that is not null has the shape its key says, which makes the key
  left behind by a failed build harmless.
- `RebuiltForOthersOnly`: with RTC on (without it the code does rebuild), and a graph that keeps the horizon it was built with.
- `GuidanceWeakens` is about the schedule alone; `GuidanceAlwaysFades` carries it to every job.
- `PipelineReproducesPredict`: `Spec => Predict!SafeSpec`. `ComputesActions` is its core: the loops of
  `compute_actions` give the rows `Pi05Predict` defines by their properties. `RowsFit` bounds the adapter's division.

`VisPrunerProof`, for views of any size, any budgets, ratios and any order of equals:

- `PrunerInvariance`: `Rounds` says that a token is selected, remaining or dropped, once, and that what remains differs from its
  start by an even number and never falls more than one below the budget. Without the parity, "T or T - 1" is not inductive.
- `CountsAlwaysAgree`, `ImportantAreKept`, `OrderIsKept` follow. `SimilarAreDropped` needs that the remaining tokens are
  apart: dropped pairs rank before the kept ones, and a kept token is at a place that no dropped pair has.

`ModelLoadProof`, for any checkpoints, machines and failures:

- `LoadInvariance`: `Owned` (every live resource has one member, every pointer is live) is inductive only together with the stages at
  which a member may be held (`Inventory`), which are nested, and what the destructor of the architecture knows of: a member held
  at a stage whose destructor does not free it would be lost. `Attached` says which device each member is of, through the
  CPU retry of HY-VLA.
- `NeverOrphaned`, `NothingIsLeft`, `BackendsOutlive` follow; `HandlesSound` and `CompleteLoads` from what the stages passed say of the
  file (`Detected`, `Filled`) and of a failure (`Excused`).

`LingBotProof`, for any requests, instruction lengths, layers, steps and failures:

- `LingBotInvariance`: `GraphWhole`, "a graph that is not null is whole, with the taps and pins of its build": after a failed allocation
  the inputs dangle, and the null graph is what keeps them from being used. `GraphIsLive` and `DumpsArePinned` follow.
- `PredictsForOwnState`, if the raw map puts no two numbers of the state in one place (`MapInjective`): otherwise the code itself
  overwrites one with the other.
- `PrefixIsSound`, for every length: each row of the prefix is copied to once, no row shares its position or comes before an earlier one, and
  nothing of the prefix sees an action.
- `CachesAreOwn` and `LingBotTypes`, if the graph is in the order that `ggml_build_forward_expand` promises (`GraphInOrder`):
  a node is added once, behind its sources, and because of the first root that needs it. Each node is `Due` with a root; the roots are counted layer by layer
  and step by step, so that the copies of an attention are in front of it, and the next step's copy is not, as it needs a later root.
  `MCLingBot` has TLC evaluate `GraphInOrder`; that `Expand` satisfies it for every size is induction along a recursive function.

`HyVlaProof`, for any environments, requests, grids and failures:

- `RowsStayInPlace`, for every mask: runs tile the rows, segments are apart and in order, so what is taken apart by modality is put together in place.
- `GroupsAreImages`, for every prefix that can be built: the groups counted from the mask are the images.
- `StateStandsAlone`: the state attends to the prefix and itself only. The three give `PrefixesAreSound`.
- `HyVlaInvariance`: `Heap` (what is allocated at each stage) gives `CallsCleanUp`; `Filled` and the sizes of kept allocators `StopsAreKnown`; `InOrder`
  and `Chosen` (what is routed without the client's tokens has all cameras) `AnswersSeeTheirImages`. `HyVlaTypes` needs `Built` besides.
- `PerPatchIsCausal`, for every size of the tensor; `CausalUnlessBatched` carries it to `predict` where no environment has `batched`.

Facts about the loops over masks, rankings and places are induction in disguise, which the provers cannot instantiate; they
are proved from the least, or greatest, place at which something would be wrong, with `WellFoundedInduction` for its existence or cardinalities.

The assumptions are `ServiceAssumption`, `CacheAssumption`, `RtcAssumption`, `RequestAssumption`,
`LeftoverAssumption`, `GraphAssumption`, `PrunerAssumption`, `LoadAssumption`, `KvAssumption`, `PrefixAssumption`, `LingBotAssumption`,
`VisionAssumption` and `HyAssumption`, evaluated by TLC in the runs.

Model-checked only:

- liveness: the fairness parts of `ImplementsService` and `ReproducesPredict`, `ShutdownReturns`, `ReturnsAfterShutdown`, `Returns`;
- `GraphInOrder`, as said;
- what the violations show, which are no theorems.

## 5. Plan

1. Composition: `AsyncPipeline` over `Pi05Predict`, so that the reply a client gets is tied to what is computed.
2. `RequestParse`: the checks of `parse_request` and the adapter against a declarative definition of a valid request; lifetimes of
   the borrowed buffers in the two modes.
3. Theorems: that the expansion of a graph of LingBot keeps `GraphInOrder`, by well-founded minimality in place of induction; what of FasterWAM's
   two-phase calls is right with more than one request in flight.

## 6. Not modelled

Tensor arithmetic of the four models beyond the layouts, masks and permutations above; GGUF reading, except for its outcome;
image decoding; the NPY format of dumps; the vendored libraries, of which the models take what they need as external definitions
(allocation and reservation, permutation, attention, registration of graph nodes). `parse_request` field by field: its outcome is
modelled, its checks keep no state. Noise that HY-VLA and LingBot draw, and their normalisation statistics: only pi0.5's
generator is tied to requests. Converters: offline scripts. Logging and latency statistics.
