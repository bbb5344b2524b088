# qrb_ros_nn_inference: TLA+ models, model checks and proofs

The repository is a ROS 2 package that runs neural-network models on Qualcomm
accelerators. A node receives tensors on one topic, hands them to an inference
manager, and publishes the results on another topic. This directory holds TLA+
specifications of that code, the TLC configurations that check them, and proofs
that the TLA+ proof system (TLAPS) checks. Line references are to the files
under `src/`; `qnn_inference.cpp`, `qnn_inference_impl.cpp` and their headers
are in `qrb_inference_manager/`, the node in `qrb_ros_nn_inference/`.

- [Inventory](#inventory)
- [Modules and how they correspond to the code](#modules-and-how-they-correspond-to-the-code)
- [Runs](#runs)
- [Fairness](#fairness)
- [Proofs](#proofs)
- [What the checks found](#what-the-checks-found)
- [What is not modelled](#what-is-not-modelled)
- [Plan](#plan)

## Inventory

| Component | State | Operations | What makes it correct |
|---|---|---|---|
| **Inference node** `QrbRosInferenceNode` | `qrb_inference_mgr_`, publisher, subscription in a *reentrant* callback group | constructor and `init`, `subscription_callback`, `publish_msg` | a header goes out with its own frame's result; nothing is lost or repeated but what a KEEP_LAST queue drops; after a failure no partial result is acted on and the process stops |
| **Inference manager** `QrbInferenceManager` | one engine `qrb_inference_` | construct (dispatch on the model path, then `inference_init`, `inference_graph_init`), execute, execute on a dma-buf, collect | throws `std::logic_error` on every failure and leaves nothing behind |
| **Qnn engine, construction and destruction** `QnnInference`, `QnnInterface` | library, backend, device, context and power handles, `graphs_info_` | a chain of some twenty library calls, different for `.bin` and `.so` models; `~QnnInference` | the destructor is right from every point where construction may stop; an engine that comes up can run all its graphs |
| **Qnn engine, zero-copy execution** `inference_execute_dmabuf`, `RpcMemManager` | `cached_input_fd_/handle_`, `cached_output_{buffers,handles,fds}_`, `dmabuf_cache_initialized_`, `output_tensor_` | a call per frame, `get_output_tensors`, teardown | the graph reads this frame's buffer and writes live registered buffers; nothing leaks over frames; nothing the device maps is freed |
| **Qnn engine, copying execution and tensors** `inference_execute`, `QnnTensor` | the buffers of one call, `output_tensor_` | set up, write inputs, execute, read outputs, free | no copy leaves its buffer even where a size wraps, the input is split without gap or overlap, everything is freed from every exit, the results are one whole graph's |
| **TFLite engine** `QnnDelegateInference` | model, interpreter, delegate, `output_tensor_` | init, execute, collect, destroy | results of one call are not mixed with those of the last; the interpreter is never used without what it refers to; nothing is left of a failed init |
| **Zero-copy example nodes** (pre- and post-process with dma) | one input buffer, its descriptor; the messages that name it | publish a frame, map and use a result | although both buffers are overwritten while messages that name them are queued: a depth map is of one image, never older than its frame, and maps never go back |
| **Copying example nodes** | timer, queues | publish a frame, store a result | they are the environment of the node |
| **Launch and build files, logging** | none | | the containers are single-threaded |

How they interact. The example pre-process node publishes a `TensorList` on
`qrb_inference_input_tensor`; the executor calls the node's
`subscription_callback`; that calls the manager, which calls its engine; the
engine calls the Qnn libraries graph by graph, leaving the result in the *member*
`output_tensor_`; `publish_msg` collects it with `get_output_tensors` and
publishes it under the frame's header on `qrb_inference_output_tensor`; the
post-process node consumes it. All three nodes may live in one container, so one
set of executor threads runs them all. A failed `init` or inference, and a
post-process node that cannot create its folder, call `rclcpp::shutdown()`,
which ends the executor loops of the whole process.

What is hard here:

- *Interleaving*: the callback group is reentrant, the manager has one
  `output_tensor_` and no lock.
- *Stale state*: one input buffer and one output buffer for all frames; two
  caches, one keyed by a descriptor **number**, one filled
  by the first graph of the first frame and used by all.
- *Partial failure*: every library call may fail; a call that failed half-way
  leaves half-filled caches to the next one; a construction that failed half-way
  leaves a half-built engine to its destructor; a failed inference does not
  return from the callback, it publishes.
- *Numbers*: sizes are 32-bit products computed in several places, and the
  input is split by them.
- *Lifetime*: buffers are mapped by the device, named by results and owned by
  the engine, and all three end at different times.
- *Shutdown*: each executor thread must notice it, also one that waits for work.

The full list, with the line where each hazard bites and the properties that
guard it, is under `hazards` in `PROJECT.json`.

## Modules and how they correspond to the code

| Module | Models | Extends / uses |
|---|---|---|
| `DmaBufCache` | zero-copy path of the Qnn engine, one call at a time | |
| `DmaBufCallers` | the same under several threads that preempt each other | `DmaBufCache` |
| `InferenceService` | what the node promises: a lossy, ordered request/answer service | |
| `InferenceNode` | the node, its topics and the executor's threads | instantiates `InferenceService` |
| `QnnLifecycle` | construction and destruction of the Qnn engine | |
| `InferenceEngine` | what the interface `QrbInference` promises to its user | |
| `TensorIO` | the copying execution of the Qnn engine, tensor by tensor | instantiates `InferenceEngine` |
| `DelegateInference` | the operations of the TFLite engine | |
| `InferenceManager` | the manager with either engine | extends `DelegateInference`, instantiates `InferenceEngine` |
| `ZeroCopyPipeline` | the three zero-copy nodes in one container | |
| `DmaBufCacheProofs`, `DmaBufCallersProofs`, `InferenceNodeProofs`, `QnnLifecycleProofs`, `TensorIOProofs`, `InferenceManagerProofs`, `ZeroCopyPipelineProofs` | theorems | the module named |
| `NatRecursion` | facts about numbers that proofs about sizes need: induction, recursion, remainders | used by `TensorIOProofs` |
| `MCDmaBufCache`, `MCDmaBufCallers`, `MCInferenceNode`, `MCQnnLifecycle`, `MCTensorIO`, `MCInferenceManager`, `MCZeroCopyPipeline` | small instances for TLC | the module named |

Operators whose comment calls them a *faulty variant* (or that describe in one
line what is wrong with them) are plausible bugs of the operator that follows;
they are used only to make sure that each property notices some bug.

### DmaBufCache

One caller at a time; a call is split at every call into the Qnn or rpcmem
libraries and at every early return.

| Code | Specification |
|---|---|
| `cached_input_fd_`, `cached_input_handle_`, `cached_output_buffers_`, `cached_output_handles_`, `dmabuf_cache_initialized_`, `output_tensor_` | the variables of the same names |
| descriptor table of the process, registrations of the Qnn context, rpcmem heap | `fdMem`, `regMem`, `alive` |
| `setup_tensors` (:159-172) | `SetupTensors`, `SetupTensorsFails` |
| hit test of the input cache (:175) | `InputCached`, `ReuseInput` |
| miss: deregister, register (:176-230) | `DeregisterInput`, `RegisterInput`, `RegisterInputFails` |
| filling the output cache (:232-288) | `ResizeOutputs`, `AllocOutput`, `AllocOutputFails`, `AllocDone` |
| hit in the output cache, binding (:233, :290-294) | `ReuseOutputs`, `BindOutputs`, `BindOutOfRange` |
| `graphExecute`, rebuilding `output_tensor_` (:297-334) | `Execute`, `ExecuteFails` |
| `get_output_tensors` (:337) | `GetOutputs` |
| `~QnnInference` and the members' destructors | `FreeContext`, `DestroyMembers` |
| a producer closing its buffer; the kernel reusing the number | `Recycle` (external) |

`cached_output_fds_` is filled and read together with `cached_output_buffers_`,
so the buffer stands for both. `memRegister` always returns a handle that is not
registered, `rpcmem_alloc` a buffer that is not allocated; that is all that is
assumed of the libraries.

### DmaBufCallers

The node calls the engine from a reentrant callback group, and the engine has no
lock. One thread runs at a time, by the steps of `DmaBufCache`; `Switch(t)`
suspends its call, with the local variables of that call (`RunningCall`), and
resumes thread `t`'s. `input_handle` and `output_handles` are the handles that the
running call has put on its own tensors (`BindInput`, `BindOutput`), which another
call may meanwhile take out of the cache and deregister.

With `WarmUp`, calls overlap only on a cache that has what they need: a thread is
preempted between calls or when its call hits both caches (`Settled`), and a
frame of another buffer comes when no call is under way. This is what a
multi-threaded container sees after the first frame of a producer with one
buffer, as the pre-process example is. Calls that miss must not overlap: a second
call's miss deregisters the handle on which the first call's graph runs, and two
calls that fill the output cache at once lose registrations. `WarmUp = FALSE`
lets TLC show such executions; no run of the list does.

### InferenceNode and InferenceService

The executor's threads are the processes. A callback is split where it touches
what threads share: after each graph (`output_tensor_` is written), at
`get_output_tensors` (it is moved out), at `publish`, and at
`rclcpp::shutdown()`. `phase[w]` says where thread `w` stands: `spin` (about to
test `rclcpp::ok()`), `ready` (past the test, looking for work or waiting),
`infer`, `collect`, `publish`, `exited`.

- `Load`, `LoadFails`: the constructor. When `init` catches the manager's
  exception it shuts the context down, and the constructor *goes on* to create
  the subscription.
- `Take`, `ExecGraph`, `ExecFails`, `Collect`, `Publish`: `subscription_callback`
  and `publish_msg`. After a failed inference the callback goes on to collect
  and publish.
- `Send`, `PostProcess`: the neighbours. `PostProcess` runs on the same executor.
- `SpinOk`, `SpinStops`, `Wake`, `Enqueue`, `Interrupt`: rclcpp, from how the
  node uses it.

`InferenceService` has only the frames that arrived, the ones that wait and the
answers: a frame waits behind those before it, may be lost while at least `Depth`
newer ones wait, and is answered at most once, in order, by its own result or
(unreadable output) by nothing. `SafeSpec` says this much; `Progress` adds that the
service goes on answering while a frame waits. `InferenceNode` instantiates it with
`QueueDepth` for `Depth` and, for `waiting`, what is in the two queues and in the
callback, oldest first (`Pending`): that a loss in either queue is the loss of a
frame with `QueueDepth` newer ones behind it is part of the refinement
(`ImplementsService`), and so is that nothing else loses one before a shutdown. The
service's `stopped` is mapped to "shut down, and the thread is not past the loop's
test" (`Stopped`): past that test a thread still runs one callback. The mapping is
meant for one thread, the launch files' container.

### QnnLifecycle

One thread, many exits. `pc` names the next library call; `live` is the set of
resources that exist; `deps` records for each what it was created on;
`failures` records which library calls failed, so that properties can say
"whatever else fails"; `self` holds the handles and flags of `QnnInference`.
`graphs_info_` is represented by `cells`: `Null` before it is allocated, then
for each graph the graph whose description its cell holds, 0 for a null cell.
Every step of construction has a `Fail` alternative that goes to the destructor
(`freeGraphs` ... `closeLibs`), except those that the code answers by throwing
from a constructor (`threw`) or does not answer at all (`crashed`, which also
stands for undefined behaviour once it is entered).

### TensorIO and InferenceEngine

`inference_execute` makes a `QnnTensor` for each graph. `side` and `k` are the
loop variables of `setup_tensors`, `write_input_tensors` and `free_qnn_tensors`;
`tensors` says for each tensor which pieces of memory it owns (name, dimensions,
data, scales) and how large its buffer is.

| Code | Specification |
|---|---|
| `get_tensor_size`, `element_cnt` (impl:471-500) | the operators of these names, modulo `Word` (2^32 in the code) |
| `setup_tensors`, `tensor_info_deep_copy` (impl:160-205, 367-445) | `SetupNothing`, `SetupArray`, `SetupArrayFails`, `CopyTensor`, `CopyTensorFails` (with every point where an allocation may fail), `SetupDone` |
| `write_input_tensors` (impl:208-258) | `Measure`, `CheckLength`, `WriteInput`, `WriteInputFails` |
| `graphExecute`, `read_output_tensors` (qnn_inference.cpp:123-142, impl:293-325) | `Execute`, `ExecuteFails` |
| `~QnnTensor`, `free_qnn_tensors` (impl:154-158, 330-361) | `FreeTensors` |
| `get_output_tensors` | `Collect` |

Values of bytes are left out; where each byte of an input tensor comes from
(`copied`) and which execution each result is of (`output_tensor_`) are kept.

`InferenceEngine` is the contract a user of the interface relies on: after
SUCCESS, `get_output_tensors` yields the results of this call, all outputs of one
graph, or none; after FAILURE, anything may be left. `TensorIO` and
`InferenceManager` (which covers the TFLite engine) are both shown to implement it.

### DelegateInference and InferenceManager

`DelegateInference` has one action per step of `inference_init`,
`register_qnn_delegate`, `inference_execute` and the destruction; `live` says which
of model, interpreter and delegate exist, `attached` that the interpreter's graph
was handed to the delegate. `InferenceManager` adds the constructor, which
picks the engine by the strings found in the model's path (`found`) and throws on
any failure, the refusal of a dma-buf call by an engine that is not
`QnnInference`, `get_output_tensors` and the destruction. The Qnn engine's own
executions appear by their contract (`ExecuteQnn`, `QnnProduces`, `QnnReturns`),
its construction by its outcome (`QnnInit`): `TensorIO` and `QnnLifecycle` have
them in full.

The user of the manager collects after every execution, whatever it answered,
because the node and the example program do so. That matters: the TFLite engine
*appends* to `output_tensor_`.

### ZeroCopyPipeline

| Code | Specification |
|---|---|
| `input_ptr_`, the engine's `cached_output_buffers_[0]` | `input`, `output`: the number of the image the content is from, `Torn` while it is being written or mixed |
| the three subscriptions' queues | `imageQ`, `frameQ`, `resultQ`; `KeepLast` drops the oldest of a full one |
| `image_callback` (pre-process :173-237) | `TakeImage`, `BeginWrite`, `PublishFrame` |
| `subscription_callback` with `inference_execute_dmabuf` | `TakeFrame`, `BeginExecute`, `EndExecute`, `ExecuteFails`, `PublishResult` |
| `infer_callback` (post-process :122-232) | `TakeResult`, `MmapFails`, `PublishDepth` |
| executor and signal | `SpinOk`, `Interrupt`, `Exclusive` (the default callback group of the two example nodes) |

A thread that writes or reads a buffer does so in two steps, so that other
threads may interfere. How many threads there are is chosen in `Init` (`threads`).
The properties about freshness say `SingleThreaded =>`: with two threads the
buffers really are mixed, as nothing synchronises them. That the output buffer
is never freed by the consumer and is read in bounds holds for any number.

## Runs

| Run | Question | Bounds | States |
|---|---|---|---|
| `dma_cache` | Is the cache consistent over any number of calls that fail at setup, input registration or execution and overlap on a filled cache, up to the teardown? | 2 threads, 2 frame buffers and descriptors, 2 output buffers, 3 handles, 2 graphs with 2 and 1 outputs | 1.7 million |
| `dma_faults` | What holds when every library call may fail and numbers are recycled? | 3 output buffers, 4 handles, graphs with 2 and 3 outputs (the second needs more than the cache has) | 2.2 million |
| `dma_recycled_fd` | Violation: recycled descriptor numbers | as `dma_cache`, one graph | |
| `dma_output_retry` | Violation: retry after a failed output allocation | 1 frame buffer, 2 outputs | |
| `node_single` | Is the node the service, in the container of the launch files, with every failure and a signal? | 1 thread, 3 frames, 2 graphs, queues of 2, graph 1 unreadable | 2 313 |
| `node_two_workers` | What survives a multi-threaded container? | 2 threads, 2 frames, 2 graphs, queues of 1 | 6 940 |
| `node_reentrant` | Violation: two threads, one `output_tensor_` | 2 threads, 2 frames | |
| `lifecycle` | Is the destructor right from every point where construction may stop? | `.bin` and `.so`, 1 and 2 graphs, all 16 failures | 2 814 |
| `lifecycle_multi_graph` | Violation: a context binary of two graphs | no failures | |
| `tensors` | Are copies in bounds, memory freed and results whole from every exit of the copying execution? | 60 models of one and two graphs out of ten tensors (sizes that wrap, zero, no shape, no name, unsupported types), 11 lengths of input, words of 6 bits, 2 calls | 44 461 |
| `manager` | Does the manager keep the contract with either engine, and leave nothing behind? | all subsets of the strings in a path, 5 backend options, 8 nets, 3 calls | 28 360 |
| `pipeline` | What do the one input and the one output buffer show? | 1 and 2 threads, 3 images, queues of 2, equal sizes of map and buffer | 143 972 |

Why the bounds are enough. The number of calls, frames per descriptor and
failures is not bounded in `DmaBufCache`: its state space is finite because the
cache is. Two frame buffers give hits, misses and alternation; two outputs give
a half-filled cache; one handle more than the cache holds gives `memRegister` a
choice; a second graph with fewer or more outputs than the first covers both
relations. In `InferenceNode` each frame is sent once (the only bound); with
queues of two and three frames (or of one and two) both queues overflow, and two
graphs give a call that fails after a first result. Two threads are the smallest
number that interleaves. In `QnnLifecycle` two graphs distinguish "the first" from
"all", and more add nothing to a loop that treats the rest alike.
In `TensorIO` only the number of calls is bounded: two give a call that finds
results of an earlier one; six bits of word make 8 * 9 wrap as 2^32 would. Three
calls in `InferenceManager` give a failed call between two good ones. Three images
and queues of two overflow each topic of the pipeline, and equal sizes of the map
and of the output buffer leave no slack to `ReadMapped`.
`CHECK_DEADLOCK FALSE` is set in all of them because the system really stops: the
engine is destroyed, the threads have left their loops.

What the properties say, briefly (each has its own comment in the module):

- `InputBindingSound`, `InputHandleRegistered`, `OutputBindingSound`,
  `BindInRange`: what a graph runs on, when it runs.
- `NoHandleLost`, `NoBufferLeaked`, `RegisteredOutputAlive`, `HandedOutAlive`:
  lifetimes, seen from the device, the heap and the caller.
- `ResultsMatchHeader`, `ResultsComplete`, `NoDuplicates`, `NothingLeftBehind`,
  `NoNullManager`, `ImplementsService`: what is published and acted on.
- `ShutdownStops`: after a shutdown every thread leaves its loop;
  `FramesAnswered`: a frame that waits is answered, lost to newer ones or given up
  in a shutdown (liveness).
- `CallerHandlesSound`: what another thread's call may not do to a call that has
  bound its tensors.
- `CopyInBounds`, `InputTiled`, `BuffersWhole`, `NoLeak`, `ResultOrigin`,
  `ImplementsEngine`: copies, memory and results of the copying execution.
- `CollectedOfThisCall`, `InterpreterUsable`, `NothingLeft`, `ImplementsEngine`:
  results and lifetimes of the manager's engines.
- `DepthFreshEnough`, `DepthMovesForward`, `RestShowsNewest`, `ImageShown`:
  which image a depth map is of, over time; `OutputNotFreed`, `ReadMapped`: what
  the consumer may do with the engine's buffer.
- `CrashCauses`, `ParentOutlivesChild`, `NoDeviceResourceSurvives`,
  `BackendFreeOwn`, `BinLibrariesClosed`, `ReadyComplete`: the life of an engine.

A type invariant is proved for every module with a run; `node_single` checks its
own, which bounds the two queues of the node.

## Fairness

`InferenceNode` and `ZeroCopyPipeline` have liveness properties. Their `FairSpec`
assumes weak fairness of each thread's steps taken together, `WF_vars(WorkerStep(w))`: an executor thread
is an operating-system thread that keeps running, and library calls return. It
does not assume that frames are sent, that a thread prefers one kind of work, or
that anything fails. That is what the code gives: `rclcpp` executors loop
`while (rclcpp::ok())` and wait on a guard condition that shutdown triggers.
Nothing in the code promises that every frame is answered, so that is not
stated: the topics are KEEP_LAST. What the node promises is `FramesAnswered`, the
fairness of the service's `Answer` under the refinement mapping: frames do not wait
for ever without an answer, a loss or a shutdown. What the pipeline
promises is `ImageShown`:
an image that was written, or a newer one, is shown in the end; with one thread
every callback ends, and the newest message is never the one that a queue drops.
The number of images is bounded, so a thread is not kept busy with new images for
ever.

## Proofs

Theorems hold for every value of the constants that satisfies the named
assumptions of the module; each listed theorem names the property it is about.

**DmaBufCacheProofs.** The properties are not inductive: that an output slot is
good at `exec` depends on what earlier, failed calls left in it. `Inv` is built
in layers, each inductive given the ones below:

1. `ShapeInv`: types, where a call stands (`CallInv`), and that the two vectors
   have equal length, which is 0 or the first graph's number of outputs, with
   the slots before `out_i` filled (`FillInv`).
2. `SlotInv`: a filled slot owns a live buffer of its own and its handle maps
   exactly that; the heap holds nothing else.
3. `InputInv`: what the cached handle maps; from `output` on, it is this call's.
4. `HandedInv`: results name slots of an initialised cache, which never change.
5. `EmptySlotInv`, `LostInv`, `AliveInv`: without certain failures the filling
   loop overwrites only empty slots, so no registration is forgotten.

Without hypotheses: `TypeCorrect`, `OutputBindingCorrect`,
`InputHandleCorrect`, `HandedOutAliveCorrect`, `NoBufferLeakedCorrect`. With a
hypothesis: `InputBindingCorrect` (no recycled descriptor numbers),
`NoHandleLostCorrect` (output allocations and `memDeRegister` do not fail),
`RegisteredOutputAliveCorrect` (output allocations and `contextFree` do not fail),
`BindInRangeCorrect` (no graph has more outputs than the first). The run
`dma_recycled_fd` shows that the first hypothesis cannot be dropped, and
`dma_output_retry` that output allocations must not fail. `OutputsKeptCorrect`,
without hypotheses, is an action property that `ZeroCopyPipeline` relies on: once
the output cache is filled, every later frame writes to the same buffers.

**DmaBufCallersProofs.** For any number of threads, buffers and graphs; all assume
`WarmUp`. The first three layers above speak of the call that runs, and a switch
replaces it. They survive because of `CallsInv`: while a call is suspended, the
cache has what it and the running call need, so every call hits, no step changes
the cache (`WarmFrame`), and what calls put on their tensors stays what the cache
has. The other layers speak of the cache alone or of a call that misses, so a
switch keeps the whole of `Inv` (`SwitchInv`), and `CallersInvariance` has both.
`CallerHandlesCorrect` follows (no recycled descriptor numbers), and so does each
property of the run `dma_cache`, under the hypothesis it has for one caller:
`CallersInputBindingCorrect`, `CallersNoHandleLostCorrect`,
`CallersRegisteredOutputAliveCorrect`, `CallersBindInRangeCorrect`; also
`CallersOutputBindingCorrect`, `CallersHandedOutAliveCorrect` and
`CallersOutputsKeptCorrect`. `OnlyReadsCorrect` says why no lock is missed there:
while calls overlap, no step writes a member of the cache or registers, allocates
or frees anything, so on the cache they do not race, and taking each step for
atomic leaves nothing out (`output_tensor_` is another matter: see `InferenceNode`).

**InferenceNodeProofs.** `NodeInv` is inductive for any number of threads: types,
and that an uncollected result implies a thread that will collect it. It gives
`NodeTypeCorrect` and `NothingLeftBehindCorrect`. The other theorems assume
`SingleWorker`, the launch files' container. `CallInv` follows the one callback:
`output_tensor_` is this frame's; when collected it is complete or the inference
failed and the context is shut down; a thread that is `ready` finds a manager and
no failed result in the queue. `QueueInv` carries that through the two queues.
`SingleInv`, their conjunction, is inductive. `node_reentrant` shows that
`SingleWorker` cannot be dropped. `NoDuplicatesCorrect` holds for any number of
threads again: `OnceInv` says that a frame is in at most one of four places, the
input queue, one thread's callback, the output queue and the frames acted on.

`ImplementsServiceCorrect` (with `SingleWorker`) is the refinement: `Send` is the
service's `Accept`, or `AcceptLosing` when the input queue is full; `PostProcess` is
`Answer`, with the frame's own result because `SingleInv` holds; `Publish` to a full
output queue, or in a shutdown, is `Lose`; the shutdown is `Stop`; everything
else moves a frame from one part of `Pending` to the next and changes nothing
(`TakeStep`, `QuietStep`). The lemmas before it say what appending, dropping and
taking the head do to a concatenation of sequences.

**QnnLifecycleProofs.** All properties of the run `lifecycle`, for any number of
graphs and any failures. `Inv` says for each place of construction and destruction
where it may stand for which kind of model (`PlaceInv`), that what is live is
denoted by its member, so that it can be freed (`HandleInv`), what the steps so far
have left (`LiveInv`), that nothing depends on what is gone (`DepsInv`) and how far
`graphs_info_` is filled (`CellsInv`).

**TensorIOProofs.** For any models, inputs and word size. `BuiltInv`: which tensors
exist, and that each buffer already built has the size that the copying loop will
compute again. `SpreadInv`: expected sizes are running sums, and each input's source
is the part between two of them. `OriginInv`: the results are those of the last
graph executed. They give `CopyInBoundsCorrect`, `InputTiledCorrect`, `NoLeakCorrect`,
`ResultOriginCorrect` and, with the mapping that takes the last result for the
contract's `held`, `ImplementsEngineCorrect`.

`BuffersWholeCorrect` needs what a product over *all* dimensions of a tensor is,
which is an induction. The code's `element_cnt` cuts every partial product to 32
bits; `CountIsProduct` says that this is the product cut once, for a tensor of any
rank, so the count is exact whenever the product fits. Both are recursive
functions (`PartialCounts`, `Products`), and `NatRecursion` has what is needed to
reason about them: that a function given by its first value and a step exists
(`Recursion`), induction stated with a set in place of a predicate (`Induction`, from
the well-foundedness of `<`), and that a remainder may be taken early
(`ProductRemainder`). `WholeInv` then carries the sizes through the setup.

**InferenceManagerProofs.** For any nets, numbers of outputs and calls. `ClassInv`:
where each engine may stand; `LiveInv`: what exists of the TFLite engine at each
place; `ResultInv`: `output_tensor_` is a prefix of this call's results while it runs
and empty before it. They give `CollectedOfThisCallCorrect`,
`InterpreterUsableCorrect`, `NothingLeftCorrect` and the refinement
`ImplementsEngineCorrect`.

**ZeroCopyPipelineProofs.** `StateInv`, for any number of threads: types, and that
each message in flight is one the nodes make (offset 0, pointer 0), which gives
`OutputNotFreedCorrect` and `ReadMappedCorrect`. `PipeInv`, for one thread, orders the
image numbers along the pipeline: images queued > image being written >= input
buffer >= frames queued, input >= output >= results queued and map shown; and
what is written but not yet shown is queued or at work. It gives
`DepthFreshEnoughCorrect`, `DepthMovesForwardCorrect` and `RestShowsNewestCorrect`,
for any number of images and any depth of the queues.

**Only model-checked**: the liveness properties `ShutdownStops`, `FramesAnswered` and
`ImageShown`; liveness under fairness is out of the prover's reach. Every invariant,
action property and safety refinement of the passing runs is a theorem, under the
hypotheses named above.

## What the checks found

Four disagreements between the code and what a comment or document says of it
are violation runs (`findings` in `PROJECT.json`):

1. `dma_recycled_fd`: the input cache takes a descriptor number for a buffer.
2. `dma_output_retry`: after a failed output allocation the retry frees a buffer
   the device still maps and forgets its handle.
3. `node_reentrant`: with two executor threads a header goes out with another
   frame's result. The launch files use a single-threaded container.
4. `lifecycle_multi_graph`: `(*graphs_info_)[i]` runs out of the first graph's
   allocation for a context binary of several graphs.

Known limitations of the code that the models show, without a run of their own:

- A library or symbol that cannot be found gives a null function pointer that is
  called (`qnn_inference_impl.cpp:74`, `:123`; a missing model library is
  noticed as late as `compose_graphs`). `CrashCauses` lists these.
- If copying a graph's description fails, the destructor dereferences the null
  cell (`qnn_inference.cpp:450`). `CrashCauses` lists it.
- A `.so` model's backend library is opened into `backend_handle_`, which
  `backendCreate` then overwrites: the library is never closed, and if
  `backendCreate` fails, `backendFree` is given the handle of `dlopen`.
  `BackendFreeOwn` states the exception; `BinLibrariesClosed` is limited to `.bin`.
- `copy_graph_info` copies the *first* graph's description for every graph
  (`CopyGraph`), and a failure after `systemContextCreate` leaves the system
  context behind (`BinaryInfo`).
- In the zero-copy path later graphs run on handles registered with the first
  graph's tensor descriptors; if a later graph has more outputs, the cache is
  read out of range (`BindOutOfRange`; `BindInRangeCorrect` states when not).
- An output of an unsupported data type is logged and published as a result
  without tensors (`ResultsComplete` states when); the TFLite engine instead
  answers FAILURE and leaves the outputs before it in `output_tensor_`.
- Overlapping calls of `inference_execute_dmabuf` that miss the cache disturb each
  other (see `DmaBufCallers`).
- The destructor of the TFLite engine deletes the delegate before the interpreter
  whose graph it runs (`qnn_delegate_inference.cpp:22-27`); `InterpreterUsable`
  excepts this one place. Only the first input of a net is filled.
- A tensor's size wraps at 2^32; the sizes wrap alike in all places, so copies stay
  in bounds (`CopyInBounds`), but the buffer is smaller than the tensor
  (`BuffersWhole` states when not). A type unknown to the size function counts one
  byte per element: such an input is refused, such an output reaches
  `graphExecute`.
- `setup_tensors` reads the version of the first source tensor before it tests
  whether there is one (`SetupNothing`); a failed allocation of per-axis scales is
  ignored.
- Every graph of a model gets the whole input of the call.
- A depth map's header is the default header of the pre-process node's frame, so it
  does not identify the image, and the map may be of a newer image than its frame
  (`DepthFreshEnough`). With two threads maps may mix images.

## What is not modelled

- Constructors and destructors of the zero-copy example nodes (one library, one
  buffer each) and their image conversion, which is numeric code.
- The file I/O of the copying example nodes.
- Destroying the node while callbacks run (component unloading).
- Data races inside a step: with two threads, reads and writes of `output_tensor_`
  and of the cache's members are interleaved but each is atomic. Under `WarmUp` the
  cache's members are only read while calls overlap (`OnlyReadsCorrect`).
- The version-specific accessors of `QnnTensor`, which select among layouts of the
  same fields, and the numeric content of tensors.
- Logging, QNN power settings, launch and build files: no control. The launch files
  matter for one fact, the single-threaded container, which is a value of `Worker`
  or `threads`.

## Plan

Done, in this order because the engine's cache and the node's shared result are
where most of the hard behaviour is: `DmaBufCache`, `InferenceService` /
`InferenceNode`, `QnnLifecycle`, then `InferenceEngine`, `TensorIO`,
`DelegateInference` / `InferenceManager`, `ZeroCopyPipeline`, `DmaBufCallers`, each
with its proofs.

What could follow:

1. The zero-copy path as an implementation of `InferenceEngine`: which call each
   buffer's content is of would have to be added to `DmaBufCache` as history.
2. `DmaBufCallers` with a lock around the miss, should the code get one: the
   `WarmUp` hypothesis could then be dropped.
3. Unloading of the component while callbacks run.
