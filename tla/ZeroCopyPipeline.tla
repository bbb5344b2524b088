-------------------------- MODULE ZeroCopyPipeline --------------------------
(***************************************************************************)
(* The zero-copy pipeline of the examples: a pre-process node writes every *)
(* image into its ONE dma-buf and publishes a frame that names the buffer, *)
(* the inference node lets the Qnn engine run on whatever the buffer holds *)
(* then, into the engine's ONE output buffer, and the post-process node    *)
(* maps that buffer and publishes what it holds as a depth map             *)
(* (qrb_ros_pre_process_with_dma_node.cpp:173-237,                         *)
(* qrb_ros_inference_node.cpp:39-91, qnn_inference.cpp:232-334,            *)
(* qrb_ros_post_process_with_dma_node.cpp:122-232).                        *)
(*                                                                         *)
(* The three nodes live in one container, so one set of executor threads   *)
(* runs their callbacks.  Frames and results carry no content: images are  *)
(* numbered, a buffer holds the number of the image that its content is    *)
(* from, and a frame remembers, for the properties only, the image it was  *)
(* published for.                                                          *)
(***************************************************************************)
EXTENDS Integers, Sequences

CONSTANTS
    Worker,     \* the executor's threads
    MaxImages,  \* bound on the images that the camera sends
    Depth,      \* the history depth of the topics, 10 in the code
    DepthBytes, \* what a depth map takes, in_h_ * in_w_ floats
    OutputBytes \* size of the engine's output buffer

ASSUME PipelineAssumption ==
    /\ MaxImages \in Nat /\ Depth \in Nat \ {0}
    /\ {DepthBytes, OutputBytes} \subseteq Nat /\ DepthBytes <= OutputBytes
ASSUME WorkerAssumption == Worker # {}

VARIABLES
    threads,    \* the threads of the container that was launched
    images,     \* the images sent so far
    imageQ, frameQ, resultQ,    \* the subscriptions' queues
    input,      \* content of input_ptr_: an image, 0: none yet, Torn
    output,     \* content of cached_output_buffers_[0], likewise
    freed,      \* the engine's output buffer has been freed
    phase, job, \* where each thread stands, and the message it works on
    snap,       \* the content a thread saw when it began to read a buffer
    shown,      \* the last depth map: the image of its frame, its content
    ok,         \* rclcpp::ok()
    unmapped    \* history: an mmap failed

Torn == -1      \* parts of several images

queues == <<imageQ, frameQ, resultQ>>
buffers == <<input, output, freed>>
published == <<shown, unmapped>>
local == <<phase, job, snap>>
vars == <<threads, images, queues, buffers, local, published, ok>>

Images == 1 .. MaxImages
Contents == -1 .. MaxImages
Image == [image : Images, supported : BOOLEAN]
Frame == [image : Images, offset : Nat]
Tensor == [offset : Nat, ptr : {0, 1}]
Result == [image : Images, tensors : Seq(Tensor)]     \* one, or none
None == [image |-> 0]

PrePhases == {"convert", "memcpy"}
InferPhases == {"setup", "execute", "failed", "publish"}
Phases == {"spin", "ready", "read"} \cup PrePhases \cup InferPhases

TypeOK ==
    /\ threads \subseteq Worker /\ images \in 0 .. MaxImages
    /\ imageQ \in Seq(Image) /\ frameQ \in Seq(Frame) /\ resultQ \in Seq(Result)
    /\ Len(imageQ) <= Depth /\ Len(frameQ) <= Depth /\ Len(resultQ) <= Depth
    /\ input \in Contents /\ output \in Contents
    /\ freed \in BOOLEAN /\ ok \in BOOLEAN /\ unmapped \in BOOLEAN
    /\ phase \in [Worker -> Phases] /\ snap \in [Worker -> Contents]
    /\ \A w \in Worker :
           /\ phase[w] \in PrePhases => job[w] \in Image
           /\ phase[w] \in InferPhases => job[w] \in Frame
           /\ phase[w] = "read" => job[w] \in Result /\ job[w].tensors # <<>>
    /\ shown \in [image : 0 .. MaxImages, content : Contents]

Init ==
    /\ threads \in SUBSET Worker /\ threads # {}
    /\ images = 0 /\ imageQ = <<>> /\ frameQ = <<>> /\ resultQ = <<>>
    /\ input = 0 /\ output = 0 /\ freed = FALSE
    /\ phase = [w \in Worker |-> "spin"] /\ job = [w \in Worker |-> None]
    /\ snap = [w \in Worker |-> 0]
    /\ shown = [image |-> 0, content |-> 0] /\ ok = TRUE /\ unmapped = FALSE

\* KEEP_LAST: a full queue drops its oldest message.
KeepLast(q, m) == Append(IF Len(q) = Depth THEN Tail(q) ELSE q, m)

From(w, place) == w \in threads /\ phase[w] = place /\ UNCHANGED <<threads, images>>
To(w, place) == phase' = [phase EXCEPT ![w] = place]
Keeps == UNCHANGED <<job, snap>>

\* The callbacks of a node are in its default, mutually exclusive group.
Exclusive(places) == \A w \in threads : phase[w] \notin places

Arrive(supported) ==
    /\ images < MaxImages /\ images' = images + 1
    /\ imageQ' = KeepLast(imageQ, [image |-> images', supported |-> supported])
    /\ UNCHANGED <<threads, frameQ, resultQ, buffers, local, published, ok>>

\* A signal shuts the context down.
Interrupt ==
    /\ ok /\ ok' = FALSE
    /\ UNCHANGED <<threads, images, queues, buffers, local, published>>

\* while (rclcpp::ok()), before every callback; a thread past the test runs
\* one more although the context is shut down meanwhile.
SpinOk(w) ==
    /\ From(w, "spin") /\ ok /\ To(w, "ready") /\ Keeps
    /\ UNCHANGED <<queues, buffers, published, ok>>

-----------------------------------------------------------------------------
(* image_callback of the pre-process node.                                 *)

\* The newest image goes first.
TakeImageNewest(w) ==
    LET last == imageQ[Len(imageQ)] IN
    /\ From(w, "ready") /\ imageQ # <<>> /\ Exclusive(PrePhases)
    /\ To(w, IF last.supported THEN "convert" ELSE "spin")
    /\ job' = [job EXCEPT ![w] = last]
    /\ imageQ' = SubSeq(imageQ, 1, Len(imageQ) - 1)
    /\ UNCHANGED <<frameQ, resultQ, buffers, snap, published, ok>>

\* An encoding that is not supported ends the callback.
TakeImage(w) ==
    /\ From(w, "ready") /\ imageQ # <<>> /\ Exclusive(PrePhases)
    /\ To(w, IF Head(imageQ).supported THEN "convert" ELSE "spin")
    /\ job' = [job EXCEPT ![w] = Head(imageQ)] /\ imageQ' = Tail(imageQ)
    /\ UNCHANGED <<frameQ, resultQ, buffers, snap, published, ok>>

\* The callback waits until no message refers to the buffer.
BeginWriteWaits(w) ==
    /\ From(w, "convert") /\ To(w, "memcpy") /\ Keeps
    /\ frameQ = <<>> /\ resultQ = <<>> /\ input' = Torn
    /\ UNCHANGED <<queues, output, freed, published, ok>>

\* The memcpy into input_ptr_ begins, whoever may be reading it.
BeginWrite(w) ==
    /\ From(w, "convert") /\ To(w, "memcpy") /\ Keeps
    /\ input' = Torn
    /\ UNCHANGED <<queues, output, freed, published, ok>>

\* Images lie one behind the other in the buffer.
PublishFrameAtOffset(w) ==
    /\ From(w, "memcpy") /\ To(w, "spin") /\ Keeps
    /\ input' = job[w].image
    /\ frameQ' = KeepLast(frameQ, [image |-> job[w].image, offset |-> job[w].image])
    /\ UNCHANGED <<imageQ, resultQ, output, freed, published, ok>>

PublishFrame(w) ==
    /\ From(w, "memcpy") /\ To(w, "spin") /\ Keeps
    /\ input' = job[w].image
    /\ frameQ' = KeepLast(frameQ, [image |-> job[w].image, offset |-> 0])
    /\ UNCHANGED <<imageQ, resultQ, output, freed, published, ok>>

-----------------------------------------------------------------------------
(* subscription_callback of the inference node, in a reentrant group, with *)
(* inference_execute_dmabuf of an engine whose cache is filled.            *)

TakeFrame(w) ==
    /\ From(w, "ready") /\ frameQ # <<>> /\ To(w, "setup")
    /\ job' = [job EXCEPT ![w] = Head(frameQ)] /\ frameQ' = Tail(frameQ)
    /\ UNCHANGED <<imageQ, resultQ, buffers, snap, published, ok>>

\* A buffer that was executed on is not executed on again.
BeginExecuteCached(w) ==
    /\ IF output > 0
       THEN From(w, "setup") /\ To(w, "publish") /\ UNCHANGED <<snap, output>>
       ELSE /\ From(w, "setup") /\ To(w, "execute")
            /\ snap' = [snap EXCEPT ![w] = input] /\ output' = Torn
    /\ UNCHANGED <<queues, job, input, freed, published, ok>>

BeginExecute(w) ==
    /\ From(w, "setup") /\ To(w, "execute")
    /\ snap' = [snap EXCEPT ![w] = input] /\ output' = Torn
    /\ UNCHANGED <<queues, job, input, freed, published, ok>>

\* Two executions at a time mix their outputs.
EndExecute(w) ==
    /\ From(w, "execute") /\ To(w, "publish") /\ Keeps
    /\ output' = IF input = snap[w] /\ \A v \in threads \ {w} : phase[v] # "execute"
                 THEN snap[w] ELSE Torn
    /\ UNCHANGED <<queues, input, freed, published, ok>>

\* The node shuts the context down, and publishes all the same.
ExecuteFails(w) ==
    /\ From(w, "setup") \/ From(w, "execute")
    /\ To(w, "failed") /\ Keeps /\ ok' = FALSE
    /\ UNCHANGED <<queues, buffers, published>>

\* The buffer's pointer is passed on.
PublishResultWithPtr(w) ==
    /\ From(w, "publish") \/ From(w, "failed")
    /\ To(w, "spin") /\ Keeps
    /\ resultQ' = KeepLast(resultQ,
           [image |-> job[w].image,
            tensors |-> IF phase[w] = "failed" THEN <<>>
                        ELSE <<[offset |-> job[w].offset, ptr |-> 1]>>])
    /\ UNCHANGED <<imageQ, frameQ, buffers, published, ok>>

\* Each result names the engine's buffer, with the offset of the input and
\* with ptr = 0: the buffer is used again.
PublishResult(w) ==
    /\ From(w, "publish") \/ From(w, "failed")
    /\ To(w, "spin") /\ Keeps
    /\ resultQ' = KeepLast(resultQ,
           [image |-> job[w].image,
            tensors |-> IF phase[w] = "failed" THEN <<>>
                        ELSE <<[offset |-> job[w].offset, ptr |-> 0]>>])
    /\ UNCHANGED <<imageQ, frameQ, buffers, published, ok>>

-----------------------------------------------------------------------------
(* infer_callback of the post-process node.                                *)

\* A result without a pointer is taken for an invalid one.
TakeResultWithPtr(w) ==
    /\ From(w, "ready") /\ resultQ # <<>> /\ Exclusive({"read"})
    /\ To(w, IF \E t \in {Head(resultQ).tensors[n] : n \in 1 .. Len(Head(resultQ).tensors)} :
                   t.ptr # 0 THEN "read" ELSE "spin")
    /\ job' = [job EXCEPT ![w] = Head(resultQ)] /\ resultQ' = Tail(resultQ)
    /\ snap' = [snap EXCEPT ![w] = output]
    /\ UNCHANGED <<imageQ, frameQ, buffers, published, ok>>

\* The descriptor is mapped and read; without tensors there is nothing to do.
TakeResult(w) ==
    /\ From(w, "ready") /\ resultQ # <<>> /\ Exclusive({"read"})
    /\ To(w, IF Head(resultQ).tensors = <<>> THEN "spin" ELSE "read")
    /\ job' = [job EXCEPT ![w] = Head(resultQ)] /\ resultQ' = Tail(resultQ)
    /\ snap' = [snap EXCEPT ![w] = output]
    /\ UNCHANGED <<imageQ, frameQ, buffers, published, ok>>

MmapFails(w) ==
    /\ From(w, "read") /\ To(w, "spin") /\ Keeps /\ unmapped' = TRUE
    /\ UNCHANGED <<queues, buffers, shown, ok>>

\* The depth map is published; a buffer that comes with its pointer is freed.
PublishDepth(w) ==
    /\ From(w, "read") /\ To(w, "spin") /\ Keeps
    /\ shown' = [image |-> job[w].image,
                 content |-> IF output = snap[w] THEN output ELSE Torn]
    /\ freed' = (freed \/ job[w].tensors[1].ptr # 0)
    /\ UNCHANGED <<queues, input, output, unmapped, ok>>

-----------------------------------------------------------------------------
WorkerStep(w) ==
    \/ SpinOk(w)
    \/ TakeImage(w) \/ BeginWrite(w) \/ PublishFrame(w)
    \/ TakeFrame(w) \/ BeginExecute(w) \/ EndExecute(w)
    \/ ExecuteFails(w) \/ PublishResult(w)
    \/ TakeResult(w) \/ MmapFails(w) \/ PublishDepth(w)

Next ==
    \/ \E supported \in BOOLEAN : Arrive(supported)
    \/ Interrupt
    \/ \E w \in Worker : WorkerStep(w)

Spec == Init /\ [][Next]_vars

\* Every thread keeps running; library calls return.
FairSpec == Spec /\ \A w \in Worker : WF_vars(WorkerStep(w))

-----------------------------------------------------------------------------
(* Properties.  Those that speak of the container of the launch file, which *)
(* has one thread, are false with two: callbacks then overlap.              *)

SingleThreaded == \A v, w \in threads : v = w

\* In the single-threaded container a depth map is of one image, not a
\* mixture, and of an image at least as new as its frame's, although both
\* buffers are written while messages that name them are queued.
DepthFreshEnough ==
    SingleThreaded => shown.content >= shown.image

\* ... and depth maps never go back to an older image.
DepthMovesForward ==
    [][SingleThreaded => shown'.content >= shown.content]_vars

\* ... and when the pipeline comes to rest it has shown the last image that
\* the pre-process node wrote, unless the context was shut down or an mmap
\* failed: queues drop old messages, never the newest.
AtRest == queues = <<<<>>, <<>>, <<>>>> /\ \A w \in threads : phase[w] \in {"spin", "ready"}
RestShowsNewest ==
    SingleThreaded /\ AtRest /\ ok /\ ~unmapped => shown.content = input

\* The consumer never frees the engine's output buffer, which the engine
\* writes again for the next frame and frees itself.
OutputNotFreed == ~freed

\* The consumer reads inside what it mapped: the result has the offset of the
\* input frame although it names another buffer (qnn_inference.cpp:324).
ReadMapped ==
    \A w \in threads : phase[w] = "read" =>
        job[w].tensors[1].offset + DepthBytes <= OutputBytes

\* In the single-threaded container, every image that the pre-process node
\* has written, or a newer one, is shown in the end, unless the context is
\* shut down or an mmap fails.
ImageShown ==
    \A n \in Images :
        SingleThreaded /\ input = n ~>
            shown.content >= n \/ ~ok \/ unmapped
=============================================================================
