---------------------------- MODULE InferenceNode ----------------------------
(***************************************************************************)
(* The ROS node QrbRosInferenceNode (qrb_ros_inference_node.cpp) in the    *)
(* component container the launch files start: worker threads of the       *)
(* container's executor construct the node, run its subscription callback  *)
(* and run the callback of the post-process node that gets its results.    *)
(*                                                                         *)
(* The node has ONE inference manager, hence one output_tensor_, and its   *)
(* subscription is in a reentrant callback group: with several workers its *)
(* callbacks interleave.  A callback is split where it touches what they   *)
(* share: after each graph (output_tensor_ written), get_output_tensors    *)
(* (output_tensor_ moved out), publish, and rclcpp::shutdown.              *)
(*                                                                         *)
(* A frame is a model value and the result of graph k for frame m is the   *)
(* pair of both; the two transports (data, dma-buf) have the same control. *)
(* Frames carry at least one tensor: the callback reads tensor_list[0].    *)
(***************************************************************************)
EXTENDS Integers, Sequences

CONSTANTS
    Msg,         \* frames; each is sent at most once (bound of the model)
    Worker,      \* the executor's threads
    NumGraphs,   \* graphs the model consists of
    QueueDepth,  \* KEEP_LAST depth of the topics (10 in the code)
    Unreadable,  \* the graphs with an output of an unsupported data type
    Faults,      \* what may happen: "init", "exec", "post" fail, a "signal"
    Empty        \* no tensors / no frame

ASSUME EmptyAssumption ==
    Empty \notin Msg \cup [msg : Msg, graph : 1 .. NumGraphs]
ASSUME SizeAssumption == NumGraphs \in Nat \ {0} /\ QueueDepth \in Nat \ {0}
ASSUME FaultAssumption ==
    /\ Unreadable \subseteq 1 .. NumGraphs
    /\ Faults \subseteq {"init", "exec", "post", "signal"}

VARIABLES
    ok,             \* rclcpp::ok(): the context has not been shut down
    node,           \* "new", or "up" once it has its publisher and subscription
    qrb_inference_mgr_, \* whether the unique_ptr holds a manager
    sent,           \* history: the frames sent
    inbox,          \* the subscription's queue
    output_tensor,  \* the manager's output_tensor_
    phase,          \* where each worker stands
    msg,            \* the frame each worker's callback was called with
    graph,          \* the graph each worker runs next
    failed,         \* whether the inference of the worker's callback failed
    pub_tensors,    \* the result each worker has collected and not published
    outbox,         \* the queue of the post-process node's subscription
    consumed        \* history: what the post-process node got, in order

nodeVars == <<node, qrb_inference_mgr_>>
callVars == <<msg, graph, failed, pub_tensors>>
topicVars == <<sent, inbox, outbox, consumed>>
vars == <<ok, nodeVars, output_tensor, phase, callVars, topicVars>>

Phases == {"spin", "ready", "infer", "collect", "publish", "exited"}
Result == [msg : Msg, graph : 1 .. NumGraphs]
TensorList == [header : Msg, tensors : Result \cup {Empty}, failed : BOOLEAN]

TypeOK ==
    /\ ok \in BOOLEAN
    /\ node \in {"new", "up"}
    /\ qrb_inference_mgr_ \in BOOLEAN
    /\ sent \subseteq Msg
    /\ inbox \in Seq(Msg) /\ Len(inbox) <= QueueDepth
    /\ output_tensor \in Result \cup {Empty}
    /\ phase \in [Worker -> Phases]
    /\ msg \in [Worker -> Msg \cup {Empty}]
    /\ graph \in [Worker -> 1 .. NumGraphs]
    /\ failed \in [Worker -> BOOLEAN]
    /\ pub_tensors \in [Worker -> Result \cup {Empty}]
    /\ outbox \in Seq(TensorList) /\ Len(outbox) <= QueueDepth
    /\ consumed \in Seq(TensorList)

Init ==
    /\ ok = TRUE /\ node = "new" /\ qrb_inference_mgr_ = FALSE
    /\ sent = {} /\ inbox = <<>> /\ output_tensor = Empty
    /\ phase = [w \in Worker |-> "spin"]
    /\ msg = [w \in Worker |-> Empty]
    /\ graph = [w \in Worker |-> 1]
    /\ failed = [w \in Worker |-> FALSE]
    /\ pub_tensors = [w \in Worker |-> Empty]
    /\ outbox = <<>> /\ consumed = <<>>

GoTo(w, p) == phase' = [phase EXCEPT ![w] = p]

\* Faulty variant: KEEP_ALL.
EnqueueUnbounded(q, e) == Append(q, e)

\* A KEEP_LAST queue drops its oldest element when it is full.
Enqueue(q, e) ==
    Append(IF Len(q) = QueueDepth THEN Tail(q) ELSE q, e)

-----------------------------------------------------------------------------
(* The executor's loop: while (rclcpp::ok()) { get_next_executable(); ... }*)

SpinOk(w) ==
    /\ phase[w] = "spin" /\ ok /\ GoTo(w, "ready")
    /\ UNCHANGED <<ok, nodeVars, output_tensor, callVars, topicVars>>

SpinStops(w) ==
    /\ phase[w] = "spin" /\ ~ok /\ GoTo(w, "exited")
    /\ UNCHANGED <<ok, nodeVars, output_tensor, callVars, topicVars>>

\* A signal, or another node of the container, shuts the context down.
Interrupt ==
    /\ "signal" \in Faults /\ ok /\ ok' = FALSE
    /\ UNCHANGED <<nodeVars, output_tensor, phase, callVars, topicVars>>

\* Faulty variant: it does not.
WakeNever(w) == FALSE

\* A shutdown wakes the threads that wait for work.
Wake(w) ==
    /\ phase[w] = "ready" /\ ~ok /\ GoTo(w, "spin")
    /\ UNCHANGED <<ok, nodeVars, output_tensor, callVars, topicVars>>

-----------------------------------------------------------------------------
(* The constructor, run by the worker that serves the load request.        *)

Load(w) ==
    /\ phase[w] = "ready" /\ node = "new" /\ GoTo(w, "spin")
    /\ qrb_inference_mgr_' = TRUE /\ node' = "up"
    /\ UNCHANGED <<ok, output_tensor, callVars, topicVars>>

\* Faulty variant: a failed init() is only logged.
LoadFailsLogged(w) ==
    /\ phase[w] = "ready" /\ node = "new" /\ "init" \in Faults
    /\ GoTo(w, "spin")
    /\ node' = "up"
    /\ UNCHANGED <<ok, qrb_inference_mgr_, output_tensor, callVars, topicVars>>

\* init() caught the manager's exception: the context is shut down and the
\* constructor goes on to create the publisher and the subscription, which
\* on a context that is shut down may succeed or throw.
LoadFails(w) ==
    /\ phase[w] = "ready" /\ node = "new" /\ "init" \in Faults
    /\ GoTo(w, "spin")
    /\ ok' = FALSE
    /\ node' \in {"new", "up"}
    /\ UNCHANGED <<qrb_inference_mgr_, output_tensor, callVars, topicVars>>

-----------------------------------------------------------------------------
(* subscription_callback and publish_msg.                                  *)

\* A producer publishes a frame on the input topic.
Send(m) ==
    /\ node = "up" /\ m \notin sent
    /\ sent' = sent \cup {m}
    /\ inbox' = Enqueue(inbox, m)
    /\ UNCHANGED <<ok, nodeVars, output_tensor, phase, callVars, outbox,
                   consumed>>

\* Faulty variants: the newest frame first; a frame is not removed.
TakeNewest(w) ==
    /\ phase[w] = "ready" /\ node = "up" /\ inbox # <<>>
    /\ GoTo(w, "infer")
    /\ msg' = [msg EXCEPT ![w] = inbox[Len(inbox)]]
    /\ inbox' = SubSeq(inbox, 1, Len(inbox) - 1)
    /\ graph' = [graph EXCEPT ![w] = 1]
    /\ failed' = [failed EXCEPT ![w] = FALSE]
    /\ UNCHANGED <<ok, nodeVars, output_tensor, pub_tensors, sent, outbox,
                   consumed>>
TakePeeking(w) ==
    /\ phase[w] = "ready" /\ node = "up" /\ inbox # <<>>
    /\ GoTo(w, "infer")
    /\ msg' = [msg EXCEPT ![w] = Head(inbox)]
    /\ graph' = [graph EXCEPT ![w] = 1]
    /\ failed' = [failed EXCEPT ![w] = FALSE]
    /\ UNCHANGED <<ok, nodeVars, output_tensor, pub_tensors, topicVars>>

\* The executor takes the oldest frame.  The callback group is reentrant: it
\* does not matter whether another worker is inside the callback, nor, past
\* the loop's test, whether the context is still valid.
Take(w) ==
    /\ phase[w] = "ready" /\ node = "up" /\ inbox # <<>>
    /\ GoTo(w, "infer")
    /\ msg' = [msg EXCEPT ![w] = Head(inbox)]
    /\ inbox' = Tail(inbox)
    /\ graph' = [graph EXCEPT ![w] = 1]
    /\ failed' = [failed EXCEPT ![w] = FALSE]
    /\ UNCHANGED <<ok, nodeVars, output_tensor, pub_tensors, sent, outbox,
                   consumed>>

\* One graph ran: output_tensor_ is replaced, by an empty list if an output
\* has an unsupported data type, which is only logged.  (The zero-copy path
\* never reads the outputs: it is the case Unreadable = {}.)
ExecGraph(w) ==
    /\ phase[w] = "infer"
    /\ \/ /\ graph[w] \notin Unreadable
          /\ output_tensor' = [msg |-> msg[w], graph |-> graph[w]]
       \/ /\ graph[w] \in Unreadable
          /\ output_tensor' = Empty
    /\ IF graph[w] < NumGraphs
       THEN /\ graph' = [graph EXCEPT ![w] = @ + 1]
            /\ UNCHANGED phase
       ELSE /\ GoTo(w, "collect")
            /\ UNCHANGED graph
    /\ UNCHANGED <<ok, nodeVars, msg, failed, pub_tensors, topicVars>>

\* Faulty variant: a failed inference is only logged.
ExecFailsLogged(w) ==
    /\ phase[w] = "infer" /\ "exec" \in Faults
    /\ failed' = [failed EXCEPT ![w] = TRUE]
    /\ GoTo(w, "collect")
    /\ UNCHANGED <<ok, nodeVars, output_tensor, msg, graph, pub_tensors,
                   topicVars>>

\* A step of a graph's inference fails: output_tensor_ stays as it is, the
\* context is shut down, and the callback goes on to publish.
ExecFails(w) ==
    /\ phase[w] = "infer" /\ "exec" \in Faults
    /\ ok' = FALSE
    /\ failed' = [failed EXCEPT ![w] = TRUE]
    /\ GoTo(w, "collect")
    /\ UNCHANGED <<nodeVars, output_tensor, msg, graph, pub_tensors, topicVars>>

\* Faulty variants: the result list is copied; a list that was collected
\* before is published again.
CollectCopy(w) ==
    /\ phase[w] = "collect" /\ GoTo(w, "publish")
    /\ pub_tensors' = [pub_tensors EXCEPT ![w] = output_tensor]
    /\ UNCHANGED <<ok, nodeVars, output_tensor, msg, graph, failed, topicVars>>
CollectFirst(w) ==
    /\ phase[w] = "collect" /\ GoTo(w, "publish")
    /\ pub_tensors' = [pub_tensors EXCEPT ![w] =
                          IF @ = Empty THEN output_tensor ELSE @]
    /\ output_tensor' = Empty
    /\ UNCHANGED <<ok, nodeVars, msg, graph, failed, topicVars>>

\* get_output_tensors moves the result list out of the manager.
Collect(w) ==
    /\ phase[w] = "collect" /\ GoTo(w, "publish")
    /\ pub_tensors' = [pub_tensors EXCEPT ![w] = output_tensor]
    /\ output_tensor' = Empty
    /\ UNCHANGED <<ok, nodeVars, msg, graph, failed, topicVars>>

\* The result goes out under the header of the worker's frame.  On a context
\* that is shut down the middleware drops it, the intra-process transport
\* still enqueues it.
Publish(w) ==
    /\ phase[w] = "publish" /\ GoTo(w, "spin")
    /\ \/ outbox' = Enqueue(outbox, [header |-> msg[w],
                                     tensors |-> pub_tensors[w],
                                     failed |-> failed[w]])
       \/ ~ok /\ UNCHANGED outbox
    /\ UNCHANGED <<ok, nodeVars, output_tensor, callVars, sent, inbox, consumed>>

\* Faulty variant: it waits until its queue is full.
PostProcessLate(w) ==
    /\ phase[w] = "ready" /\ Len(outbox) = QueueDepth
    /\ GoTo(w, "spin")
    /\ consumed' = Append(consumed, Head(outbox))
    /\ outbox' = Tail(outbox)
    /\ \/ ok' = ok
       \/ "post" \in Faults /\ ok' = FALSE
    /\ UNCHANGED <<nodeVars, output_tensor, callVars, sent, inbox>>

\* The post-process node's callback, on the same executor: it acts on the
\* result, also if it cannot create its folder and shuts the context down.
PostProcess(w) ==
    /\ phase[w] = "ready" /\ outbox # <<>>
    /\ GoTo(w, "spin")
    /\ consumed' = Append(consumed, Head(outbox))
    /\ outbox' = Tail(outbox)
    /\ \/ ok' = ok
       \/ "post" \in Faults /\ ok' = FALSE
    /\ UNCHANGED <<nodeVars, output_tensor, callVars, sent, inbox>>

-----------------------------------------------------------------------------
WorkerStep(w) ==
    \/ SpinOk(w) \/ SpinStops(w) \/ Wake(w)
    \/ Load(w) \/ LoadFails(w)
    \/ Take(w) \/ ExecGraph(w) \/ ExecFails(w) \/ Collect(w) \/ Publish(w)
    \/ PostProcess(w)

Next ==
    \/ \E m \in Msg : Send(m)
    \/ Interrupt
    \/ \E w \in Worker : WorkerStep(w)

Spec == Init /\ [][Next]_vars

\* Every thread of the executor keeps running; library calls return.
FairSpec == Spec /\ \A w \in Worker : WF_vars(WorkerStep(w))

-----------------------------------------------------------------------------
(* Properties.                                                             *)

Busy(w) == phase[w] \in {"infer", "collect", "publish"}

\* What the post-process node got.
Delivered == {consumed[i] : i \in 1 .. Len(consumed)}

\* No callback runs on a node whose manager could not be created: a failed
\* init() shuts the context down before the subscription exists.
NoNullManager == \A w \in Worker : Busy(w) => qrb_inference_mgr_

\* The tensors sent out under a frame's header are the result of that frame,
\* although they travel through the one output_tensor_ of the manager.
ResultsMatchHeader ==
    \A d \in Delivered : d.tensors # Empty => d.tensors.msg = d.header

\* What the post-process node acts on is the result of the whole model, the
\* last graph's, and it lacks tensors only if that graph has an output of an
\* unsupported data type; the partial result of a call that failed at a later
\* graph stays in output_tensor_ and is published, but never acted on.
ResultsComplete ==
    \A d \in Delivered :
        /\ ~d.failed
        /\ IF d.tensors = Empty THEN NumGraphs \in Unreadable
                                ELSE d.tensors.graph = NumGraphs

\* Frames are acted on at most once.
NoDuplicates ==
    \A i, j \in 1 .. Len(consumed) :
        consumed[i].header = consumed[j].header => i = j

\* An uncollected result is never left for the next frame: while no callback
\* is running, output_tensor_ is empty.
NothingLeftBehind ==
    (\A w \in Worker : ~Busy(w)) => output_tensor = Empty

\* After a shutdown every executor thread leaves its loop.
ShutdownStops == ~ok ~> \A w \in Worker : phase[w] = "exited"

Headers(q) == [i \in 1 .. Len(q) |-> q[i].header]
InCallback(w) == IF Busy(w) THEN <<msg[w]>> ELSE <<>>
Answered(q) ==
    [i \in 1 .. Len(q) |->
        [header |-> q[i].header,
         result |-> IF q[i].tensors = Empty THEN Empty ELSE q[i].tensors.msg]]

\* With the single worker of the launch files' container, the node and its
\* queues are the service: what is in the queues and in the callback is
\* waiting, oldest first.  Past the loop's test the worker still runs one
\* callback after a shutdown.
TheWorker == CHOOSE w \in Worker : TRUE
Pending == Headers(outbox) \o InCallback(TheWorker) \o inbox
Stopped == ~ok /\ phase[TheWorker] # "ready"
Service == INSTANCE InferenceService WITH
    Depth <- QueueDepth,
    arrived <- sent,
    waiting <- Pending,
    answers <- Answered(consumed),
    stopped <- Stopped

\* Frames are answered in the order they came, each at most once, by its own
\* result or by none; one is lost only if QueueDepth newer ones wait, in whichever
\* of the two queues it is, or in a shutdown.
ImplementsService == Service!SafeSpec

\* And the node goes on answering: what waits is answered, lost to a full queue
\* or given up with the context.
FramesAnswered == Service!Progress
=============================================================================
