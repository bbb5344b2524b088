------------------------- MODULE DelegateInference -------------------------
(***************************************************************************)
(* The engine for .tflite models: QnnDelegateInference owns a model, an    *)
(* interpreter that reads it and, for a backend, a QNN delegate to which   *)
(* the interpreter's graph is handed (qnn_delegate_inference.cpp,          *)
(* qnn_delegate_inference.hpp:17-37).  The steps that create and free the  *)
(* three are here, and one execution with its results; InferenceManager    *)
(* calls them.                                                             *)
(***************************************************************************)
EXTENDS Integers, Sequences

CONSTANTS
    Nets,           \* the .tflite files: type and bytes of the first input,
                    \* types of the outputs
    InputLengths,   \* the sizes of input a caller may pass
    MaxCalls        \* bound on the calls

Types == {"uint8", "float32", "int32"}
Backends == {"gpu", "htp", "dsp"}

ASSUME NetsAssumption ==
    \A n \in Nets : n.type \in Types /\ n.bytes \in Nat /\ n.outputs \in Seq(Types)
ASSUME CallsAssumption == MaxCalls \in Nat /\ InputLengths \subseteq Nat

VARIABLES
    net,                \* the file at model_path_
    backend_option_,
    live,               \* which of model_, interpreter_ and delegate_ exist
    attached,           \* the interpreter's graph has been handed to delegate_
    output_tensor_,     \* each result with its call and the output it is of
    calls,              \* the calls so far
    j,                  \* the output that the loop of inference_execute is at
    returned,           \* history: what the last call returned
    pc

delegate == <<live, attached>>
execution == <<calls, j>>
request == <<net, backend_option_>>
answers == <<output_tensor_, returned>>

\* tflite_dtype_to_qrb_dtype is not -1.
Supported(type) == type # "int32"

DTypeOK ==
    /\ net \in Nets /\ backend_option_ \in Backends \cup {"", "other"}
    /\ live \subseteq {"model", "interpreter", "delegate"} /\ attached \in BOOLEAN
    /\ output_tensor_ \in Seq([call : 1 .. MaxCalls, tensor : Nat])
    /\ calls \in 0 .. MaxCalls /\ j \in 1 .. Len(net.outputs) + 1
    /\ returned \in {"nothing", "SUCCESS", "FAILURE"}

DInit ==
    /\ net \in Nets /\ backend_option_ \in Backends \cup {"", "other"}
    /\ live = {} /\ attached = FALSE /\ output_tensor_ = <<>>
    /\ calls = 0 /\ j = 1 /\ returned = "nothing"

Step(from, to) == pc = from /\ pc' = to /\ UNCHANGED request

-----------------------------------------------------------------------------
(* inference_init.  A failure makes the manager's constructor throw, which *)
(* destroys the engine.                                                    *)

InitStep(from, to) == Step(from, to) /\ UNCHANGED <<execution, answers>>

\* The two steps that create what the engine owns, in this order.
Build(what, from, to) ==
    \/ InitStep(from, to) /\ live' = live \cup {what} /\ UNCHANGED attached
    \/ InitStep(from, "deleteDelegate") /\ UNCHANGED delegate
BuildFromFile == Build("model", "loadModel", "build")
BuildInterpreter == Build("interpreter", "build", "allocate")

AllocateTensors ==
    /\ \E to \in {"register", "deleteDelegate"} : InitStep("allocate", to)
    /\ UNCHANGED delegate

NoDelegate ==
    /\ backend_option_ = ""
    /\ InitStep("register", "ready") /\ UNCHANGED delegate

CreateDelegate ==
    /\ backend_option_ \in Backends
    /\ Build("delegate", "register", "modify")

UnknownBackend ==
    /\ backend_option_ = "other"
    /\ InitStep("register", "deleteDelegate") /\ UNCHANGED delegate

\* Without its delegate the interpreter goes on with the CPU.
ModifyGraphFallback ==
    \/ InitStep("modify", "ready") /\ attached' = TRUE /\ UNCHANGED live
    \/ /\ InitStep("modify", "ready") /\ attached' \in BOOLEAN
       /\ live' = live \ {"delegate"}

\* A graph may have been handed over in part when this fails.
ModifyGraph ==
    /\ \/ InitStep("modify", "ready") /\ attached' = TRUE
       \/ InitStep("modify", "deleteDelegate") /\ attached' \in BOOLEAN
    /\ UNCHANGED live

-----------------------------------------------------------------------------
(* inference_execute.                                                      *)

Answer(code) == returned' = code /\ pc' = "returned"

\* The type and the size of the first input must fit; a net's other inputs are
\* not filled.
Accept(len) == Supported(net.type) /\ len = net.bytes

Execute(len) ==
    /\ pc = "ready" /\ calls < MaxCalls
    /\ calls' = calls + 1 /\ j' = 1
    /\ IF Accept(len)
       THEN pc' = "invoke" /\ returned' = "nothing"
       ELSE Answer("FAILURE")
    /\ UNCHANGED <<request, delegate, output_tensor_>>

InvokeFails ==
    /\ pc = "invoke" /\ Answer("FAILURE")
    /\ UNCHANGED <<request, delegate, execution, output_tensor_>>

Invoke ==
    /\ Step("invoke", "outputs") /\ UNCHANGED <<delegate, execution, answers>>

\* The output is left out.
AppendOutputFailsSkips ==
    /\ Step("outputs", "outputs")
    /\ j <= Len(net.outputs) /\ ~Supported(net.outputs[j]) /\ j' = j + 1
    /\ UNCHANGED <<delegate, calls, answers>>

\* The results so far stay in output_tensor_ when one has no type outside.
AppendOutputFails ==
    /\ pc = "outputs" /\ j <= Len(net.outputs) /\ ~Supported(net.outputs[j])
    /\ Answer("FAILURE")
    /\ UNCHANGED <<request, delegate, execution, output_tensor_>>

AppendOutput ==
    /\ Step("outputs", "outputs")
    /\ j <= Len(net.outputs) /\ Supported(net.outputs[j]) /\ j' = j + 1
    /\ output_tensor_' = Append(output_tensor_, [call |-> calls, tensor |-> j])
    /\ UNCHANGED <<delegate, calls, returned>>

OutputsDone ==
    /\ pc = "outputs" /\ j > Len(net.outputs) /\ Answer("SUCCESS")
    /\ UNCHANGED <<request, delegate, execution, output_tensor_>>

-----------------------------------------------------------------------------
(* ~QnnDelegateInference: its body, then the members in the reverse order  *)
(* of their declaration.                                                   *)

Delete(what, from, to) ==
    /\ Step(from, to) /\ live' = live \ {what}
    /\ UNCHANGED <<attached, execution, answers>>
\* Only a delegate that was registered is deleted.
DeleteDelegateAttached ==
    /\ Step("deleteDelegate", "deleteInterpreter")
    /\ live' = IF attached THEN live \ {"delegate"} ELSE live
    /\ UNCHANGED <<attached, execution, answers>>
DeleteDelegate == Delete("delegate", "deleteDelegate", "deleteInterpreter")
DeleteInterpreter == Delete("interpreter", "deleteInterpreter", "deleteModel")
DeleteModel == Delete("model", "deleteModel", "gone")
=============================================================================
