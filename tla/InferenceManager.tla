------------------------- MODULE InferenceManager -------------------------
(***************************************************************************)
(* QrbInferenceManager: the constructor picks an engine by the model's     *)
(* path and brings it up, or throws; the other members pass their call on  *)
(* (qrb_inference_manager.cpp:19-73).  The engine for .tflite models is    *)
(* DelegateInference; of the Qnn engine this module keeps only what        *)
(* InferenceEngine says of it, which TensorIO is shown to keep.            *)
(*                                                                         *)
(* The callers in the repository (the inference node, the example program) *)
(* collect the results after every execution, whatever it answered, before *)
(* they execute again: so does the caller here.                            *)
(***************************************************************************)
EXTENDS DelegateInference

CONSTANT Null   \* nullptr

VARIABLES
    found,      \* which of .so, .bin and .tflite occur in model_path
    engine,     \* the class of *qrb_inference_
    whole,      \* history: the Qnn engine's results are those of a whole graph
    collected   \* history: what the caller collected last, and the answer

manager == <<found, engine>>
collecting == <<whole, collected>>
vars == <<request, delegate, execution, answers, pc, manager, collecting>>

Formats == {"so", "bin", "tflite"}
Engines == {"QnnInference", "QnnDelegateInference"}
Places ==
    {"construct", "qnnInit", "loadModel", "build", "allocate", "register",
     "modify", "ready", "invoke", "outputs", "qnnExecute", "returned",
     "deleteDelegate", "deleteInterpreter", "deleteModel", "deleteQnn", "gone"}

TypeOK ==
    /\ DTypeOK
    /\ found \subseteq Formats /\ engine \in {Null} \cup Engines
    /\ whole \in BOOLEAN /\ pc \in Places
    /\ collected \in [answer : {"nothing", "SUCCESS", "FAILURE"}, call : 0 .. MaxCalls,
                      results : Seq([call : 1 .. MaxCalls, tensor : Nat])]

Init ==
    /\ DInit /\ found \in SUBSET Formats
    /\ engine = Null /\ whole = FALSE
    /\ collected = [answer |-> "nothing", call |-> 0, results |-> <<>>]
    /\ pc = "construct"

\* A path with several of the strings in it: .tflite goes before the others.
Construct ==
    /\ pc = "construct"
    /\ CASE found = {} -> pc' = "gone" /\ UNCHANGED engine
         [] "tflite" \in found ->
                pc' = "loadModel" /\ engine' = "QnnDelegateInference"
         [] OTHER -> pc' = "qnnInit" /\ engine' = "QnnInference"
    /\ UNCHANGED <<request, delegate, execution, answers, found, collecting>>

\* inference_init and inference_graph_init of QnnInference: QnnLifecycle.
QnnInit ==
    /\ \E to \in {"ready", "deleteQnn"} : InitStep("qnnInit", to)
    /\ UNCHANGED <<delegate, manager, collecting>>

\* Both executions of QnnInference, as the interface sees them.
ExecuteQnn ==
    /\ engine = "QnnInference" /\ pc = "ready" /\ calls < MaxCalls
    /\ calls' = calls + 1 /\ returned' = "nothing"
    /\ pc' = "qnnExecute"
    /\ UNCHANGED <<request, delegate, j, output_tensor_, manager, collecting>>

QnnProduces ==
    /\ Step("qnnExecute", "qnnExecute")
    /\ output_tensor_' \in {<<>>, <<[call |-> calls, tensor |-> 1]>>}
    /\ whole' \in BOOLEAN
    /\ UNCHANGED <<delegate, execution, returned, manager, collected>>

QnnReturns ==
    /\ pc = "qnnExecute"
    /\ \/ Answer("FAILURE")
       \/ /\ output_tensor_ \in {<<>>, <<[call |-> calls, tensor |-> 1]>>}
          /\ output_tensor_ # <<>> => whole
          /\ Answer("SUCCESS")
    /\ UNCHANGED <<request, delegate, execution, output_tensor_, manager, collecting>>

ExecuteDelegate(len) ==
    /\ engine = "QnnDelegateInference" /\ Execute(len)
    /\ UNCHANGED <<manager, collecting>>

\* inference_execute_dmabuf: the dynamic_cast to QnnInference yields nullptr.
RefuseDmabuf ==
    /\ engine = "QnnDelegateInference" /\ pc = "ready" /\ calls < MaxCalls
    /\ calls' = calls + 1 /\ Answer("FAILURE")
    /\ UNCHANGED <<request, delegate, j, output_tensor_,
                   manager, collecting>>

\* The results are copied.
get_output_tensors_Copy ==
    /\ Step("returned", "ready")
    /\ collected' = [answer |-> returned, call |-> calls, results |-> output_tensor_]
    /\ UNCHANGED <<delegate, execution, output_tensor_, returned, manager, whole>>

\* The results are moved out.
get_output_tensors ==
    /\ Step("returned", "ready")
    /\ collected' = [answer |-> returned, call |-> calls, results |-> output_tensor_]
    /\ output_tensor_' = <<>>
    /\ UNCHANGED <<delegate, execution, returned, manager, whole>>

Destroy ==
    /\ pc = "ready"
    /\ pc' = IF engine = "QnnInference" THEN "deleteQnn" ELSE "deleteDelegate"
    /\ UNCHANGED <<request, delegate, execution, answers, manager, collecting>>

DeleteQnn ==
    /\ Step("deleteQnn", "gone")
    /\ UNCHANGED <<delegate, execution, answers, manager, collecting>>

EngineSteps ==
    /\ \/ BuildFromFile \/ BuildInterpreter \/ AllocateTensors
       \/ NoDelegate \/ CreateDelegate \/ UnknownBackend \/ ModifyGraph
       \/ InvokeFails \/ Invoke
       \/ AppendOutputFails \/ AppendOutput \/ OutputsDone
       \/ DeleteDelegate \/ DeleteInterpreter \/ DeleteModel
    /\ UNCHANGED <<manager, collecting>>

Next ==
    \/ Construct \/ QnnInit
    \/ \E len \in InputLengths : ExecuteDelegate(len)
    \/ ExecuteQnn \/ QnnProduces \/ QnnReturns \/ RefuseDmabuf
    \/ get_output_tensors
    \/ Destroy \/ DeleteQnn
    \/ EngineSteps

Spec == Init /\ [][Next]_vars

-----------------------------------------------------------------------------
(* Properties.                                                             *)

\* The delegate engine, used as the callers use it, keeps the promise of the
\* interface, and so does the manager whichever engine it has: after SUCCESS
\* the results are all those of this call.  Only the caller's collecting
\* after every call makes this so (qnn_delegate_inference.cpp:154 appends).
NetOutputs == Len(net.outputs)
Held ==
    IF output_tensor_ = <<>> THEN Null
    ELSE [call |-> output_tensor_[Len(output_tensor_)].call,
          whole |-> IF engine = "QnnInference" THEN whole
                    ELSE output_tensor_ = [n \in 1 .. NetOutputs |->
                                               [call |-> calls, tensor |-> n]]]
Contract == INSTANCE InferenceEngine WITH
    Nothing <- Null,
    running <- pc \in {"invoke", "outputs", "qnnExecute"},
    held <- Held,
    answer <- returned
ImplementsEngine == Contract!EngineSpec

\* Nobody collects a result of another call, and from the delegate engine a
\* caller that was answered SUCCESS has collected every output of the model.
CollectedOfThisCall ==
    /\ \A n \in 1 .. Len(collected.results) :
           collected.results[n].call = collected.call
    /\ engine = "QnnDelegateInference" /\ collected.answer = "SUCCESS" =>
           collected.results = [n \in 1 .. NetOutputs |->
                                    [call |-> collected.call, tensor |-> n]]

\* The interpreter reads the model until it goes, and it is never used without
\* the delegate that its graph was handed to: only the destructor deletes the
\* delegate before the interpreter.
InterpreterUsable ==
    "interpreter" \in live =>
        /\ "model" \in live
        /\ attached /\ "delegate" \notin live => pc = "deleteInterpreter"

\* Whichever step of inference_init failed, nothing of the engine is left when
\* the manager's constructor has thrown, or when the manager is destroyed; an
\* engine that came up has its interpreter, and its delegate if it asked for one.
NothingLeft ==
    /\ pc = "gone" => live = {}
    /\ pc = "ready" /\ engine = "QnnDelegateInference" =>
           /\ {"model", "interpreter"} \subseteq live
           /\ attached <=> backend_option_ # ""
           /\ attached => "delegate" \in live
=============================================================================
