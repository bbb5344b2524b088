----------------------- MODULE InferenceManagerProofs -----------------------
(***************************************************************************)
(* Theorems about InferenceManager, and through it DelegateInference, for  *)
(* every value of their constants: any models, any numbers of outputs and  *)
(* calls.  The inductive invariant says, for each place where the engine   *)
(* may stand, which of its parts exist (LiveInv) and which results it      *)
(* holds (ResultInv).  From it follows that the manager implements the     *)
(* interface's contract, InferenceEngine.                                  *)
(***************************************************************************)
EXTENDS InferenceManager, SequenceTheorems, TLAPS

Out == [call : 1 .. MaxCalls, tensor : Nat]

\* Where each class of engine may stand.
Common == {"ready", "returned"}
QnnPlaces == {"qnnInit", "qnnExecute", "deleteQnn"}
ClassInv ==
    /\ pc = "construct" => engine = Null
    /\ pc \in QnnPlaces => engine = "QnnInference"
    /\ pc \notin QnnPlaces \cup Common \cup {"construct", "gone"} =>
           engine = "QnnDelegateInference"
    /\ pc \in Common => engine \in Engines
    /\ engine = "QnnInference" => live = {} /\ ~attached

\* What exists of the delegate engine, and what its parts refer to.
LiveInv ==
    /\ pc \in {"construct", "loadModel"} => live = {}
    /\ pc = "build" => live = {"model"}
    /\ pc \in {"allocate", "register"} => live = {"model", "interpreter"}
    /\ pc = "modify" =>
           live = {"model", "interpreter", "delegate"} /\ backend_option_ \in Backends
    /\ pc \in {"construct", "qnnInit", "loadModel", "build", "allocate", "register",
               "modify"} => ~attached
    /\ engine = "QnnDelegateInference" /\ pc \in Common \cup {"invoke", "outputs"} =>
           /\ {"model", "interpreter"} \subseteq live
           /\ attached <=> backend_option_ # ""
           /\ attached => "delegate" \in live
    /\ pc = "deleteDelegate" =>
           /\ "interpreter" \in live => "model" \in live
           /\ attached => "delegate" \in live
    /\ pc = "deleteInterpreter" =>
           /\ live \subseteq {"model", "interpreter"}
           /\ "interpreter" \in live => "model" \in live
    /\ pc = "deleteModel" => live \subseteq {"model"}
    /\ pc = "gone" => live = {}

\* The result of the n-th output in this call, and those of all of them.
ResultOf(n) == [call |-> calls, tensor |-> n]
AllResults == [n \in 1 .. NetOutputs |-> ResultOf(n)]

\* The caller collects after each call, so a call starts with no results.
ResultInv ==
    /\ pc = "construct" => collected.answer # "SUCCESS"
    /\ pc \notin {"outputs", "returned", "qnnExecute"} => output_tensor_ = <<>>
    /\ pc = "invoke" => j = 1
    /\ pc = "outputs" =>
           /\ Len(output_tensor_) = j - 1
           /\ \A n \in 1 .. j - 1 : output_tensor_[n] = ResultOf(n)
    /\ pc = "qnnExecute" => output_tensor_ \in {<<>>, <<ResultOf(1)>>}
    /\ pc \in {"invoke", "outputs", "qnnExecute", "returned"} => calls # 0
    /\ pc \in {"invoke", "outputs", "qnnExecute"} => returned = "nothing"
    /\ pc = "returned" =>
           /\ \A n \in 1 .. Len(output_tensor_) : output_tensor_[n].call = calls
           /\ engine = "QnnDelegateInference" /\ returned = "SUCCESS" =>
                  output_tensor_ = AllResults

Inv == TypeOK /\ ClassInv /\ LiveInv /\ ResultInv /\ CollectedOfThisCall

-----------------------------------------------------------------------------
(* The lemmas that the steps share.                                        *)

\* What TypeOK and the assumptions say of the file and of the counters.
LEMMA Numbers ==
    ASSUME TypeOK
    PROVE  /\ net.type \in Types /\ net.bytes \in Nat /\ net.outputs \in Seq(Types)
           /\ NetOutputs \in Nat /\ MaxCalls \in Nat /\ calls \in Nat /\ j \in Nat
<1>1. net.type \in Types /\ net.bytes \in Nat /\ net.outputs \in Seq(Types)
  BY NetsAssumption DEF TypeOK, DTypeOK
<1>2. Len(net.outputs) \in Nat
  BY <1>1, LenProperties
<1>3. MaxCalls \in Nat
  BY CallsAssumption
<1>4. calls \in 0 .. MaxCalls /\ j \in 1 .. Len(net.outputs) + 1
  BY DEF TypeOK, DTypeOK
<1>5. calls \in Nat /\ j \in Nat
  BY <1>2, <1>3, <1>4
<1> QED
  BY <1>1, <1>2, <1>3, <1>5 DEF NetOutputs

\* A sequence is given by its length and its elements.
LEMMA SameResults ==
    ASSUME TypeOK, Len(output_tensor_) = NetOutputs,
           \A n \in 1 .. NetOutputs : output_tensor_[n] = ResultOf(n)
    PROVE  output_tensor_ = AllResults
<1>1. output_tensor_ \in Seq(Out)
  BY DEF TypeOK, DTypeOK, Out
<1>2. output_tensor_ = [n \in 1 .. Len(output_tensor_) |-> output_tensor_[n]]
  BY <1>1, LenProperties
<1> QED
  BY <1>2 DEF AllResults

\* The steps that leave the results and the history alone...
Quiet ==
    /\ UNCHANGED <<net, engine, execution, answers, collecting>>
    /\ pc \in Places \ {"construct", "invoke", "outputs", "qnnExecute", "returned"}
    /\ pc' \in Places \ {"construct", "invoke", "outputs", "qnnExecute", "returned"}

\* ... keep what is said of the results.
LEMMA QuietResults ==
    ASSUME Inv, Quiet PROVE ResultInv' /\ CollectedOfThisCall'
<1>1. output_tensor_ = <<>> /\ output_tensor_' = <<>>
  BY DEF Inv, ResultInv, Quiet, Places, answers
<1>2. ResultInv'
  BY <1>1 DEF ResultInv, Quiet, Places
<1>3. CollectedOfThisCall'
  BY DEF Inv, CollectedOfThisCall, NetOutputs, Quiet, collecting
<1> QED
  BY <1>2, <1>3

\* The steps of an execution leave the engine's parts alone.
LEMMA RunningParts ==
    ASSUME Inv, UNCHANGED <<request, delegate, manager>>,
           \/ /\ engine = "QnnDelegateInference"
              /\ {pc, pc'} \subseteq Common \cup {"invoke", "outputs"}
           \/ /\ engine = "QnnInference"
              /\ {pc, pc'} \subseteq Common \cup {"qnnExecute"}
           \/ {pc, pc'} \subseteq Common
    PROVE  ClassInv' /\ LiveInv'
<1>1. ClassInv'
  BY DEF Inv, ClassInv, Common, QnnPlaces, Engines, manager, delegate
<1>2. LiveInv'
  BY DEF Inv, ClassInv, LiveInv, Common, QnnPlaces, manager, delegate, request
<1> QED
  BY <1>1, <1>2

\* Nothing exists and no result is held before the constructor.
LEMMA InvInit == Init => Inv
<1> SUFFICES ASSUME Init PROVE Inv
  OBVIOUS
<1>1. TypeOK
  <2>1. net.outputs \in Seq(Types) /\ MaxCalls \in Nat
    BY NetsAssumption, CallsAssumption DEF Init, DInit
  <2>2. Len(net.outputs) \in Nat
    BY <2>1, LenProperties
  <2>3. <<>> \in Seq(Out)
    BY EmptySeq
  <2>4. 0 \in 0 .. MaxCalls
    BY <2>1
  <2>5. 1 \in 1 .. Len(net.outputs) + 1
    BY <2>2
  <2>6. calls \in 0 .. MaxCalls /\ j \in 1 .. Len(net.outputs) + 1
    BY <2>4, <2>5 DEF Init, DInit
  <2>7. DTypeOK
    BY <2>3, <2>6 DEF Init, DInit, DTypeOK, Out
  <2>8. collected \in [answer : {"nothing", "SUCCESS", "FAILURE"}, call : 0 .. MaxCalls,
                       results : Seq(Out)]
    BY <2>1, <2>3 DEF Init
  <2> QED
    BY <2>7, <2>8 DEF Init, TypeOK, Places, Out
<1>2. ClassInv /\ LiveInv
  BY DEF Init, DInit, ClassInv, LiveInv, QnnPlaces, Common
<1>3. ResultInv
  BY DEF Init, DInit, ResultInv
<1>4. CollectedOfThisCall
  BY DEF Init, CollectedOfThisCall
<1> QED
  BY <1>1, <1>2, <1>3, <1>4 DEF Inv

-----------------------------------------------------------------------------
(* The steps that build the engine and take it down.                       *)

\* The constructor picks the engine by the path, or throws.
LEMMA ConstructStep == ASSUME Inv, Construct PROVE Inv'
<1>1. /\ pc = "construct" /\ pc' \in {"gone", "loadModel", "qnnInit"}
      /\ engine' \in {Null} \cup Engines
      /\ pc' = "loadModel" => engine' = "QnnDelegateInference"
      /\ pc' = "qnnInit" => engine' = "QnnInference"
      /\ UNCHANGED <<request, delegate, execution, answers, found, collecting>>
  BY DEF Construct, Engines, Inv, TypeOK
<1>2. TypeOK'
  <2>1. DTypeOK'
    BY <1>1 DEF Inv, TypeOK, DTypeOK, request, delegate, execution, answers
  <2> QED
    BY <1>1, <2>1 DEF Inv, TypeOK, collecting, Places
<1>3. ClassInv' /\ LiveInv'
  BY <1>1 DEF Inv, ClassInv, LiveInv, QnnPlaces, Common, delegate
<1>4. ResultInv'
  BY <1>1 DEF Inv, ResultInv, answers
<1>5. CollectedOfThisCall'
  BY <1>1 DEF Inv, ResultInv, CollectedOfThisCall, collecting
<1> QED
  BY <1>2, <1>3, <1>4, <1>5 DEF Inv

\* Every other step of the kind stands at places of the engine's life.
BuildSteps ==
    /\ \/ BuildFromFile \/ BuildInterpreter \/ AllocateTensors
       \/ NoDelegate \/ CreateDelegate \/ UnknownBackend \/ ModifyGraph
       \/ DeleteDelegate \/ DeleteInterpreter \/ DeleteModel
    /\ UNCHANGED <<manager, collecting>>

\* Each of them leaves the parts of the engine as LiveInv has them there.
LEMMA BuildStep == ASSUME Inv, BuildSteps PROVE Inv'
<1> USE DEF BuildSteps
<1> DEFINE P == {"loadModel", "build", "allocate", "register", "modify", "ready",
                 "deleteDelegate", "deleteInterpreter", "deleteModel", "gone"}
<1>1. /\ UNCHANGED <<request, execution, answers, manager, collecting>>
      /\ pc \in P \ {"ready", "gone"} /\ pc' \in P \ {"loadModel"}
      /\ live' \subseteq {"model", "interpreter", "delegate"} /\ attached' \in BOOLEAN
  BY DEF BuildFromFile, BuildInterpreter, Build, AllocateTensors, NoDelegate,
         CreateDelegate, UnknownBackend, ModifyGraph, DeleteDelegate, DeleteInterpreter,
         DeleteModel, Delete, InitStep, Step, Inv, TypeOK, DTypeOK, delegate
<1>2. engine = "QnnDelegateInference"
  BY <1>1 DEF Inv, ClassInv, QnnPlaces, Common
<1>3. TypeOK'
  <2>1. DTypeOK'
    BY <1>1 DEF Inv, TypeOK, DTypeOK, request, execution, answers
  <2> QED
    BY <1>1, <2>1 DEF Inv, TypeOK, collecting, manager, Places
<1>4. ClassInv'
  BY <1>1, <1>2 DEF ClassInv, QnnPlaces, Common, manager, Engines
<1>5. LiveInv'
  <2> USE DEF LiveInv, Common, Inv
  <2>1. CASE BuildFromFile
    BY <2>1, <1>1 DEF BuildFromFile, Build, InitStep, Step, delegate
  <2>2. CASE BuildInterpreter
    BY <2>2, <1>1 DEF BuildInterpreter, Build, InitStep, Step, delegate
  <2>3. CASE AllocateTensors
    BY <2>3, <1>1 DEF AllocateTensors, InitStep, Step, delegate
  <2>4. CASE NoDelegate
    BY <2>4, <1>1 DEF NoDelegate, InitStep, Step, delegate, request
  <2>5. CASE CreateDelegate
    BY <2>5, <1>1 DEF CreateDelegate, Build, InitStep, Step, delegate, request
  <2>6. CASE UnknownBackend
    BY <2>6, <1>1 DEF UnknownBackend, InitStep, Step, delegate
  <2>7. CASE ModifyGraph
    BY <2>7, <1>1 DEF ModifyGraph, InitStep, Step, request, Backends
  <2>8. CASE DeleteDelegate
    BY <2>8, <1>1 DEF DeleteDelegate, Delete, Step, TypeOK, DTypeOK
  <2>9. CASE DeleteInterpreter
    BY <2>9, <1>1 DEF DeleteInterpreter, Delete, Step
  <2>10. CASE DeleteModel
    BY <2>10, <1>1 DEF DeleteModel, Delete, Step
  <2> QED
    BY <2>1, <2>2, <2>3, <2>4, <2>5, <2>6, <2>7, <2>8, <2>9, <2>10
<1>6. ResultInv' /\ CollectedOfThisCall'
  <2>1. Quiet
    BY <1>1 DEF Quiet, Places, request, manager
  <2> QED
    BY <2>1, QuietResults
<1> QED
  BY <1>3, <1>4, <1>5, <1>6 DEF Inv

\* The Qnn engine comes up or not, and goes; the delegate engine starts to go.
LifeSteps == QnnInit \/ Destroy \/ DeleteQnn

\* None of these touches a part or a result.
LEMMA LifeStep == ASSUME Inv, LifeSteps PROVE Inv'
<1> USE DEF LifeSteps
<1>1. /\ UNCHANGED <<request, delegate, execution, answers, manager, collecting>>
      /\ \/ pc = "qnnInit" /\ pc' \in {"ready", "deleteQnn"}
         \/ pc = "deleteQnn" /\ pc' = "gone"
         \/ pc = "ready" /\ engine = "QnnInference" /\ pc' = "deleteQnn"
         \/ pc = "ready" /\ engine # "QnnInference" /\ pc' = "deleteDelegate"
  BY DEF QnnInit, Destroy, DeleteQnn, InitStep, Step
<1>2. TypeOK'
  <2>1. DTypeOK'
    BY <1>1 DEF Inv, TypeOK, DTypeOK, request, delegate, execution, answers
  <2> QED
    BY <1>1, <2>1 DEF Inv, TypeOK, collecting, manager, Places
<1>3. ClassInv'
  BY <1>1 DEF Inv, ClassInv, QnnPlaces, Common, manager, delegate, Engines
<1>4. LiveInv'
  BY <1>1 DEF Inv, ClassInv, LiveInv, QnnPlaces, Common, manager, delegate, request, Engines
<1>5. ResultInv' /\ CollectedOfThisCall'
  <2>1. Quiet
    BY <1>1 DEF Quiet, Places, request, manager
  <2> QED
    BY <2>1, QuietResults
<1> QED
  BY <1>2, <1>3, <1>4, <1>5 DEF Inv

-----------------------------------------------------------------------------
(* The steps of an execution.                                              *)

\* A call starts, or is refused at once, with no results in the engine.
StartSteps ==
    \/ \E len \in InputLengths : ExecuteDelegate(len)
    \/ ExecuteQnn \/ RefuseDmabuf

\* The counter and the loop's index stay in range, and no result is held.
LEMMA StartStep == ASSUME Inv, StartSteps PROVE Inv'
<1>1. /\ UNCHANGED <<request, delegate, output_tensor_, manager, collecting>>
      /\ pc = "ready" /\ calls < MaxCalls /\ calls' = calls + 1 /\ j' \in {1, j}
      /\ \/ /\ engine = "QnnDelegateInference"
            /\ \/ pc' = "invoke" /\ returned' = "nothing" /\ j' = 1
               \/ pc' = "returned" /\ returned' = "FAILURE"
         \/ engine = "QnnInference" /\ pc' = "qnnExecute" /\ returned' = "nothing"
  BY DEF StartSteps, ExecuteDelegate, Execute, ExecuteQnn, RefuseDmabuf, Answer, manager
<1>2. output_tensor_ = <<>> /\ output_tensor_' = <<>>
  BY <1>1 DEF Inv, ResultInv
<1>3. MaxCalls \in Nat /\ calls \in Nat /\ Len(net.outputs) \in Nat
  BY Numbers DEF Inv, NetOutputs
<1>4. calls' \in 0 .. MaxCalls /\ calls' # 0
  BY <1>1, <1>3
<1>5. j' \in 1 .. Len(net.outputs) + 1
  <2>1. j \in 1 .. Len(net.outputs) + 1
    BY DEF Inv, TypeOK, DTypeOK
  <2> QED
    BY <2>1, <1>1, <1>3
<1>6. TypeOK'
  <2>1. DTypeOK'
    BY <1>1, <1>4, <1>5 DEF Inv, TypeOK, DTypeOK, request, delegate
  <2> QED
    BY <1>1, <2>1 DEF Inv, TypeOK, collecting, manager, Places
<1>7. ClassInv' /\ LiveInv'
  BY <1>1, RunningParts DEF Common
<1>8. Len(output_tensor_') = 0
  BY <1>2, EmptySeq
<1>9. ResultInv'
  <2>1. \A n \in 1 .. Len(output_tensor_') : output_tensor_'[n].call = calls'
    BY <1>8
  <2>2. pc' = "returned" => returned' = "FAILURE"
    BY <1>1
  <2> HIDE DEF ResultOf, AllResults
  <2> QED
    BY <1>1, <1>2, <1>4, <2>1, <2>2 DEF ResultInv
<1>10. CollectedOfThisCall'
  BY <1>1 DEF Inv, CollectedOfThisCall, NetOutputs, collecting, manager, request
<1> QED
  BY <1>6, <1>7, <1>9, <1>10 DEF Inv

\* Invoke of the interpreter, and the answers of the delegate engine.
AnswerSteps ==
    /\ InvokeFails \/ Invoke \/ AppendOutputFails \/ OutputsDone
    /\ UNCHANGED <<manager, collecting>>

\* At the end of the loop the results are all there.
LEMMA AnswerStep == ASSUME Inv, AnswerSteps PROVE Inv'
<1>1. /\ UNCHANGED <<request, delegate, execution, output_tensor_, manager, collecting>>
      /\ \/ pc = "invoke" /\ pc' = "outputs" /\ returned' = returned
         \/ pc \in {"invoke", "outputs"} /\ pc' = "returned" /\ returned' = "FAILURE"
         \/ /\ pc = "outputs" /\ pc' = "returned" /\ returned' = "SUCCESS"
            /\ j > Len(net.outputs)
  BY DEF AnswerSteps, InvokeFails, Invoke, AppendOutputFails, OutputsDone, Answer, Step,
         execution, answers
<1>2. engine = "QnnDelegateInference"
  BY <1>1 DEF Inv, ClassInv, QnnPlaces, Common
<1>3. TypeOK'
  <2>1. DTypeOK'
    BY <1>1 DEF Inv, TypeOK, DTypeOK, request, delegate, execution
  <2> QED
    BY <1>1, <2>1 DEF Inv, TypeOK, collecting, manager, Places
<1>4. ClassInv' /\ LiveInv'
  BY <1>1, <1>2, RunningParts DEF Common
<1>5. NetOutputs \in Nat /\ j \in Nat /\ j \in 1 .. NetOutputs + 1
  BY Numbers DEF Inv, TypeOK, DTypeOK, NetOutputs
<1>6. pc = "outputs" =>
          /\ Len(output_tensor_) = j - 1
          /\ \A n \in 1 .. j - 1 : output_tensor_[n] = ResultOf(n)
  BY DEF Inv, ResultInv
<1>7. pc = "outputs" /\ j > Len(net.outputs) => output_tensor_ = AllResults
  <2> SUFFICES ASSUME pc = "outputs", j > Len(net.outputs)
               PROVE  output_tensor_ = AllResults
    OBVIOUS
  <2>1. j - 1 = NetOutputs
    BY <1>5 DEF NetOutputs
  <2> QED
    BY <1>6, <2>1, SameResults DEF Inv
<1>8. UNCHANGED <<AllResults, net, calls, j>>
  BY <1>1 DEF AllResults, ResultOf, NetOutputs, execution, request
<1>9. ResultInv'
  <2>1. CASE pc' = "outputs"
    <3>1. /\ pc = "invoke" /\ returned' = "nothing" /\ calls # 0 /\ j = 1
          /\ output_tensor_' = <<>>
      BY <2>1, <1>1 DEF Inv, ResultInv
    <3>2. Len(output_tensor_') = j - 1 /\ 1 .. j - 1 = {}
      BY <3>1, EmptySeq
    <3> QED
      BY <2>1, <3>1, <3>2, <1>1, <1>8 DEF ResultInv
  <2>2. CASE pc' = "returned"
    <3>1. \A n \in 1 .. Len(output_tensor_) : output_tensor_[n].call = calls
      <4>1. CASE pc = "invoke"
        BY <4>1, EmptySeq DEF Inv, ResultInv
      <4>2. CASE pc = "outputs"
        BY <4>2, <1>6 DEF ResultOf
      <4> QED
        BY <4>1, <4>2, <1>1
    <3>2. returned' = "SUCCESS" => output_tensor_' = AllResults'
      BY <2>2, <1>1, <1>7, <1>8
    <3>3. calls' # 0
      BY <1>1, <1>8 DEF Inv, ResultInv
    <3> QED
      BY <2>2, <3>1, <3>2, <3>3, <1>1, <1>8 DEF ResultInv
  <2> QED
    BY <2>1, <2>2, <1>1
<1>10. CollectedOfThisCall'
  BY <1>1 DEF Inv, CollectedOfThisCall, NetOutputs, collecting, manager, request
<1> QED
  BY <1>3, <1>4, <1>9, <1>10 DEF Inv

\* One output is appended to the results.
LEMMA AppendStep ==
    ASSUME Inv, AppendOutput, UNCHANGED <<manager, collecting>> PROVE Inv'
<1>1. /\ UNCHANGED <<request, delegate, calls, returned, manager, collecting>>
      /\ pc = "outputs" /\ pc' = "outputs" /\ j <= Len(net.outputs) /\ j' = j + 1
      /\ output_tensor_' = Append(output_tensor_, ResultOf(j))
  BY DEF AppendOutput, Step, ResultOf
<1>2. /\ MaxCalls \in Nat /\ Len(net.outputs) \in Nat
      /\ j \in 1 .. Len(net.outputs) + 1 /\ calls \in 0 .. MaxCalls
      /\ output_tensor_ \in Seq(Out)
  BY Numbers DEF Inv, TypeOK, DTypeOK, Out, NetOutputs
<1>3. calls # 0 /\ returned = "nothing"
  BY <1>1 DEF Inv, ResultInv
<1>4. ResultOf(j) \in Out
  <2>1. calls \in 1 .. MaxCalls /\ j \in Nat
    BY <1>2, <1>3
  <2> QED
    BY <2>1 DEF ResultOf, Out
<1>5. /\ Len(output_tensor_) = j - 1
      /\ \A n \in 1 .. j - 1 : output_tensor_[n] = ResultOf(n)
  BY <1>1 DEF Inv, ResultInv
<1>6. /\ output_tensor_' \in Seq(Out)
      /\ Len(output_tensor_') = j
      /\ \A n \in 1 .. j - 1 : output_tensor_'[n] = output_tensor_[n]
      /\ output_tensor_'[j] = ResultOf(j)
  <2> HIDE DEF Out, ResultOf
  <2>1. /\ Append(output_tensor_, ResultOf(j)) \in Seq(Out)
        /\ Len(Append(output_tensor_, ResultOf(j))) = Len(output_tensor_) + 1
        /\ \A n \in 1 .. Len(output_tensor_) :
               Append(output_tensor_, ResultOf(j))[n] = output_tensor_[n]
        /\ Append(output_tensor_, ResultOf(j))[Len(output_tensor_) + 1] = ResultOf(j)
    BY <1>2, <1>4, AppendProperties
  <2> QED
    BY <2>1, <1>1, <1>2, <1>5
<1>7. TypeOK'
  <2>1. j' \in 1 .. Len(net.outputs) + 1
    BY <1>1, <1>2
  <2>2. DTypeOK'
    BY <2>1, <1>1, <1>6 DEF Inv, TypeOK, DTypeOK, request, delegate, Out
  <2> QED
    BY <1>1, <2>2 DEF Inv, TypeOK, collecting, manager, Places
<1>8. ClassInv' /\ LiveInv'
  <2>1. engine = "QnnDelegateInference"
    BY <1>1 DEF Inv, ClassInv, QnnPlaces, Common
  <2> QED
    BY <2>1, <1>1, RunningParts DEF Common
<1>9. ResultInv'
  <2>1. j' - 1 = j
    BY <1>1, <1>2
  <2>2. \A n \in 1 .. j : output_tensor_'[n] = ResultOf(n)
    BY <1>2, <1>5, <1>6
  <2>3. \A n : ResultOf(n)' = ResultOf(n)
    BY <1>1 DEF ResultOf
  <2>4. \A n \in 1 .. j' - 1 : output_tensor_'[n] = ResultOf(n)'
    BY <2>1, <2>2, <2>3
  <2> QED
    BY <2>1, <2>4, <1>1, <1>3, <1>6 DEF ResultInv
<1>10. CollectedOfThisCall'
  BY <1>1 DEF Inv, CollectedOfThisCall, NetOutputs, collecting, manager, request
<1> QED
  BY <1>7, <1>8, <1>9, <1>10 DEF Inv

\* The Qnn engine makes its result and returns.
QnnSteps == QnnProduces \/ QnnReturns

\* Its one result names the call.
LEMMA QnnStep == ASSUME Inv, QnnSteps PROVE Inv'
<1>1. /\ UNCHANGED <<request, delegate, execution, manager, collected>>
      /\ pc = "qnnExecute" /\ whole' \in BOOLEAN
      /\ \/ /\ pc' = "qnnExecute" /\ returned' = returned
            /\ output_tensor_' \in {<<>>, <<ResultOf(1)>>}
         \/ /\ pc' = "returned" /\ returned' \in {"SUCCESS", "FAILURE"}
            /\ output_tensor_' = output_tensor_
  BY DEF QnnSteps, QnnProduces, QnnReturns, Step, Answer, ResultOf, collecting, Inv, TypeOK
<1>2. engine = "QnnInference"
  BY <1>1 DEF Inv, ClassInv, QnnPlaces
<1>3. /\ output_tensor_ \in {<<>>, <<ResultOf(1)>>} /\ calls # 0 /\ returned = "nothing"
  BY <1>1 DEF Inv, ResultInv
<1>4. output_tensor_' \in {<<>>, <<ResultOf(1)>>}
  BY <1>1, <1>3
<1>5. ResultOf(1) \in Out
  <2>1. MaxCalls \in Nat /\ calls \in 0 .. MaxCalls
    BY CallsAssumption DEF Inv, TypeOK, DTypeOK
  <2>2. calls \in 1 .. MaxCalls
    BY <1>3, <2>1
  <2> QED
    BY <2>2 DEF ResultOf, Out
<1>6. output_tensor_' \in Seq(Out)
  <2> HIDE DEF Out, ResultOf
  <2>1. <<>> \in Seq(Out)
    BY EmptySeq
  <2>2. <<ResultOf(1)>> \in Seq(Out)
    BY <1>5
  <2> QED
    BY <1>4, <2>1, <2>2
<1>7. TypeOK'
  <2>1. DTypeOK'
    BY <1>1, <1>3, <1>6 DEF Inv, TypeOK, DTypeOK, request, delegate, execution, Out
  <2> QED
    BY <1>1, <2>1 DEF Inv, TypeOK, manager, Places
<1>8. ClassInv' /\ LiveInv'
  BY <1>1, <1>2, RunningParts DEF Common
<1>9. UNCHANGED <<calls, ResultOf(1)>>
  BY <1>1 DEF ResultOf, execution
<1>10. \A n \in 1 .. Len(output_tensor_') : output_tensor_'[n].call = calls
  <2>1. CASE output_tensor_' = <<>>
    BY <2>1, EmptySeq
  <2>2. CASE output_tensor_' = <<ResultOf(1)>>
    <3>1. \A n \in 1 .. Len(<<ResultOf(1)>>) : n = 1
      BY <1>5
    <3> QED
      BY <2>2, <3>1 DEF ResultOf
  <2> QED
    BY <1>4, <2>1, <2>2
<1>11. ResultInv'
  BY <1>1, <1>2, <1>3, <1>4, <1>9, <1>10 DEF ResultInv, manager
<1>12. CollectedOfThisCall'
  BY <1>1 DEF Inv, CollectedOfThisCall, NetOutputs, manager, request
<1> QED
  BY <1>7, <1>8, <1>11, <1>12 DEF Inv

\* The caller takes the results, which are of the call that has returned.
LEMMA CollectStep == ASSUME Inv, get_output_tensors PROVE Inv'
<1>1. /\ UNCHANGED <<request, delegate, execution, returned, manager, whole>>
      /\ pc = "returned" /\ pc' = "ready" /\ output_tensor_' = <<>>
      /\ collected' = [answer |-> returned, call |-> calls, results |-> output_tensor_]
  BY DEF get_output_tensors, Step
<1>2. TypeOK'
  <2>1. <<>> \in Seq(Out)
    BY EmptySeq
  <2>2. DTypeOK'
    BY <1>1, <2>1 DEF Inv, TypeOK, DTypeOK, request, delegate, execution, Out
  <2>3. collected' \in [answer : {"nothing", "SUCCESS", "FAILURE"}, call : 0 .. MaxCalls,
                        results : Seq(Out)]
    BY <1>1 DEF Inv, TypeOK, DTypeOK, Out
  <2> QED
    BY <1>1, <2>2, <2>3 DEF Inv, TypeOK, manager, Places, Out
<1>3. ClassInv' /\ LiveInv'
  BY <1>1, RunningParts DEF Common
<1>4. ResultInv'
  BY <1>1 DEF ResultInv
<1>5. CollectedOfThisCall'
  <2>1. /\ \A n \in 1 .. Len(output_tensor_) : output_tensor_[n].call = calls
        /\ engine = "QnnDelegateInference" /\ returned = "SUCCESS" =>
               output_tensor_ = AllResults
    BY <1>1 DEF Inv, ResultInv
  <2> QED
    BY <1>1, <2>1
    DEF CollectedOfThisCall, AllResults, ResultOf, NetOutputs, manager, request
<1> QED
  BY <1>2, <1>3, <1>4, <1>5 DEF Inv

-----------------------------------------------------------------------------
(* The invariant, and what follows from it.                                *)

\* Every step of the manager and of the engines keeps the invariant.
LEMMA InvNext == ASSUME Inv, [Next]_vars PROVE Inv'
<1>1. CASE Construct
  BY <1>1, ConstructStep
<1>2. CASE LifeSteps
  BY <1>2, LifeStep
<1>3. CASE StartSteps
  BY <1>3, StartStep
<1>4. CASE QnnSteps
  BY <1>4, QnnStep
<1>5. CASE get_output_tensors
  BY <1>5, CollectStep
<1>6. CASE EngineSteps
  <2>1. \/ BuildSteps \/ AnswerSteps
        \/ AppendOutput /\ UNCHANGED <<manager, collecting>>
    BY <1>6 DEF EngineSteps, BuildSteps, AnswerSteps
  <2> QED
    BY <2>1, BuildStep, AnswerStep, AppendStep
<1>7. CASE UNCHANGED vars
  <2> USE <1>7 DEF vars, request, delegate, execution, answers, manager, collecting
  <2>1. TypeOK'
    BY DEF Inv, TypeOK, DTypeOK
  <2>2. ClassInv' /\ LiveInv'
    BY DEF Inv, ClassInv, LiveInv
  <2>3. ResultInv'
    BY DEF Inv, ResultInv, AllResults, ResultOf, NetOutputs
  <2>4. CollectedOfThisCall'
    BY DEF Inv, CollectedOfThisCall, NetOutputs
  <2> QED
    BY <2>1, <2>2, <2>3, <2>4 DEF Inv
<1> QED
  BY <1>1, <1>2, <1>3, <1>4, <1>5, <1>6, <1>7
  DEF Next, LifeSteps, StartSteps, QnnSteps

\* The inductive invariant holds in every state of every execution.
THEOREM InvCorrect == Spec => []Inv
<1>1. Init => Inv
  BY InvInit
<1>2. Inv /\ [Next]_vars => Inv'
  BY InvNext
<1> QED
  BY <1>1, <1>2, PTL DEF Spec

\* Every variable of the manager and of the delegate engine keeps its type,
\* for any models, any sizes of input and any number of calls.
THEOREM TypeCorrect == Spec => []TypeOK
<1>1. Inv => TypeOK
  BY DEF Inv
<1> QED
  BY <1>1, InvCorrect, PTL

\* A caller only ever collects results of its own call, and after SUCCESS of
\* the delegate engine one result for every output, however many there are and
\* whichever calls failed before (get_output_tensors, the outputs' loop).
THEOREM CollectedOfThisCallCorrect == Spec => []CollectedOfThisCall
<1>1. Inv => CollectedOfThisCall
  BY DEF Inv
<1> QED
  BY <1>1, InvCorrect, PTL

\* The interpreter never stands without its model, nor without the delegate it
\* was handed to, whichever step of inference_init fails; the destructor's
\* order is the one exception.
THEOREM InterpreterUsableCorrect == Spec => []InterpreterUsable
<1>1. Inv => InterpreterUsable
  <2> SUFFICES ASSUME Inv, "interpreter" \in live
               PROVE  /\ "model" \in live
                      /\ attached /\ "delegate" \notin live =>
                             pc = "deleteInterpreter"
    BY DEF InterpreterUsable
  <2>1. engine # "QnnInference" /\ pc \in Places
    BY DEF Inv, ClassInv, TypeOK
  <2> QED
    BY <2>1 DEF Inv, ClassInv, LiveInv, QnnPlaces, Common, Engines, Places
<1> QED
  BY <1>1, InvCorrect, PTL

\* Nothing of an engine outlives a constructor that threw or the manager, and an
\* engine that came up has all that it asked for.
THEOREM NothingLeftCorrect == Spec => []NothingLeft
<1>1. Inv => NothingLeft
  BY DEF Inv, LiveInv, NothingLeft, Common
<1> QED
  BY <1>1, InvCorrect, PTL

-----------------------------------------------------------------------------
(* The manager implements InferenceEngine.                                 *)

Running == pc \in {"invoke", "outputs", "qnnExecute"}

\* The steps that an observer of the interface does not see.
LEMMA HiddenStep ==
    ASSUME Inv, Inv', calls' = calls, returned' = returned, Running' <=> Running,
           output_tensor_ = <<>> /\ output_tensor_' = <<>>
    PROVE  UNCHANGED Contract!evars
BY DEF Contract!evars, Held, Running

\* A call starts with no results and is refused or runs.
LEMMA StartsCall ==
    ASSUME Inv, Inv', StartSteps PROVE Contract!Start \/ Contract!Refuse
<1>1. /\ pc = "ready" /\ calls' = calls + 1 /\ output_tensor_' = output_tensor_
      /\ \/ pc' \in {"invoke", "qnnExecute"} /\ returned' = "nothing"
         \/ pc' = "returned" /\ returned' = "FAILURE"
  BY DEF StartSteps, ExecuteDelegate, Execute, ExecuteQnn, RefuseDmabuf, Answer
<1>2. Held = Null /\ Held' = Null
  BY <1>1 DEF Inv, ResultInv, Held
<1> QED
  BY <1>1, <1>2 DEF Contract!Start, Contract!Refuse

\* The Qnn engine's result is of the call that makes it.
LEMMA QnnProducesOne ==
    ASSUME Inv, Inv', QnnProduces PROVE Contract!Produce
<1>1. /\ pc = "qnnExecute" /\ pc' = "qnnExecute" /\ whole' \in BOOLEAN
      /\ output_tensor_' \in {<<>>, <<ResultOf(1)>>}
      /\ UNCHANGED <<calls, returned, engine>>
  BY DEF QnnProduces, Step, ResultOf, execution, manager
<1>2. engine = "QnnInference"
  BY <1>1 DEF Inv, ClassInv, QnnPlaces
<1>3. Held' \in {Null} \cup [call : {calls}, whole : BOOLEAN]
  <2>1. CASE output_tensor_' = <<>>
    BY <2>1 DEF Held
  <2>2. CASE output_tensor_' = <<ResultOf(1)>>
    <3>1. output_tensor_' # <<>> /\ Len(output_tensor_') = 1
      BY <2>2
    <3>2. output_tensor_'[1].call = calls
      BY <2>2 DEF ResultOf
    <3>3. Held' = [call |-> calls, whole |-> whole']
      BY <3>1, <3>2, <1>1, <1>2 DEF Held
    <3> QED
      BY <3>3, <1>1
  <2> QED
    BY <1>1, <2>1, <2>2
<1> QED
  BY <1>1, <1>3 DEF Contract!Produce

\* So is each result that the delegate engine appends.
LEMMA AppendsOne ==
    ASSUME Inv, Inv', AppendOutput, UNCHANGED <<manager, collecting>>
    PROVE  Contract!Produce
<1>1. /\ pc = "outputs" /\ pc' = "outputs" /\ UNCHANGED <<calls, returned, engine>>
      /\ j \in Nat /\ j' = j + 1
  BY Numbers DEF AppendOutput, Step, manager, Inv
<1>2. /\ Len(output_tensor_') = j
      /\ \A n \in 1 .. j : output_tensor_'[n] = ResultOf(n)'
  <2>1. /\ Len(output_tensor_') = j' - 1
        /\ \A n \in 1 .. j' - 1 : output_tensor_'[n] = ResultOf(n)'
    BY <1>1 DEF Inv, ResultInv
  <2> QED
    BY <2>1, <1>1
<1>3. j # 0
  <2>1. j \in 1 .. NetOutputs + 1 /\ NetOutputs \in Nat
    BY Numbers DEF Inv, TypeOK, DTypeOK, NetOutputs
  <2> QED
    BY <2>1
<1>4. output_tensor_' # <<>>
  BY <1>1, <1>2, <1>3, EmptySeq
<1>5. output_tensor_'[Len(output_tensor_')].call = calls
  BY <1>1, <1>2, <1>3 DEF ResultOf
<1>6. engine' # "QnnInference"
  BY <1>1 DEF Inv, ClassInv, QnnPlaces, Common
<1>7. Held' \in [call : {calls}, whole : BOOLEAN]
  BY <1>4, <1>5, <1>6 DEF Held
<1> QED
  BY <1>1, <1>7 DEF Contract!Produce

\* Whoever answers SUCCESS holds all the results of the call, or none.
LEMMA AnswersCall ==
    ASSUME Inv, Inv',
           pc \in {"invoke", "outputs", "qnnExecute"}, pc' = "returned",
           UNCHANGED <<request, execution, output_tensor_, engine, whole>>,
           \/ returned' = "FAILURE"
           \/ returned' = "SUCCESS" /\ engine = "QnnDelegateInference"
           \/ /\ returned' = "SUCCESS" /\ engine = "QnnInference"
              /\ output_tensor_ \in {<<>>, <<ResultOf(1)>>}
              /\ output_tensor_ # <<>> => whole
    PROVE  Contract!Return
<1>1. UNCHANGED <<Held, calls>>
  BY DEF Held, NetOutputs, request, execution
<1>2. ASSUME returned' = "SUCCESS", engine = "QnnDelegateInference"
      PROVE  Held \in {Null, [call |-> calls, whole |-> TRUE]}
  <2>1. /\ \A n \in 1 .. Len(output_tensor_) : output_tensor_[n].call = calls
        /\ output_tensor_ = AllResults
    <3>1. /\ \A n \in 1 .. Len(output_tensor_') : output_tensor_'[n].call = calls'
          /\ output_tensor_' = AllResults'
      BY <1>2 DEF Inv, ResultInv
    <3> QED
      BY <3>1 DEF AllResults, ResultOf, NetOutputs, request, execution
  <2>2. ASSUME output_tensor_ # <<>>
        PROVE  Held = [call |-> calls, whole |-> TRUE]
    <3>1. output_tensor_ \in Seq(Out)
      BY DEF Inv, TypeOK, DTypeOK, Out
    <3>2. Len(output_tensor_) \in Nat \ {0}
      BY <2>2, <3>1, EmptySeq
    <3>3. output_tensor_[Len(output_tensor_)].call = calls
      BY <2>1, <3>2
    <3> QED
      BY <1>2, <2>1, <2>2, <3>3 DEF Held, AllResults, ResultOf
  <2> QED
    BY <2>2 DEF Held
<1>3. ASSUME engine = "QnnInference", output_tensor_ \in {<<>>, <<ResultOf(1)>>},
             output_tensor_ # <<>> => whole
      PROVE  Held \in {Null, [call |-> calls, whole |-> TRUE]}
  <2>1. CASE output_tensor_ = <<>>
    BY <2>1 DEF Held
  <2>2. CASE output_tensor_ = <<ResultOf(1)>>
    <3>1. output_tensor_ # <<>> /\ Len(output_tensor_) = 1 /\ whole = TRUE
      BY <2>2, <1>3 DEF Inv, TypeOK
    <3>2. output_tensor_[1].call = calls
      BY <2>2 DEF ResultOf
    <3> QED
      BY <1>3, <3>1, <3>2 DEF Held
  <2> QED
    BY <1>3, <2>1, <2>2
<1> QED
  BY <1>1, <1>2, <1>3 DEF Contract!Return

\* The results are taken.
LEMMA TakesResults ==
    ASSUME Inv, Inv', get_output_tensors PROVE Contract!Collect
<1>1. /\ pc = "returned" /\ pc' = "ready" /\ output_tensor_' = <<>>
      /\ UNCHANGED <<calls, returned>>
  BY DEF get_output_tensors, Step, execution
<1> QED
  BY <1>1 DEF Contract!Collect, Held

\* Every step of the manager is a step of the interface, or unseen by it.
LEMMA ManagerStep ==
    ASSUME Inv, Inv', [Next]_vars PROVE [Contract!ENext]_Contract!evars
<1> USE DEF Contract!ENext
<1>1. CASE StartSteps
  BY <1>1, StartsCall
<1>2. CASE QnnProduces
  BY <1>2, QnnProducesOne
<1>3. CASE QnnReturns
  <2>1. /\ pc = "qnnExecute" /\ pc' = "returned"
        /\ UNCHANGED <<request, execution, output_tensor_, engine, whole>>
        /\ \/ returned' = "FAILURE"
           \/ /\ returned' = "SUCCESS" /\ output_tensor_ \in {<<>>, <<ResultOf(1)>>}
              /\ output_tensor_ # <<>> => whole
    BY <1>3 DEF QnnReturns, Answer, ResultOf, manager, collecting
  <2>2. engine = "QnnInference"
    BY <2>1 DEF Inv, ClassInv, QnnPlaces
  <2> QED
    BY <2>1, <2>2, AnswersCall
<1>4. CASE get_output_tensors
  BY <1>4, TakesResults
<1>5. CASE AppendOutput /\ UNCHANGED <<manager, collecting>>
  BY <1>5, AppendsOne
<1>6. CASE AnswerSteps
  <2>1. /\ UNCHANGED <<request, execution, output_tensor_, engine, whole>>
        /\ \/ pc = "invoke" /\ pc' = "outputs" /\ returned' = returned
           \/ /\ pc \in {"invoke", "outputs"} /\ pc' = "returned"
              /\ returned' \in {"FAILURE", "SUCCESS"}
    BY <1>6 DEF AnswerSteps, InvokeFails, Invoke, AppendOutputFails, OutputsDone, Answer,
                Step, answers, manager, collecting
  <2>2. engine = "QnnDelegateInference"
    BY <2>1 DEF Inv, ClassInv, QnnPlaces, Common
  <2>3. CASE pc' = "outputs"
    <3>1. output_tensor_ = <<>> /\ output_tensor_' = <<>>
      BY <2>1, <2>3 DEF Inv, ResultInv
    <3> QED
      BY <2>1, <2>3, <3>1, HiddenStep DEF Running, execution
  <2>4. CASE pc' = "returned"
    BY <2>1, <2>2, <2>4, AnswersCall
  <2> QED
    BY <2>1, <2>3, <2>4
<1>7. CASE Construct \/ LifeSteps \/ BuildSteps
  <2>1. /\ UNCHANGED <<calls, returned, output_tensor_>>
        /\ {pc, pc'} \cap {"invoke", "outputs", "returned", "qnnExecute"} = {}
    BY <1>7 DEF Construct, LifeSteps, QnnInit, Destroy, DeleteQnn, BuildSteps,
                BuildFromFile, BuildInterpreter, Build, AllocateTensors, NoDelegate,
                CreateDelegate, UnknownBackend, ModifyGraph, DeleteDelegate,
                DeleteInterpreter, DeleteModel, Delete, InitStep, Step, execution, answers
  <2>2. output_tensor_ = <<>>
    BY <2>1 DEF Inv, ResultInv
  <2> QED
    BY <2>1, <2>2, HiddenStep DEF Running
<1>8. CASE UNCHANGED vars
  BY <1>8 DEF vars, request, execution, answers, manager, collecting, Contract!evars, Held,
              NetOutputs
<1> QED
  BY <1>1, <1>2, <1>3, <1>4, <1>5, <1>6, <1>7, <1>8
  DEF Next, StartSteps, LifeSteps, BuildSteps, AnswerSteps, EngineSteps

\* Whichever engine the manager has, and for any models and any calls, whoever
\* is answered SUCCESS through the interface holds the results of that call, all
\* of them or none; they never show through a later call.
THEOREM ImplementsEngineCorrect == Spec => ImplementsEngine
<1>1. Init => Contract!EInit
  <2> SUFFICES ASSUME Init PROVE Contract!EInit
    OBVIOUS
  <2>1. Held = Null
    BY DEF Init, DInit, Held
  <2>2. pc \notin {"invoke", "outputs", "qnnExecute"}
    BY DEF Init
  <2>3. calls = 0 /\ returned = "nothing"
    BY DEF Init, DInit
  <2> QED
    BY <2>1, <2>2, <2>3 DEF Contract!EInit
<1>2. Inv /\ Inv' /\ [Next]_vars => [Contract!ENext]_Contract!evars
  BY ManagerStep
<1> QED
  BY <1>1, <1>2, InvCorrect, PTL DEF Spec, ImplementsEngine, Contract!EngineSpec
=============================================================================
