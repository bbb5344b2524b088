-------------------------- MODULE InferenceEngine --------------------------
(***************************************************************************)
(* What the interface QrbInference promises to whoever executes a model    *)
(* through it (qrb_inference.hpp:66-75): inference_execute answers SUCCESS *)
(* or FAILURE, and get_output_tensors hands over the results.  After       *)
(* SUCCESS the results are those of this very call, all of them, or there  *)
(* are none; after FAILURE they may be anything that is left.              *)
(***************************************************************************)
EXTENDS Naturals

CONSTANT Nothing    \* no results

VARIABLES
    calls,      \* the number of calls of inference_execute
    running,    \* a call is being executed
    held,       \* output_tensor_: Nothing, or the call it is from and whether
                \* it is all the outputs of one graph of that call
    answer      \* what the last call returned

evars == <<calls, running, held, answer>>

EInit == calls = 0 /\ running = FALSE /\ held = Nothing /\ answer = "nothing"

Start ==
    /\ ~running /\ running' = TRUE
    /\ calls' = calls + 1 /\ answer' = "nothing"
    /\ UNCHANGED held

\* A call that is refused at once, for its arguments.
Refuse ==
    /\ ~running /\ calls' = calls + 1 /\ answer' = "FAILURE"
    /\ UNCHANGED <<running, held>>

Produce ==
    /\ running
    /\ held' \in {Nothing} \cup [call : {calls}, whole : BOOLEAN]
    /\ UNCHANGED <<calls, running, answer>>

Return ==
    /\ running /\ running' = FALSE
    /\ \/ answer' = "FAILURE"
       \/ answer' = "SUCCESS" /\ held \in {Nothing, [call |-> calls, whole |-> TRUE]}
    /\ UNCHANGED <<calls, held>>

Collect ==
    /\ ~running /\ held' = Nothing
    /\ UNCHANGED <<calls, running, answer>>

ENext == Start \/ Refuse \/ Produce \/ Return \/ Collect

EngineSpec == EInit /\ [][ENext]_evars
=============================================================================
