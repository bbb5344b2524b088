---------------------------- MODULE DmaBufCallers ----------------------------
(***************************************************************************)
(* The zero-copy path of the Qnn engine under several threads.  The        *)
(* inference node calls inference_execute_dmabuf and get_output_tensors    *)
(* from a reentrant callback group (qrb_ros_inference_node.cpp:27-50), and *)
(* the engine has no lock: in a container with several executor threads,   *)
(* calls overlap on the one cache.                                         *)
(*                                                                         *)
(* One thread runs at a time, by the steps of DmaBufCache, and may be      *)
(* preempted between any two of them; the local variables of its call go   *)
(* with it.  Preemption inside a step, where members are written without   *)
(* synchronisation, is a data race that is left out.                       *)
(***************************************************************************)
EXTENDS DmaBufCache

CONSTANTS
    Other,      \* the threads besides the one that runs
    WarmUp      \* calls overlap only on a cache that has what they need

ASSUME CallersAssumption == WarmUp \in BOOLEAN

VARIABLES
    input_handle,   \* memHandle of the running call's io_tensors.inputs_[0]
    output_handles, \* memHandle of each of its io_tensors.outputs_
    suspended       \* the calls of the other threads

tensorVars == <<input_handle, output_handles>>
allVars == <<vars, tensorVars, suspended>>

\* The local variables of a call; an idle thread has none worth keeping.
RunningCall == [pc |-> pc, fd |-> fd, g |-> g, out_i |-> out_i,
                input |-> input_handle, outputs |-> output_handles]
NoCall == [pc |-> "idle", fd |-> Null, g |-> 1, out_i |-> 1,
           input |-> Null, outputs |-> <<>>]

CallersInit ==
    /\ Init /\ input_handle = Null /\ output_handles = <<>>
    /\ suspended = [t \in Other |-> NoCall]

\* The io_tensors get the handles that the cache has when each is bound.
BindInput ==
    input_handle' = IF pc # "output" /\ pc' = "output"
                    THEN cached_input_handle' ELSE input_handle
BindOutput ==
    output_handles' = IF pc = "bind" /\ pc' = "exec"
                      THEN SubSeq(cached_output_handles, 1, NumOut[g])
                      ELSE output_handles

Busy(t) == suspended[t].pc # "idle"

\* The running thread takes a step; the engine is only destroyed when no
\* callback is running.  With WarmUp a frame of another buffer comes when no
\* call is under way.
Step ==
    /\ Next /\ BindInput /\ BindOutput
    /\ pc' = "contextFreed" => \A t \in Other : ~Busy(t)
    /\ WarmUp /\ pc = "idle" /\ pc' = "setup" =>
           \A t \in Other : Busy(t) => fd' = suspended[t].fd
    /\ UNCHANGED suspended

\* The running call would hit both caches.
Settled == dmabuf_cache_initialized /\ cached_input_fd = fd
               /\ cached_input_handle # Null

\* The running thread is preempted and thread t goes on.
Switch(t) ==
    /\ pc \notin {"contextFreed", "gone", "outOfRange"}
    /\ WarmUp => pc = "idle" \/ Settled
    /\ suspended' = [suspended EXCEPT ![t] = RunningCall]
    /\ pc' = suspended[t].pc /\ fd' = suspended[t].fd
    /\ g' = suspended[t].g /\ out_i' = suspended[t].out_i
    /\ input_handle' = suspended[t].input
    /\ output_handles' = suspended[t].outputs
    /\ UNCHANGED <<fdMem, libVars, cacheVars, resultVars>>

CallersNext == Step \/ \E t \in Other : Switch(t)

CallersSpec == CallersInit /\ [][CallersNext]_allVars

-----------------------------------------------------------------------------
(* Properties.                                                             *)

\* From the moment a call has bound its tensors until its graphExecute
\* returns, the handles on them are registered: the input's maps the frame of
\* that call, the outputs' map live buffers, those that the results will name.
\* What another thread does to the cache meanwhile must not change it.
CallerHandlesSound ==
    \A c \in {RunningCall} \cup {suspended[t] : t \in Other} :
        c.pc = "exec" =>
            /\ c.input # Null /\ regMem[c.input] = fdMem[c.fd]
            /\ \A n \in 1 .. NumOut[c.g] :
                   /\ c.outputs[n] # Null
                   /\ regMem[c.outputs[n]] = cached_output_buffers[n]
                   /\ cached_output_buffers[n] \in alive
=============================================================================
