----------------------------- MODULE DmaBufCache -----------------------------
(***************************************************************************)
(* The zero-copy path of the Qnn engine: the frame-to-frame cache of       *)
(* memory registrations that QnnInference::inference_execute_dmabuf keeps  *)
(* (qnn_inference.cpp:147-335), the collection of its results and its      *)
(* teardown.                                                               *)
(*                                                                         *)
(* A frame arrives as the number of a dma-buf descriptor.  The engine      *)
(* registers that buffer with the Qnn context (memRegister) and caches the *)
(* handle under the descriptor's NUMBER; the output buffers are allocated  *)
(* (rpcmem_alloc) and registered once and then reused by every frame.      *)
(*                                                                         *)
(* The engine has one caller at a time here.  A call is split at every     *)
(* call into the Qnn and rpcmem libraries, each of which may fail, and at  *)
(* every early return.  Payloads, shapes and sizes are abstracted: what    *)
(* the properties tell apart is which memory a handle maps and whether     *)
(* that memory is alive.                                                   *)
(***************************************************************************)
EXTENDS Integers, Sequences

CONSTANTS
    InMem,      \* the buffers frame producers own
    OutMem,     \* the buffers rpcmem_alloc may return
    Fd,         \* the valid (non-negative) descriptor numbers of frames
    Handle,     \* the memory handles memRegister may return
    Null,       \* nullptr, and "no descriptor" (-1)
    NumGraphs,  \* graphs_count_
    NumOut,     \* num_of_output_tensors of each graph
    Faults,     \* the library calls that may fail
    RecycleFds  \* whether a producer may close a frame and reuse its number

Mem == InMem \cup OutMem
Graph == 1 .. NumGraphs
FaultKinds ==
    {"setup", "deregister", "input", "output", "exec", "contextFree"}

ASSUME NullAssumption == Null \notin InMem \cup OutMem \cup Fd \cup Handle
ASSUME MemAssumption == InMem \cap OutMem = {} /\ InMem # {}
ASSUME GraphAssumption ==
    /\ NumGraphs \in Nat \ {0}
    /\ NumOut \in [1 .. NumGraphs -> Nat \ {0}]
ASSUME FaultAssumption == Faults \subseteq FaultKinds /\ RecycleFds \in BOOLEAN

VARIABLES
    fdMem,      \* the process's descriptor table: the buffer behind a number
    regMem,     \* the buffer a registered handle maps, Null if unregistered
    alive,      \* the output buffers allocated and not yet freed
    cached_input_fd, cached_input_handle,
    cached_output_buffers, cached_output_handles,
    dmabuf_cache_initialized,
    output_tensor,  \* the buffers the tensors of the last result refer to
    handed,     \* history: the buffers results given to the caller refer to
    pc,         \* where the call in progress stands
    fd, g, out_i  \* dmabuf_fd and the loop variables of the call

cacheVars == <<cached_input_fd, cached_input_handle, cached_output_buffers,
               cached_output_handles, dmabuf_cache_initialized>>
libVars == <<regMem, alive>>
resultVars == <<output_tensor, handed>>
callVars == <<fd, g, out_i>>
vars == <<fdMem, libVars, cacheVars, resultVars, pc, callVars>>

Places == {"idle", "setup", "input", "register", "output", "alloc", "bind",
           "exec", "outOfRange", "contextFreed", "gone"}

RangeOf(s) == {s[i] : i \in 1 .. Len(s)}

TypeOK ==
    /\ fdMem \in [Fd -> InMem]
    /\ regMem \in [Handle -> Mem \cup {Null}]
    /\ alive \subseteq OutMem
    /\ cached_input_fd \in Fd \cup {Null}
    /\ cached_input_handle \in Handle \cup {Null}
    /\ cached_output_buffers \in Seq(OutMem \cup {Null})
    /\ cached_output_handles \in Seq(Handle \cup {Null})
    /\ dmabuf_cache_initialized \in BOOLEAN
    /\ output_tensor \in Seq(OutMem)
    /\ handed \subseteq OutMem
    /\ pc \in Places
    /\ fd \in Fd \cup {Null}
    /\ g \in Nat \ {0}
    /\ out_i \in Nat

Init ==
    /\ fdMem \in [Fd -> InMem]
    /\ regMem = [h \in Handle |-> Null]
    /\ alive = {}
    /\ cached_input_fd = Null /\ cached_input_handle = Null
    /\ cached_output_buffers = <<>> /\ cached_output_handles = <<>>
    /\ dmabuf_cache_initialized = FALSE
    /\ output_tensor = <<>> /\ handed = {}
    /\ pc = "idle" /\ fd = Null /\ g = 1 /\ out_i = 1

-----------------------------------------------------------------------------
(* The libraries, as the engine uses them.                                 *)

\* memRegister: a handle that is not in use comes to map the buffer.
FreshHandles == {h \in Handle : regMem[h] = Null}

\* rpcmem_alloc: a buffer that is not in use.
FreshBuffers == OutMem \ alive

MapHandle(h, m) == regMem' = [regMem EXCEPT ![h] = m]

\* memDeRegister.
UnmapHandle(h) == regMem' = [regMem EXCEPT ![h] = Null]

\* Between two calls a producer closes its frame's descriptor, and the
\* kernel gives the same number to another buffer.
Recycle(f, m) ==
    /\ RecycleFds /\ pc = "idle"
    /\ fdMem' = [fdMem EXCEPT ![f] = m]
    /\ UNCHANGED <<libVars, cacheVars, resultVars, pc, callVars>>

-----------------------------------------------------------------------------
(* inference_execute_dmabuf, one action per library call or early return.  *)

Call(f) ==
    /\ pc = "idle"
    /\ fd' = f /\ g' = 1 /\ pc' = "setup"
    /\ UNCHANGED <<fdMem, libVars, cacheVars, resultVars, out_i>>

\* Every early return with StatusCode::FAILURE leaves the cache as it is.
Fail == pc' = "idle" /\ UNCHANGED <<fdMem, resultVars, callVars>>

SetupTensors ==
    /\ pc = "setup" /\ pc' = "input"
    /\ UNCHANGED <<fdMem, libVars, cacheVars, resultVars, callVars>>

SetupTensorsFails ==
    /\ pc = "setup" /\ "setup" \in Faults
    /\ Fail /\ UNCHANGED <<libVars, cacheVars>>

\* Faulty variants of the hit test: any cached handle will do; the number
\* alone decides; every frame registers its buffer anew.
InputCachedAnyFd == cached_input_handle # Null
InputCachedNullHandle == cached_input_fd = fd
InputCachedNever == FALSE

\* The hit test of the input cache.
InputCached == cached_input_fd = fd /\ cached_input_handle # Null

ReuseInput ==
    /\ pc = "input" /\ InputCached /\ pc' = "output"
    /\ UNCHANGED <<fdMem, libVars, cacheVars, resultVars, callVars>>

\* Faulty variant: the old registration is dropped without memDeRegister.
ReleaseOldInputForgotten == UNCHANGED regMem

\* A miss gives up the old handle; the result of memDeRegister is ignored.
ReleaseOldInput ==
    \/ cached_input_handle # Null /\ UnmapHandle(cached_input_handle)
    \/ /\ cached_input_handle # Null /\ "deregister" \in Faults
       /\ UNCHANGED regMem
    \/ cached_input_handle = Null /\ UNCHANGED regMem

DeregisterInput ==
    /\ pc = "input" /\ ~InputCached /\ pc' = "register"
    /\ ReleaseOldInput
    /\ cached_input_handle' = Null
    /\ UNCHANGED <<fdMem, alive, cached_input_fd, cached_output_buffers,
                   cached_output_handles, dmabuf_cache_initialized,
                   resultVars, callVars>>

RegisterInput(h) ==
    /\ pc = "register" /\ pc' = "output"
    /\ h \in FreshHandles /\ MapHandle(h, fdMem[fd])
    /\ cached_input_handle' = h
    /\ cached_input_fd' = fd
    /\ UNCHANGED <<fdMem, alive, cached_output_buffers, cached_output_handles,
                   dmabuf_cache_initialized, resultVars, callVars>>

RegisterInputFails ==
    /\ pc = "register"
    /\ "input" \in Faults
    /\ cached_input_handle' = Null
    /\ Fail
    /\ UNCHANGED <<libVars, cached_input_fd, cached_output_buffers,
                   cached_output_handles, dmabuf_cache_initialized>>

\* Faulty variant: one hit test for both caches.
ReuseOutputsWithInput ==
    /\ pc = "output" /\ cached_input_handle # Null /\ pc' = "bind"
    /\ UNCHANGED <<fdMem, libVars, cacheVars, resultVars, callVars>>

ReuseOutputs ==
    /\ pc = "output" /\ dmabuf_cache_initialized /\ pc' = "bind"
    /\ UNCHANGED <<fdMem, libVars, cacheVars, resultVars, callVars>>

\* std::vector::resize with nullptr for the new elements.
Resized(s, n) == [i \in 1 .. n |-> IF i <= Len(s) THEN s[i] ELSE Null]

\* Faulty variant: the cache counts as initialised before it is filled.
ResizeOutputsFlagFirst ==
    /\ pc = "output" /\ ~dmabuf_cache_initialized /\ pc' = "alloc"
    /\ cached_output_buffers' = Resized(cached_output_buffers, NumOut[g])
    /\ cached_output_handles' = Resized(cached_output_handles, NumOut[g])
    /\ out_i' = 1 /\ dmabuf_cache_initialized' = TRUE
    /\ UNCHANGED <<fdMem, libVars, cached_input_fd, cached_input_handle,
                   resultVars, fd, g>>

ResizeOutputs ==
    /\ pc = "output" /\ ~dmabuf_cache_initialized /\ pc' = "alloc"
    /\ cached_output_buffers' = Resized(cached_output_buffers, NumOut[g])
    /\ cached_output_handles' = Resized(cached_output_handles, NumOut[g])
    /\ out_i' = 1
    /\ UNCHANGED <<fdMem, libVars, cached_input_fd, cached_input_handle,
                   dmabuf_cache_initialized, resultVars, fd, g>>

\* Faulty variant: the buffer a slot held is not freed.
AllocOutputRawPointer(m, h) ==
    /\ pc = "alloc" /\ out_i <= NumOut[g]
    /\ m \in FreshBuffers /\ h \in FreshHandles
    /\ MapHandle(h, m)
    /\ alive' = alive \cup {m}
    /\ cached_output_buffers' = [cached_output_buffers EXCEPT ![out_i] = m]
    /\ cached_output_handles' = [cached_output_handles EXCEPT ![out_i] = h]
    /\ out_i' = out_i + 1
    /\ UNCHANGED <<fdMem, cached_input_fd, cached_input_handle,
                   dmabuf_cache_initialized, resultVars, pc, fd, g>>

\* rpcmem_alloc and memRegister succeed.  Storing the new RpcMemManager in
\* the slot destroys the one it held, whose destructor frees its buffer; the
\* handle the slot held is overwritten and not deregistered.
AllocOutput(m, h) ==
    /\ pc = "alloc" /\ out_i <= NumOut[g]
    /\ m \in FreshBuffers /\ h \in FreshHandles
    /\ MapHandle(h, m)
    /\ alive' = (alive \cup {m}) \ {cached_output_buffers[out_i]}
    /\ cached_output_buffers' = [cached_output_buffers EXCEPT ![out_i] = m]
    /\ cached_output_handles' = [cached_output_handles EXCEPT ![out_i] = h]
    /\ out_i' = out_i + 1
    /\ UNCHANGED <<fdMem, cached_input_fd, cached_input_handle,
                   dmabuf_cache_initialized, resultVars, pc, fd, g>>

\* RpcMemManager::init or alloc, or memRegister fails: the local
\* RpcMemManager frees what it had allocated.
AllocOutputFails ==
    /\ pc = "alloc" /\ out_i <= NumOut[g]
    /\ "output" \in Faults
    /\ Fail /\ UNCHANGED <<libVars, cacheVars>>

\* Faulty variant: the flag is never set.
AllocDoneWithoutFlag ==
    /\ pc = "alloc" /\ out_i > NumOut[g] /\ pc' = "bind"
    /\ UNCHANGED <<fdMem, libVars, cacheVars, resultVars, callVars>>

AllocDone ==
    /\ pc = "alloc" /\ out_i > NumOut[g] /\ pc' = "bind"
    /\ dmabuf_cache_initialized' = TRUE
    /\ UNCHANGED <<fdMem, libVars, cached_input_fd, cached_input_handle,
                   cached_output_buffers, cached_output_handles, resultVars,
                   callVars>>

\* The loop that puts cached_output_handles_[out_i] on the output tensors.
BindOutputs ==
    /\ pc = "bind" /\ NumOut[g] <= Len(cached_output_handles)
    /\ pc' = "exec"
    /\ UNCHANGED <<fdMem, libVars, cacheVars, resultVars, callVars>>

\* The same loop reads past the vector when this graph has more outputs than
\* the graph the cache was sized for: undefined behaviour, the end here.
BindOutOfRange ==
    /\ pc = "bind" /\ NumOut[g] > Len(cached_output_handles)
    /\ pc' = "outOfRange"
    /\ UNCHANGED <<fdMem, libVars, cacheVars, resultVars, callVars>>

\* graphExecute succeeds, output_tensor_ is rebuilt from the cache, and the
\* loop goes on with the next graph or the call returns.
Execute ==
    /\ pc = "exec"
    /\ output_tensor' = [i \in 1 .. NumOut[g] |-> cached_output_buffers[i]]
    /\ IF g < NumGraphs THEN g' = g + 1 /\ pc' = "setup"
                        ELSE g' = g /\ pc' = "idle"
    /\ UNCHANGED <<fdMem, libVars, cacheVars, handed, fd, out_i>>

ExecuteFails ==
    /\ pc = "exec" /\ "exec" \in Faults
    /\ Fail /\ UNCHANGED <<libVars, cacheVars>>

-----------------------------------------------------------------------------
(* get_output_tensors and ~QnnInference.                                   *)

\* The result list is moved out to the caller.
GetOutputs ==
    /\ pc = "idle"
    /\ handed' = handed \cup RangeOf(output_tensor)
    /\ output_tensor' = <<>>
    /\ UNCHANGED <<fdMem, libVars, cacheVars, pc, callVars>>

\* Faulty variant: the destructor never frees the context.
FreeContextSkipped ==
    /\ pc = "idle" /\ pc' = "contextFreed"
    /\ UNCHANGED <<fdMem, regMem, alive, cacheVars, resultVars,
                   callVars>>

\* contextFree drops every registration of the context; its failure is only
\* logged.
FreeContext ==
    /\ pc = "idle" /\ pc' = "contextFreed"
    /\ \/ regMem' = [h \in Handle |-> Null]
       \/ "contextFree" \in Faults /\ UNCHANGED regMem
    /\ UNCHANGED <<fdMem, alive, cacheVars, resultVars, callVars>>

\* The members are destroyed after the destructor's body: every
\* RpcMemManager in cached_output_buffers_ frees its buffer.
DestroyMembers ==
    /\ pc = "contextFreed" /\ pc' = "gone"
    /\ alive' = alive \ RangeOf(cached_output_buffers)
    /\ UNCHANGED <<fdMem, regMem, cacheVars, resultVars, callVars>>

-----------------------------------------------------------------------------
Next ==
    \/ \E f \in Fd : Call(f)
    \/ \E f \in Fd, m \in InMem : Recycle(f, m)
    \/ SetupTensors \/ SetupTensorsFails
    \/ ReuseInput \/ DeregisterInput
    \/ \E h \in Handle : RegisterInput(h)
    \/ RegisterInputFails
    \/ ReuseOutputs \/ ResizeOutputs
    \/ \E m \in OutMem, h \in Handle : AllocOutput(m, h)
    \/ AllocOutputFails \/ AllocDone
    \/ BindOutputs \/ BindOutOfRange
    \/ Execute \/ ExecuteFails
    \/ GetOutputs \/ FreeContext \/ DestroyMembers

Spec == Init /\ [][Next]_vars

-----------------------------------------------------------------------------
(* Properties.                                                             *)

\* The graph reads its input from the buffer of the frame being inferred:
\* the cached handle maps the buffer that the call's descriptor denotes NOW
\* (the cache of qnn_inference.cpp:174-226 is keyed by the number alone).
InputBindingSound ==
    pc = "exec" =>
        /\ cached_input_handle # Null
        /\ regMem[cached_input_handle] = fdMem[fd]

\* Even where numbers are recycled, the graph never runs on a handle that is
\* not registered, and the handle maps some producer's buffer, never an
\* output buffer: no failed or skipped (de)registration leaves a dangling
\* cached_input_handle_.
InputHandleRegistered ==
    pc = "exec" =>
        /\ cached_input_handle # Null
        /\ regMem[cached_input_handle] \in InMem

\* Every output tensor of the graph is bound to a handle that maps the live
\* buffer the result will name at the same position, and two outputs never
\* share a handle or a buffer, whatever failed in earlier calls.
OutputBindingSound ==
    pc = "exec" =>
        \A i \in 1 .. NumOut[g] :
            /\ cached_output_handles[i] # Null
            /\ cached_output_buffers[i] \in alive
            /\ regMem[cached_output_handles[i]] = cached_output_buffers[i]
            /\ \A j \in 1 .. NumOut[g] : i # j =>
                   /\ cached_output_handles[i] # cached_output_handles[j]
                   /\ cached_output_buffers[i] # cached_output_buffers[j]

\* A registration is never forgotten: each registered handle is still held
\* by the cache, so the device's mappings stay bounded over any number of
\* frames and the next miss can deregister it.
NoHandleLost ==
    \A h \in Handle : regMem[h] # Null =>
        h = cached_input_handle \/ h \in RangeOf(cached_output_handles)

\* The device never maps an output buffer that has been freed: not while
\* the cache is refilled, and not while the engine is torn down (contextFree
\* drops the mappings before the members free the memory).
RegisteredOutputAlive ==
    \A h \in Handle : regMem[h] \in OutMem => regMem[h] \in alive

\* The buffers a caller was given stay allocated as long as the engine
\* lives; the results say ptr = 0, so nobody else may free them
\* (qnn_inference.cpp:322-327).
HandedOutAlive == pc # "gone" => handed \subseteq alive

\* Nothing stays allocated once the engine is gone.
NoBufferLeaked == pc = "gone" => alive = {}

\* No graph has more outputs than the cache, which is sized once, by the
\* first graph of the first frame, has slots for: the loops that read
\* cached_output_handles_[out_i] and cached_output_fds_[out_i] stay inside.
BindInRange == pc # "outOfRange"
=============================================================================
