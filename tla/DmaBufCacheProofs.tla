------------------------- MODULE DmaBufCacheProofs -------------------------
(***************************************************************************)
(* Theorems about DmaBufCache for every value of its constants.            *)
(*                                                                         *)
(* The argument is in layers; each is inductive given the ones before it:  *)
(*   ShapeInv   types, where a call stands, how far the slots are filled;  *)
(*   SlotInv    a filled slot owns a live buffer and its registration;     *)
(*   InputInv   what the cached input handle maps;                         *)
(*   HandedInv  results name slots of an initialised cache;                *)
(*   LostInv    without failures of memDeRegister or of an output          *)
(*              allocation, the cache holds every registration.            *)
(***************************************************************************)
EXTENDS DmaBufCache, SequenceTheorems, TLAPS

Running ==
    {"setup", "input", "register", "output", "alloc", "bind", "exec"}

\* Where a call stands: only the first graph's turn can find the cache
\* uninitialised, and the cache is initialised once binding starts.
CallInv ==
    /\ pc \in Running => fd \in Fd /\ g \in Graph
    /\ pc \in Running /\ g # 1 => dmabuf_cache_initialized
    /\ pc \in {"bind", "exec"} => dmabuf_cache_initialized
    /\ pc = "alloc" =>
          ~dmabuf_cache_initialized /\ out_i \in 1 .. NumOut[g] + 1

\* The parallel vectors have the first graph's length once resized, and the
\* slots the filling loop has passed are filled.
FillInv ==
    /\ Len(cached_output_buffers) = Len(cached_output_handles)
    /\ Len(cached_output_buffers) \in {0, NumOut[1]}
    /\ dmabuf_cache_initialized \/ pc = "alloc" =>
          Len(cached_output_buffers) = NumOut[1]
    /\ pc = "exec" => NumOut[g] <= Len(cached_output_handles)
    /\ \A i \in 1 .. Len(cached_output_buffers) :
          dmabuf_cache_initialized \/ (pc = "alloc" /\ i < out_i) =>
              cached_output_buffers[i] # Null /\ cached_output_handles[i] # Null

ShapeInv == TypeOK /\ CallInv /\ FillInv

\* Until the context is freed, a filled slot owns a live buffer of its own
\* and its handle maps it; nothing else is allocated.
SlotInv ==
    /\ \A i \in 1 .. Len(cached_output_buffers) :
          /\ cached_output_buffers[i] = Null <=> cached_output_handles[i] = Null
          /\ pc # "gone" /\ cached_output_buffers[i] # Null =>
                cached_output_buffers[i] \in alive
          /\ pc \notin {"contextFreed", "gone"}
                /\ cached_output_handles[i] # Null =>
                regMem[cached_output_handles[i]] = cached_output_buffers[i]
          /\ \A j \in 1 .. Len(cached_output_buffers) :
                cached_output_buffers[i] = cached_output_buffers[j]
                    /\ cached_output_buffers[i] # Null => i = j
    /\ pc # "gone" => alive \subseteq RangeOf(cached_output_buffers)
    /\ pc = "gone" => alive = {}

\* What the cached input handle maps, and that binding starts only after the
\* hit test succeeded or the new buffer was registered.
InputInv ==
    /\ pc = "register" => cached_input_handle = Null
    /\ pc \notin {"contextFreed", "gone"} /\ cached_input_handle # Null =>
          regMem[cached_input_handle] \in InMem
    /\ pc \notin {"contextFreed", "gone"} /\ cached_input_handle # Null
          /\ ~RecycleFds =>
          /\ cached_input_fd \in Fd
          /\ regMem[cached_input_handle] = fdMem[cached_input_fd]
    /\ pc \in {"output", "alloc", "bind", "exec"} =>
          cached_input_handle # Null /\ cached_input_fd = fd

\* Only an initialised cache gives results, and they name its slots.
HandedInv ==
    /\ output_tensor # <<>> \/ handed # {} => dmabuf_cache_initialized
    /\ RangeOf(output_tensor) \cup handed \subseteq
          RangeOf(cached_output_buffers)

\* Without failing output allocations the filling loop only overwrites
\* empty slots.
EmptySlotInv ==
    "output" \notin Faults =>
        /\ ~dmabuf_cache_initialized /\ pc # "alloc" =>
              Len(cached_output_buffers) = 0
        /\ pc = "alloc" =>
              \A i \in out_i .. Len(cached_output_buffers) :
                  cached_output_buffers[i] = Null

LostInv ==
    "output" \notin Faults /\ "deregister" \notin Faults => NoHandleLost

\* Besides, contextFree has dropped every mapping before memory is freed.
AliveInv ==
    "output" \notin Faults /\ "contextFree" \notin Faults =>
        /\ RegisteredOutputAlive
        /\ pc \in {"contextFreed", "gone"} =>
              \A h \in Handle : regMem[h] = Null

Inv == ShapeInv /\ SlotInv /\ InputInv /\ HandedInv /\ EmptySlotInv
          /\ LostInv /\ AliveInv

-----------------------------------------------------------------------------
(* The vectors' operations.                                                *)

\* A function on 1 .. n is a vector of n elements.
LEMMA FunctionIsSeq ==
    ASSUME NEW S, NEW n \in Nat, NEW f \in [1 .. n -> S]
    PROVE  f \in Seq(S) /\ Len(f) = n
  OBVIOUS

\* std::vector::resize keeps the common prefix and fills up with nullptr.
LEMMA ResizedProperties ==
    ASSUME NEW S, NEW s \in Seq(S \cup {Null}), NEW n \in Nat
    PROVE  /\ Resized(s, n) \in Seq(S \cup {Null})
           /\ Len(Resized(s, n)) = n
           /\ \A i \in 1 .. n :
                 Resized(s, n)[i] = IF i <= Len(s) THEN s[i] ELSE Null
<1>1. \A i \in 1 .. n :
          (IF i <= Len(s) THEN s[i] ELSE Null) \in S \cup {Null}
  OBVIOUS
<1> QED
  BY <1>1 DEF Resized

\* What a slot-wise store does to the set of a vector's elements.
LEMMA RangeOfProperties ==
    ASSUME NEW S, NEW s \in Seq(S)
    PROVE  /\ RangeOf(s) \subseteq S
           /\ \A i \in 1 .. Len(s) : s[i] \in RangeOf(s)
           /\ RangeOf(<<>>) = {}
           /\ s # <<>> => Len(s) # 0
  BY DEF RangeOf

-----------------------------------------------------------------------------
(* Types and shape.                                                        *)

\* A fresh engine has its types and shape.
LEMMA ShapeInit == Init => ShapeInv
<1> SUFFICES ASSUME Init PROVE ShapeInv
  OBVIOUS
<1>1. regMem \in [Handle -> Mem \cup {Null}]
  BY GraphAssumption DEF Init
<1>2. Len(<<>>) = 0 /\ 1 .. Len(<<>>) = {}
  OBVIOUS
<1>3. /\ <<>> \in Seq(OutMem \cup {Null}) /\ <<>> \in Seq(OutMem)
      /\ <<>> \in Seq(Handle \cup {Null})
  OBVIOUS
<1>4. TypeOK
  <2>1. /\ cached_output_buffers \in Seq(OutMem \cup {Null})
        /\ cached_output_handles \in Seq(Handle \cup {Null})
        /\ output_tensor \in Seq(OutMem)
    BY <1>3 DEF Init
  <2>2. /\ fdMem \in [Fd -> InMem] /\ alive \subseteq OutMem
        /\ handed \subseteq OutMem /\ dmabuf_cache_initialized \in BOOLEAN
    BY DEF Init
  <2>3. /\ cached_input_fd \in Fd \cup {Null}
        /\ cached_input_handle \in Handle \cup {Null}
        /\ fd \in Fd \cup {Null}
    BY DEF Init
  <2>4. pc \in Places /\ g \in Nat \ {0} /\ out_i \in Nat
    BY DEF Init, Places
  <2> QED
    BY <1>1, <2>1, <2>2, <2>3, <2>4 DEF TypeOK
<1>5. CallInv /\ FillInv
  BY <1>2, GraphAssumption DEF Init, CallInv, FillInv, Running
<1> QED
  BY <1>4, <1>5 DEF ShapeInv

\* No step of a call, a failure or the destructor disturbs them.
LEMMA ShapeStep == ShapeInv /\ [Next]_vars => ShapeInv'
<1> SUFFICES ASSUME ShapeInv, [Next]_vars
             PROVE  ShapeInv'
  OBVIOUS
<1> USE NullAssumption, MemAssumption, GraphAssumption
<1> USE DEF ShapeInv, TypeOK, CallInv, FillInv, Places, Mem, Running, Graph
<1>1. ASSUME NEW f \in Fd, Call(f) PROVE ShapeInv'
  BY <1>1 DEF Call, libVars, cacheVars, resultVars
<1>2. ASSUME NEW f \in Fd, NEW m \in InMem, Recycle(f, m) PROVE ShapeInv'
  BY <1>2 DEF Recycle, libVars, cacheVars, resultVars, callVars
<1>3. CASE SetupTensors
  BY <1>3 DEF SetupTensors, libVars, cacheVars, resultVars, callVars
<1>4. CASE SetupTensorsFails
  BY <1>4 DEF SetupTensorsFails, Fail, libVars, cacheVars, resultVars, callVars
<1>5. CASE ReuseInput
  BY <1>5 DEF ReuseInput, libVars, cacheVars, resultVars, callVars
<1>6. CASE DeregisterInput
  <2>1. regMem' \in [Handle -> Mem \cup {Null}]
    <3>1. CASE cached_input_handle # Null /\ UnmapHandle(cached_input_handle)
      BY <3>1 DEF UnmapHandle
    <3>2. CASE UNCHANGED regMem
      BY <3>2
    <3> QED
      BY <1>6, <3>1, <3>2 DEF DeregisterInput, ReleaseOldInput
  <2> QED
    BY <1>6, <2>1 DEF DeregisterInput, resultVars, callVars
<1>7. ASSUME NEW h \in Handle, RegisterInput(h) PROVE ShapeInv'
  <2>1. regMem' \in [Handle -> Mem \cup {Null}]
    BY <1>7 DEF RegisterInput, MapHandle
  <2> QED
    BY <1>7, <2>1 DEF RegisterInput, resultVars, callVars
<1>8. CASE RegisterInputFails
  BY <1>8 DEF RegisterInputFails, Fail, libVars, resultVars, callVars
<1>9. CASE ReuseOutputs
  BY <1>9 DEF ReuseOutputs, libVars, cacheVars, resultVars, callVars
<1>10. CASE ResizeOutputs
  <2>1. g = 1 /\ NumOut[1] \in Nat \ {0}
    BY <1>10 DEF ResizeOutputs
  <2>2. /\ cached_output_buffers' \in Seq(OutMem \cup {Null})
        /\ cached_output_handles' \in Seq(Handle \cup {Null})
        /\ Len(cached_output_buffers') = NumOut[1]
        /\ Len(cached_output_handles') = NumOut[1]
    <3>1. /\ cached_output_buffers' = Resized(cached_output_buffers, NumOut[1])
          /\ cached_output_handles' = Resized(cached_output_handles, NumOut[1])
          /\ NumOut[1] \in Nat
      BY <1>10, <2>1 DEF ResizeOutputs
    <3>2. /\ cached_output_buffers \in Seq(OutMem \cup {Null})
          /\ cached_output_handles \in Seq(Handle \cup {Null})
      OBVIOUS
    <3>3. /\ cached_output_buffers' \in Seq(OutMem \cup {Null})
          /\ Len(cached_output_buffers') = NumOut[1]
      BY ONLY <3>1, <3>2, ResizedProperties
    <3>4. /\ cached_output_handles' \in Seq(Handle \cup {Null})
          /\ Len(cached_output_handles') = NumOut[1]
      BY ONLY <3>1, <3>2, ResizedProperties
    <3> QED
      BY <3>3, <3>4
  <2> QED
    BY <1>10, <2>1, <2>2 DEF ResizeOutputs, libVars, resultVars
<1>11. ASSUME NEW m \in OutMem, NEW h \in Handle, AllocOutput(m, h)
       PROVE ShapeInv'
  <2>1. g = 1 /\ out_i \in 1 .. Len(cached_output_buffers)
    BY <1>11 DEF AllocOutput
  <2>2. /\ cached_output_buffers' \in Seq(OutMem \cup {Null})
        /\ Len(cached_output_buffers') = Len(cached_output_buffers)
        /\ \A i \in 1 .. Len(cached_output_buffers) :
              cached_output_buffers'[i] =
                  IF i = out_i THEN m ELSE cached_output_buffers[i]
    <3>1. m \in OutMem \cup {Null}
      OBVIOUS
    <3> QED
      BY <1>11, <2>1, <3>1, ExceptSeq DEF AllocOutput
  <2>3. /\ cached_output_handles' \in Seq(Handle \cup {Null})
        /\ Len(cached_output_handles') = Len(cached_output_handles)
        /\ \A i \in 1 .. Len(cached_output_handles) :
              cached_output_handles'[i] =
                  IF i = out_i THEN h ELSE cached_output_handles[i]
    <3>1. h \in Handle \cup {Null}
      OBVIOUS
    <3> QED
      BY <1>11, <2>1, <3>1, ExceptSeq DEF AllocOutput
  <2>4. regMem' \in [Handle -> Mem \cup {Null}]
    BY <1>11, <2>1 DEF AllocOutput, MapHandle
  <2>5. TypeOK' /\ CallInv'
    BY <1>11, <2>1, <2>2, <2>3, <2>4 DEF AllocOutput, resultVars
  <2>6. FillInv'
    BY <1>11, <2>1, <2>2, <2>3 DEF AllocOutput
  <2> QED
    BY <2>5, <2>6
<1>12. CASE AllocOutputFails
  BY <1>12 DEF AllocOutputFails, Fail, libVars, cacheVars, resultVars, callVars
<1>13. CASE AllocDone
  BY <1>13 DEF AllocDone, libVars, resultVars, callVars
<1>14. CASE BindOutputs
  BY <1>14 DEF BindOutputs, libVars, cacheVars, resultVars, callVars
<1>15. CASE BindOutOfRange
  BY <1>15 DEF BindOutOfRange, libVars, cacheVars, resultVars, callVars
<1>16. CASE Execute
  <2>1. output_tensor' \in Seq(OutMem)
    <3>1. \A i \in 1 .. NumOut[g] : cached_output_buffers[i] \in OutMem
      BY <1>16 DEF Execute
    <3>2. /\ output_tensor' \in [1 .. NumOut[g] -> OutMem]
          /\ NumOut[g] \in Nat
      BY <1>16, <3>1 DEF Execute
    <3> QED
      BY <3>2, FunctionIsSeq
  <2> QED
    BY <1>16, <2>1 DEF Execute, libVars, cacheVars
<1>17. CASE ExecuteFails
  BY <1>17 DEF ExecuteFails, Fail, libVars, cacheVars, resultVars, callVars
<1>18. CASE GetOutputs
  BY <1>18, RangeOfProperties DEF GetOutputs, libVars, cacheVars, callVars
<1>19. CASE FreeContext
  <2>1. regMem' \in [Handle -> Mem \cup {Null}]
    BY <1>19 DEF FreeContext
  <2> QED
    BY <1>19, <2>1 DEF FreeContext, cacheVars, resultVars, callVars
<1>20. CASE DestroyMembers
  BY <1>20 DEF DestroyMembers, cacheVars, resultVars, callVars
<1>21. CASE UNCHANGED vars
  BY <1>21 DEF vars, libVars, cacheVars, resultVars, callVars
<1> QED
  BY <1>1, <1>2, <1>3, <1>4, <1>5, <1>6, <1>7, <1>8, <1>9, <1>10, <1>11,
     <1>12, <1>13, <1>14, <1>15, <1>16, <1>17, <1>18, <1>19, <1>20, <1>21
  DEF Next

\* Every variable keeps its type in every reachable state.
THEOREM ShapeCorrect == Spec => []ShapeInv
  BY ShapeInit, ShapeStep, PTL DEF Spec

-----------------------------------------------------------------------------
(* Slots and the input handle: each needs the other, for an input handle   *)
(* and a slot's handle differ because they map different kinds of memory.  *)

\* The steps that touch neither the registrations nor the slots.
QuietStep ==
    \/ \E f \in Fd : Call(f)
    \/ \E f \in Fd, m \in InMem : Recycle(f, m)
    \/ SetupTensors \/ SetupTensorsFails \/ ReuseInput
    \/ RegisterInputFails \/ ReuseOutputs
    \/ AllocOutputFails \/ AllocDone \/ BindOutputs \/ BindOutOfRange
    \/ Execute \/ ExecuteFails \/ GetOutputs

\* The steps that touch neither the output slots nor what is registered.
LEMMA QuietStepFrame ==
    QuietStep =>
        /\ UNCHANGED <<regMem, alive, cached_output_buffers,
                       cached_output_handles>>
        /\ pc \notin {"contextFreed", "gone"}
        /\ pc' \notin {"contextFreed", "gone"}
  BY DEF QuietStep, Call, Recycle, SetupTensors, SetupTensorsFails, ReuseInput,
         RegisterInputFails, ReuseOutputs, AllocOutputFails, AllocDone,
         BindOutputs, BindOutOfRange, Execute, ExecuteFails, GetOutputs, Fail,
         libVars, cacheVars

\* A fresh engine has no slots.
LEMMA SlotInit == Init => SlotInv
<1> SUFFICES ASSUME Init PROVE SlotInv
  OBVIOUS
<1>1. Len(cached_output_buffers) = 0 /\ alive = {} /\ pc = "idle"
  BY DEF Init
<1> QED
  BY <1>1 DEF SlotInv

\* Every step keeps the filled slots sound.
LEMMA SlotStep ==
    ShapeInv /\ SlotInv /\ InputInv /\ [Next]_vars => SlotInv'
<1> SUFFICES ASSUME ShapeInv, SlotInv, InputInv, [Next]_vars PROVE SlotInv'
  OBVIOUS
<1> USE NullAssumption, MemAssumption
<1>1. CASE QuietStep
  BY <1>1, QuietStepFrame DEF SlotInv, RangeOf
<1>2. CASE DeregisterInput
  <2>1. ASSUME NEW i \in 1 .. Len(cached_output_buffers),
               cached_output_handles[i] # Null
        PROVE  regMem'[cached_output_handles[i]] = cached_output_buffers[i]
    <3>1. /\ regMem[cached_output_handles[i]] = cached_output_buffers[i]
          /\ cached_output_buffers[i] \in OutMem
          /\ cached_output_handles[i] \in Handle
      BY <1>2, <2>1 DEF DeregisterInput, SlotInv, ShapeInv, TypeOK, FillInv
    <3>2. cached_input_handle # Null =>
              regMem[cached_input_handle] \in InMem
      BY <1>2 DEF DeregisterInput, InputInv
    <3>3. cached_input_handle # cached_output_handles[i]
      BY <3>1, <3>2
    <3> QED
      BY <1>2, <3>1, <3>3
      DEF DeregisterInput, ReleaseOldInput, UnmapHandle, ShapeInv, TypeOK
  <2> QED
    BY <1>2, <2>1 DEF DeregisterInput, SlotInv, RangeOf
<1>3. ASSUME NEW h \in Handle, RegisterInput(h) PROVE SlotInv'
  <2>1. ASSUME NEW i \in 1 .. Len(cached_output_buffers),
               cached_output_handles[i] # Null
        PROVE  regMem'[cached_output_handles[i]] = cached_output_buffers[i]
    <3>1. /\ regMem[cached_output_handles[i]] = cached_output_buffers[i]
          /\ cached_output_buffers[i] \in OutMem
          /\ cached_output_handles[i] \in Handle
      BY <1>3, <2>1 DEF RegisterInput, SlotInv, ShapeInv, TypeOK, FillInv
    <3>2. h # cached_output_handles[i]
      BY <1>3, <3>1 DEF RegisterInput, FreshHandles
    <3> QED
      BY <1>3, <3>1, <3>2 DEF RegisterInput, MapHandle, ShapeInv, TypeOK
  <2> QED
    BY <1>3, <2>1 DEF RegisterInput, SlotInv, RangeOf
<1>4. CASE ResizeOutputs
  <2>1. g = 1 /\ NumOut[1] \in Nat \ {0}
    BY <1>4, GraphAssumption
    DEF ResizeOutputs, ShapeInv, CallInv, Running
  <2>2. /\ cached_output_buffers \in Seq(OutMem \cup {Null})
        /\ cached_output_handles \in Seq(Handle \cup {Null})
    BY DEF ShapeInv, TypeOK
  <2>3. /\ cached_output_buffers' = Resized(cached_output_buffers, NumOut[1])
        /\ cached_output_handles' = Resized(cached_output_handles, NumOut[1])
        /\ UNCHANGED <<regMem, alive>> /\ pc = "output" /\ pc' = "alloc"
    BY <1>4, <2>1 DEF ResizeOutputs, libVars
  <2>4. /\ Len(cached_output_buffers') = NumOut[1]
        /\ \A i \in 1 .. NumOut[1] :
              cached_output_buffers'[i] =
                  IF i <= Len(cached_output_buffers)
                  THEN cached_output_buffers[i] ELSE Null
    BY ONLY <2>1, <2>2, <2>3, ResizedProperties
  <2>5. \A i \in 1 .. NumOut[1] :
            cached_output_handles'[i] =
                IF i <= Len(cached_output_handles)
                THEN cached_output_handles[i] ELSE Null
    BY ONLY <2>1, <2>2, <2>3, ResizedProperties
  <2>6. /\ Len(cached_output_buffers) = Len(cached_output_handles)
        /\ Len(cached_output_buffers) \in {0, NumOut[1]}
    BY DEF ShapeInv, FillInv
  <2>7. RangeOf(cached_output_buffers) \subseteq RangeOf(cached_output_buffers')
    BY <2>1, <2>4, <2>6 DEF RangeOf
  <2> QED
    BY <2>1, <2>3, <2>4, <2>5, <2>6, <2>7 DEF SlotInv
<1>5. ASSUME NEW m \in OutMem, NEW h \in Handle, AllocOutput(m, h)
      PROVE SlotInv'
  <2>1. /\ out_i \in 1 .. Len(cached_output_buffers)
        /\ Len(cached_output_buffers) = Len(cached_output_handles)
        /\ pc = "alloc" /\ pc' = "alloc"
    BY <1>5, GraphAssumption
    DEF AllocOutput, ShapeInv, CallInv, FillInv, Running
  <2>2. /\ Len(cached_output_buffers') = Len(cached_output_buffers)
        /\ \A i \in 1 .. Len(cached_output_buffers) :
              cached_output_buffers'[i] =
                  IF i = out_i THEN m ELSE cached_output_buffers[i]
        /\ \A i \in 1 .. Len(cached_output_buffers) :
              cached_output_handles'[i] =
                  IF i = out_i THEN h ELSE cached_output_handles[i]
    BY <1>5, <2>1 DEF AllocOutput, ShapeInv, TypeOK
  <2>3. ASSUME NEW i \in 1 .. Len(cached_output_buffers)
        PROVE  cached_output_buffers'[i] # Null =>
                   cached_output_buffers'[i] \in alive'
    BY <1>5, <2>1, <2>2 DEF AllocOutput, FreshBuffers, SlotInv
  <2>4. ASSUME NEW i \in 1 .. Len(cached_output_buffers),
               cached_output_handles'[i] # Null
        PROVE  regMem'[cached_output_handles'[i]] = cached_output_buffers'[i]
    <3>1. CASE i = out_i
      BY <1>5, <2>2, <3>1 DEF AllocOutput, MapHandle, ShapeInv, TypeOK
    <3>2. CASE i # out_i
      <4>1. /\ cached_output_handles[i] \in Handle
            /\ cached_output_buffers[i] # Null
            /\ regMem[cached_output_handles[i]] = cached_output_buffers[i]
        BY <2>1, <2>2, <2>4, <3>2 DEF SlotInv, ShapeInv, TypeOK
      <4>2. cached_output_handles[i] # h
        BY <1>5, <4>1 DEF AllocOutput, FreshHandles
      <4> QED
        BY <1>5, <2>2, <3>2, <4>1, <4>2
        DEF AllocOutput, MapHandle, ShapeInv, TypeOK
    <3> QED
      BY <3>1, <3>2
  <2>5. ASSUME NEW i \in 1 .. Len(cached_output_buffers),
               NEW j \in 1 .. Len(cached_output_buffers),
               cached_output_buffers'[i] = cached_output_buffers'[j],
               cached_output_buffers'[i] # Null
        PROVE  i = j
    BY <1>5, <2>1, <2>2, <2>5 DEF AllocOutput, FreshBuffers, SlotInv
  <2>6. ASSUME NEW i \in 1 .. Len(cached_output_buffers)
        PROVE  cached_output_buffers'[i] = Null <=>
                   cached_output_handles'[i] = Null
    BY <2>2 DEF SlotInv
  <2>7. alive' \subseteq RangeOf(cached_output_buffers')
    BY <1>5, <2>1, <2>2 DEF AllocOutput, SlotInv, RangeOf
  <2> QED
    BY <2>1, <2>2, <2>3, <2>4, <2>5, <2>6, <2>7 DEF SlotInv
<1>6. CASE FreeContext
  BY <1>6 DEF FreeContext, cacheVars, SlotInv, RangeOf
<1>7. CASE DestroyMembers
  BY <1>7 DEF DestroyMembers, cacheVars, SlotInv, RangeOf
<1>8. CASE UNCHANGED vars
  BY <1>8 DEF vars, libVars, cacheVars, SlotInv, RangeOf
<1> QED
  BY <1>1, <1>2, <1>3, <1>4, <1>5, <1>6, <1>7, <1>8 DEF Next, QuietStep

\* A fresh engine has no input handle.
LEMMA InputInit == Init => InputInv
  BY DEF Init, InputInv

\* Every step keeps the cached input handle and its descriptor in step.
LEMMA InputStep ==
    ShapeInv /\ SlotInv /\ InputInv /\ [Next]_vars => InputInv'
<1> SUFFICES ASSUME ShapeInv, SlotInv, InputInv, [Next]_vars PROVE InputInv'
  OBVIOUS
<1> USE NullAssumption, MemAssumption
<1>1. ASSUME NEW f \in Fd, Call(f) PROVE InputInv'
  BY <1>1 DEF Call, libVars, cacheVars, InputInv
<1>2. ASSUME NEW f \in Fd, NEW m \in InMem, Recycle(f, m) PROVE InputInv'
  BY <1>2 DEF Recycle, libVars, cacheVars, callVars, InputInv
<1>3. CASE ReuseInput
  BY <1>3 DEF ReuseInput, InputCached, libVars, cacheVars, callVars, InputInv
<1>4. CASE DeregisterInput
  BY <1>4 DEF DeregisterInput, callVars, InputInv
<1>5. ASSUME NEW h \in Handle, RegisterInput(h) PROVE InputInv'
  <2>1. fd \in Fd /\ fdMem[fd] \in InMem
    BY <1>5 DEF RegisterInput, ShapeInv, TypeOK, CallInv, Running
  <2>2. regMem'[h] = fdMem[fd]
    BY <1>5 DEF RegisterInput, MapHandle, ShapeInv, TypeOK
  <2> QED
    BY <1>5, <2>1, <2>2 DEF RegisterInput, callVars, InputInv
<1>6. CASE RegisterInputFails
  BY <1>6 DEF RegisterInputFails, Fail, InputInv
<1>7. CASE ResizeOutputs
  BY <1>7 DEF ResizeOutputs, libVars, InputInv
<1>8. ASSUME NEW m \in OutMem, NEW h \in Handle, AllocOutput(m, h)
      PROVE InputInv'
  <2>1. /\ cached_input_handle \in Handle
        /\ regMem[cached_input_handle] \in InMem
    BY <1>8 DEF AllocOutput, InputInv, ShapeInv, TypeOK
  <2>2. cached_input_handle # h
    BY <1>8, <2>1 DEF AllocOutput, FreshHandles
  <2>3. regMem'[cached_input_handle] = regMem[cached_input_handle]
    BY <1>8, <2>1, <2>2 DEF AllocOutput, MapHandle, ShapeInv, TypeOK
  <2> QED
    BY <1>8, <2>1, <2>3 DEF AllocOutput, InputInv
<1>9. CASE SetupTensors \/ SetupTensorsFails \/ ReuseOutputs
              \/ AllocOutputFails \/ AllocDone \/ BindOutputs \/ BindOutOfRange
  BY <1>9 DEF SetupTensors, SetupTensorsFails, ReuseOutputs, AllocOutputFails,
              AllocDone, BindOutputs, BindOutOfRange, Fail,
              libVars, cacheVars, callVars, InputInv
<1>10. CASE Execute \/ ExecuteFails \/ GetOutputs
  BY <1>10 DEF Execute, ExecuteFails, GetOutputs, Fail,
               libVars, cacheVars, callVars, InputInv
<1>11. CASE FreeContext \/ DestroyMembers
  BY <1>11 DEF FreeContext, DestroyMembers, InputInv
<1>12. CASE UNCHANGED vars
  BY <1>12 DEF vars, libVars, cacheVars, callVars, InputInv
<1> QED
  BY <1>1, <1>2, <1>3, <1>4, <1>5, <1>6, <1>7, <1>8, <1>9, <1>10, <1>11, <1>12
  DEF Next

\* Slots and input handle are sound in every reachable state.
THEOREM SlotsCorrect == Spec => [](ShapeInv /\ SlotInv /\ InputInv)
<1>1. Init => ShapeInv /\ SlotInv /\ InputInv
  BY ShapeInit, SlotInit, InputInit
<1>2. ShapeInv /\ SlotInv /\ InputInv /\ [Next]_vars =>
          (ShapeInv /\ SlotInv /\ InputInv)'
  BY ShapeStep, SlotStep, InputStep
<1> QED
  BY <1>1, <1>2, PTL DEF Spec

-----------------------------------------------------------------------------
(* What results name.                                                      *)

\* A fresh engine has handed out nothing.
LEMMA HandedInit == Init => HandedInv
  BY DEF Init, HandedInv, RangeOf

\* What was handed out stays in a slot of the initialised cache.
LEMMA HandedStep ==
    ShapeInv /\ HandedInv /\ [Next]_vars => HandedInv'
<1> SUFFICES ASSUME ShapeInv, HandedInv, [Next]_vars PROVE HandedInv'
  OBVIOUS
<1>1. CASE UNCHANGED <<output_tensor, handed, cached_output_buffers>>
              /\ (dmabuf_cache_initialized => dmabuf_cache_initialized')
  BY <1>1 DEF HandedInv, RangeOf
<1>2. CASE ResizeOutputs \/ \E m \in OutMem, h \in Handle : AllocOutput(m, h)
  <2>1. ~dmabuf_cache_initialized /\ UNCHANGED <<output_tensor, handed>>
    BY <1>2 DEF ResizeOutputs, AllocOutput, resultVars, ShapeInv, CallInv
  <2>2. output_tensor = <<>> /\ handed = {}
    BY <2>1 DEF HandedInv
  <2> QED
    BY <2>1, <2>2 DEF HandedInv, RangeOf
<1>3. CASE Execute
  <2>1. /\ NumOut[g] \in Nat
        /\ NumOut[g] <= Len(cached_output_buffers)
        /\ Len(cached_output_buffers) \in Nat
        /\ dmabuf_cache_initialized
    BY <1>3, GraphAssumption
    DEF Execute, ShapeInv, TypeOK, CallInv, FillInv, Running, Graph
  <2>2. /\ output_tensor' = [i \in 1 .. NumOut[g] |-> cached_output_buffers[i]]
        /\ UNCHANGED <<handed, cached_output_buffers, dmabuf_cache_initialized>>
    BY <1>3 DEF Execute, cacheVars
  <2>3. Len(output_tensor') = NumOut[g]
    BY <2>1, <2>2
  <2>4. RangeOf(output_tensor') \subseteq RangeOf(cached_output_buffers)
    BY <2>1, <2>2, <2>3 DEF RangeOf
  <2> QED
    BY <2>1, <2>2, <2>4 DEF HandedInv, RangeOf
<1>4. CASE GetOutputs
  <2>1. RangeOf(<<>>) = {}
    BY DEF RangeOf
  <2>2. RangeOf(output_tensor) # {} => output_tensor # <<>>
    BY <2>1
  <2> QED
    BY <1>4, <2>1, <2>2 DEF GetOutputs, cacheVars, HandedInv, RangeOf
<1>5. SetupTensors \/ SetupTensorsFails \/ ReuseInput \/ DeregisterInput
        \/ RegisterInputFails \/ ReuseOutputs \/ AllocOutputFails \/ AllocDone
        \/ BindOutputs \/ BindOutOfRange \/ ExecuteFails \/ FreeContext
        \/ DestroyMembers \/ UNCHANGED vars
        \/ (\E f \in Fd : Call(f))
        \/ (\E f \in Fd, m \in InMem : Recycle(f, m))
        \/ (\E h \in Handle : RegisterInput(h)) =>
            UNCHANGED <<output_tensor, handed, cached_output_buffers>>
              /\ (dmabuf_cache_initialized => dmabuf_cache_initialized')
  BY DEF SetupTensors, SetupTensorsFails, ReuseInput, DeregisterInput,
         RegisterInputFails, ReuseOutputs, AllocOutputFails, AllocDone,
         BindOutputs, BindOutOfRange, ExecuteFails, FreeContext,
         DestroyMembers, vars, Call, Recycle, RegisterInput, Fail,
         cacheVars, resultVars
<1> QED
  BY <1>1, <1>2, <1>3, <1>4, <1>5 DEF Next

-----------------------------------------------------------------------------
(* Without failing output allocations.                                     *)

\* A fresh engine has no slot to overwrite.
LEMMA EmptySlotInit == Init => EmptySlotInv
  BY DEF Init, EmptySlotInv

\* Without failing allocations the loop moves past each slot once.
LEMMA EmptySlotStep ==
    ShapeInv /\ EmptySlotInv /\ [Next]_vars => EmptySlotInv'
<1> SUFFICES ASSUME ShapeInv, EmptySlotInv, [Next]_vars,
                    "output" \notin Faults
             PROVE  EmptySlotInv'
  BY DEF EmptySlotInv
<1>1. CASE ResizeOutputs
  <2>1. /\ Len(cached_output_buffers) = 0
        /\ cached_output_buffers \in Seq(OutMem \cup {Null})
        /\ NumOut[g] \in Nat
        /\ cached_output_buffers' = Resized(cached_output_buffers, NumOut[g])
        /\ pc' = "alloc" /\ out_i' = 1
    BY <1>1, GraphAssumption
    DEF ResizeOutputs, EmptySlotInv, ShapeInv, TypeOK, CallInv, Running, Graph
  <2>2. /\ Len(cached_output_buffers') = NumOut[g]
        /\ \A i \in 1 .. NumOut[g] : cached_output_buffers'[i] = Null
    <3>1. /\ Len(Resized(cached_output_buffers, NumOut[g])) = NumOut[g]
          /\ \A i \in 1 .. NumOut[g] :
                Resized(cached_output_buffers, NumOut[g])[i] =
                    IF i <= Len(cached_output_buffers)
                    THEN cached_output_buffers[i] ELSE Null
      BY ONLY <2>1, ResizedProperties
    <3> QED
      BY ONLY <2>1, <3>1
  <2> QED
    BY <2>1, <2>2 DEF EmptySlotInv
<1>2. ASSUME NEW m \in OutMem, NEW h \in Handle, AllocOutput(m, h)
      PROVE EmptySlotInv'
  <2>1. /\ pc = "alloc" /\ pc' = "alloc"
        /\ out_i \in Nat /\ out_i' = out_i + 1
        /\ Len(cached_output_buffers') = Len(cached_output_buffers)
        /\ \A i \in 1 .. Len(cached_output_buffers) : i # out_i =>
              cached_output_buffers'[i] = cached_output_buffers[i]
        /\ out_i \in 1 .. Len(cached_output_buffers)
    BY <1>2, GraphAssumption
    DEF AllocOutput, ShapeInv, TypeOK, CallInv, FillInv, Running
  <2> QED
    BY <2>1 DEF EmptySlotInv
<1>3. CASE AllocDone
  BY <1>3 DEF AllocDone, EmptySlotInv
<1>4. CASE UNCHANGED <<cached_output_buffers, dmabuf_cache_initialized, out_i>>
              /\ (pc = "alloc" <=> pc' = "alloc")
  BY <1>4 DEF EmptySlotInv
<1>5. SetupTensors \/ SetupTensorsFails \/ ReuseInput \/ DeregisterInput
        \/ RegisterInputFails \/ ReuseOutputs
        \/ BindOutputs \/ BindOutOfRange \/ Execute \/ ExecuteFails
        \/ GetOutputs \/ FreeContext \/ DestroyMembers \/ UNCHANGED vars
        \/ (\E f \in Fd : Call(f))
        \/ (\E f \in Fd, m \in InMem : Recycle(f, m))
        \/ (\E h \in Handle : RegisterInput(h)) =>
            /\ UNCHANGED <<cached_output_buffers, dmabuf_cache_initialized,
                           out_i>>
            /\ pc = "alloc" <=> pc' = "alloc"
  BY DEF SetupTensors, SetupTensorsFails, ReuseInput, DeregisterInput,
         RegisterInputFails, ReuseOutputs, BindOutputs, BindOutOfRange,
         Execute, ExecuteFails, GetOutputs, FreeContext, DestroyMembers, vars,
         Call, Recycle, RegisterInput, Fail, cacheVars, callVars
<1>6. ~AllocOutputFails
  BY DEF AllocOutputFails
<1> QED
  BY <1>1, <1>2, <1>3, <1>4, <1>5, <1>6 DEF Next

\* A slot that is about to be filled is empty, so filling it overwrites no
\* handle and frees no buffer.
LEMMA FilledSlotWasEmpty ==
    ASSUME ShapeInv, SlotInv, EmptySlotInv, "output" \notin Faults,
           NEW m \in OutMem, NEW h \in Handle, AllocOutput(m, h)
    PROVE  /\ out_i \in 1 .. Len(cached_output_buffers)
           /\ out_i \in 1 .. Len(cached_output_handles)
           /\ cached_output_buffers[out_i] = Null
           /\ cached_output_handles[out_i] = Null
<1>1. /\ out_i \in 1 .. Len(cached_output_buffers)
      /\ Len(cached_output_buffers) = Len(cached_output_handles)
      /\ pc = "alloc"
  BY GraphAssumption DEF AllocOutput, ShapeInv, CallInv, FillInv, Running
<1>2. cached_output_buffers[out_i] = Null
  BY <1>1 DEF EmptySlotInv
<1> QED
  BY <1>1, <1>2 DEF SlotInv

\* Initially nothing is registered.
LEMMA LostInit == Init => LostInv
  BY DEF Init, LostInv, NoHandleLost

\* A step that forgets a handle without deregistering it needs a failure.
LEMMA LostStep ==
    ShapeInv /\ SlotInv /\ InputInv /\ EmptySlotInv /\ LostInv /\ [Next]_vars
        => LostInv'
<1> SUFFICES ASSUME ShapeInv, SlotInv, InputInv, EmptySlotInv, NoHandleLost,
                    [Next]_vars,
                    "output" \notin Faults, "deregister" \notin Faults
             PROVE  NoHandleLost'
  BY DEF LostInv
<1> USE NullAssumption DEF NoHandleLost
<1>1. CASE UNCHANGED <<regMem, cached_input_handle, cached_output_handles>>
  BY <1>1 DEF RangeOf
<1>2. CASE DeregisterInput
  <2>1. UNCHANGED cached_output_handles
    BY <1>2 DEF DeregisterInput
  <2>2. \A k \in Handle : regMem'[k] # Null =>
            regMem[k] # Null /\ k # cached_input_handle
    <3>1. CASE cached_input_handle # Null /\ UnmapHandle(cached_input_handle)
      BY <3>1 DEF UnmapHandle, ShapeInv, TypeOK
    <3>2. CASE cached_input_handle = Null /\ UNCHANGED regMem
      BY <3>2
    <3> QED
      BY <1>2, <3>1, <3>2 DEF DeregisterInput, ReleaseOldInput
  <2> QED
    BY <2>1, <2>2 DEF RangeOf
<1>3. ASSUME NEW h \in Handle, RegisterInput(h) PROVE NoHandleLost'
  <2>1. cached_input_handle = Null
    BY <1>3 DEF RegisterInput, InputInv
  <2>2. \A k \in Handle : k # h => regMem'[k] = regMem[k]
    BY <1>3 DEF RegisterInput, MapHandle, ShapeInv, TypeOK
  <2> QED
    BY <1>3, <2>1, <2>2 DEF RegisterInput, RangeOf
<1>4. CASE RegisterInputFails
  BY <1>4 DEF RegisterInputFails, libVars, InputInv, RangeOf
<1>5. CASE ResizeOutputs
  <2>1. /\ Len(cached_output_handles) = 0
        /\ UNCHANGED <<regMem, cached_input_handle>>
    BY <1>5
    DEF ResizeOutputs, libVars, EmptySlotInv, ShapeInv, FillInv
  <2> QED
    BY <2>1 DEF RangeOf
<1>6. ASSUME NEW m \in OutMem, NEW h \in Handle, AllocOutput(m, h)
      PROVE NoHandleLost'
  <2>1. /\ out_i \in 1 .. Len(cached_output_handles)
        /\ cached_output_handles[out_i] = Null
    BY <1>6, FilledSlotWasEmpty
  <2>2. /\ Len(cached_output_handles') = Len(cached_output_handles)
        /\ \A i \in 1 .. Len(cached_output_handles) :
              cached_output_handles'[i] =
                  IF i = out_i THEN h ELSE cached_output_handles[i]
        /\ UNCHANGED cached_input_handle
    BY <1>6, <2>1 DEF AllocOutput, ShapeInv, TypeOK
  <2>3. \A k \in Handle : k # h => regMem'[k] = regMem[k]
    BY <1>6 DEF AllocOutput, MapHandle, ShapeInv, TypeOK
  <2>4. h \in RangeOf(cached_output_handles')
    BY <2>1, <2>2 DEF RangeOf
  <2>5. ASSUME NEW k \in Handle, k \in RangeOf(cached_output_handles)
        PROVE  k \in RangeOf(cached_output_handles')
    <3>1. PICK i \in 1 .. Len(cached_output_handles) :
              cached_output_handles[i] = k
      BY <2>5 DEF RangeOf
    <3>2. i # out_i
      BY <2>1, <3>1
    <3> QED
      BY <2>2, <3>1, <3>2 DEF RangeOf
  <2> QED
    BY <2>2, <2>3, <2>4, <2>5
<1>7. CASE FreeContext
  BY <1>7 DEF FreeContext, cacheVars, RangeOf
<1>8. SetupTensors \/ SetupTensorsFails \/ ReuseInput \/ ReuseOutputs
        \/ AllocOutputFails \/ AllocDone \/ BindOutputs \/ BindOutOfRange
        \/ Execute \/ ExecuteFails \/ GetOutputs \/ DestroyMembers
        \/ UNCHANGED vars
        \/ (\E f \in Fd : Call(f))
        \/ (\E f \in Fd, m \in InMem : Recycle(f, m)) =>
            UNCHANGED <<regMem, cached_input_handle, cached_output_handles>>
  BY DEF SetupTensors, SetupTensorsFails, ReuseInput, ReuseOutputs,
         AllocOutputFails, AllocDone, BindOutputs, BindOutOfRange, Execute,
         ExecuteFails, GetOutputs, DestroyMembers, vars, Call, Recycle, Fail,
         libVars, cacheVars
<1> QED
  BY <1>1, <1>2, <1>3, <1>4, <1>5, <1>6, <1>7, <1>8 DEF Next

\* Initially nothing is mapped.
LEMMA AliveInit == Init => AliveInv
  BY NullAssumption DEF Init, AliveInv, RegisteredOutputAlive

\* A step that frees a mapped output buffer needs a failure.
LEMMA AliveStep ==
    ShapeInv /\ SlotInv /\ EmptySlotInv /\ AliveInv /\ [Next]_vars => AliveInv'
<1> SUFFICES ASSUME ShapeInv, SlotInv, EmptySlotInv, AliveInv, [Next]_vars,
                    "output" \notin Faults, "contextFree" \notin Faults
             PROVE  AliveInv'
  BY DEF AliveInv
<1> USE NullAssumption, MemAssumption DEF AliveInv, RegisteredOutputAlive
<1>1. CASE QuietStep
  BY <1>1, QuietStepFrame
<1>2. CASE DeregisterInput
  <2>1. \A h \in Handle : regMem'[h] = regMem[h] \/ regMem'[h] = Null
    BY <1>2 DEF DeregisterInput, ReleaseOldInput, UnmapHandle, ShapeInv, TypeOK
  <2> QED
    BY <1>2, <2>1 DEF DeregisterInput
<1>3. ASSUME NEW h \in Handle, RegisterInput(h) PROVE AliveInv'
  <2>1. fdMem[fd] \in InMem
    BY <1>3 DEF RegisterInput, ShapeInv, TypeOK, CallInv, Running
  <2>2. \A k \in Handle :
            regMem'[k] = IF k = h THEN fdMem[fd] ELSE regMem[k]
    BY <1>3 DEF RegisterInput, MapHandle, ShapeInv, TypeOK
  <2> QED
    BY <1>3, <2>1, <2>2 DEF RegisterInput
<1>4. CASE ResizeOutputs
  BY <1>4 DEF ResizeOutputs, libVars
<1>5. ASSUME NEW m \in OutMem, NEW h \in Handle, AllocOutput(m, h)
      PROVE AliveInv'
  <2>1. alive' = alive \cup {m}
    <3>1. cached_output_buffers[out_i] = Null
      BY <1>5, FilledSlotWasEmpty
    <3> QED
      BY <1>5, <3>1 DEF AllocOutput, ShapeInv, TypeOK
  <2>2. \A k \in Handle : regMem'[k] = IF k = h THEN m ELSE regMem[k]
    BY <1>5 DEF AllocOutput, MapHandle, ShapeInv, TypeOK
  <2> QED
    BY <1>5, <2>1, <2>2 DEF AllocOutput
<1>6. CASE FreeContext
  BY <1>6 DEF FreeContext
<1>7. CASE DestroyMembers
  BY <1>7 DEF DestroyMembers
<1>8. CASE UNCHANGED vars
  BY <1>8 DEF vars, libVars
<1> QED
  BY <1>1, <1>2, <1>3, <1>4, <1>5, <1>6, <1>7, <1>8 DEF Next, QuietStep

-----------------------------------------------------------------------------
(* The theorems.                                                           *)

\* All layers together hold in a fresh engine.
LEMMA InvInit == Init => Inv
  BY ShapeInit, SlotInit, InputInit, HandedInit, EmptySlotInit, LostInit,
     AliveInit DEF Inv

\* And every step keeps them.
LEMMA InvStep == Inv /\ [Next]_vars => Inv'
  BY ShapeStep, SlotStep, InputStep, HandedStep, EmptySlotStep, LostStep,
     AliveStep DEF Inv

\* So they hold in every reachable state.
THEOREM Invariance == Spec => []Inv
  BY InvInit, InvStep, PTL DEF Spec

\* Every variable of the engine keeps its type.
THEOREM TypeCorrect == Spec => []TypeOK
<1>1. Inv => TypeOK
  BY DEF Inv, ShapeInv
<1> QED
  BY <1>1, Invariance, PTL

\* A graph runs on slots that the layers say are good.
LEMMA OutputBindingHolds == Inv => OutputBindingSound
<1> SUFFICES ASSUME Inv, pc = "exec", NEW i \in 1 .. NumOut[g]
             PROVE  /\ cached_output_handles[i] # Null
                    /\ cached_output_buffers[i] \in alive
                    /\ regMem[cached_output_handles[i]] = cached_output_buffers[i]
                    /\ \A j \in 1 .. NumOut[g] : i # j =>
                          /\ cached_output_handles[i] # cached_output_handles[j]
                          /\ cached_output_buffers[i] # cached_output_buffers[j]
  BY DEF OutputBindingSound
<1>1. /\ NumOut[g] \in Nat /\ Len(cached_output_buffers) \in Nat
      /\ NumOut[g] <= Len(cached_output_buffers)
      /\ dmabuf_cache_initialized
  BY GraphAssumption
  DEF Inv, ShapeInv, TypeOK, CallInv, FillInv, Running, Graph
<1>2. \A j \in 1 .. NumOut[g] :
          /\ j \in 1 .. Len(cached_output_buffers)
          /\ cached_output_handles[j] # Null
          /\ cached_output_buffers[j] # Null
  BY <1>1 DEF Inv, ShapeInv, FillInv
<1>3. \A j \in 1 .. NumOut[g] :
          /\ cached_output_buffers[j] \in alive
          /\ regMem[cached_output_handles[j]] = cached_output_buffers[j]
  BY <1>2 DEF Inv, SlotInv
<1>4. \A j \in 1 .. NumOut[g] :
          cached_output_buffers[i] = cached_output_buffers[j] => i = j
  BY <1>2 DEF Inv, SlotInv
<1> QED
  BY <1>2, <1>3, <1>4

\* Every output tensor of a graph that runs is bound to a registered live
\* buffer of its own, whatever failed before, with descriptors recycled or
\* not: no hypothesis is needed.
THEOREM OutputBindingCorrect == Spec => []OutputBindingSound
  BY OutputBindingHolds, Invariance, PTL

\* The graph never runs on an unregistered input handle or on an output
\* buffer as its input, even when descriptor numbers are recycled.
THEOREM InputHandleCorrect == Spec => []InputHandleRegistered
<1>1. Inv => InputHandleRegistered
  BY DEF Inv, InputInv, InputHandleRegistered
<1> QED
  BY <1>1, Invariance, PTL

\* If no producer recycles descriptor numbers, the number is a sound key:
\* the graph reads the buffer of the frame it was called with.
THEOREM InputBindingCorrect ==
    ASSUME ~RecycleFds
    PROVE  Spec => []InputBindingSound
<1>1. Inv => InputBindingSound
  BY DEF Inv, InputInv, InputBindingSound
<1> QED
  BY <1>1, Invariance, PTL

\* If output allocations and memDeRegister never fail, the cache always
\* holds every registration.
THEOREM NoHandleLostCorrect ==
    ASSUME "output" \notin Faults, "deregister" \notin Faults
    PROVE  Spec => []NoHandleLost
<1>1. Inv => NoHandleLost
  BY DEF Inv, LostInv
<1> QED
  BY <1>1, Invariance, PTL

\* If output allocations and contextFree never fail, the device never maps
\* freed memory, not even during teardown.
THEOREM RegisteredOutputAliveCorrect ==
    ASSUME "output" \notin Faults, "contextFree" \notin Faults
    PROVE  Spec => []RegisteredOutputAlive
<1>1. Inv => RegisteredOutputAlive
  BY DEF Inv, AliveInv
<1> QED
  BY <1>1, Invariance, PTL

\* What was handed out is in a slot, and what is in a slot is alive.
LEMMA HandedOutHolds == Inv => HandedOutAlive
<1> SUFFICES ASSUME Inv, pc # "gone", NEW b \in handed
             PROVE  b \in alive
  BY DEF HandedOutAlive
<1>1. PICK i \in 1 .. Len(cached_output_buffers) :
          cached_output_buffers[i] = b
  BY DEF Inv, HandedInv, RangeOf
<1>2. b # Null
  BY NullAssumption DEF Inv, ShapeInv, TypeOK
<1> QED
  BY <1>1, <1>2 DEF Inv, SlotInv

\* The buffers of a result outlive every later call, also failing ones.
THEOREM HandedOutAliveCorrect == Spec => []HandedOutAlive
  BY HandedOutHolds, Invariance, PTL

\* The engine frees every output buffer it allocated, also the ones of an
\* output cache whose filling failed half-way.
THEOREM NoBufferLeakedCorrect == Spec => []NoBufferLeaked
<1>1. Inv => NoBufferLeaked
  BY DEF Inv, SlotInv, NoBufferLeaked
<1> QED
  BY <1>1, Invariance, PTL

\* The cache has the length that the first graph needs.
LEMMA InRangeStep ==
    ASSUME \A k \in Graph : NumOut[k] <= NumOut[1]
    PROVE  Inv /\ BindInRange /\ [Next]_vars => BindInRange'
<1> SUFFICES ASSUME Inv, BindInRange, [Next]_vars, pc' = "outOfRange"
             PROVE  FALSE
  BY DEF BindInRange
<1>1. BindOutOfRange
  BY DEF BindInRange, Next, vars, Call, Recycle, SetupTensors,
         SetupTensorsFails, ReuseInput, DeregisterInput, RegisterInput,
         RegisterInputFails, ReuseOutputs, ResizeOutputs, AllocOutput,
         AllocOutputFails, AllocDone, BindOutputs, Execute, ExecuteFails,
         GetOutputs, FreeContext, DestroyMembers, Fail
<1>2. g \in Graph /\ Len(cached_output_handles) = NumOut[1]
  BY <1>1 DEF BindOutOfRange, Inv, ShapeInv, CallInv, FillInv, Running
<1> QED
  BY <1>1, <1>2, GraphAssumption DEF BindOutOfRange, Graph

\* If no graph has more outputs than the first, the cache is never read out
\* of range.
THEOREM BindInRangeCorrect ==
    ASSUME \A k \in Graph : NumOut[k] <= NumOut[1]
    PROVE  Spec => []BindInRange
<1>1. Init => BindInRange
  BY DEF Init, BindInRange
<1> QED
  BY <1>1, InRangeStep, Invariance, PTL DEF Spec

\* What a step may never do once the output cache is initialised: replace one
\* of its buffers or handles, or allocate or free any before the teardown.
OutputsKept ==
    dmabuf_cache_initialized =>
        /\ UNCHANGED <<cached_output_buffers, cached_output_handles,
                       dmabuf_cache_initialized>>
        /\ pc # "contextFreed" => UNCHANGED alive

\* Only the filling of the cache and the teardown touch the output buffers.
LEMMA OutputsKeptStep == Inv /\ [Next]_vars => OutputsKept
<1> SUFFICES ASSUME Inv, [Next]_vars, dmabuf_cache_initialized PROVE OutputsKept
  BY DEF OutputsKept
<1>1. pc # "alloc"
  BY DEF Inv, ShapeInv, CallInv
<1> QED
  BY <1>1
  DEF OutputsKept, Next, vars, Call, Recycle, SetupTensors, SetupTensorsFails,
      ReuseInput, DeregisterInput, RegisterInput, RegisterInputFails,
      ReuseOutputs, ResizeOutputs, AllocOutput, AllocOutputFails, AllocDone,
      BindOutputs, BindOutOfRange, Execute, ExecuteFails, GetOutputs,
      FreeContext, DestroyMembers, Fail, cacheVars, libVars

\* The frame that fills the output cache settles which buffers the engine has:
\* every later one, whatever fails, writes to the same (qnn_inference.cpp:233),
\* so that a result is overwritten by the next.
THEOREM OutputsKeptCorrect == Spec => [][OutputsKept]_vars
<1>1. Inv /\ [Next]_vars => [OutputsKept]_vars
  BY OutputsKeptStep
<1> QED
  BY <1>1, Invariance, PTL DEF Spec
=============================================================================
