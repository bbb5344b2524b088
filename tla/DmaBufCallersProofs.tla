------------------------ MODULE DmaBufCallersProofs ------------------------
(***************************************************************************)
(* Theorems about DmaBufCallers, for any number of threads, graphs,        *)
(* outputs, buffers and handles.                                           *)
(*                                                                         *)
(* The layers ShapeInv, SlotInv and InputInv of DmaBufCacheProofs speak of *)
(* the call that runs, and a switch replaces it.  They survive one because *)
(* a suspended call finds in the cache what it needs (CallsInv): while one *)
(* exists, every call hits, so the cache does not change.                  *)
(***************************************************************************)
EXTENDS DmaBufCallers, DmaBufCacheProofs

\* What a call put on its tensors is what the cache has.
Bound(c) ==
    /\ c.pc \in {"output", "alloc", "bind", "exec"} =>
          c.input = cached_input_handle
    /\ c.pc = "exec" =>
          c.outputs = SubSeq(cached_output_handles, 1, NumOut[c.g])

\* While a call is suspended, the cache has what it and the running one need.
CallType == [pc : Places, fd : Fd \cup {Null}, g : Nat \ {0}, out_i : Nat,
             input : Handle \cup {Null}, outputs : Seq(Handle \cup {Null})]
CallsInv ==
    /\ suspended \in [Other -> CallType]
    /\ Bound(RunningCall)
    /\ \A t \in Other :
          /\ suspended[t].pc \in
                {"idle", "setup", "input", "output", "bind", "exec"}
          /\ Busy(t) =>
                /\ dmabuf_cache_initialized /\ cached_input_handle # Null
                /\ pc \notin {"contextFreed", "gone"}
                /\ pc # "idle" => fd = cached_input_fd
                /\ suspended[t].fd \in Fd /\ suspended[t].fd = cached_input_fd
                /\ suspended[t].g \in Graph
          /\ suspended[t].pc = "exec" =>
                NumOut[suspended[t].g] <= Len(cached_output_handles)
          /\ Bound(suspended[t])
TensorType ==
    /\ input_handle \in Handle \cup {Null}
    /\ output_handles \in Seq(Handle \cup {Null})

CacheInv == ShapeInv /\ SlotInv /\ InputInv
CInv == CacheInv /\ TensorType /\ CallsInv

-----------------------------------------------------------------------------
\* A fresh engine with idle threads.
LEMMA CallersInitInv == CallersInit => CInv
<1> SUFFICES ASSUME CallersInit PROVE CInv
  OBVIOUS
<1>1. CacheInv
  BY ShapeInit, SlotInit, InputInit DEF CallersInit, CacheInv
<1>2. TensorType /\ pc = "idle"
  BY DEF CallersInit, Init, TensorType
<1>3. NoCall \in CallType /\ Bound(NoCall) /\ Bound(RunningCall)
  BY <1>2 DEF NoCall, CallType, Places, Bound, RunningCall
<1>4. CallsInv
  BY <1>3 DEF CallersInit, CallsInv, NoCall, Busy
<1> QED
  BY <1>1, <1>2, <1>4 DEF CInv

\* Steps of the engine keep what is known of the running call alone.
LEMMA CacheStep == CacheInv /\ [Next]_vars => CacheInv'
  BY ShapeStep, SlotStep, InputStep DEF CacheInv

\* While a call is suspended every call hits: no step changes the cache.
LEMMA WarmFrame ==
    ASSUME CInv, NEW t \in Other, Busy(t), Next
    PROVE  UNCHANGED cacheVars
<1>1. /\ pc = "input" => InputCached
      /\ dmabuf_cache_initialized /\ cached_input_handle # Null
  BY DEF CInv, CallsInv, InputCached
<1>2. pc \notin {"register", "alloc"}
  BY <1>1 DEF CInv, CacheInv, InputInv, ShapeInv, CallInv
<1> QED
  BY <1>1, <1>2
  DEF Next, Call, Recycle, SetupTensors, SetupTensorsFails, ReuseInput,
      DeregisterInput, RegisterInput, RegisterInputFails, ReuseOutputs,
      ResizeOutputs, AllocOutput, AllocOutputFails, AllocDone, BindOutputs,
      BindOutOfRange, Execute, ExecuteFails, GetOutputs, FreeContext,
      DestroyMembers, Fail, cacheVars

\* Where a step leads, and which steps keep the running call bound.
LEMMA StepPlaces ==
    ASSUME Next
    PROVE  /\ pc' \in {"output", "alloc", "bind", "exec"} =>
                 \/ pc # "output" /\ pc' = "output"
                 \/ pc \in {"output", "alloc", "bind"} /\ pc' # "output"
                       /\ UNCHANGED cached_input_handle
           /\ pc' = "exec" => pc = "bind" /\ UNCHANGED g
                                 /\ UNCHANGED cached_output_handles
           /\ pc' = "gone" => pc = "contextFreed"
           /\ pc' # "idle" =>
                 \/ pc # "idle" /\ fd' = fd
                 \/ pc = "idle" /\ pc' \in {"setup", "contextFreed"}
           /\ pc \notin {"contextFreed", "gone"} \/ pc' = "gone"
  BY DEF Next, Call, Recycle, SetupTensors, SetupTensorsFails, ReuseInput,
         DeregisterInput, RegisterInput, RegisterInputFails, ReuseOutputs,
         ResizeOutputs, AllocOutput, AllocOutputFails, AllocDone, BindOutputs,
         BindOutOfRange, Execute, ExecuteFails, GetOutputs, FreeContext,
         DestroyMembers, Fail, cacheVars, libVars, callVars

\* The running thread's steps keep every call bound.
LEMMA CallsStep ==
    ASSUME WarmUp, CInv, Step, CacheInv'
    PROVE  TensorType' /\ CallsInv'
<1> USE DEF CInv
<1>1. TensorType'
  <2>1. cached_input_handle' \in Handle \cup {Null}
    BY DEF CacheInv, ShapeInv, TypeOK
  <2>2. pc = "bind" /\ pc' = "exec" =>
            SubSeq(cached_output_handles, 1, NumOut[g])
                \in Seq(Handle \cup {Null})
    <3> SUFFICES ASSUME pc = "bind", pc' = "exec"
                 PROVE  SubSeq(cached_output_handles, 1, NumOut[g])
                            \in Seq(Handle \cup {Null})
      OBVIOUS
    <3>1. g \in Graph /\ NumOut[g] \in Nat
      BY GraphAssumption DEF CacheInv, ShapeInv, CallInv, Running, Graph
    <3>2. NumOut[g] <= Len(cached_output_handles)
      BY StepPlaces DEF Step, CacheInv, ShapeInv, FillInv
    <3> QED
      BY <3>1, <3>2 DEF CacheInv, ShapeInv, TypeOK
  <2> QED
    BY <2>1, <2>2 DEF Step, BindInput, BindOutput, TensorType
<1>2. Bound(RunningCall)'
  <2>1. pc' \in {"output", "alloc", "bind", "exec"} =>
            input_handle' = cached_input_handle'
    BY StepPlaces
    DEF Step, BindInput, CallsInv, Bound, RunningCall
  <2>2. pc' = "exec" =>
            output_handles' = SubSeq(cached_output_handles', 1, NumOut[g'])
    BY StepPlaces DEF Step, BindOutput
  <2> QED
    BY <2>1, <2>2 DEF Bound, RunningCall
<1>3. ASSUME NEW t \in Other, Busy(t)
      PROVE  /\ UNCHANGED cacheVars
             /\ pc' \notin {"contextFreed", "gone"}
             /\ pc' # "idle" => fd' = cached_input_fd
  <2>1. dmabuf_cache_initialized /\ pc \notin {"contextFreed", "gone"}
    BY <1>3 DEF CallsInv
  <2>2. UNCHANGED cacheVars
    BY <1>3, WarmFrame DEF Step
  <2>3. pc' # "contextFreed"
    BY <1>3 DEF Step
  <2>4. pc' # "idle" => fd' = cached_input_fd
    BY <1>3, <2>3, StepPlaces DEF Step, CallsInv
  <2> QED
    BY <2>1, <2>2, <2>3, <2>4, StepPlaces DEF Step
<1>4. ASSUME NEW t \in Other
      PROVE  /\ suspended'[t].pc \in
                   {"idle", "setup", "input", "output", "bind", "exec"}
             /\ Busy(t)' =>
                   /\ dmabuf_cache_initialized' /\ cached_input_handle' # Null
                   /\ pc' \notin {"contextFreed", "gone"}
                   /\ pc' # "idle" => fd' = cached_input_fd'
                   /\ suspended'[t].fd \in Fd
                   /\ suspended'[t].fd = cached_input_fd'
                   /\ suspended'[t].g \in Graph
             /\ suspended'[t].pc = "exec" =>
                   NumOut[suspended'[t].g] <= Len(cached_output_handles')
             /\ Bound(suspended[t])'
  <2>1. suspended' = suspended
    BY DEF Step
  <2>2. CASE ~Busy(t)
    BY <2>1, <2>2 DEF Bound, Busy
  <2>3. CASE Busy(t)
    BY <1>3, <2>1, <2>3 DEF CallsInv, Bound, Busy, cacheVars
  <2> QED
    BY <2>2, <2>3
<1>5. (suspended \in [Other -> CallType])'
  BY DEF Step, CallsInv
<1> QED
  BY <1>1, <1>2, <1>4, <1>5 DEF CallsInv

\* A switch between calls that overlap only on a filled cache.
LEMMA SwitchStep ==
    ASSUME WarmUp, CInv, NEW t \in Other, Switch(t)
    PROVE  CInv'
<1> DEFINE next == suspended[t]
<1> USE DEF CInv
<1>1. /\ UNCHANGED <<fdMem, libVars, cacheVars, resultVars>>
      /\ pc' = next.pc /\ fd' = next.fd /\ g' = next.g /\ out_i' = next.out_i
      /\ input_handle' = next.input /\ output_handles' = next.outputs
      /\ suspended' = [suspended EXCEPT ![t] = RunningCall]
      /\ pc \notin {"contextFreed", "gone", "outOfRange"}
      /\ pc = "idle" \/ Settled
  BY DEF Switch
<1>2. /\ next \in CallType /\ Bound(next)
      /\ next.pc \in {"idle", "setup", "input", "output", "bind", "exec"}
      /\ next.pc # "idle" =>
            /\ dmabuf_cache_initialized /\ cached_input_handle # Null
            /\ next.fd \in Fd /\ next.fd = cached_input_fd
            /\ next.g \in Graph
      /\ next.pc = "exec" => NumOut[next.g] <= Len(cached_output_handles)
  BY DEF CallsInv, Busy
<1> HIDE DEF next
<1>3. ShapeInv'
  <2>1. TypeOK'
    BY <1>1, <1>2
    DEF CacheInv, ShapeInv, TypeOK, CallType, libVars, cacheVars, resultVars
  <2>2. CallInv'
    BY <1>1, <1>2 DEF CallInv, Running, cacheVars
  <2>3. FillInv'
    BY <1>1, <1>2 DEF CacheInv, ShapeInv, CallInv, FillInv, cacheVars
  <2> QED
    BY <2>1, <2>2, <2>3 DEF ShapeInv
<1>4. SlotInv'
  BY <1>1, <1>2 DEF CacheInv, SlotInv, libVars, cacheVars
<1>6. InputInv'
  BY <1>1, <1>2 DEF CacheInv, InputInv, libVars, cacheVars
<1>7. TensorType'
  BY <1>1, <1>2 DEF TensorType, CallType
<1>8. CallsInv'
  <2>1. RunningCall \in CallType /\ Bound(RunningCall)
    BY DEF CallsInv, TensorType, CacheInv, ShapeInv, TypeOK, CallType,
           RunningCall
  <2>2. /\ RunningCall.pc \in
              {"idle", "setup", "input", "output", "bind", "exec"}
        /\ RunningCall.pc # "idle" =>
              /\ dmabuf_cache_initialized /\ cached_input_handle # Null
              /\ RunningCall.fd \in Fd /\ RunningCall.fd = cached_input_fd
              /\ RunningCall.g \in Graph
        /\ RunningCall.pc = "exec" =>
              NumOut[RunningCall.g] <= Len(cached_output_handles)
    <3>1. pc \in {"idle", "setup", "input", "output", "bind", "exec"}
      BY <1>1 DEF CacheInv, ShapeInv, TypeOK, CallInv, InputInv, Places,
                  Settled
    <3>2. pc # "idle" => fd \in Fd /\ g \in Graph
      BY <3>1 DEF CacheInv, ShapeInv, CallInv, Running
    <3> QED
      BY <1>1, <3>1, <3>2
      DEF CacheInv, ShapeInv, FillInv, RunningCall, Settled
  <2>3. suspended' \in [Other -> CallType]
    BY <1>1, <2>1 DEF CallsInv
  <2>4. RunningCall' = next
    BY <1>1, <1>2 DEF RunningCall, CallType
  <2>6. Bound(RunningCall)'
    BY <1>1, <1>2, <2>4 DEF Bound, cacheVars
  <2>7. ASSUME NEW u \in Other
        PROVE  /\ suspended'[u].pc \in
                     {"idle", "setup", "input", "output", "bind", "exec"}
               /\ Busy(u)' =>
                     /\ dmabuf_cache_initialized'
                     /\ cached_input_handle' # Null
                     /\ pc' \notin {"contextFreed", "gone"}
                     /\ pc' # "idle" => fd' = cached_input_fd'
                     /\ suspended'[u].fd \in Fd
                     /\ suspended'[u].fd = cached_input_fd'
                     /\ suspended'[u].g \in Graph
               /\ suspended'[u].pc = "exec" =>
                     NumOut[suspended'[u].g] <= Len(cached_output_handles')
               /\ Bound(suspended[u])'
    <3>1. suspended'[u] = IF u = t THEN RunningCall ELSE suspended[u]
      BY <1>1 DEF CallsInv
    <3>2. CASE u = t
      BY <1>1, <1>2, <2>1, <2>2, <3>1, <3>2 DEF Bound, Busy, cacheVars
    <3>3. CASE u # t
      BY <1>1, <1>2, <3>1, <3>3 DEF CallsInv, Bound, Busy, cacheVars
    <3> QED
      BY <3>2, <3>3
  <2> QED
    BY <2>3, <2>6, <2>7 DEF CallsInv
<1> QED
  BY <1>3, <1>4, <1>6, <1>7, <1>8 DEF CacheInv

-----------------------------------------------------------------------------
(* The theorems.                                                           *)

\* Every call is bound to what the invariant says of the cache.
LEMMA CallsSound ==
    ASSUME ~RecycleFds, CInv
    PROVE  CallerHandlesSound
<1> USE DEF CInv
<1>1. ASSUME NEW c, c.pc = "exec", Bound(c), dmabuf_cache_initialized,
             pc \notin {"contextFreed", "gone"}, c.fd = cached_input_fd,
             cached_input_handle # Null, c.g \in Graph, NumOut[c.g] <= Len(cached_output_handles)
      PROVE  /\ c.input # Null /\ regMem[c.input] = fdMem[c.fd]
             /\ \A n \in 1 .. NumOut[c.g] :
                   /\ c.outputs[n] # Null
                   /\ regMem[c.outputs[n]] = cached_output_buffers[n]
                   /\ cached_output_buffers[n] \in alive
  <2>1. c.input # Null /\ regMem[c.input] = fdMem[c.fd]
    BY <1>1 DEF Bound, CacheInv, InputInv
  <2>2. ASSUME NEW n \in 1 .. NumOut[c.g]
        PROVE  /\ c.outputs[n] # Null
               /\ regMem[c.outputs[n]] = cached_output_buffers[n]
               /\ cached_output_buffers[n] \in alive
    <3>1. NumOut[c.g] \in Nat
      BY <1>1, GraphAssumption DEF Graph
    <3>2. /\ cached_output_handles \in Seq(Handle \cup {Null})
          /\ Len(cached_output_buffers) = Len(cached_output_handles)
          /\ Len(cached_output_handles) \in Nat
      BY DEF CacheInv, ShapeInv, TypeOK, FillInv
    <3>3. n \in 1 .. Len(cached_output_buffers)
      BY <1>1, <3>1, <3>2
    <3>4. c.outputs[n] = cached_output_handles[n]
      BY <1>1, <3>1, <3>2 DEF Bound
    <3>5. cached_output_handles[n] # Null /\ cached_output_buffers[n] # Null
      BY <1>1, <3>3 DEF CacheInv, ShapeInv, FillInv
    <3> QED
      BY <1>1, <3>3, <3>4, <3>5 DEF CacheInv, SlotInv
  <2> QED
    BY <2>1, <2>2
<1>2. RunningCall.pc = "exec" =>
          /\ Bound(RunningCall) /\ dmabuf_cache_initialized
          /\ pc \notin {"contextFreed", "gone"}
          /\ RunningCall.fd = cached_input_fd /\ cached_input_handle # Null
          /\ RunningCall.g \in Graph
          /\ NumOut[RunningCall.g] <= Len(cached_output_handles)
  BY DEF CallsInv, CacheInv, ShapeInv, CallInv, FillInv, InputInv, Running,
         RunningCall
<1> QED
  BY <1>1, <1>2 DEF CallerHandlesSound, CallsInv, Busy

\* What a switch leaves of the layers that speak of results and registrations:
\* they do not depend on the running call, but for the filling of the cache, and
\* no call that a switch resumes is there.
LEMMA SwitchInv ==
    ASSUME WarmUp, CInv, Inv, NEW t \in Other, Switch(t)
    PROVE  Inv'
<1>1. ShapeInv' /\ SlotInv' /\ InputInv'
  BY SwitchStep DEF CInv, CacheInv
<1>2. /\ UNCHANGED <<fdMem, libVars, cacheVars, resultVars>>
      /\ pc \notin {"contextFreed", "gone", "outOfRange"}
      /\ pc = "idle" \/ Settled
  BY DEF Switch
<1>3. /\ pc' \notin {"alloc", "contextFreed", "gone", "outOfRange"}
      /\ pc # "alloc"
  <2>1. pc' = suspended[t].pc
    BY DEF Switch
  <2>2. pc # "alloc"
    BY <1>2 DEF Settled, CInv, CacheInv, ShapeInv, CallInv
  <2> QED
    BY <2>1, <2>2 DEF CInv, CallsInv
<1>4. HandedInv'
  BY <1>2 DEF Inv, HandedInv, cacheVars, resultVars, RangeOf
<1>5. EmptySlotInv'
  BY <1>2, <1>3 DEF Inv, EmptySlotInv, cacheVars
<1>6. LostInv'
  BY <1>2 DEF Inv, LostInv, NoHandleLost, cacheVars, libVars, RangeOf
<1>7. AliveInv'
  BY <1>2, <1>3 DEF Inv, AliveInv, RegisteredOutputAlive, libVars
<1> QED
  BY <1>1, <1>4, <1>5, <1>6, <1>7 DEF Inv

\* Every step keeps what is known of the cache and of the calls.
LEMMA CallersStep ==
    ASSUME WarmUp PROVE CInv /\ Inv /\ [CallersNext]_allVars => CInv' /\ Inv'
<1> SUFFICES ASSUME CInv, Inv, [CallersNext]_allVars PROVE CInv' /\ Inv'
  OBVIOUS
<1>1. CASE Step
  <2>1. CacheInv' /\ Inv'
    BY <1>1, CacheStep, InvStep DEF Step, CInv
  <2> QED
    BY <1>1, <2>1, CallsStep DEF CInv
<1>2. ASSUME NEW t \in Other, Switch(t) PROVE CInv' /\ Inv'
  BY <1>2, SwitchStep, SwitchInv
<1>3. CASE UNCHANGED allVars
  <2>1. CacheInv' /\ Inv'
    BY <1>3, CacheStep, InvStep DEF CInv, allVars
  <2>2. TensorType' /\ CallsInv'
    BY <1>3 DEF CInv, allVars, vars, cacheVars, callVars, tensorVars,
                TensorType, CallsInv, Bound, Busy, RunningCall
  <2> QED
    BY <2>1, <2>2 DEF CInv
<1> QED
  BY <1>1, <1>2, <1>3 DEF CallersNext

\* With overlapping calls the engine's own invariant holds as well as with one
\* caller at a time.
THEOREM CallersInvariance == ASSUME WarmUp PROVE CallersSpec => [](CInv /\ Inv)
<1>1. CallersInit => CInv /\ Inv
  BY CallersInitInv, InvInit DEF CallersInit
<1> QED
  BY <1>1, CallersStep, PTL DEF CallersSpec

\* However many threads run callbacks, and whichever of their calls fail: as
\* long as calls overlap only on a cache that has what they need, and
\* descriptor numbers are not recycled, a graph runs on registered handles of
\* its own frame and of live outputs.
THEOREM CallerHandlesCorrect ==
    ASSUME ~RecycleFds, WarmUp
    PROVE  CallersSpec => []CallerHandlesSound
  BY CallersInvariance, CallsSound, PTL

\* The call that runs finds the buffer of its own frame in the input cache,
\* which is keyed by the number alone, also if other calls came in between.
THEOREM CallersInputBindingCorrect ==
    ASSUME ~RecycleFds, WarmUp
    PROVE  CallersSpec => []InputBindingSound
<1>1. Inv => InputBindingSound
  BY DEF Inv, InputInv, InputBindingSound
<1> QED
  BY <1>1, CallersInvariance, PTL

\* Its outputs are bound to registered live buffers, each to its own.
THEOREM CallersOutputBindingCorrect ==
    ASSUME WarmUp PROVE CallersSpec => []OutputBindingSound
  BY OutputBindingHolds, CallersInvariance, PTL

\* No order of the calls makes the engine forget a registration, unless an
\* output allocation or memDeRegister fails.
THEOREM CallersNoHandleLostCorrect ==
    ASSUME WarmUp, "output" \notin Faults, "deregister" \notin Faults
    PROVE  CallersSpec => []NoHandleLost
<1>1. Inv => NoHandleLost
  BY DEF Inv, LostInv
<1> QED
  BY <1>1, CallersInvariance, PTL

\* The device never maps freed memory, up to and including the destruction of
\* an engine that several threads have called.
THEOREM CallersRegisteredOutputAliveCorrect ==
    ASSUME WarmUp, "output" \notin Faults, "contextFree" \notin Faults
    PROVE  CallersSpec => []RegisteredOutputAlive
<1>1. Inv => RegisteredOutputAlive
  BY DEF Inv, AliveInv
<1> QED
  BY <1>1, CallersInvariance, PTL

\* What was handed to one thread's caller is not freed by another's call.
THEOREM CallersHandedOutAliveCorrect ==
    ASSUME WarmUp PROVE CallersSpec => []HandedOutAlive
  BY HandedOutHolds, CallersInvariance, PTL

\* No call reads the output cache out of range, if no graph has more outputs
\* than the first.
THEOREM CallersBindInRangeCorrect ==
    ASSUME WarmUp, \A k \in Graph : NumOut[k] <= NumOut[1]
    PROVE  CallersSpec => []BindInRange
<1>1. CallersInit => BindInRange
  BY DEF CallersInit, Init, BindInRange
<1>2. CInv /\ Inv /\ BindInRange /\ [CallersNext]_allVars => BindInRange'
  <2> SUFFICES ASSUME CInv, Inv, BindInRange, [CallersNext]_allVars
               PROVE  BindInRange'
    OBVIOUS
  <2>1. CASE Step
    BY <2>1, InRangeStep DEF Step
  <2>2. ASSUME NEW t \in Other, Switch(t) PROVE BindInRange'
    BY <2>2 DEF Switch, CInv, CallsInv, BindInRange
  <2>3. CASE UNCHANGED allVars
    BY <2>3 DEF allVars, vars, BindInRange
  <2> QED
    BY <2>1, <2>2, <2>3 DEF CallersNext
<1> QED
  BY <1>1, <1>2, CallersInvariance, PTL DEF CallersSpec

\* Nor do overlapping calls change the output buffers once they are settled.
THEOREM CallersOutputsKeptCorrect ==
    ASSUME WarmUp PROVE CallersSpec => [][OutputsKept]_allVars
<1>1. CInv /\ Inv /\ [CallersNext]_allVars => [OutputsKept]_allVars
  <2> SUFFICES ASSUME CInv, Inv, CallersNext PROVE OutputsKept
    OBVIOUS
  <2>1. CASE Step
    BY <2>1, OutputsKeptStep DEF Step
  <2>2. ASSUME NEW t \in Other, Switch(t) PROVE OutputsKept
    BY <2>2 DEF Switch, OutputsKept, cacheVars, libVars
  <2> QED
    BY <2>1, <2>2 DEF CallersNext
<1> QED
  BY <1>1, CallersInvariance, PTL DEF CallersSpec

\* What a step may never do while several calls are under way: write a member of
\* the cache, register, deregister, allocate or free.
OnlyReads ==
    (\E t \in Other : Busy(t)) => UNCHANGED <<cacheVars, libVars>>

\* Calls that overlap on a cache that has what they need only read it, also when
\* they fail: on the cache's members, which no lock protects
\* (qnn_inference.cpp:174-295), they do not race.
THEOREM OnlyReadsCorrect ==
    ASSUME WarmUp PROVE CallersSpec => [][OnlyReads]_allVars
<1>1. CInv /\ [CallersNext]_allVars => [OnlyReads]_allVars
  <2> SUFFICES ASSUME CInv, CallersNext, NEW t \in Other, Busy(t)
               PROVE  UNCHANGED <<cacheVars, libVars>>
    BY DEF OnlyReads
  <2>1. CASE Step
    <3>1. UNCHANGED cacheVars
      BY <2>1, WarmFrame DEF Step
    <3>2. /\ pc \notin {"register", "alloc", "contextFreed"} /\ pc' # "contextFreed"
          /\ pc = "input" => InputCached
      BY <2>1 DEF Step, CInv, CallsInv, CacheInv, InputInv, ShapeInv, CallInv, InputCached
    <3>3. UNCHANGED libVars
      BY <2>1, <3>2
      DEF Step, Next, Call, Recycle, SetupTensors, SetupTensorsFails, ReuseInput,
          DeregisterInput, RegisterInput, RegisterInputFails, ReuseOutputs,
          ResizeOutputs, AllocOutput, AllocOutputFails, AllocDone, BindOutputs,
          BindOutOfRange, Execute, ExecuteFails, GetOutputs, FreeContext,
          DestroyMembers, Fail, libVars
    <3> QED
      BY <3>1, <3>3
  <2>2. ASSUME NEW u \in Other, Switch(u) PROVE UNCHANGED <<cacheVars, libVars>>
    BY <2>2 DEF Switch
  <2> QED
    BY <2>1, <2>2 DEF CallersNext
<1> QED
  BY <1>1, CallersInvariance, PTL DEF CallersSpec
=============================================================================
