------------------------- MODULE InferenceNodeProofs -------------------------
(***************************************************************************)
(* Theorems about InferenceNode for every value of its constants.          *)
(*                                                                         *)
(* NodeInv holds with any number of workers.  With one worker, which the   *)
(* launch files' component_container has, the one output_tensor_ always    *)
(* belongs to the callback that is running (CallInv), so what is queued    *)
(* for the post-process node is sound (QueueInv).                          *)
(***************************************************************************)
EXTENDS InferenceNode, SequenceTheorems, TLAPS

\* A callback has a frame; only a running callback that has not collected yet
\* leaves a result in output_tensor_.
NodeInv ==
    /\ TypeOK
    /\ node = "up" /\ ok => qrb_inference_mgr_
    /\ \A w \in Worker : Busy(w) => msg[w] \in Msg
    /\ output_tensor # Empty =>
          \E w \in Worker : phase[w] \in {"infer", "collect"}

\* A result for frame m, of an inference that failed or not.
Complete(m, tensors, hasFailed) ==
    IF tensors = Empty
    THEN hasFailed \/ NumGraphs \in Unreadable
    ELSE tensors.msg = m /\ (hasFailed \/ tensors.graph = NumGraphs)

FailedQueued == \E k \in 1 .. Len(outbox) : outbox[k].failed

\* How far the result of worker w's callback has come; a worker that looks
\* for work finds a manager and no result of a failed inference.
CallInv(w) ==
    /\ Busy(w) => qrb_inference_mgr_
    /\ phase[w] = "infer" /\ output_tensor # Empty =>
          output_tensor.msg = msg[w]
    /\ phase[w] = "collect" => Complete(msg[w], output_tensor, failed[w])
    /\ phase[w] = "publish" => Complete(msg[w], pub_tensors[w], failed[w])
    /\ phase[w] \in {"collect", "publish"} /\ failed[w] => ~ok
    /\ phase[w] = "infer" => ~failed[w]
    /\ node = "up" /\ ~qrb_inference_mgr_ => ~ok /\ phase[w] # "ready"
    /\ phase[w] = "ready" => ~FailedQueued

Sound(e) == Complete(e.header, e.tensors, e.failed)

\* A failed callback's result is only queued on a context that is shut down.
QueueInv ==
    /\ \A k \in 1 .. Len(outbox) : Sound(outbox[k]) /\ (outbox[k].failed => ~ok)
    /\ \A k \in 1 .. Len(consumed) : Sound(consumed[k]) /\ ~consumed[k].failed

SingleWorker == \E w : Worker = {w}
SingleInv == NodeInv /\ (\A w \in Worker : CallInv(w)) /\ QueueInv

-----------------------------------------------------------------------------
\* A KEEP_LAST queue stays within its depth and holds the new element and
\* otherwise only old ones.
LEMMA EnqueueProperties ==
    ASSUME NEW S, NEW q \in Seq(S), NEW e \in S, Len(q) <= QueueDepth
    PROVE  /\ Enqueue(q, e) \in Seq(S)
           /\ Len(Enqueue(q, e)) <= QueueDepth
           /\ \A k \in 1 .. Len(Enqueue(q, e)) :
                 \/ Enqueue(q, e)[k] = e
                 \/ \E j \in 1 .. Len(q) : Enqueue(q, e)[k] = q[j]
<1>1. QueueDepth \in Nat \ {0}
  BY SizeAssumption
<1> DEFINE r == IF Len(q) = QueueDepth THEN Tail(q) ELSE q
<1>2. /\ r \in Seq(S) /\ Len(r) < QueueDepth
      /\ \A k \in 1 .. Len(r) : \E j \in 1 .. Len(q) : r[k] = q[j]
  <2>1. CASE Len(q) = QueueDepth
    <3>1. q # <<>>
      BY <1>1, <2>1
    <3>2. /\ Tail(q) \in Seq(S) /\ Len(Tail(q)) = Len(q) - 1
          /\ \A k \in 1 .. Len(Tail(q)) : Tail(q)[k] = q[k + 1]
      BY <3>1, HeadTailProperties
    <3> QED
      BY <1>1, <2>1, <3>2
  <2>2. CASE Len(q) # QueueDepth
    BY <1>1, <2>2
  <2> QED
    BY <2>1, <2>2
<1> HIDE DEF r
<1>3. /\ Append(r, e) \in Seq(S)
      /\ Len(Append(r, e)) = Len(r) + 1
      /\ \A k \in 1 .. Len(r) : Append(r, e)[k] = r[k]
      /\ Append(r, e)[Len(r) + 1] = e
  BY <1>2, AppendProperties
<1>4. Enqueue(q, e) = Append(r, e)
  BY DEF Enqueue, r
<1>5. \A k \in 1 .. Len(r) + 1 : k \in 1 .. Len(r) \/ k = Len(r) + 1
  BY <1>2
<1> QED
  BY <1>1, <1>2, <1>3, <1>4, <1>5

-----------------------------------------------------------------------------
(* Any number of workers.                                                  *)

\* A fresh container.
LEMMA NodeInit == Init => NodeInv
<1> SUFFICES ASSUME Init PROVE NodeInv
  OBVIOUS
<1>1. /\ <<>> \in Seq(Msg) /\ <<>> \in Seq(TensorList) /\ Len(<<>>) = 0
  OBVIOUS
<1>2. /\ phase \in [Worker -> Phases] /\ \A w \in Worker : ~Busy(w)
      /\ msg \in [Worker -> Msg \cup {Empty}]
      /\ graph \in [Worker -> 1 .. NumGraphs]
      /\ failed \in [Worker -> BOOLEAN]
      /\ pub_tensors \in [Worker -> Result \cup {Empty}]
  BY SizeAssumption DEF Init, Phases, Busy
<1>3. /\ ok \in BOOLEAN /\ node \in {"new", "up"}
      /\ qrb_inference_mgr_ \in BOOLEAN /\ sent \subseteq Msg
      /\ output_tensor \in Result \cup {Empty}
  BY DEF Init
<1>4. /\ inbox \in Seq(Msg) /\ Len(inbox) <= QueueDepth
      /\ outbox \in Seq(TensorList) /\ Len(outbox) <= QueueDepth
      /\ consumed \in Seq(TensorList)
  <2>1. inbox = <<>> /\ outbox = <<>> /\ consumed = <<>>
    BY DEF Init
  <2>2. QueueDepth \in Nat
    BY SizeAssumption
  <2> QED
    BY <1>1, <2>1, <2>2
<1>5. TypeOK
  BY <1>2, <1>3, <1>4 DEF TypeOK
<1> QED
  BY <1>2, <1>5 DEF Init, NodeInv

\* Types, and the result nobody has collected, in every step.
LEMMA NodeStep == NodeInv /\ [Next]_vars => NodeInv'
<1> SUFFICES ASSUME NodeInv, [Next]_vars PROVE NodeInv'
  OBVIOUS
<1> USE DEF NodeInv
<1>1. CASE UNCHANGED vars
  BY <1>1 DEF vars, nodeVars, callVars, topicVars, TypeOK, Busy
<1>2. ASSUME NEW m \in Msg, Send(m) PROVE NodeInv'
  <2>1. inbox' \in Seq(Msg) /\ Len(inbox') <= QueueDepth
    BY <1>2, EnqueueProperties DEF Send, TypeOK
  <2>2. TypeOK'
    BY <1>2, <2>1 DEF Send, TypeOK, nodeVars, callVars
  <2> QED
    BY <1>2, <2>2 DEF Send, Busy, nodeVars, callVars
<1>0. ASSUME Interrupt PROVE NodeInv'
  <2>1. TypeOK'
    BY <1>0 DEF Interrupt, TypeOK, nodeVars, callVars, topicVars
  <2> QED
    BY <1>0, <2>1 DEF Interrupt, Busy, nodeVars, callVars
<1>3. ASSUME NEW w \in Worker, SpinOk(w) \/ SpinStops(w) \/ Wake(w)
      PROVE  NodeInv'
  <2>1. phase' \in [Worker -> Phases]
    BY <1>3 DEF SpinOk, SpinStops, Wake, GoTo, TypeOK, Phases
  <2>2. TypeOK'
    BY <1>3, <2>1
    DEF SpinOk, SpinStops, Wake, TypeOK, nodeVars, callVars, topicVars
  <2> QED
    BY <1>3, <2>2 DEF SpinOk, SpinStops, Wake, GoTo, Busy, TypeOK, nodeVars,
                      callVars, topicVars
<1>4. ASSUME NEW w \in Worker, Load(w) \/ LoadFails(w) PROVE NodeInv'
  <2>1. phase' \in [Worker -> Phases]
    BY <1>4 DEF Load, LoadFails, GoTo, TypeOK, Phases
  <2>2. TypeOK'
    BY <1>4, <2>1
    DEF Load, LoadFails, TypeOK, nodeVars, callVars, topicVars
  <2> QED
    BY <1>4, <2>2 DEF Load, LoadFails, GoTo, Busy, TypeOK, nodeVars,
                      callVars, topicVars
<1>5. ASSUME NEW w \in Worker, Take(w) PROVE NodeInv'
  <2>1. /\ Head(inbox) \in Msg /\ Tail(inbox) \in Seq(Msg)
        /\ Len(Tail(inbox)) <= QueueDepth
    BY <1>5, HeadTailProperties, SizeAssumption DEF Take, TypeOK
  <2>2. TypeOK'
    BY <1>5, <2>1, SizeAssumption DEF Take, GoTo, TypeOK, Phases, nodeVars
  <2> QED
    BY <1>5, <2>1, <2>2 DEF Take, GoTo, Busy, TypeOK, nodeVars
<1>6. ASSUME NEW w \in Worker, ExecGraph(w) PROVE NodeInv'
  <2>1. msg[w] \in Msg
    BY <1>6 DEF ExecGraph, Busy
  <2>2. TypeOK'
    <3>1. output_tensor' \in Result \cup {Empty}
      BY <1>6, <2>1 DEF ExecGraph, TypeOK, Result
    <3>2. phase' \in [Worker -> Phases]
      BY <1>6 DEF ExecGraph, GoTo, TypeOK, Phases
    <3>3. graph' \in [Worker -> 1 .. NumGraphs]
      BY <1>6, SizeAssumption DEF ExecGraph, TypeOK
    <3> QED
      BY <1>6, <3>1, <3>2, <3>3 DEF ExecGraph, TypeOK, nodeVars, topicVars
  <2>3. phase'[w] \in {"infer", "collect"}
    BY <1>6 DEF ExecGraph, GoTo, TypeOK
  <2>4. \A v \in Worker : Busy(v)' => msg'[v] \in Msg
    BY <1>6, <2>1 DEF ExecGraph, GoTo, TypeOK, Busy
  <2>5. (node = "up" /\ ok => qrb_inference_mgr_)'
    BY <1>6 DEF ExecGraph, nodeVars
  <2> QED
    BY <2>2, <2>3, <2>4, <2>5
<1>7. ASSUME NEW w \in Worker, ExecFails(w) PROVE NodeInv'
  <2>1. TypeOK'
    BY <1>7 DEF ExecFails, GoTo, TypeOK, Phases, nodeVars, topicVars
  <2>2. phase'[w] = "collect"
    BY <1>7 DEF ExecFails, GoTo, TypeOK
  <2>3. \A v \in Worker : Busy(v)' => msg'[v] \in Msg
    BY <1>7 DEF ExecFails, GoTo, TypeOK, Busy
  <2> QED
    BY <1>7, <2>1, <2>2, <2>3 DEF ExecFails, nodeVars
<1>8. ASSUME NEW w \in Worker, Collect(w) PROVE NodeInv'
  <2>1. TypeOK'
    BY <1>8 DEF Collect, GoTo, TypeOK, Phases, nodeVars, topicVars
  <2> QED
    BY <1>8, <2>1 DEF Collect, GoTo, TypeOK, Busy, nodeVars
<1>9. ASSUME NEW w \in Worker, Publish(w) PROVE NodeInv'
  <2>1. [header |-> msg[w], tensors |-> pub_tensors[w], failed |-> failed[w]]
            \in TensorList
    BY <1>9 DEF Publish, TypeOK, TensorList, Busy
  <2>2. outbox' \in Seq(TensorList) /\ Len(outbox') <= QueueDepth
    BY <1>9, <2>1, EnqueueProperties DEF Publish, TypeOK
  <2>3. TypeOK'
    BY <1>9, <2>2 DEF Publish, GoTo, TypeOK, Phases, nodeVars, callVars
  <2> QED
    BY <1>9, <2>3 DEF Publish, GoTo, TypeOK, Busy, nodeVars, callVars
<1>10. ASSUME NEW w \in Worker, PostProcess(w) PROVE NodeInv'
  <2>1. /\ Head(outbox) \in TensorList /\ Tail(outbox) \in Seq(TensorList)
        /\ Len(Tail(outbox)) <= QueueDepth
    BY <1>10, HeadTailProperties, SizeAssumption DEF PostProcess, TypeOK
  <2>2. Append(consumed, Head(outbox)) \in Seq(TensorList)
    BY <2>1 DEF TypeOK
  <2>3. TypeOK'
    BY <1>10, <2>1, <2>2
    DEF PostProcess, GoTo, TypeOK, Phases, nodeVars, callVars
  <2> QED
    BY <1>10, <2>3 DEF PostProcess, GoTo, TypeOK, Busy, nodeVars, callVars
<1> QED
  BY <1>0, <1>1, <1>2, <1>3, <1>4, <1>5, <1>6, <1>7, <1>8, <1>9, <1>10
  DEF Next, WorkerStep

-----------------------------------------------------------------------------
(* A frame is in one place only, with any number of workers.               *)

Waiting == {inbox[k] : k \in 1 .. Len(inbox)}
Working == {msg[w] : w \in {v \in Worker : Busy(v)}}
Queued == {outbox[k].header : k \in 1 .. Len(outbox)}
Done == {consumed[k].header : k \in 1 .. Len(consumed)}

\* No two elements of a queue, and no two callbacks, have the same frame, and
\* no frame is in two of the four places.
OnceInv ==
    /\ NodeInv
    /\ \A j, k \in 1 .. Len(inbox) : inbox[j] = inbox[k] => j = k
    /\ \A v, w \in Worker : Busy(v) /\ Busy(w) /\ msg[v] = msg[w] => v = w
    /\ \A j, k \in 1 .. Len(outbox) : outbox[j].header = outbox[k].header => j = k
    /\ NoDuplicates
    /\ Waiting \cup Working \cup Queued \cup Done \subseteq sent
    /\ Waiting \cap (Working \cup Queued \cup Done) = {}
    /\ Working \cap (Queued \cup Done) = {}
    /\ Queued \cap Done = {}

\* A KEEP_LAST queue shifts its elements by the one it drops.
LEMMA EnqueueIndices ==
    ASSUME NEW S, NEW q \in Seq(S), NEW e \in S, Len(q) <= QueueDepth
    PROVE  \E d \in {0, 1} :
               LET r == Enqueue(q, e) IN
               /\ Len(r) \in Nat /\ Len(r) = Len(q) - d + 1
               /\ \A k \in 1 .. Len(q) - d : r[k] = q[k + d]
               /\ r[Len(q) - d + 1] = e
<1>1. QueueDepth \in Nat \ {0} /\ Len(q) \in Nat
  BY SizeAssumption
<1>2. CASE Len(q) = QueueDepth
  <2>1. q # <<>>
    BY <1>1, <1>2
  <2>2. /\ Tail(q) \in Seq(S) /\ Len(Tail(q)) = Len(q) - 1
        /\ \A k \in 1 .. Len(Tail(q)) : Tail(q)[k] = q[k + 1]
    BY <2>1, HeadTailProperties
  <2>3. /\ Len(Append(Tail(q), e)) = Len(q)
        /\ \A k \in 1 .. Len(q) - 1 : Append(Tail(q), e)[k] = q[k + 1]
        /\ Append(Tail(q), e)[Len(q)] = e
    BY <1>1, <2>2, AppendProperties
  <2>4. Enqueue(q, e) = Append(Tail(q), e)
    BY <1>2 DEF Enqueue
  <2> QED
    BY <1>1, <2>3, <2>4
<1>3. CASE Len(q) # QueueDepth
  <2>1. /\ Len(Append(q, e)) = Len(q) + 1
        /\ \A k \in 1 .. Len(q) : Append(q, e)[k] = q[k]
        /\ Append(q, e)[Len(q) + 1] = e
    BY <1>1, AppendProperties
  <2>2. Enqueue(q, e) = Append(q, e)
    BY <1>3 DEF Enqueue
  <2> QED
    BY <1>1, <2>1, <2>2
<1> QED
  BY <1>2, <1>3

\* A fresh container holds no frame.
LEMMA OnceInit == Init => OnceInv
<1> SUFFICES ASSUME Init PROVE OnceInv
  OBVIOUS
<1>1. inbox = <<>> /\ outbox = <<>> /\ consumed = <<>> /\ \A w \in Worker : ~Busy(w)
  BY DEF Init, Busy
<1>2. 1 .. Len(<<>>) = {}
  OBVIOUS
<1> QED
  BY <1>1, <1>2, NodeInit DEF OnceInv, NoDuplicates, Waiting, Working, Queued, Done

\* Each step moves at most one frame from one place to the next.
LEMMA OnceStep == OnceInv /\ [Next]_vars => OnceInv'
<1> SUFFICES ASSUME OnceInv, [Next]_vars PROVE OnceInv'
  OBVIOUS
<1>0. NodeInv' /\ NodeInv /\ TypeOK
  BY NodeStep DEF OnceInv, NodeInv
<1>t. /\ inbox \in Seq(Msg) /\ outbox \in Seq(TensorList) /\ consumed \in Seq(TensorList)
      /\ Len(inbox) \in Nat /\ Len(outbox) \in Nat /\ Len(consumed) \in Nat
      /\ Len(inbox) <= QueueDepth /\ Len(outbox) <= QueueDepth
      /\ phase \in [Worker -> Phases] /\ msg \in [Worker -> Msg \cup {Empty}]
  BY <1>0 DEF TypeOK
<1>i. \A j, k \in 1 .. Len(inbox) : inbox[j] = inbox[k] => j = k
  BY DEF OnceInv
<1>o. \A j, k \in 1 .. Len(outbox) : outbox[j].header = outbox[k].header => j = k
  BY DEF OnceInv
<1>1. ASSUME UNCHANGED topicVars, UNCHANGED msg, \A w \in Worker : Busy(w)' <=> Busy(w)
      PROVE  OnceInv'
  <2>1. UNCHANGED <<Waiting, Working, Queued, Done>>
    BY <1>1 DEF topicVars, Waiting, Working, Queued, Done
  <2> QED
    BY <1>0, <1>1, <2>1 DEF OnceInv, NoDuplicates, topicVars
<1>2. ASSUME NEW m \in Msg, Send(m) PROVE OnceInv'
  <2>1. /\ m \notin sent /\ sent' = sent \cup {m} /\ inbox' = Enqueue(inbox, m)
        /\ UNCHANGED <<phase, msg, outbox, consumed>>
    BY <1>2 DEF Send, callVars
  <2>2. PICK d \in {0, 1} :
            /\ Len(inbox') \in Nat /\ Len(inbox') = Len(inbox) - d + 1
            /\ \A k \in 1 .. Len(inbox) - d : inbox'[k] = inbox[k + d]
            /\ inbox'[Len(inbox) - d + 1] = m
    BY <1>t, <2>1, EnqueueIndices
  <2>3. UNCHANGED <<Working, Queued, Done>>
    BY <2>1 DEF Working, Queued, Done, Busy
  <2>4. Waiting' \subseteq Waiting \cup {m}
    <3>1. \A k \in 1 .. Len(inbox') :
              \/ k \in 1 .. Len(inbox) - d /\ k + d \in 1 .. Len(inbox)
              \/ inbox'[k] = m
      BY <1>t, <2>2
    <3> QED
      BY <2>2, <3>1 DEF Waiting
  <2>5. \A j, k \in 1 .. Len(inbox') : inbox'[j] = inbox'[k] => j = k
    <3>1. \A k \in 1 .. Len(inbox) : inbox[k] # m
      BY <2>1 DEF OnceInv, Waiting
    <3>2. \A k \in 1 .. Len(inbox') :
              \/ k \in 1 .. Len(inbox) - d /\ k + d \in 1 .. Len(inbox)
              \/ k = Len(inbox) - d + 1
      BY <1>t, <2>2
    <3>3. \A k \in 1 .. Len(inbox') :
              IF k = Len(inbox) - d + 1 THEN inbox'[k] = m
              ELSE k + d \in 1 .. Len(inbox) /\ inbox'[k] = inbox[k + d]
      BY <1>t, <2>2, <3>2
    <3>4. ASSUME NEW j \in 1 .. Len(inbox'), NEW k \in 1 .. Len(inbox'),
                 inbox'[j] = inbox'[k]
          PROVE  j = k
      <4>1. j = Len(inbox) - d + 1 <=> k = Len(inbox) - d + 1
        BY <3>1, <3>3, <3>4
      <4>2. j # Len(inbox) - d + 1 /\ k # Len(inbox) - d + 1 => j + d = k + d
        BY <1>i, <3>3, <3>4
      <4> QED
        BY <2>2, <4>1, <4>2
    <3> QED
      BY <3>4
  <2>6. \A v, w \in Worker : Busy(v)' /\ Busy(w)' /\ msg'[v] = msg'[w] => v = w
    BY <2>1 DEF OnceInv, Busy
  <2> QED
    BY <1>0, <2>1, <2>3, <2>4, <2>5, <2>6 DEF OnceInv, NoDuplicates
<1>3. ASSUME NEW w \in Worker, Take(w) PROVE OnceInv'
  <2>1. /\ ~Busy(w) /\ inbox # <<>> /\ inbox' = Tail(inbox)
        /\ phase' = [phase EXCEPT ![w] = "infer"]
        /\ msg' = [msg EXCEPT ![w] = Head(inbox)]
        /\ UNCHANGED <<sent, outbox, consumed>>
    BY <1>3 DEF Take, GoTo, Busy
  <2>2. /\ Head(inbox) = inbox[1] /\ 1 \in 1 .. Len(inbox)
        /\ Len(inbox') = Len(inbox) - 1
        /\ \A k \in 1 .. Len(inbox') : inbox'[k] = inbox[k + 1] /\ k + 1 \in 1 .. Len(inbox)
    BY <1>t, <2>1, HeadTailProperties
  <2>3. inbox[1] \in Waiting /\ UNCHANGED <<Queued, Done>>
    BY <2>1, <2>2 DEF Waiting, Queued, Done
  <2>4. Waiting' \subseteq Waiting \ {inbox[1]}
    <3>1. \A k \in 1 .. Len(inbox') : inbox[k + 1] # inbox[1]
      <4>1. \A k \in 1 .. Len(inbox') : k + 1 # 1
        BY <1>t, <2>2
      <4> QED
        BY <1>i, <2>2, <4>1
    <3> QED
      BY <2>2, <3>1 DEF Waiting
  <2>5. \A v \in Worker : IF v = w THEN Busy(v)' /\ msg'[v] = inbox[1]
                                   ELSE (Busy(v)' <=> Busy(v)) /\ msg'[v] = msg[v]
    BY <1>t, <2>1, <2>2 DEF Busy
  <2>6. Working' = Working \cup {inbox[1]}
    BY <2>1, <2>5 DEF Working
  <2>7. \A j, k \in 1 .. Len(inbox') : inbox'[j] = inbox'[k] => j = k
    BY <1>t, <2>2 DEF OnceInv
  <2>8. \A u, v \in Worker : Busy(u)' /\ Busy(v)' /\ msg'[u] = msg'[v] => u = v
    <3>1. \A v \in Worker : Busy(v) => msg[v] # inbox[1]
      BY <2>3 DEF OnceInv, Working
    <3> QED
      BY <2>5, <3>1 DEF OnceInv
  <2> QED
    BY <1>0, <2>1, <2>3, <2>4, <2>6, <2>7, <2>8 DEF OnceInv, NoDuplicates
<1>4. ASSUME NEW w \in Worker, Publish(w) PROVE OnceInv'
  <2> DEFINE e == [header |-> msg[w], tensors |-> pub_tensors[w], failed |-> failed[w]]
  <2>1. /\ Busy(w) /\ phase' = [phase EXCEPT ![w] = "spin"]
        /\ outbox' = Enqueue(outbox, e) \/ UNCHANGED outbox
        /\ UNCHANGED <<sent, inbox, consumed, msg>>
    BY <1>4 DEF Publish, GoTo, Busy, callVars
  <2>2. e \in TensorList /\ e.header = msg[w]
    BY <1>0, <2>1 DEF TypeOK, NodeInv, TensorList
  <2> HIDE DEF e
  <2>3. /\ msg[w] \in Working /\ UNCHANGED <<Waiting, Done>>
        /\ msg[w] \notin Waiting \cup Queued \cup Done
    <3>1. msg[w] \in Working
      BY <2>1 DEF Working
    <3>2. UNCHANGED <<Waiting, Done>>
      BY <2>1 DEF Waiting, Done
    <3> QED
      BY <3>1, <3>2 DEF OnceInv
  <2>4. \A v \in Worker : Busy(v)' <=> Busy(v) /\ v # w
    BY <1>t, <2>1 DEF Busy
  <2>5. Working' \subseteq Working \ {msg[w]}
    BY <2>1, <2>4 DEF Working, OnceInv
  <2>6. /\ Queued' \subseteq Queued \cup {msg[w]}
        /\ \A j, k \in 1 .. Len(outbox') : outbox'[j].header = outbox'[k].header => j = k
    <3>1. CASE outbox' = Enqueue(outbox, e)
      <4>1. PICK d \in {0, 1} :
                /\ Len(outbox') \in Nat /\ Len(outbox') = Len(outbox) - d + 1
                /\ \A k \in 1 .. Len(outbox) - d : outbox'[k] = outbox[k + d]
                /\ outbox'[Len(outbox) - d + 1] = e
        BY <1>t, <2>2, <3>1, EnqueueIndices
      <4>2. \A k \in 1 .. Len(outbox) : outbox[k].header # msg[w]
        BY <2>3 DEF Queued
      <4>3. \A k \in 1 .. Len(outbox') :
                \/ k \in 1 .. Len(outbox) - d /\ k + d \in 1 .. Len(outbox)
                \/ k = Len(outbox) - d + 1
        BY <1>t, <4>1
      <4>4. Queued' \subseteq Queued \cup {msg[w]}
        BY <2>2, <4>1, <4>3 DEF Queued
      <4>5. \A k \in 1 .. Len(outbox') :
                IF k = Len(outbox) - d + 1 THEN outbox'[k].header = msg[w]
                ELSE k + d \in 1 .. Len(outbox) /\ outbox'[k] = outbox[k + d]
        BY <2>2, <4>1, <4>3
      <4>6. ASSUME NEW j \in 1 .. Len(outbox'), NEW k \in 1 .. Len(outbox'),
                   outbox'[j].header = outbox'[k].header
            PROVE  j = k
        <5>1. j = Len(outbox) - d + 1 <=> k = Len(outbox) - d + 1
          BY <4>2, <4>5, <4>6
        <5>2. j # Len(outbox) - d + 1 /\ k # Len(outbox) - d + 1 => j + d = k + d
          BY <1>o, <4>5, <4>6
        <5> QED
          BY <4>1, <5>1, <5>2
      <4> QED
        BY <4>4, <4>6
    <3>2. CASE UNCHANGED outbox
      BY <3>2 DEF OnceInv, Queued
    <3> QED
      BY <2>1, <3>1, <3>2
  <2>7. \A u, v \in Worker : Busy(u)' /\ Busy(v)' /\ msg'[u] = msg'[v] => u = v
    BY <2>1, <2>4 DEF OnceInv
  <2> QED
    BY <1>0, <2>1, <2>3, <2>5, <2>6, <2>7 DEF OnceInv, NoDuplicates
<1>5. ASSUME NEW w \in Worker, PostProcess(w) PROVE OnceInv'
  <2>1. /\ ~Busy(w) /\ outbox # <<>> /\ outbox' = Tail(outbox)
        /\ phase' = [phase EXCEPT ![w] = "spin"]
        /\ consumed' = Append(consumed, Head(outbox))
        /\ UNCHANGED <<sent, inbox, msg>>
    BY <1>5 DEF PostProcess, GoTo, Busy, callVars
  <2>2. /\ Head(outbox) = outbox[1] /\ 1 \in 1 .. Len(outbox)
        /\ Len(outbox') = Len(outbox) - 1
        /\ \A k \in 1 .. Len(outbox') : outbox'[k] = outbox[k + 1] /\ k + 1 \in 1 .. Len(outbox)
    BY <1>t, <2>1, HeadTailProperties
  <2>3. /\ Len(consumed') = Len(consumed) + 1 /\ consumed'[Len(consumed) + 1] = outbox[1]
        /\ \A k \in 1 .. Len(consumed) : consumed'[k] = consumed[k]
    <3>1. outbox[1] \in TensorList
      BY <1>t, <2>2, ElementOfSeq
    <3> QED
      BY <1>t, <2>1, <2>2, <3>1, AppendProperties
  <2>4. \A k \in 1 .. Len(consumed') : k \in 1 .. Len(consumed) \/ k = Len(consumed) + 1
    BY <1>t, <2>3
  <2>5. \A v \in Worker : Busy(v)' <=> Busy(v)
    BY <1>t, <2>1 DEF Busy
  <2>6. outbox[1].header \in Queued /\ UNCHANGED <<Waiting, Working>>
    BY <2>1, <2>2, <2>5 DEF Waiting, Working, Queued
  <2>7. Queued' \subseteq Queued \ {outbox[1].header}
    <3>1. \A k \in 1 .. Len(outbox') : outbox[k + 1].header # outbox[1].header
      <4>1. \A k \in 1 .. Len(outbox') : k + 1 # 1
        BY <1>t, <2>2
      <4> QED
        BY <1>o, <2>2, <4>1
    <3>2. ASSUME NEW k \in 1 .. Len(outbox')
          PROVE  outbox'[k].header \in Queued \ {outbox[1].header}
      <4>1. outbox'[k].header = outbox[k + 1].header /\ k + 1 \in 1 .. Len(outbox)
        BY <2>2
      <4>2. outbox[k + 1].header \in Queued
        BY <4>1 DEF Queued
      <4> QED
        BY <3>1, <4>1, <4>2
    <3> QED
      BY <3>2 DEF Queued
  <2>8. Done' \subseteq Done \cup {outbox[1].header}
    BY <2>3, <2>4 DEF Done
  <2>9. NoDuplicates'
    <3>1. \A k \in 1 .. Len(consumed) : consumed[k].header # outbox[1].header
      BY <2>6 DEF OnceInv, Done
    <3> QED
      BY <2>3, <2>4, <3>1 DEF OnceInv, NoDuplicates
  <2>10. \A j, k \in 1 .. Len(outbox') : outbox'[j].header = outbox'[k].header => j = k
    <3>1. \A j, k \in 1 .. Len(outbox') :
              outbox'[j].header = outbox'[k].header => j + 1 = k + 1
      BY <1>o, <2>2
    <3> QED
      BY <1>t, <2>2, <3>1
  <2>11. \A u, v \in Worker : Busy(u)' /\ Busy(v)' /\ msg'[u] = msg'[v] => u = v
    BY <2>1, <2>5 DEF OnceInv
  <2> QED
    BY <1>0, <2>1, <2>6, <2>7, <2>8, <2>9, <2>10, <2>11 DEF OnceInv
<1>6. ASSUME NEW w \in Worker,
             \/ SpinOk(w) \/ SpinStops(w) \/ Wake(w) \/ Load(w) \/ LoadFails(w)
             \/ ExecGraph(w) \/ ExecFails(w) \/ Collect(w)
      PROVE  OnceInv'
  <2>1. UNCHANGED topicVars /\ UNCHANGED msg
    BY <1>6 DEF SpinOk, SpinStops, Wake, Load, LoadFails, ExecGraph, ExecFails, Collect, callVars
  <2>2. \A v \in Worker : Busy(v)' <=> Busy(v)
    BY <1>6, <1>t DEF SpinOk, SpinStops, Wake, Load, LoadFails, ExecGraph, ExecFails, Collect,
       GoTo, Busy
  <2> QED
    BY <1>1, <2>1, <2>2
<1>7. CASE Interrupt \/ UNCHANGED vars
  <2>1. UNCHANGED topicVars /\ UNCHANGED msg /\ UNCHANGED phase
    BY <1>7 DEF Interrupt, vars, callVars
  <2> QED
    BY <1>1, <2>1 DEF Busy
<1> QED
  BY <1>2, <1>3, <1>4, <1>5, <1>6, <1>7 DEF Next, WorkerStep

-----------------------------------------------------------------------------
(* One worker.                                                             *)

\* A fresh container has queued nothing.
LEMMA SingleInit == Init => SingleInv
<1> SUFFICES ASSUME Init PROVE SingleInv
  OBVIOUS
<1>1. NodeInv
  BY NodeInit
<1>2. \A w \in Worker : CallInv(w)
  BY DEF Init, CallInv, Busy, FailedQueued
<1>3. QueueInv
  <2>1. outbox = <<>> /\ consumed = <<>>
    BY DEF Init
  <2>2. 1 .. Len(<<>>) = {}
    OBVIOUS
  <2> QED
    BY <2>1, <2>2 DEF QueueInv
<1> QED
  BY <1>1, <1>2, <1>3 DEF SingleInv

\* The running callback's claim on output_tensor_ survives every step,
\* because no other callback can run.
LEMMA CallStep ==
    ASSUME SingleWorker, SingleInv, Next, NEW w \in Worker
    PROVE  CallInv(w)'
<1> USE DEF SingleInv, NodeInv
<1>0. \A v \in Worker : v = w
  BY DEF SingleWorker
<1>1. CallInv(w) /\ TypeOK
  OBVIOUS
<1>a. outbox' = outbox => FailedQueued' = FailedQueued
  BY DEF FailedQueued
<1>2. ASSUME NEW m \in Msg, Send(m) PROVE CallInv(w)'
  BY <1>a, <1>1, <1>2 DEF Send, CallInv, Busy, nodeVars, callVars
<1>b. ASSUME Interrupt PROVE CallInv(w)'
  BY <1>a, <1>b, <1>1 DEF Interrupt, CallInv, Busy, nodeVars, callVars, topicVars
<1>3. CASE SpinOk(w) \/ SpinStops(w) \/ Wake(w)
  <2>1. FailedQueued => ~ok
    BY DEF FailedQueued, QueueInv
  <2> QED
    BY <1>a, <1>1, <1>3, <2>1
    DEF SpinOk, SpinStops, Wake, GoTo, CallInv, Busy, TypeOK, nodeVars,
        callVars, topicVars
<1>4. CASE Load(w) \/ LoadFails(w)
  BY <1>1, <1>4 DEF Load, LoadFails, GoTo, CallInv, Busy, TypeOK, callVars
<1>5. CASE Take(w)
  <2>1. qrb_inference_mgr_ /\ output_tensor = Empty
    BY <1>0, <1>1, <1>5 DEF Take, CallInv
  <2> QED
    BY <1>1, <1>5, <2>1 DEF Take, GoTo, CallInv, Busy, TypeOK, nodeVars
<1>6. CASE ExecGraph(w)
  <2>1. /\ qrb_inference_mgr_' /\ ~failed'[w] /\ phase'[w] \in {"infer", "collect"}
        /\ ok' = ok /\ phase'[w] # "ready" /\ phase'[w] # "publish"
    BY <1>1, <1>6 DEF ExecGraph, GoTo, CallInv, Busy, TypeOK, nodeVars
  <2>2. output_tensor' = IF graph[w] \in Unreadable THEN Empty
                         ELSE [msg |-> msg[w], graph |-> graph[w]]
    BY <1>6 DEF ExecGraph
  <2>5. [msg |-> msg[w], graph |-> graph[w]] # Empty
    <3>1. [msg |-> msg[w], graph |-> graph[w]]
              \in [msg : Msg, graph : 1 .. NumGraphs]
      BY <1>6 DEF ExecGraph, Busy, TypeOK
    <3> QED
      BY <3>1, EmptyAssumption
  <2>3. phase'[w] = "collect" => graph[w] = NumGraphs
    BY <1>1, <1>6, SizeAssumption DEF ExecGraph, GoTo, TypeOK
  <2>4. msg' = msg
    BY <1>6 DEF ExecGraph
  <2> QED
    BY <2>1, <2>2, <2>3, <2>4, <2>5 DEF CallInv, Complete
<1>7. CASE ExecFails(w)
  <2>1. /\ qrb_inference_mgr_' /\ failed'[w] /\ phase'[w] = "collect" /\ ~ok'
        /\ UNCHANGED <<output_tensor, msg>>
    BY <1>1, <1>7 DEF ExecFails, GoTo, CallInv, Busy, TypeOK, nodeVars
  <2>2. output_tensor # Empty => output_tensor.msg = msg[w]
    BY <1>1, <1>7 DEF ExecFails, CallInv
  <2> QED
    BY <2>1, <2>2 DEF CallInv, Complete
<1>8. CASE Collect(w)
  <2>1. /\ phase'[w] = "publish" /\ pub_tensors'[w] = output_tensor
        /\ UNCHANGED <<ok, nodeVars, msg, graph, failed>>
    BY <1>1, <1>8 DEF Collect, GoTo, TypeOK
  <2> QED
    BY <1>1, <1>8, <2>1 DEF Collect, CallInv, Busy, nodeVars
<1>9. CASE Publish(w)
  <2>1. phase'[w] = "spin" /\ UNCHANGED <<ok, nodeVars>>
    BY <1>1, <1>9 DEF Publish, GoTo, TypeOK
  <2> QED
    BY <1>1, <2>1 DEF CallInv, Busy, nodeVars
<1>10. CASE PostProcess(w)
  <2>1. phase'[w] = "spin" /\ UNCHANGED nodeVars /\ (ok' => ok)
    BY <1>1, <1>10 DEF PostProcess, GoTo, TypeOK
  <2> QED
    BY <1>1, <2>1 DEF CallInv, Busy, nodeVars
<1> QED
  BY <1>0, <1>b, <1>2, <1>3, <1>4, <1>5, <1>6, <1>7, <1>8, <1>9, <1>10
  DEF Next, WorkerStep

\* The queues towards the post-process node stay sound.
LEMMA QueueStep ==
    ASSUME SingleWorker, SingleInv, Next
    PROVE  QueueInv'
<1> USE DEF SingleInv, NodeInv
<1>1. ASSUME outbox' = outbox, consumed' = consumed, ok' => ok PROVE QueueInv'
  BY <1>1 DEF QueueInv, Sound
<1>2. ASSUME NEW m \in Msg, Send(m) PROVE QueueInv'
  BY <1>1, <1>2 DEF Send
<1>6. ASSUME Interrupt PROVE QueueInv'
  BY <1>1, <1>6 DEF Interrupt, topicVars
<1>3. ASSUME NEW w \in Worker,
             \/ SpinOk(w) \/ SpinStops(w) \/ Wake(w) \/ Load(w) \/ LoadFails(w)
             \/ Take(w) \/ ExecGraph(w) \/ ExecFails(w) \/ Collect(w)
      PROVE  QueueInv'
  BY <1>1, <1>3 DEF SpinOk, SpinStops, Wake, Load, LoadFails, Take, ExecGraph,
                    ExecFails, Collect, topicVars
<1>4. ASSUME NEW w \in Worker, Publish(w) PROVE QueueInv'
  <2> DEFINE e == [header |-> msg[w], tensors |-> pub_tensors[w],
                   failed |-> failed[w]]
  <2>1. e \in TensorList
    BY <1>4 DEF Publish, TypeOK, TensorList, Busy
  <2>2. e.tensors = pub_tensors[w] /\ e.header = msg[w] /\ e.failed = failed[w]
    OBVIOUS
  <2> HIDE DEF e
  <2>3. Sound(e) /\ (e.failed => ~ok)
    BY <1>4, <2>2 DEF Publish, CallInv, Sound
  <2>4. ok' = ok /\ consumed' = consumed
    BY <1>4 DEF Publish
  <2>5. CASE outbox' = Enqueue(outbox, e)
    <3>0. outbox \in Seq(TensorList) /\ Len(outbox) <= QueueDepth
      BY DEF TypeOK
    <3>1. \A k \in 1 .. Len(Enqueue(outbox, e)) :
              \/ Enqueue(outbox, e)[k] = e
              \/ \E j \in 1 .. Len(outbox) : Enqueue(outbox, e)[k] = outbox[j]
      <4> HIDE DEF SingleInv, NodeInv
      <4> SUFFICES ASSUME NEW k \in 1 .. Len(Enqueue(outbox, e))
                   PROVE  \/ Enqueue(outbox, e)[k] = e
                          \/ \E j \in 1 .. Len(outbox) :
                                Enqueue(outbox, e)[k] = outbox[j]
        OBVIOUS
      <4> QED
        BY <2>1, <3>0, EnqueueProperties
    <3>2. \A k \in 1 .. Len(outbox') :
              outbox'[k] = e \/ \E j \in 1 .. Len(outbox) : outbox'[k] = outbox[j]
      BY <2>5, <3>1
    <3>3. \A k \in 1 .. Len(outbox') :
              Sound(outbox'[k]) /\ (outbox'[k].failed => ~ok)
      BY <2>3, <3>2 DEF QueueInv
    <3> QED
      BY <2>4, <3>3 DEF QueueInv, Sound
  <2>6. CASE UNCHANGED outbox
    BY <1>1, <2>4, <2>6
  <2> QED
    BY <1>4, <2>5, <2>6 DEF Publish, e
<1>5. ASSUME NEW w \in Worker, PostProcess(w) PROVE QueueInv'
  <2>1. outbox # <<>> /\ (ok' => ok)
    BY <1>5 DEF PostProcess
  <2>2. ~FailedQueued
    BY <1>5 DEF PostProcess, CallInv
  <2>3. /\ Len(Tail(outbox)) = Len(outbox) - 1
        /\ \A k \in 1 .. Len(Tail(outbox)) : Tail(outbox)[k] = outbox[k + 1]
        /\ Head(outbox) = outbox[1] /\ Len(outbox) \in Nat \ {0}
    BY <2>1, HeadTailProperties DEF TypeOK
  <2>4. outbox' = Tail(outbox) /\ consumed' = Append(consumed, Head(outbox))
    BY <1>5 DEF PostProcess
  <2>5. \A k \in 1 .. Len(outbox') :
            Sound(outbox'[k]) /\ (outbox'[k].failed => ~ok)
    BY <2>3, <2>4 DEF QueueInv
  <2>6. Sound(Head(outbox)) /\ ~Head(outbox).failed
    BY <2>2, <2>3 DEF QueueInv, FailedQueued
  <2>7. \A k \in 1 .. Len(consumed') :
            consumed'[k] = Head(outbox)
                \/ (k \in 1 .. Len(consumed) /\ consumed'[k] = consumed[k])
    BY <2>3, <2>4 DEF TypeOK
  <2>8. \A k \in 1 .. Len(consumed') : Sound(consumed'[k]) /\ ~consumed'[k].failed
    BY <2>6, <2>7 DEF QueueInv
  <2> QED
    BY <2>1, <2>5, <2>8 DEF QueueInv, Sound
<1> QED
  BY <1>2, <1>3, <1>4, <1>5, <1>6 DEF Next, WorkerStep

\* Together.
LEMMA SingleStep ==
    ASSUME SingleWorker PROVE SingleInv /\ [Next]_vars => SingleInv'
<1>1. ASSUME SingleInv, UNCHANGED vars PROVE SingleInv'
  <2>1. NodeInv'
    BY <1>1, NodeStep DEF SingleInv
  <2> QED
    BY <1>1, <2>1 DEF SingleInv, CallInv, QueueInv, Sound, FailedQueued, Busy,
                      vars, nodeVars, callVars, topicVars
<1> QED
  BY <1>1, NodeStep, CallStep, QueueStep DEF SingleInv

-----------------------------------------------------------------------------
(* The theorems.                                                           *)

\* With any number of workers every variable keeps its type, and the topics'
\* queues their depth.
THEOREM NodeTypeCorrect == Spec => []TypeOK
<1>1. Spec => []NodeInv
  BY NodeInit, NodeStep, PTL DEF Spec
<1>2. NodeInv => TypeOK
  BY DEF NodeInv
<1> QED
  BY <1>1, <1>2, PTL

\* With any number of workers: once no callback is running, the manager's
\* output_tensor_ holds nothing that the next frame's callback could publish.
THEOREM NothingLeftBehindCorrect == Spec => []NothingLeftBehind
<1>1. Spec => []NodeInv
  BY NodeInit, NodeStep, PTL DEF Spec
<1>2. NodeInv => NothingLeftBehind
  BY DEF NodeInv, NothingLeftBehind, Busy
<1> QED
  BY <1>1, <1>2, PTL

\* With any number of workers, a frame is acted on at most once: the reentrant
\* callbacks neither take a frame twice nor publish a result twice.
THEOREM NoDuplicatesCorrect == Spec => []NoDuplicates
<1>1. Spec => []OnceInv
  BY OnceInit, OnceStep, PTL DEF Spec
<1>2. OnceInv => NoDuplicates
  BY DEF OnceInv
<1> QED
  BY <1>1, <1>2, PTL

\* With one worker the strengthened invariant holds in every reachable state.
THEOREM SingleCorrect == ASSUME SingleWorker PROVE Spec => []SingleInv
  BY SingleInit, SingleStep, PTL DEF Spec

\* With one worker no callback runs without a manager.
THEOREM NoNullManagerCorrect ==
    ASSUME SingleWorker PROVE Spec => []NoNullManager
<1>1. SingleInv => NoNullManager
  BY DEF SingleInv, CallInv, NoNullManager
<1> QED
  BY <1>1, SingleCorrect, PTL

\* With one worker a frame's header only goes out with that frame's result.
THEOREM ResultsMatchHeaderCorrect ==
    ASSUME SingleWorker PROVE Spec => []ResultsMatchHeader
<1>1. SingleInv => ResultsMatchHeader
  BY DEF SingleInv, QueueInv, Sound, Complete, ResultsMatchHeader, Delivered
<1> QED
  BY <1>1, SingleCorrect, PTL

\* With one worker a result that is acted on is that of the last graph of an
\* inference that did not fail, and has tensors if they can be read.
THEOREM ResultsCompleteCorrect ==
    ASSUME SingleWorker PROVE Spec => []ResultsComplete
<1>1. SingleInv => ResultsComplete
  BY DEF SingleInv, QueueInv, Sound, Complete, ResultsComplete, Delivered
<1> QED
  BY <1>1, SingleCorrect, PTL

-----------------------------------------------------------------------------
(* Queues.                                                                 *)

\* What is appended to the second part is appended to the whole.
LEMMA AppendConcat ==
    ASSUME NEW S, NEW a \in Seq(S), NEW b \in Seq(S), NEW e \in S
    PROVE  Append(a \o b, e) = a \o Append(b, e)
<1>1. <<e>> \in Seq(S) /\ a \o b \in Seq(S)
  BY ConcatProperties
<1>2. Append(a \o b, e) = (a \o b) \o <<e>> /\ Append(b, e) = b \o <<e>>
  BY <1>1, AppendIsConcat
<1> QED
  BY <1>1, <1>2, ConcatAssociative

\* The first element of the second part is the one after the first part, and
\* taking it out leaves the rest.
LEMMA WithoutHead ==
    ASSUME NEW S, NEW a \in Seq(S), NEW b \in Seq(S), b # <<>>
    PROVE  /\ Len(a) + 1 \in 1 .. Len(a \o b)
           /\ Service!Without(a \o b, Len(a) + 1) = a \o Tail(b)
<1>1. /\ Len(a) \in Nat /\ Len(b) \in Nat \ {0} /\ a \o b \in Seq(S)
      /\ Len(a \o b) = Len(a) + Len(b)
  BY LenProperties, EmptySeq, ConcatProperties
<1>2. SubSeq(a \o b, 1, (Len(a) + 1) - 1) = a
  <2>1. (Len(a) + 1) - 1 = Len(a)
    BY <1>1
  <2>2. CASE Len(a) = 0
    BY <1>1, <2>1, <2>2, SubSeqEmpty, EmptySeq
  <2>3. CASE Len(a) # 0
    <3>1. 1 \in 1 .. Len(a) /\ Len(a) \in 1 .. Len(a)
      BY <1>1, <2>3
    <3> QED
      BY <2>1, <3>1, SubSeqOfConcat1, SubSeqFull
  <2> QED
    BY <2>2, <2>3
<1>3. SubSeq(a \o b, (Len(a) + 1) + 1, Len(a \o b)) = Tail(b)
  <2>1. Tail(b) = SubSeq(b, 2, Len(b))
    BY TailIsSubSeq
  <2>2. CASE Len(b) = 1
    BY <1>1, <2>1, <2>2, SubSeqEmpty
  <2>3. CASE Len(b) # 1
    <3>1. ASSUME NEW m \in Nat, NEW n \in Nat \ {0}, n # 1
          PROVE  /\ (m + 1) + 1 \in m + 1 .. m + n /\ m + n \in m + 1 .. m + n
                 /\ ((m + 1) + 1) - m = 2 /\ (m + n) - m = n
      BY <3>1
    <3>2. /\ (Len(a) + 1) + 1 \in Len(a) + 1 .. Len(a) + Len(b)
          /\ Len(a \o b) \in Len(a) + 1 .. Len(a) + Len(b)
          /\ ((Len(a) + 1) + 1) - Len(a) = 2 /\ Len(a \o b) - Len(a) = Len(b)
      BY <1>1, <2>3, <3>1
    <3> QED
      BY <2>1, <3>2, SubSeqOfConcat2
  <2> QED
    BY <2>2, <2>3
<1>4. Len(a) + 1 \in 1 .. Len(a) + Len(b)
  BY <1>1
<1> QED
  BY <1>1, <1>2, <1>3, <1>4 DEF Service!Without

\* The headers of a queue of results follow the queue.
LEMMA HeadersProperties ==
    ASSUME NEW q \in Seq(TensorList)
    PROVE  /\ Headers(q) \in Seq(Msg) /\ Len(Headers(q)) = Len(q)
           /\ \A e \in TensorList : Headers(Append(q, e)) = Append(Headers(q), e.header)
           /\ q # <<>> =>
                  /\ Headers(q) # <<>> /\ Headers(Tail(q)) = Tail(Headers(q))
                  /\ Head(Headers(q)) = Head(q).header
<1>1. Len(q) \in Nat /\ \A n \in 1 .. Len(q) : q[n].header \in Msg
  <2>1. Len(q) \in Nat /\ \A n \in 1 .. Len(q) : q[n] \in TensorList
    BY LenProperties, ElementOfSeq
  <2> QED
    BY <2>1 DEF TensorList
<1>2. Headers(q) \in [1 .. Len(q) -> Msg]
  BY <1>1 DEF Headers
<1>3. Headers(q) \in Seq(Msg)
  BY <1>1, <1>2, SeqDef
<1>4. Len(Headers(q)) = Len(q)
  BY <1>1, <1>2, <1>3, LenProperties
<1>5. ASSUME NEW e \in TensorList PROVE Headers(Append(q, e)) = Append(Headers(q), e.header)
  <2>1. e.header \in Msg
    BY DEF TensorList
  <2>2. /\ Append(q, e) \in Seq(TensorList) /\ Len(Append(q, e)) = Len(q) + 1
        /\ \A n \in 1 .. Len(q) : Append(q, e)[n] = q[n]
        /\ Append(q, e)[Len(q) + 1] = e
    BY AppendProperties
  <2>3. /\ Append(Headers(q), e.header) \in Seq(Msg)
        /\ Len(Append(Headers(q), e.header)) = Len(q) + 1
        /\ \A n \in 1 .. Len(q) : Append(Headers(q), e.header)[n] = Headers(q)[n]
        /\ Append(Headers(q), e.header)[Len(q) + 1] = e.header
    BY <1>3, <1>4, <2>1, AppendProperties
  <2>4. DOMAIN Append(Headers(q), e.header) = 1 .. Len(q) + 1
    BY <2>3, LenProperties
  <2>5. \A n \in 1 .. Len(q) + 1 : n \in 1 .. Len(q) \/ n = Len(q) + 1
    BY <1>1
  <2>6. \A n \in 1 .. Len(q) : Headers(q)[n] = q[n].header
    BY DEF Headers
  <2>7. \A n \in 1 .. Len(q) + 1 : Append(Headers(q), e.header)[n] = Append(q, e)[n].header
    BY <2>2, <2>3, <2>5, <2>6
  <2>8. Append(Headers(q), e.header) =
            [n \in 1 .. Len(q) + 1 |-> Append(Headers(q), e.header)[n]]
    BY <2>3, <2>4, LenProperties
  <2> QED
    BY <2>2, <2>7, <2>8 DEF Headers
<1>6. ASSUME q # <<>>
      PROVE  /\ Headers(q) # <<>> /\ Headers(Tail(q)) = Tail(Headers(q))
             /\ Head(Headers(q)) = Head(q).header
  <2>1. Len(q) \in Nat \ {0}
    BY <1>6, EmptySeq
  <2>2. Headers(q) # <<>>
    BY <1>3, <1>4, <2>1, EmptySeq
  <2>3. Head(Headers(q)) = Head(q).header
    <3>1. 1 \in 1 .. Len(q) /\ Headers(q)[1] = q[1].header
      BY <2>1 DEF Headers
    <3>2. Head(q) = q[1] /\ Head(Headers(q)) = Headers(q)[1]
      BY <1>3, <1>6, <2>2
    <3> QED
      BY <3>1, <3>2
  <2>4. /\ Tail(q) \in Seq(TensorList) /\ Len(Tail(q)) = Len(q) - 1
        /\ \A n \in 1 .. Len(q) - 1 : Tail(q)[n] = q[n + 1]
    BY <1>6, HeadTailProperties
  <2>5. /\ Tail(Headers(q)) \in Seq(Msg) /\ Len(Tail(Headers(q))) = Len(q) - 1
        /\ \A n \in 1 .. Len(q) - 1 : Tail(Headers(q))[n] = Headers(q)[n + 1]
    BY <1>3, <1>4, <2>2, HeadTailProperties
  <2>6. \A n \in 1 .. Len(q) - 1 : n + 1 \in 1 .. Len(q)
    BY <2>1
  <2>7. \A n \in 1 .. Len(q) - 1 : Tail(Headers(q))[n] = Tail(q)[n].header
    BY <2>4, <2>5, <2>6 DEF Headers
  <2>8. Tail(Headers(q)) = [n \in 1 .. Len(q) - 1 |-> Tail(Headers(q))[n]]
    BY <2>5, LenProperties
  <2>9. Headers(Tail(q)) = Tail(Headers(q))
    BY <2>4, <2>7, <2>8 DEF Headers
  <2> QED
    BY <2>2, <2>3, <2>9
<1> QED
  BY <1>3, <1>4, <1>5, <1>6

\* An answer is appended to the answers.
LEMMA AnsweredAppend ==
    ASSUME NEW q \in Seq(TensorList), NEW e \in TensorList
    PROVE  Answered(Append(q, e)) =
               Append(Answered(q),
                      [header |-> e.header,
                       result |-> IF e.tensors = Empty THEN Empty ELSE e.tensors.msg])
<1> DEFINE A(d) == [header |-> d.header,
                    result |-> IF d.tensors = Empty THEN Empty ELSE d.tensors.msg]
           S == {A(d) : d \in TensorList}
<1>1. /\ Append(q, e) \in Seq(TensorList) /\ Len(Append(q, e)) = Len(q) + 1
      /\ \A n \in 1 .. Len(q) : Append(q, e)[n] = q[n]
      /\ Append(q, e)[Len(q) + 1] = e
  BY AppendProperties
<1>2. Len(q) \in Nat /\ \A n \in 1 .. Len(q) : q[n] \in TensorList
  BY LenProperties, ElementOfSeq
<1>3. Answered(q) = [n \in 1 .. Len(q) |-> A(q[n])]
  BY DEF Answered
<1>4. Answered(Append(q, e)) = [n \in 1 .. Len(q) + 1 |-> A(Append(q, e)[n])]
  BY <1>1 DEF Answered
<1> DEFINE x == A(e)
           f == Answered(q)
<1>5. /\ f \in [1 .. Len(q) -> S] /\ x \in S
      /\ \A n \in 1 .. Len(q) : f[n] = A(q[n])
  BY <1>2, <1>3
<1>6. \A n \in 1 .. Len(q) + 1 : A(Append(q, e)[n]) = IF n = Len(q) + 1 THEN x ELSE f[n]
  <2>1. \A n \in 1 .. Len(q) + 1 : n \in 1 .. Len(q) \/ n = Len(q) + 1
    BY <1>2
  <2>2. \A n \in 1 .. Len(q) : n # Len(q) + 1
    BY <1>2
  <2> QED
    BY <1>1, <1>5, <2>1, <2>2
<1> HIDE DEF A, S, x, f
<1>7. f \in Seq(S) /\ Len(f) = Len(q)
  <2>1. f \in Seq(S)
    BY <1>2, <1>5, SeqDef
  <2> QED
    BY <1>2, <1>5, <2>1, LenProperties
<1>8. /\ Append(f, x) \in Seq(S) /\ Len(Append(f, x)) = Len(q) + 1
      /\ \A n \in 1 .. Len(q) : Append(f, x)[n] = f[n]
      /\ Append(f, x)[Len(q) + 1] = x
  BY <1>5, <1>7, AppendProperties
<1>9. Append(f, x) = [n \in 1 .. Len(q) + 1 |-> IF n = Len(q) + 1 THEN x ELSE f[n]]
  <2>1. Append(f, x) = [n \in 1 .. Len(q) + 1 |-> Append(f, x)[n]]
    BY <1>8, LenProperties
  <2>2. \A n \in 1 .. Len(q) + 1 : n \in 1 .. Len(q) \/ n = Len(q) + 1
    BY <1>2
  <2> QED
    BY <1>8, <2>1, <2>2
<1> QED
  BY <1>4, <1>6, <1>9 DEF f, x, A

\* A KEEP_LAST queue behind another one: both together take the new element,
\* and lose the oldest one of the second if that is full.
LEMMA EnqueueConcat ==
    ASSUME NEW S, NEW a \in Seq(S), NEW q \in Seq(S), NEW e \in S
    PROVE  \/ a \o Enqueue(q, e) = Append(a \o q, e)
           \/ /\ Len(a) + 1 \in 1 .. Len(a \o q)
              /\ Len(a \o q) - (Len(a) + 1) + 1 >= QueueDepth
              /\ a \o Enqueue(q, e) = Append(Service!Without(a \o q, Len(a) + 1), e)
<1>1. CASE Len(q) = QueueDepth
  <2>1. q # <<>>
    BY <1>1, SizeAssumption
  <2>2. Tail(q) \in Seq(S)
    BY <2>1, HeadTailProperties
  <2>3. Enqueue(q, e) = Append(Tail(q), e)
    BY <1>1 DEF Enqueue
  <2>4. a \o Append(Tail(q), e) = Append(a \o Tail(q), e)
    BY <2>2, AppendConcat
  <2>5. /\ Len(a) + 1 \in 1 .. Len(a \o q)
        /\ Service!Without(a \o q, Len(a) + 1) = a \o Tail(q)
    BY <2>1, WithoutHead
  <2>6. Len(a \o q) - (Len(a) + 1) + 1 >= QueueDepth
    <3>1. Len(a \o q) = Len(a) + Len(q) /\ Len(a) \in Nat /\ Len(q) \in Nat
      BY ConcatProperties, LenProperties
    <3> QED
      BY <1>1, <3>1
  <2> QED
    BY <2>3, <2>4, <2>5, <2>6
<1>2. CASE Len(q) # QueueDepth
  <2>1. Enqueue(q, e) = Append(q, e)
    BY <1>2 DEF Enqueue
  <2> QED
    BY <2>1, AppendConcat
<1> QED
  BY <1>1, <1>2

\* The first element of a whole is that of its first part.
LEMMA HeadTailConcat ==
    ASSUME NEW S, NEW a \in Seq(S), NEW b \in Seq(S), a # <<>>
    PROVE  /\ a \o b # <<>> /\ Head(a \o b) = Head(a) /\ Tail(a \o b) = Tail(a) \o b
<1>1. /\ Len(a) \in Nat \ {0} /\ Len(b) \in Nat /\ a \o b \in Seq(S)
      /\ Len(a \o b) = Len(a) + Len(b)
      /\ \A n \in 1 .. Len(a) + Len(b) :
             (a \o b)[n] = IF n <= Len(a) THEN a[n] ELSE b[n - Len(a)]
  BY LenProperties, EmptySeq, ConcatProperties
<1>2. a \o b # <<>>
  BY <1>1, EmptySeq
<1>3. Head(a \o b) = Head(a)
  <2>1. (a \o b)[1] = a[1]
    BY <1>1
  <2> QED
    BY <1>1, <1>2, <2>1
<1>4. Tail(a \o b) = Tail(a) \o b
  <2>1. /\ Tail(a \o b) \in Seq(S) /\ Len(Tail(a \o b)) = Len(a) + Len(b) - 1
        /\ \A n \in 1 .. Len(a) + Len(b) - 1 : Tail(a \o b)[n] = (a \o b)[n + 1]
    BY <1>1, <1>2, HeadTailProperties
  <2>2. /\ Tail(a) \in Seq(S) /\ Len(Tail(a)) = Len(a) - 1
        /\ \A n \in 1 .. Len(a) - 1 : Tail(a)[n] = a[n + 1]
    BY HeadTailProperties
  <2>3. /\ Tail(a) \o b \in Seq(S) /\ Len(Tail(a) \o b) = (Len(a) - 1) + Len(b)
        /\ \A n \in 1 .. (Len(a) - 1) + Len(b) :
               (Tail(a) \o b)[n] = IF n <= Len(a) - 1 THEN Tail(a)[n] ELSE b[n - (Len(a) - 1)]
    BY <2>2, ConcatProperties
  <2>4. ASSUME NEW n \in 1 .. Len(a) + Len(b) - 1
        PROVE  Tail(a \o b)[n] = (Tail(a) \o b)[n]
    <3>1. /\ n + 1 \in 1 .. Len(a) + Len(b) /\ n \in 1 .. (Len(a) - 1) + Len(b)
          /\ (n + 1) - Len(a) = n - (Len(a) - 1)
          /\ (n + 1 <= Len(a)) = (n <= Len(a) - 1)
          /\ n <= Len(a) - 1 => n \in 1 .. Len(a) - 1
      BY <1>1
    <3>2. Tail(a \o b)[n] = IF n + 1 <= Len(a) THEN a[n + 1] ELSE b[(n + 1) - Len(a)]
      BY <1>1, <2>1, <3>1
    <3>3. (Tail(a) \o b)[n] = IF n <= Len(a) - 1 THEN a[n + 1] ELSE b[n - (Len(a) - 1)]
      BY <2>2, <2>3, <3>1
    <3> QED
      BY <3>1, <3>2, <3>3
  <2>5. Len(Tail(a \o b)) = Len(Tail(a) \o b)
    BY <1>1, <2>1, <2>3
  <2> QED
    BY <2>1, <2>3, <2>4, <2>5, SeqEqual
<1> QED
  BY <1>2, <1>3, <1>4

-----------------------------------------------------------------------------
(* The node is the service.                                                *)

\* A step that moves no frame is unseen, or the end of the service.
LEMMA NoFrameMoves ==
    ASSUME UNCHANGED <<sent, consumed>>, Pending' = Pending, Stopped => Stopped'
    PROVE  Service!Stop \/ UNCHANGED Service!svars
BY DEF Service!Stop, Service!svars, Answered, Stopped

\* A step of the thread that moves no frame: it passes the loop's test, leaves
\* the loop, constructs the node or runs the callback on the frame it has.
LEMMA QuietStep ==
    ASSUME SingleInv, NEW w, w = TheWorker, w \in Worker,
           \/ SpinOk(w) \/ SpinStops(w) \/ Wake(w) \/ Load(w) \/ LoadFails(w)
           \/ ExecGraph(w) \/ ExecFails(w) \/ Collect(w)
    PROVE  Service!Stop \/ UNCHANGED Service!svars
<1>0. phase \in [Worker -> Phases]
  BY DEF SingleInv, NodeInv, TypeOK
<1>1. UNCHANGED <<sent, inbox, outbox, consumed, msg>>
  BY DEF SpinOk, SpinStops, Wake, Load, LoadFails, ExecGraph, ExecFails, Collect, callVars,
     topicVars
<1>2. InCallback(w)' = InCallback(w)
  <2>1. Busy(w)' = Busy(w)
    BY <1>0 DEF SpinOk, SpinStops, Wake, Load, LoadFails, ExecGraph, ExecFails, Collect,
       GoTo, Busy
  <2> QED
    BY <1>1, <2>1 DEF InCallback
<1>3. Pending' = Pending
  BY <1>1, <1>2 DEF Pending, Headers
<1>4. Stopped => Stopped'
  BY <1>0 DEF SpinOk, SpinStops, Wake, Load, LoadFails, ExecGraph, ExecFails, Collect, GoTo,
     Stopped, Phases
<1> QED
  BY <1>1, <1>3, <1>4, NoFrameMoves

\* Where the frames are, as sequences.
LEMMA PendingTyped ==
    ASSUME SingleInv, TheWorker \in Worker
    PROVE  /\ outbox \in Seq(TensorList) /\ Headers(outbox) \in Seq(Msg)
           /\ InCallback(TheWorker) \in Seq(Msg)
           /\ inbox \in Seq(Msg) /\ Pending \in Seq(Msg)
<1>1. outbox \in Seq(TensorList) /\ inbox \in Seq(Msg)
  BY DEF SingleInv, NodeInv, TypeOK
<1>2. Headers(outbox) \in Seq(Msg)
  BY <1>1, HeadersProperties
<1>3. InCallback(TheWorker) \in Seq(Msg)
  BY DEF SingleInv, NodeInv, InCallback
<1>4. Headers(outbox) \o InCallback(TheWorker) \in Seq(Msg)
  BY <1>2, <1>3, ConcatProperties
<1> QED
  BY <1>1, <1>2, <1>3, <1>4, ConcatProperties DEF Pending

\* A frame comes in behind those that wait; a full queue drops the oldest frame
\* that the callback has not taken.
LEMMA SendStep ==
    ASSUME SingleInv, TheWorker \in Worker, NEW m \in Msg, Send(m)
    PROVE  Service!SNext
<1> DEFINE a == Headers(outbox) \o InCallback(TheWorker)
<1>1. /\ m \notin sent /\ sent' = sent \cup {m} /\ inbox' = Enqueue(inbox, m)
      /\ UNCHANGED <<ok, phase, msg, outbox, consumed>>
  BY DEF Send, callVars
<1>2. a \in Seq(Msg) /\ inbox \in Seq(Msg)
  BY PendingTyped, ConcatProperties
<1>3. Pending = a \o inbox /\ Pending' = a \o inbox'
  BY <1>1 DEF Pending, Headers, InCallback, Busy
<1>4. UNCHANGED <<Answered(consumed), Stopped>>
  BY <1>1 DEF Answered, Stopped
<1> HIDE DEF a
<1>5. \/ Pending' = Append(Pending, m)
      \/ /\ Len(a) + 1 \in 1 .. Len(Pending) /\ Len(Pending) - (Len(a) + 1) + 1 >= QueueDepth
         /\ Pending' = Append(Service!Without(Pending, Len(a) + 1), m)
  BY <1>1, <1>2, <1>3, EnqueueConcat
<1>6. CASE Pending' = Append(Pending, m)
  BY <1>1, <1>4, <1>6 DEF Service!SNext, Service!Accept
<1>7. CASE /\ Len(a) + 1 \in 1 .. Len(Pending) /\ Len(Pending) - (Len(a) + 1) + 1 >= QueueDepth
           /\ Pending' = Append(Service!Without(Pending, Len(a) + 1), m)
  <2>1. Service!AcceptLosing(m, Len(a) + 1)
    BY <1>1, <1>4, <1>7 DEF Service!AcceptLosing
  <2> QED
    BY <1>7, <2>1 DEF Service!SNext
<1> QED
  BY <1>5, <1>6, <1>7

\* The frame goes from the input queue into the callback: it is still the oldest
\* that has no result.
LEMMA TakeStep ==
    ASSUME SingleInv, NEW w, w = TheWorker, w \in Worker, Take(w)
    PROVE  Service!Stop \/ UNCHANGED Service!svars
<1>0. phase \in [Worker -> Phases] /\ msg \in [Worker -> Msg \cup {Empty}] /\ inbox \in Seq(Msg)
  BY DEF SingleInv, NodeInv, TypeOK
<1>1. /\ phase[w] = "ready" /\ inbox # <<>> /\ inbox' = Tail(inbox)
      /\ phase' = [phase EXCEPT ![w] = "infer"]
      /\ msg' = [msg EXCEPT ![w] = Head(inbox)]
      /\ UNCHANGED <<ok, sent, outbox, consumed>>
  BY DEF Take, GoTo
<1>2. InCallback(w) = <<>> /\ InCallback(w)' = <<Head(inbox)>>
  BY <1>0, <1>1 DEF InCallback, Busy
<1>3. Headers(outbox) \in Seq(Msg) /\ Headers(outbox)' = Headers(outbox)
  BY <1>1, PendingTyped DEF Headers
<1>4. /\ Head(inbox) \in Msg /\ Tail(inbox) \in Seq(Msg)
      /\ <<Head(inbox)>> \o Tail(inbox) = inbox
  <2>1. Head(inbox) \in Msg /\ Tail(inbox) \in Seq(Msg)
    BY <1>0, <1>1, HeadTailProperties
  <2>2. 1 \in 1 .. Len(inbox) /\ Len(inbox) \in 1 .. Len(inbox)
    BY <1>0, <1>1, EmptySeq
  <2>3. SubSeq(inbox, 1, Len(inbox)) = <<inbox[1]>> \o SubSeq(inbox, 1 + 1, Len(inbox))
    BY <1>0, <2>2, SubSeqRecursiveFirst
  <2>4. /\ SubSeq(inbox, 1, Len(inbox)) = inbox /\ 1 + 1 = 2
        /\ Tail(inbox) = SubSeq(inbox, 2, Len(inbox)) /\ Head(inbox) = inbox[1]
    BY <1>0, <1>1, SubSeqFull, TailIsSubSeq
  <2> QED
    BY <2>1, <2>3, <2>4
<1>5. Pending' = Pending
  <2>1. Pending = Headers(outbox) \o inbox
    BY <1>2, <1>3, ConcatEmptySeq DEF Pending
  <2>2. Pending' = (Headers(outbox) \o <<Head(inbox)>>) \o Tail(inbox)
    BY <1>1, <1>2, <1>3 DEF Pending
  <2>3. <<Head(inbox)>> \in Seq(Msg)
    BY <1>4
  <2> QED
    BY <1>3, <1>4, <2>1, <2>2, <2>3, ConcatAssociative
<1>6. Stopped => Stopped'
  BY <1>1 DEF Stopped
<1> QED
  BY <1>1, <1>5, <1>6, NoFrameMoves

\* The result goes out behind the ones that are not acted on yet.  A full queue
\* drops the oldest of them; a context that is shut down may drop the result.
LEMMA PublishStep ==
    ASSUME SingleInv, NEW w, w = TheWorker, w \in Worker, Publish(w)
    PROVE  Service!SNext \/ UNCHANGED Service!svars
<1> DEFINE e == [header |-> msg[w], tensors |-> pub_tensors[w], failed |-> failed[w]]
           H == Headers(outbox)
<1>0. phase \in [Worker -> Phases]
  BY DEF SingleInv, NodeInv, TypeOK
<1>1. /\ phase[w] = "publish" /\ phase' = [phase EXCEPT ![w] = "spin"]
      /\ outbox' = Enqueue(outbox, e) \/ (UNCHANGED outbox /\ ~ok)
      /\ UNCHANGED <<ok, msg, sent, inbox, consumed>>
  BY DEF Publish, GoTo, callVars
<1>2. e \in TensorList /\ e.header = msg[w] /\ msg[w] \in Msg
  BY <1>1 DEF SingleInv, NodeInv, TypeOK, TensorList, Busy
<1>3. InCallback(w) = <<msg[w]>> /\ InCallback(w)' = <<>>
  BY <1>0, <1>1 DEF InCallback, Busy
<1>4. H \in Seq(Msg) /\ inbox \in Seq(Msg) /\ outbox \in Seq(TensorList) /\ <<msg[w]>> \in Seq(Msg)
  BY <1>2, PendingTyped
<1>5. /\ Pending = (H \o <<msg[w]>>) \o inbox
      /\ Pending' = (Headers(outbox') \o <<>>) \o inbox
  <2>1. Headers(outbox)' = Headers(outbox')
    BY DEF Headers
  <2> QED
    BY <1>1, <1>3, <2>1 DEF Pending
<1>6. UNCHANGED <<Answered(consumed), Stopped>>
  BY <1>0, <1>1 DEF Answered, Stopped, Phases
<1> HIDE DEF e, H
<1>7. ASSUME Len(outbox) # QueueDepth, outbox' = Enqueue(outbox, e)
      PROVE  UNCHANGED Service!svars
  <2>1. Headers(outbox') = Append(H, msg[w])
    BY <1>2, <1>4, <1>7, HeadersProperties DEF Enqueue, H
  <2>2. Append(H, msg[w]) = H \o <<msg[w]>> /\ Append(H, msg[w]) \in Seq(Msg)
    BY <1>2, <1>4, AppendIsConcat, AppendProperties
  <2>3. Pending' = Pending
    BY <1>5, <2>1, <2>2, ConcatEmptySeq
  <2> QED
    BY <1>1, <1>6, <2>3 DEF Service!svars
<1>8. ASSUME Len(outbox) = QueueDepth, outbox' = Enqueue(outbox, e)
      PROVE  Service!Lose(1) /\ 1 \in 1 .. Len(Pending)
  <2>1. outbox # <<>> /\ H # <<>> /\ Headers(Tail(outbox)) = Tail(H)
    BY <1>4, <1>8, HeadersProperties, SizeAssumption DEF H
  <2>2. Tail(outbox) \in Seq(TensorList) /\ Tail(H) \in Seq(Msg)
    BY <1>4, <2>1, HeadTailProperties
  <2>3. Headers(outbox') = Append(Tail(H), msg[w])
    BY <1>2, <1>8, <2>1, <2>2, HeadersProperties DEF Enqueue
  <2>4. /\ Append(Tail(H), msg[w]) = Tail(H) \o <<msg[w]>>
        /\ Append(Tail(H), msg[w]) \in Seq(Msg)
    BY <1>2, <2>2, AppendIsConcat, AppendProperties
  <2>5. Pending' = (Tail(H) \o <<msg[w]>>) \o inbox
    BY <1>5, <2>3, <2>4, ConcatEmptySeq
  <2>6. H \o <<msg[w]>> \in Seq(Msg) /\ H \o <<msg[w]>> # <<>>
        /\ Tail(H \o <<msg[w]>>) = Tail(H) \o <<msg[w]>>
    BY <1>4, <2>1, HeadTailConcat, ConcatProperties
  <2>7. Pending # <<>> /\ Pending \in Seq(Msg) /\ Tail(Pending) = Pending'
    <3> DEFINE a == H \o <<msg[w]>>
    <3>1. a \in Seq(Msg) /\ a # <<>> /\ Pending = a \o inbox /\ Pending' = Tail(a) \o inbox
      BY <1>5, <2>5, <2>6
    <3> HIDE DEF a
    <3> QED
      BY <1>4, <3>1, HeadTailConcat, ConcatProperties
  <2>8. <<>> \in Seq(Msg) /\ Len(<<>>) = 0 /\ <<>> \o Pending = Pending
    BY <2>7, ConcatEmptySeq, EmptySeq
  <2>9. 0 + 1 \in 1 .. Len(Pending) /\ Service!Without(Pending, 0 + 1) = <<>> \o Tail(Pending)
    BY <2>7, <2>8, WithoutHead
  <2>10. Tail(Pending) \in Seq(Msg)
    BY <2>7, HeadTailProperties
  <2>11. 1 \in 1 .. Len(Pending) /\ Service!Without(Pending, 1) = Pending'
    BY <2>7, <2>9, <2>10, ConcatEmptySeq
  <2>12. Len(Pending) - 1 >= QueueDepth
    <3>1. Len(H) = QueueDepth /\ Len(<<msg[w]>>) = 1 /\ Len(inbox) \in Nat
      BY <1>4, <1>8, HeadersProperties, LenProperties DEF H
    <3>2. Len(H \o <<msg[w]>>) = Len(H) + 1 /\ H \o <<msg[w]>> \in Seq(Msg)
      BY <1>4, <3>1, ConcatProperties
    <3>3. Len(Pending) = Len(H \o <<msg[w]>>) + Len(inbox)
      BY <1>4, <1>5, <3>2, ConcatProperties
    <3> QED
      BY <3>1, <3>2, <3>3, SizeAssumption
  <2> QED
    BY <1>1, <1>6, <2>11, <2>12 DEF Service!Lose
<1>9. ASSUME UNCHANGED outbox, ~ok
      PROVE  Service!Lose(Len(H) + 1) /\ Len(H) + 1 \in 1 .. Len(Pending)
  <2>1. Pending' = H \o inbox
    BY <1>4, <1>5, <1>9, ConcatEmptySeq DEF H
  <2>2. <<msg[w]>> \o inbox \in Seq(Msg) /\ Pending = H \o (<<msg[w]>> \o inbox)
    BY <1>4, <1>5, ConcatAssociative, ConcatProperties
  <2>3. <<msg[w]>> # <<>> /\ Tail(<<msg[w]>>) = <<>>
    BY <1>4
  <2>4. <<msg[w]>> \o inbox # <<>> /\ Tail(<<msg[w]>> \o inbox) = inbox
    BY <1>4, <2>3, HeadTailConcat, ConcatEmptySeq
  <2>5. /\ Len(H) + 1 \in 1 .. Len(Pending)
        /\ Service!Without(Pending, Len(H) + 1) = H \o inbox
    BY <1>4, <2>2, <2>4, WithoutHead
  <2>6. Stopped
    BY <1>1, <1>9 DEF Stopped
  <2> QED
    BY <1>1, <1>6, <2>1, <2>5, <2>6 DEF Service!Lose
<1> QED
  BY <1>1, <1>7, <1>8, <1>9 DEF Service!SNext

\* The oldest waiting frame is answered with its own result.
LEMMA AnswerStep ==
    ASSUME SingleInv, NEW w, w = TheWorker, w \in Worker, PostProcess(w)
    PROVE  Service!Answer
<1> DEFINE e == Head(outbox)
           H == Headers(outbox)
           r == IF e.tensors = Empty THEN Empty ELSE e.tensors.msg
<1>0. phase \in [Worker -> Phases] /\ consumed \in Seq(TensorList)
  BY DEF SingleInv, NodeInv, TypeOK
<1>1. /\ phase[w] = "ready" /\ phase' = [phase EXCEPT ![w] = "spin"]
      /\ outbox # <<>> /\ outbox' = Tail(outbox) /\ consumed' = Append(consumed, e)
      /\ UNCHANGED <<msg, sent, inbox>>
  BY DEF PostProcess, GoTo, callVars
<1>2. H \in Seq(Msg) /\ inbox \in Seq(Msg) /\ outbox \in Seq(TensorList)
  BY PendingTyped
<1>3. InCallback(w) = <<>> /\ InCallback(w)' = <<>>
  BY <1>0, <1>1 DEF InCallback, Busy
<1>4. H # <<>> /\ Headers(Tail(outbox)) = Tail(H) /\ Head(H) = e.header /\ Tail(H) \in Seq(Msg)
  BY <1>1, <1>2, HeadersProperties, HeadTailProperties
<1>5. Pending = H \o inbox /\ Pending' = Tail(H) \o inbox
  <2>1. Headers(outbox)' = Headers(outbox')
    BY DEF Headers
  <2>2. Pending = (H \o <<>>) \o inbox /\ Pending' = (Tail(H) \o <<>>) \o inbox
    BY <1>1, <1>3, <1>4, <2>1 DEF Pending
  <2> QED
    BY <1>2, <1>4, <2>2, ConcatEmptySeq
<1>6. Pending # <<>> /\ Head(Pending) = e.header /\ Tail(Pending) = Pending'
  BY <1>2, <1>4, <1>5, HeadTailConcat
<1>7. r \in {e.header, Empty}
  <2>1. 1 \in 1 .. Len(outbox) /\ e = outbox[1]
    BY <1>1, <1>2, EmptySeq
  <2>2. Sound(e)
    BY <2>1 DEF SingleInv, QueueInv
  <2> QED
    BY <2>2 DEF Sound, Complete
<1>8. Answered(consumed)' = Append(Answered(consumed), [header |-> e.header, result |-> r])
  <2>1. e \in TensorList
    BY <1>1, <1>2, HeadTailProperties
  <2>2. Answered(consumed)' = Answered(consumed')
    BY DEF Answered
  <2> QED
    BY <1>0, <1>1, <2>1, <2>2, AnsweredAppend
<1>9. ~Stopped /\ Stopped' \in BOOLEAN
  BY <1>1 DEF Stopped
<1> HIDE DEF e, H, r
<1> QED
  BY <1>1, <1>6, <1>7, <1>8, <1>9 DEF Service!Answer

\* Every step of the node is a step of the service or unseen by it.
LEMMA ServiceStep ==
    ASSUME SingleWorker, SingleInv, [Next]_vars
    PROVE  [Service!SNext]_Service!svars
<1>0. TheWorker \in Worker /\ \A w \in Worker : w = TheWorker
  BY DEF SingleWorker, TheWorker
<1>1. ASSUME NEW m \in Msg, Send(m) PROVE Service!SNext
  BY <1>0, <1>1, SendStep
<1>2. CASE Interrupt
  <2>1. /\ UNCHANGED <<sent, consumed>> /\ Pending' = Pending /\ (Stopped => Stopped')
    BY <1>2 DEF Interrupt, callVars, topicVars, Pending, Headers, InCallback, Busy, Stopped
  <2> QED
    BY <2>1, NoFrameMoves DEF Service!SNext
<1>3. ASSUME NEW w \in Worker, WorkerStep(w)
      PROVE  Service!SNext \/ UNCHANGED Service!svars
  <2>1. CASE \/ SpinOk(w) \/ SpinStops(w) \/ Wake(w) \/ Load(w) \/ LoadFails(w)
             \/ ExecGraph(w) \/ ExecFails(w) \/ Collect(w)
    BY <1>0, <2>1, QuietStep DEF Service!SNext
  <2>2. CASE Take(w)
    BY <1>0, <2>2, TakeStep DEF Service!SNext
  <2>3. CASE Publish(w)
    BY <1>0, <2>3, PublishStep
  <2>4. CASE PostProcess(w)
    BY <1>0, <2>4, AnswerStep DEF Service!SNext
  <2> QED
    BY <1>3, <2>1, <2>2, <2>3, <2>4 DEF WorkerStep
<1>4. CASE UNCHANGED vars
  BY <1>4 DEF vars, callVars, topicVars, Service!svars, Pending, Headers, InCallback, Busy,
     Answered, Stopped
<1> QED
  BY <1>1, <1>2, <1>3, <1>4 DEF Next

\* With one worker the node is the service: frames are answered in the order they
\* came, each at most once, by their own results or by none, and one is lost only
\* while QueueDepth newer ones wait, or in a shutdown (subscription_callback,
\* publish_msg); for any number of frames and graphs and any depth of the queues.
THEOREM ImplementsServiceCorrect ==
    ASSUME SingleWorker PROVE Spec => ImplementsService
<1>1. Init => Service!SInit
  <2> SUFFICES ASSUME Init PROVE Service!SInit
    OBVIOUS
  <2>1. TheWorker \in Worker
    BY DEF SingleWorker, TheWorker
  <2>2. /\ sent = {} /\ inbox = <<>> /\ outbox = <<>> /\ consumed = <<>>
        /\ ok = TRUE /\ InCallback(TheWorker) = <<>>
    BY <2>1 DEF Init, InCallback, Busy
  <2>3. 1 .. Len(<<>>) = {} /\ <<>> \in Seq(Msg)
    OBVIOUS
  <2>4. Headers(<<>>) = <<>> /\ Answered(<<>>) = <<>>
    BY <2>3 DEF Headers, Answered
  <2>5. Pending = <<>>
    BY <2>2, <2>3, <2>4, ConcatEmptySeq DEF Pending
  <2> QED
    BY <2>2, <2>4, <2>5 DEF Service!SInit, Stopped
<1>2. SingleInv /\ [Next]_vars => [Service!SNext]_Service!svars
  BY ServiceStep
<1> QED
  BY <1>1, <1>2, SingleCorrect, PTL DEF Spec, ImplementsService, Service!SafeSpec
=============================================================================
