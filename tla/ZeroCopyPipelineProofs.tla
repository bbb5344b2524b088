----------------------- MODULE ZeroCopyPipelineProofs -----------------------
(***************************************************************************)
(* Theorems about ZeroCopyPipeline for every value of its constants.       *)
(*                                                                         *)
(* StateInv holds with any number of threads: the types, and what every    *)
(* message in flight says of its buffer.  With one thread, as in the       *)
(* container of the launch files, PipeInv orders the image numbers along   *)
(* the pipeline: the map shown, the output buffer, the queued results, the *)
(* input buffer, the queued frames and the queued images.                  *)
(***************************************************************************)
EXTENDS ZeroCopyPipeline, SequenceTheorems, TLAPS

Jobs == Image \cup Frame \cup Result \cup {None}

\* Every frame has offset 0, and so has every result, with no pointer.
Plain == [offset |-> 0, ptr |-> 0]
PlainFrame == [image : Images, offset : {0}]
PlainResult == [image : Images, tensors : {<<>>, <<Plain>>}]

FlightInv ==
    /\ threads # {} /\ job \in [Worker -> Jobs]
    /\ frameQ \in Seq(PlainFrame) /\ resultQ \in Seq(PlainResult)
    /\ \A w \in Worker :
           /\ phase[w] \in InferPhases => job[w] \in PlainFrame
           /\ phase[w] = "read" => job[w] \in PlainResult /\ job[w].tensors # <<>>
    /\ ~freed

StateInv == TypeOK /\ FlightInv

\* The image that the input buffer holds, or is about to hold.
Written(w) == IF phase[w] = "memcpy" THEN job[w].image ELSE input

\* No callback will run any more: an execution failed, or a signal came.
Stopped(w) == ~ok /\ phase[w] \in {"failed", "spin"}

\* Images wait in the order they arrived, all newer than the one written.
ImagesInv(w) ==
    /\ \A n \in 1 .. Len(imageQ) :
           imageQ[n].image <= images /\ imageQ[n].image > Written(w)
    /\ \A n, m \in 1 .. Len(imageQ) : n < m => imageQ[n].image < imageQ[m].image
    /\ Written(w) <= images
    /\ phase[w] = "convert" =>
           /\ job[w].image > input /\ job[w].image <= images
           /\ \A n \in 1 .. Len(imageQ) : imageQ[n].image > job[w].image
    /\ phase[w] # "memcpy" => input # Torn

\* A frame names an image that the buffer holds or held.
FramesInv(w) ==
    /\ \A n \in 1 .. Len(frameQ) : frameQ[n].image <= Written(w)
    /\ \A n \in 1 .. Len(resultQ) : resultQ[n].image <= Written(w)
    /\ phase[w] \in InferPhases => job[w].image <= input
    /\ phase[w] = "execute" => snap[w] = input
    /\ phase[w] = "failed" => ~ok

\* The output buffer is of one image, at least as new as the results that name
\* it and the map shown, except while the graph runs or when nothing will.
OutputInv(w) ==
    /\ shown.image <= shown.content /\ shown.content <= Written(w)
    /\ shown.content # Torn
    /\ phase[w] # "execute" /\ ~Stopped(w) =>
           /\ output # Torn /\ output <= Written(w)
           /\ shown.content <= output
           /\ \A n \in 1 .. Len(resultQ) :
                  resultQ[n].tensors # <<>> => resultQ[n].image <= output
    /\ phase[w] = "publish" => output = input
    /\ phase[w] = "read" => snap[w] = output /\ job[w].image <= output

\* What was written and is not in the output yet is queued or at work, and so
\* is what is in the output and has not been shown.
RestInv(w) ==
    /\ ok => \A n \in 1 .. Len(resultQ) : resultQ[n].tensors # <<>>
    /\ ok => \/ phase[w] \in {"memcpy", "setup", "execute"}
             \/ frameQ # <<>>
             \/ output = input
    /\ ok /\ ~unmapped =>
             \/ phase[w] \in {"execute", "publish", "read"}
             \/ resultQ # <<>>
             \/ shown.content = output

PipeInv(w) == ImagesInv(w) /\ FramesInv(w) /\ OutputInv(w) /\ RestInv(w)

Inv == StateInv /\ \A w \in threads : threads = {w} => PipeInv(w)

-----------------------------------------------------------------------------
(* Queues.                                                                 *)

\* What Head and Tail leave of a queue.
LEMMA TakeProperties ==
    ASSUME NEW S, NEW q \in Seq(S), q # <<>>
    PROVE  /\ Head(q) \in S /\ Head(q) = q[1] /\ 1 \in 1 .. Len(q)
           /\ Tail(q) \in Seq(S) /\ Len(Tail(q)) = Len(q) - 1
           /\ Len(q) \in Nat \ {0}
           /\ \A n \in 1 .. Len(Tail(q)) :
                  n + 1 \in 1 .. Len(q) /\ Tail(q)[n] = q[n + 1]
<1>1. /\ Head(q) \in S /\ Head(q) = q[1]
      /\ Tail(q) \in Seq(S) /\ Len(Tail(q)) = Len(q) - 1
      /\ \A n \in 1 .. Len(Tail(q)) : Tail(q)[n] = q[n + 1]
  BY HeadTailProperties
<1>2. Len(q) \in Nat /\ Len(q) # 0
  BY EmptySeq, LenProperties
<1> QED
  BY <1>1, <1>2

\* In r there is e behind elements of q, in the order they have in q.
OldOrNew(q, e, r) ==
    \A n \in 1 .. Len(r) : r[n] = e \/ \E k \in 1 .. Len(q) : r[n] = q[k]
InOrder(q, e, r) ==
    \A n, m \in 1 .. Len(r) :
        n < m => \E k \in 1 .. Len(q) :
            /\ r[n] = q[k]
            /\ r[m] = e \/ \E l \in 1 .. Len(q) : k < l /\ r[m] = q[l]

\* A KEEP_LAST queue stays within its depth, is not empty, and keeps the order.
LEMMA KeepLastProperties ==
    ASSUME NEW S, NEW q \in Seq(S), NEW e \in S, Len(q) <= Depth
    PROVE  /\ KeepLast(q, e) \in Seq(S) /\ Len(KeepLast(q, e)) <= Depth
           /\ KeepLast(q, e) # <<>>
           /\ OldOrNew(q, e, KeepLast(q, e)) /\ InOrder(q, e, KeepLast(q, e))
<1> DEFINE r == IF Len(q) = Depth THEN Tail(q) ELSE q
<1>1. Depth \in Nat \ {0}
  BY PipelineAssumption
<1>2. PICK d \in {0, 1} :
          /\ r \in Seq(S) /\ Len(r) \in Nat /\ Len(r) < Depth
          /\ \A n \in 1 .. Len(r) : n + d \in 1 .. Len(q) /\ r[n] = q[n + d]
  <2>1. CASE Len(q) = Depth
    <3>1. q # <<>>
      BY <1>1, <2>1
    <3> QED
      BY <1>1, <2>1, <3>1, TakeProperties
  <2>2. CASE Len(q) # Depth
    <3>1. Len(q) \in Nat
      BY LenProperties
    <3>2. \A n \in 1 .. Len(q) : n + 0 = n
      OBVIOUS
    <3> QED
      BY <1>1, <2>2, <3>1, <3>2
  <2> QED
    BY <2>1, <2>2
<1> HIDE DEF r
<1>3. /\ Append(r, e) \in Seq(S) /\ Append(r, e) # <<>>
      /\ Len(Append(r, e)) = Len(r) + 1
      /\ \A n \in 1 .. Len(r) : Append(r, e)[n] = r[n]
      /\ Append(r, e)[Len(r) + 1] = e
  BY <1>2, AppendProperties
<1>4. KeepLast(q, e) = Append(r, e)
  BY DEF KeepLast, r
<1>5. \A n \in 1 .. Len(r) + 1 : n \in 1 .. Len(r) \/ n = Len(r) + 1
  BY <1>2
<1>6. \A n, m \in 1 .. Len(r) + 1 : n < m => n \in 1 .. Len(r) /\ n + d < m + d
  BY <1>2
<1>7. InOrder(q, e, Append(r, e))
  <2> SUFFICES ASSUME NEW n \in 1 .. Len(Append(r, e)), NEW m \in 1 .. Len(Append(r, e)),
                      n < m
               PROVE  \E k \in 1 .. Len(q) :
                          /\ Append(r, e)[n] = q[k]
                          /\ \/ Append(r, e)[m] = e
                             \/ \E l \in 1 .. Len(q) : k < l /\ Append(r, e)[m] = q[l]
    BY DEF InOrder
  <2>1. n + d \in 1 .. Len(q) /\ Append(r, e)[n] = q[n + d]
    BY <1>2, <1>3, <1>6
  <2>2. \/ Append(r, e)[m] = e
        \/ m + d \in 1 .. Len(q) /\ Append(r, e)[m] = q[m + d]
    BY <1>2, <1>3, <1>5
  <2> QED
    BY <1>6, <2>1, <2>2
<1>8. OldOrNew(q, e, Append(r, e))
  BY <1>2, <1>3, <1>5 DEF OldOrNew
<1> QED
  BY <1>1, <1>2, <1>3, <1>4, <1>7, <1>8
-----------------------------------------------------------------------------
(* Any number of threads.                                                  *)

\* Nothing is in flight before the first image.
LEMMA StateInit == Init => StateInv
<1> SUFFICES ASSUME Init PROVE StateInv
  OBVIOUS
<1> USE DEF Init
<1>1. /\ <<>> \in Seq(Image) /\ <<>> \in Seq(Frame) /\ <<>> \in Seq(Result)
      /\ Len(<<>>) = 0 /\ 0 <= Depth
  BY PipelineAssumption
<1>2. TypeOK
  <2>1. /\ images \in 0 .. MaxImages /\ {input, output} \subseteq Contents
        /\ shown \in [image : 0 .. MaxImages, content : Contents]
        /\ snap \in [Worker -> Contents]
    BY PipelineAssumption DEF Contents
  <2>2. /\ phase \in [Worker -> Phases]
        /\ \A w \in Worker : phase[w] \notin PrePhases \cup InferPhases \cup {"read"}
    BY DEF Phases, PrePhases, InferPhases
  <2>3. /\ imageQ \in Seq(Image) /\ frameQ \in Seq(Frame) /\ resultQ \in Seq(Result)
        /\ Len(imageQ) <= Depth /\ Len(frameQ) <= Depth /\ Len(resultQ) <= Depth
    BY <1>1
  <2> QED
    BY <2>1, <2>2, <2>3 DEF TypeOK
<1>3. FlightInv
  BY DEF FlightInv, Jobs, InferPhases
<1> QED
  BY <1>2, <1>3 DEF StateInv

\* The image arrives.
LEMMA StateArrive ==
    ASSUME StateInv, NEW supported \in BOOLEAN, Arrive(supported)
    PROVE  StateInv'
<1>1. [image |-> images', supported |-> supported] \in Image /\ images' \in 0 .. MaxImages
  BY PipelineAssumption DEF StateInv, TypeOK, Arrive, Image, Images
<1>2. imageQ' \in Seq(Image) /\ Len(imageQ') <= Depth
  BY <1>1, KeepLastProperties DEF StateInv, TypeOK, Arrive
<1>3. TypeOK'
  BY <1>1, <1>2 DEF StateInv, TypeOK, Arrive, buffers, local, published
<1>4. FlightInv'
  BY DEF StateInv, FlightInv, Arrive, buffers, local
<1> QED
  BY <1>3, <1>4 DEF StateInv
\* The executor.
LEMMA StateSpinOk ==
    ASSUME StateInv, NEW w \in Worker, SpinOk(w)
    PROVE  StateInv'
<1> USE DEF queues, buffers, published, From, To, Keeps, SpinOk
<1>8. TypeOK'
  BY DEF StateInv, TypeOK, FlightInv, Phases, PrePhases, InferPhases, Contents
<1>9. FlightInv'
  BY DEF StateInv, TypeOK, FlightInv, Phases, PrePhases, InferPhases
<1> QED
  BY <1>8, <1>9 DEF StateInv

\* The pre-process node takes an image.
LEMMA StateTakeImage ==
    ASSUME StateInv, NEW w \in Worker, TakeImage(w)
    PROVE  StateInv'
<1> USE DEF queues, buffers, published, From, To, Keeps, TakeImage
<1>1. /\ Head(imageQ) \in Image
      /\ Tail(imageQ) \in Seq(Image) /\ Len(Tail(imageQ)) <= Depth
  BY TakeProperties, PipelineAssumption DEF StateInv, TypeOK
<1>2. job' \in [Worker -> Jobs] /\ job'[w] = Head(imageQ)
  BY <1>1 DEF StateInv, FlightInv, Jobs
<1>8. TypeOK'
  BY <1>1, <1>2 DEF StateInv, TypeOK, FlightInv, Phases, PrePhases, InferPhases, Contents
<1>9. FlightInv'
  BY <1>1, <1>2 DEF StateInv, TypeOK, FlightInv, Phases, PrePhases, InferPhases
<1> QED
  BY <1>8, <1>9 DEF StateInv

\* The buffer is written.
LEMMA StateBeginWrite ==
    ASSUME StateInv, NEW w \in Worker, BeginWrite(w)
    PROVE  StateInv'
<1> USE DEF queues, buffers, published, From, To, Keeps, BeginWrite
<1>8. TypeOK'
  BY PipelineAssumption DEF StateInv, TypeOK, FlightInv, Phases, PrePhases, InferPhases,
     Contents, Torn
<1>9. FlightInv'
  BY DEF StateInv, TypeOK, FlightInv, Phases, PrePhases, InferPhases
<1> QED
  BY <1>8, <1>9 DEF StateInv

\* ... and its frame published.
LEMMA StatePublishFrame ==
    ASSUME StateInv, NEW w \in Worker, PublishFrame(w)
    PROVE  StateInv'
<1> USE DEF queues, buffers, published, From, To, Keeps, PublishFrame
<1>1. /\ job[w] \in Image
      /\ [image |-> job[w].image, offset |-> 0] \in Frame
  BY DEF StateInv, TypeOK, PrePhases, Image, Frame
<1>2. frameQ' \in Seq(Frame) /\ Len(frameQ') <= Depth
  BY <1>1, KeepLastProperties DEF StateInv, TypeOK
<1>3. frameQ' \in Seq(PlainFrame)
  <2>1. [image |-> job[w].image, offset |-> 0] \in PlainFrame
    BY <1>1 DEF PlainFrame, Image
  <2> QED
    BY <2>1, KeepLastProperties DEF StateInv, TypeOK, FlightInv
<1>4. input' \in Contents
  BY <1>1, PipelineAssumption DEF Image, Images, Contents
<1>8. TypeOK'
  BY <1>1, <1>2, <1>4 DEF StateInv, TypeOK, FlightInv, Phases, PrePhases, InferPhases,
     Contents
<1>9. FlightInv'
  BY <1>1, <1>3 DEF StateInv, TypeOK, FlightInv, Phases, PrePhases, InferPhases
<1> QED
  BY <1>8, <1>9 DEF StateInv

\* The inference node takes a frame.
LEMMA StateTakeFrame ==
    ASSUME StateInv, NEW w \in Worker, TakeFrame(w)
    PROVE  StateInv'
<1> USE DEF queues, buffers, published, From, To, Keeps, TakeFrame
<1>1. /\ Head(frameQ) \in Frame /\ Tail(frameQ) \in Seq(Frame)
      /\ Len(Tail(frameQ)) <= Depth
  BY TakeProperties, PipelineAssumption DEF StateInv, TypeOK
<1>3. Head(frameQ) \in PlainFrame /\ Tail(frameQ) \in Seq(PlainFrame)
  BY TakeProperties DEF StateInv, FlightInv
<1>2. job' \in [Worker -> Jobs] /\ job'[w] = Head(frameQ)
  BY <1>1 DEF StateInv, FlightInv, Jobs
<1>8. TypeOK'
  BY <1>1, <1>2 DEF StateInv, TypeOK, FlightInv, Phases, PrePhases, InferPhases, Contents
<1>9. FlightInv'
  BY <1>2, <1>3 DEF StateInv, TypeOK, FlightInv, Phases, PrePhases, InferPhases
<1> QED
  BY <1>8, <1>9 DEF StateInv

\* The graph starts.
LEMMA StateBeginExecute ==
    ASSUME StateInv, NEW w \in Worker, BeginExecute(w)
    PROVE  StateInv'
<1> USE DEF queues, buffers, published, From, To, Keeps, BeginExecute
<1>8. TypeOK'
  BY PipelineAssumption DEF StateInv, TypeOK, FlightInv, Phases, PrePhases, InferPhases,
     Contents, Torn
<1>9. FlightInv'
  BY DEF StateInv, TypeOK, FlightInv, Phases, PrePhases, InferPhases
<1> QED
  BY <1>8, <1>9 DEF StateInv

\* ... and ends,
LEMMA StateEndExecute ==
    ASSUME StateInv, NEW w \in Worker, EndExecute(w)
    PROVE  StateInv'
<1> USE DEF queues, buffers, published, From, To, Keeps, EndExecute
<1>8. TypeOK'
  BY PipelineAssumption DEF StateInv, TypeOK, FlightInv, Phases, PrePhases, InferPhases,
     Contents, Torn
<1>9. FlightInv'
  BY DEF StateInv, TypeOK, FlightInv, Phases, PrePhases, InferPhases
<1> QED
  BY <1>8, <1>9 DEF StateInv

\* ... or fails.
LEMMA StateExecuteFails ==
    ASSUME StateInv, NEW w \in Worker, ExecuteFails(w)
    PROVE  StateInv'
<1> USE DEF queues, buffers, published, From, To, Keeps, ExecuteFails
<1>8. TypeOK'
  BY DEF StateInv, TypeOK, FlightInv, Phases, PrePhases, InferPhases, Contents
<1>9. FlightInv'
  BY DEF StateInv, TypeOK, FlightInv, Phases, PrePhases, InferPhases
<1> QED
  BY <1>8, <1>9 DEF StateInv

\* The result is published.
LEMMA StatePublishResult ==
    ASSUME StateInv, NEW w \in Worker, PublishResult(w)
    PROVE  StateInv'
<1> USE DEF queues, buffers, published, From, To, Keeps, PublishResult
<1> DEFINE list == IF phase[w] = "failed" THEN <<>>
                   ELSE <<[offset |-> job[w].offset, ptr |-> 0]>>
<1>1. job[w] \in PlainFrame
  BY DEF StateInv, TypeOK, FlightInv, InferPhases
<1>2. list \in {<<>>, <<Plain>>}
  BY <1>1 DEF Plain, PlainFrame
<1>3. <<>> \in Seq(Tensor) /\ <<Plain>> \in Seq(Tensor)
  BY DEF Plain, Tensor
<1>4. [image |-> job[w].image, tensors |-> list] \in Result \cap PlainResult
  BY <1>1, <1>2, <1>3 DEF PlainFrame, Result, PlainResult
<1> HIDE DEF list
<1>5. resultQ' = KeepLast(resultQ, [image |-> job[w].image, tensors |-> list])
  BY DEF list
<1>6. resultQ' \in Seq(Result) /\ Len(resultQ') <= Depth
  BY <1>4, <1>5, KeepLastProperties DEF StateInv, TypeOK
<1>7. resultQ' \in Seq(PlainResult)
  BY <1>4, <1>5, KeepLastProperties DEF StateInv, TypeOK, FlightInv
<1>8. TypeOK'
  BY <1>6 DEF StateInv, TypeOK, FlightInv, Phases, PrePhases, InferPhases, Contents
<1>9. FlightInv'
  BY <1>7 DEF StateInv, TypeOK, FlightInv, Phases, PrePhases, InferPhases
<1> QED
  BY <1>8, <1>9 DEF StateInv

\* The post-process node takes a result,
LEMMA StateTakeResult ==
    ASSUME StateInv, NEW w \in Worker, TakeResult(w)
    PROVE  StateInv'
<1> USE DEF queues, buffers, published, From, To, Keeps, TakeResult
<1>1. /\ Head(resultQ) \in Result /\ Tail(resultQ) \in Seq(Result)
      /\ Len(Tail(resultQ)) <= Depth
  BY TakeProperties, PipelineAssumption DEF StateInv, TypeOK
<1>3. Head(resultQ) \in PlainResult /\ Tail(resultQ) \in Seq(PlainResult)
  BY TakeProperties DEF StateInv, FlightInv
<1>2. job' \in [Worker -> Jobs] /\ job'[w] = Head(resultQ)
  BY <1>1 DEF StateInv, FlightInv, Jobs
<1>8. TypeOK'
  BY <1>1, <1>2 DEF StateInv, TypeOK, FlightInv, Phases, PrePhases, InferPhases, Contents
<1>9. FlightInv'
  BY <1>2, <1>3 DEF StateInv, TypeOK, FlightInv, Phases, PrePhases, InferPhases
<1> QED
  BY <1>8, <1>9 DEF StateInv

\* ... cannot map its buffer,
LEMMA StateMmapFails ==
    ASSUME StateInv, NEW w \in Worker, MmapFails(w)
    PROVE  StateInv'
<1> USE DEF queues, buffers, published, From, To, Keeps, MmapFails
<1>8. TypeOK'
  BY DEF StateInv, TypeOK, FlightInv, Phases, PrePhases, InferPhases, Contents
<1>9. FlightInv'
  BY DEF StateInv, TypeOK, FlightInv, Phases, PrePhases, InferPhases
<1> QED
  BY <1>8, <1>9 DEF StateInv

\* ... or shows it and leaves it to the engine.
LEMMA StatePublishDepth ==
    ASSUME StateInv, NEW w \in Worker, PublishDepth(w)
    PROVE  StateInv'
<1> USE DEF queues, buffers, published, From, To, Keeps, PublishDepth
<1>1. job[w] \in Result /\ job[w].tensors = <<Plain>>
  BY DEF StateInv, TypeOK, FlightInv, PlainResult
<1>2. freed' = FALSE
  <2>1. job[w].tensors[1].ptr = 0
    BY <1>1 DEF Plain
  <2>2. ~freed /\ freed' = (freed \/ job[w].tensors[1].ptr # 0)
    BY DEF StateInv, FlightInv
  <2> QED
    BY ONLY <2>1, <2>2
<1>3. shown' \in [image : 0 .. MaxImages, content : Contents]
  BY <1>1, PipelineAssumption DEF StateInv, TypeOK, Result, Images, Contents, Torn
<1>8. TypeOK'
  BY <1>2, <1>3 DEF StateInv, TypeOK, FlightInv, Phases, PrePhases, InferPhases, Contents
<1>9. FlightInv'
  BY <1>2 DEF StateInv, TypeOK, FlightInv, Phases, PrePhases, InferPhases
<1> QED
  BY <1>8, <1>9 DEF StateInv

\* Every step of every thread keeps what each frame and result looks like.
LEMMA StateNext == ASSUME StateInv, [Next]_vars PROVE StateInv'
<1>1. CASE UNCHANGED vars
  BY <1>1 DEF vars, queues, buffers, local, published, StateInv, TypeOK, FlightInv
<1>2. ASSUME NEW supported \in BOOLEAN, Arrive(supported) PROVE StateInv'
  BY <1>2, StateArrive
<1>3. CASE Interrupt
  BY <1>3 DEF Interrupt, queues, buffers, local, published, StateInv, TypeOK, FlightInv
<1>4. ASSUME NEW w \in Worker, WorkerStep(w) PROVE StateInv'
  BY <1>4, StateSpinOk, StateTakeImage, StateBeginWrite, StatePublishFrame,
     StateTakeFrame, StateBeginExecute, StateEndExecute, StateExecuteFails,
     StatePublishResult, StateTakeResult, StateMmapFails, StatePublishDepth
     DEF WorkerStep
<1> QED
  BY <1>1, <1>2, <1>3, <1>4 DEF Next

\* Whatever the threads do, a frame and a result in flight are those that the
\* nodes make: one tensor at pointer 0 of the engine, nothing freed.
THEOREM StateCorrect == Spec => []StateInv
<1> QED
  BY StateInit, StateNext, PTL DEF Spec

-----------------------------------------------------------------------------
(* One thread.                                                             *)

\* What TypeOK says of the numbers that PipeInv compares.
LEMMA Numbers ==
    ASSUME StateInv, NEW w \in Worker
    PROVE  /\ images \in Int /\ input \in Int /\ output \in Int
           /\ phase[w] \in Phases /\ snap[w] \in Int
           /\ shown.image \in Int /\ shown.content \in Int
           /\ Len(imageQ) \in Nat /\ Len(frameQ) \in Nat /\ Len(resultQ) \in Nat
           /\ \A n \in 1 .. Len(imageQ) : imageQ[n].image \in Nat
           /\ \A n \in 1 .. Len(frameQ) : frameQ[n].image \in Nat
           /\ \A n \in 1 .. Len(resultQ) : resultQ[n].image \in Nat
           /\ phase[w] \in PrePhases \cup InferPhases \cup {"read"} =>
                  job[w].image \in Nat /\ job[w].image # 0
<1>1. /\ images \in Int /\ input \in Int /\ output \in Int
      /\ phase[w] \in Phases /\ snap[w] \in Int
      /\ shown.image \in Int /\ shown.content \in Int
  BY PipelineAssumption DEF StateInv, TypeOK, Contents
<1>2. /\ imageQ \in Seq(Image) /\ frameQ \in Seq(Frame) /\ resultQ \in Seq(Result)
  BY DEF StateInv, TypeOK
<1>3. /\ \A m \in Image : m.image \in Nat /\ m.image # 0
      /\ \A m \in Frame : m.image \in Nat /\ m.image # 0
      /\ \A m \in Result : m.image \in Nat /\ m.image # 0
  BY PipelineAssumption DEF Image, Frame, Result, Images
<1>4. /\ Len(imageQ) \in Nat /\ Len(frameQ) \in Nat /\ Len(resultQ) \in Nat
      /\ \A n \in 1 .. Len(imageQ) : imageQ[n] \in Image
      /\ \A n \in 1 .. Len(frameQ) : frameQ[n] \in Frame
      /\ \A n \in 1 .. Len(resultQ) : resultQ[n] \in Result
  BY <1>2, LenProperties, ElementOfSeq
<1>5. phase[w] \in PrePhases \cup InferPhases \cup {"read"} =>
          job[w] \in Image \cup Frame \cup Result
  BY DEF StateInv, TypeOK
<1> QED
  BY <1>1, <1>3, <1>4, <1>5
\* What a full queue of images keeps is still in order, before the new image.
LEMMA PipeArrive ==
    ASSUME StateInv, NEW w \in Worker, threads = {w}, PipeInv(w),
           NEW supported \in BOOLEAN, Arrive(supported)
    PROVE  PipeInv(w)'
<1> DEFINE e == [image |-> images', supported |-> supported]
<1>1. /\ e \in Image /\ imageQ \in Seq(Image) /\ Len(imageQ) <= Depth
      /\ imageQ' = KeepLast(imageQ, e) /\ e.image = images + 1 /\ images' = images + 1
  BY PipelineAssumption DEF StateInv, TypeOK, Arrive, Image, Images
<1> HIDE DEF e
<1>2. OldOrNew(imageQ, e, imageQ') /\ InOrder(imageQ, e, imageQ')
  BY <1>1, KeepLastProperties
<1>3. UNCHANGED <<frameQ, resultQ, buffers, local, published, ok>>
  BY DEF Arrive
<1>4. ImagesInv(w)'
  <2>1. /\ ImagesInv(w) /\ Written(w)' = Written(w) /\ UNCHANGED <<input, phase, job>>
        /\ Written(w) \in Int /\ images \in Int /\ input \in Int
    BY <1>3, Numbers DEF PipeInv, Written, buffers, local, PrePhases
  <2>2. \A n \in 1 .. Len(imageQ) : imageQ[n].image \in Nat
    BY Numbers
  <2>3. \A n \in 1 .. Len(imageQ') :
            /\ imageQ'[n].image <= images' /\ imageQ'[n].image > Written(w)
            /\ phase[w] = "convert" => imageQ'[n].image > job[w].image
    <3>1. phase[w] = "convert" => job[w].image \in Nat
      BY Numbers DEF PrePhases
    <3> SUFFICES ASSUME NEW n \in 1 .. Len(imageQ')
                 PROVE  /\ imageQ'[n].image <= images' /\ imageQ'[n].image > Written(w)
                        /\ phase[w] = "convert" => imageQ'[n].image > job[w].image
      OBVIOUS
    <3>2. CASE imageQ'[n] = e
      BY <1>1, <2>1, <3>1, <3>2 DEF ImagesInv
    <3>3. ASSUME NEW k \in 1 .. Len(imageQ), imageQ'[n] = imageQ[k]
          PROVE  /\ imageQ'[n].image <= images' /\ imageQ'[n].image > Written(w)
                 /\ phase[w] = "convert" => imageQ'[n].image > job[w].image
      BY <1>1, <2>1, <2>2, <3>1, <3>3 DEF ImagesInv
    <3> QED
      BY <1>2, <3>2, <3>3 DEF OldOrNew
  <2>4. \A n, m \in 1 .. Len(imageQ') : n < m => imageQ'[n].image < imageQ'[m].image
    <3> SUFFICES ASSUME NEW n \in 1 .. Len(imageQ'), NEW m \in 1 .. Len(imageQ'),
                        n < m
                 PROVE  imageQ'[n].image < imageQ'[m].image
      OBVIOUS
    <3>1. PICK k \in 1 .. Len(imageQ) :
              /\ imageQ'[n] = imageQ[k]
              /\ \/ imageQ'[m] = e
                 \/ \E l \in 1 .. Len(imageQ) : k < l /\ imageQ'[m] = imageQ[l]
      BY <1>2 DEF InOrder
    <3>2. imageQ[k].image <= images /\ imageQ[k].image \in Int
      BY <2>1, <2>2 DEF ImagesInv
    <3>3. CASE imageQ'[m] = e
      BY <1>1, <2>1, <3>1, <3>2, <3>3
    <3>4. ASSUME NEW l \in 1 .. Len(imageQ), k < l, imageQ'[m] = imageQ[l]
          PROVE  imageQ'[n].image < imageQ'[m].image
      <4>1. imageQ[k].image < imageQ[l].image
        BY <2>1, <3>4 DEF ImagesInv
      <4> QED
        BY <3>1, <3>4, <4>1
    <3> QED
      BY <3>1, <3>3, <3>4
  <2> QED
    BY <1>1, <2>1, <2>3, <2>4, Numbers DEF ImagesInv, PrePhases
<1>5. FramesInv(w)' /\ OutputInv(w)' /\ RestInv(w)'
  BY <1>3 DEF PipeInv, FramesInv, OutputInv, RestInv, Written, Stopped, buffers, local,
              published
<1> QED
  BY <1>4, <1>5 DEF PipeInv

\* A thread that goes past the test of ok is not stopped.
LEMMA PipeSpinOk ==
    ASSUME StateInv, NEW w \in Worker, threads = {w}, PipeInv(w), SpinOk(w)
    PROVE  PipeInv(w)'
<1> USE DEF queues, buffers, published, From, To, Keeps, SpinOk
<1>1. phase'[w] = "ready"
  BY DEF StateInv, TypeOK
<1>6. ImagesInv(w)'
  BY <1>1, Numbers DEF PipeInv, ImagesInv, Written, Torn, PrePhases, InferPhases
<1>7. FramesInv(w)'
  BY <1>1, Numbers DEF PipeInv, ImagesInv, FramesInv, Written, PrePhases, InferPhases
<1>8. OutputInv(w)'
  BY <1>1, Numbers DEF PipeInv, ImagesInv, FramesInv, OutputInv, Written, Stopped,
     PrePhases, InferPhases
<1>9. RestInv(w)'
  BY <1>1, Numbers DEF PipeInv, FramesInv, OutputInv, RestInv, Stopped, Written, InferPhases
<1> QED
  BY <1>6, <1>7, <1>8, <1>9 DEF PipeInv

\* The oldest image is taken.
LEMMA PipeTakeImage ==
    ASSUME StateInv, NEW w \in Worker, threads = {w}, PipeInv(w), TakeImage(w)
    PROVE  PipeInv(w)'
<1> USE DEF queues, buffers, published, From, To, Keeps, TakeImage
<1>1. phase'[w] = (IF Head(imageQ).supported THEN "convert" ELSE "spin")
  BY DEF StateInv, TypeOK
<1>2. job'[w] = Head(imageQ)
  BY DEF StateInv, FlightInv
<1>3. /\ Head(imageQ) = imageQ[1] /\ 1 \in 1 .. Len(imageQ) /\ imageQ' = Tail(imageQ)
      /\ Len(imageQ') \in Nat
      /\ \A n \in 1 .. Len(imageQ') : /\ n + 1 \in 1 .. Len(imageQ) /\ n + 1 > 1
                                      /\ imageQ'[n] = imageQ[n + 1]
  BY TakeProperties DEF StateInv, TypeOK
<1>6. ImagesInv(w)'
  BY <1>1, <1>2, <1>3, Numbers DEF PipeInv, ImagesInv, Written, Torn, PrePhases, InferPhases
<1>7. FramesInv(w)'
  BY <1>1, <1>2, <1>3, Numbers DEF PipeInv, ImagesInv, FramesInv, Written, PrePhases,
     InferPhases
<1>8. OutputInv(w)'
  BY <1>1, <1>2, Numbers DEF PipeInv, ImagesInv, FramesInv, OutputInv, Written, Stopped,
     PrePhases, InferPhases
<1>9. RestInv(w)'
  BY <1>1, <1>2, Numbers DEF PipeInv, FramesInv, OutputInv, RestInv, Stopped, Written,
     InferPhases
<1> QED
  BY <1>6, <1>7, <1>8, <1>9 DEF PipeInv

\* The buffer is torn while it is written.
LEMMA PipeBeginWrite ==
    ASSUME StateInv, NEW w \in Worker, threads = {w}, PipeInv(w), BeginWrite(w)
    PROVE  PipeInv(w)'
<1> USE DEF queues, buffers, published, From, To, Keeps, BeginWrite
<1>1. phase'[w] = "memcpy"
  BY DEF StateInv, TypeOK
<1>6. ImagesInv(w)'
  BY <1>1, Numbers DEF PipeInv, ImagesInv, Written, Torn, PrePhases, InferPhases
<1>7. FramesInv(w)'
  <2>1. /\ Written(w) = input /\ Written(w)' = job[w].image
        /\ job[w].image > input /\ job[w].image \in Int /\ input \in Int
    BY <1>1, Numbers DEF PipeInv, ImagesInv, Written, PrePhases
  <2>2. UNCHANGED <<frameQ, resultQ>>
    OBVIOUS
  <2>3. /\ \A n \in 1 .. Len(frameQ) : frameQ[n].image <= Written(w)'
        /\ \A n \in 1 .. Len(resultQ) : resultQ[n].image <= Written(w)'
    <3>1. /\ \A n \in 1 .. Len(frameQ) :
                 frameQ[n].image <= input /\ frameQ[n].image \in Int
          /\ \A n \in 1 .. Len(resultQ) :
                 resultQ[n].image <= input /\ resultQ[n].image \in Int
      BY <2>1, Numbers DEF PipeInv, FramesInv
    <3> HIDE DEF queues, buffers, published, From, To, Keeps, BeginWrite
    <3> QED
      BY <2>1, <3>1
  <2> QED
    BY <1>1, <2>2, <2>3 DEF FramesInv, InferPhases
<1>8. OutputInv(w)'
  BY <1>1, Numbers DEF PipeInv, ImagesInv, FramesInv, OutputInv, Written, Stopped,
     PrePhases, InferPhases
<1>9. RestInv(w)'
  BY <1>1, Numbers DEF PipeInv, FramesInv, OutputInv, RestInv, Stopped, Written, InferPhases
<1> QED
  BY <1>6, <1>7, <1>8, <1>9 DEF PipeInv

\* The frame is as new as the buffer.
LEMMA PipePublishFrame ==
    ASSUME StateInv, NEW w \in Worker, threads = {w}, PipeInv(w), PublishFrame(w)
    PROVE  PipeInv(w)'
<1> USE DEF queues, buffers, published, From, To, Keeps, PublishFrame
<1>1. phase'[w] = "spin"
  BY DEF StateInv, TypeOK
<1> DEFINE e == [image |-> job[w].image, offset |-> 0]
<1>2. /\ e \in Frame /\ frameQ \in Seq(Frame) /\ Len(frameQ) <= Depth
      /\ frameQ' = KeepLast(frameQ, e) /\ e.image = input' /\ input' = job[w].image
  BY DEF StateInv, TypeOK, PrePhases, Image, Frame
<1> HIDE DEF e
<1>3. frameQ' # <<>> /\ OldOrNew(frameQ, e, frameQ')
  BY <1>2, KeepLastProperties
<1>4. Written(w)' = Written(w) /\ input' # Torn
  BY <1>1, <1>2, Numbers DEF Written, Torn, PrePhases
<1>5. \A n \in 1 .. Len(frameQ') : frameQ'[n].image <= Written(w)
  <2>1. e.image = Written(w) /\ e.image \in Nat
    BY <1>2, Numbers DEF Written, PrePhases
  <2>2. \A n \in 1 .. Len(frameQ) : frameQ[n].image <= Written(w)
    BY DEF PipeInv, FramesInv
  <2> QED
    BY <1>3, <2>1, <2>2 DEF OldOrNew
<1>6. ImagesInv(w)'
  BY <1>1, <1>4, Numbers DEF PipeInv, ImagesInv
<1>7. FramesInv(w)'
  BY <1>1, <1>4, <1>5, Numbers DEF PipeInv, FramesInv, InferPhases
<1>8. OutputInv(w)'
  BY <1>1, <1>2, Numbers DEF PipeInv, ImagesInv, FramesInv, OutputInv, Written, Stopped,
     PrePhases, InferPhases
<1>9. RestInv(w)'
  BY <1>1, <1>2, <1>3, Numbers DEF PipeInv, FramesInv, OutputInv, RestInv, Stopped,
     Written, InferPhases
<1> QED
  BY <1>6, <1>7, <1>8, <1>9 DEF PipeInv

\* The oldest frame is taken.
LEMMA PipeTakeFrame ==
    ASSUME StateInv, NEW w \in Worker, threads = {w}, PipeInv(w), TakeFrame(w)
    PROVE  PipeInv(w)'
<1> USE DEF queues, buffers, published, From, To, Keeps, TakeFrame
<1>1. phase'[w] = "setup"
  BY DEF StateInv, TypeOK
<1>2. job'[w] = Head(frameQ)
  BY DEF StateInv, FlightInv
<1>3. /\ Head(frameQ) = frameQ[1] /\ 1 \in 1 .. Len(frameQ) /\ frameQ' = Tail(frameQ)
      /\ \A n \in 1 .. Len(frameQ') : /\ n + 1 \in 1 .. Len(frameQ)
                                      /\ frameQ'[n] = frameQ[n + 1]
  BY TakeProperties DEF StateInv, TypeOK
<1>6. ImagesInv(w)'
  BY <1>1, Numbers DEF PipeInv, ImagesInv, Written, Torn, PrePhases, InferPhases
<1>7. FramesInv(w)'
  BY <1>1, <1>2, <1>3, Numbers DEF PipeInv, ImagesInv, FramesInv, Written, PrePhases,
     InferPhases
<1>8. OutputInv(w)'
  BY <1>1, <1>2, Numbers DEF PipeInv, ImagesInv, FramesInv, OutputInv, Written, Stopped,
     PrePhases, InferPhases
<1>9. RestInv(w)'
  BY <1>1, <1>2, Numbers DEF PipeInv, FramesInv, OutputInv, RestInv, Stopped, Written,
     InferPhases
<1> QED
  BY <1>6, <1>7, <1>8, <1>9 DEF PipeInv

\* The graph reads what the buffer holds.
LEMMA PipeBeginExecute ==
    ASSUME StateInv, NEW w \in Worker, threads = {w}, PipeInv(w), BeginExecute(w)
    PROVE  PipeInv(w)'
<1> USE DEF queues, buffers, published, From, To, BeginExecute
<1>1. phase'[w] = "execute"
  BY DEF StateInv, TypeOK
<1>2. snap'[w] = input
  BY DEF StateInv, TypeOK
<1>6. ImagesInv(w)'
  BY <1>1, Numbers DEF PipeInv, ImagesInv, Written, Torn, PrePhases, InferPhases
<1>7. FramesInv(w)'
  BY <1>1, <1>2, Numbers DEF PipeInv, ImagesInv, FramesInv, Written, PrePhases, InferPhases
<1>8. OutputInv(w)'
  BY <1>1, Numbers DEF PipeInv, ImagesInv, FramesInv, OutputInv, Written, Stopped,
     PrePhases, InferPhases
<1>9. RestInv(w)'
  BY <1>1, Numbers DEF PipeInv, FramesInv, OutputInv, RestInv, Stopped, Written, InferPhases
<1> QED
  BY <1>6, <1>7, <1>8, <1>9 DEF PipeInv

\* Nobody wrote the input meanwhile.
LEMMA PipeEndExecute ==
    ASSUME StateInv, NEW w \in Worker, threads = {w}, PipeInv(w), EndExecute(w)
    PROVE  PipeInv(w)'
<1> USE DEF queues, buffers, published, From, To, Keeps, EndExecute
<1>1. phase'[w] = "publish"
  BY DEF StateInv, TypeOK
<1>2. output' = input
  BY DEF PipeInv, FramesInv
<1>6. ImagesInv(w)'
  BY <1>1, <1>2, Numbers DEF PipeInv, ImagesInv, Written, Torn, PrePhases, InferPhases
<1>7. FramesInv(w)'
  BY <1>1, <1>2, Numbers DEF PipeInv, ImagesInv, FramesInv, Written, PrePhases, InferPhases
<1>8. OutputInv(w)'
  BY <1>1, <1>2, Numbers DEF PipeInv, ImagesInv, FramesInv, OutputInv, Written, Stopped,
     PrePhases, InferPhases
<1>9. RestInv(w)'
  BY <1>1, <1>2, Numbers DEF PipeInv, FramesInv, OutputInv, RestInv, Stopped, Written,
     InferPhases
<1> QED
  BY <1>6, <1>7, <1>8, <1>9 DEF PipeInv

\* A failure stops the thread.
LEMMA PipeExecuteFails ==
    ASSUME StateInv, NEW w \in Worker, threads = {w}, PipeInv(w), ExecuteFails(w)
    PROVE  PipeInv(w)'
<1> USE DEF queues, buffers, published, From, To, Keeps, ExecuteFails
<1>1. phase'[w] = "failed"
  BY DEF StateInv, TypeOK
<1>6. ImagesInv(w)'
  BY <1>1, Numbers DEF PipeInv, ImagesInv, Written, Torn, PrePhases, InferPhases
<1>7. FramesInv(w)'
  BY <1>1, Numbers DEF PipeInv, ImagesInv, FramesInv, Written, PrePhases, InferPhases
<1>8. OutputInv(w)'
  BY <1>1, Numbers DEF PipeInv, ImagesInv, FramesInv, OutputInv, Written, Stopped,
     PrePhases, InferPhases
<1>9. RestInv(w)'
  BY <1>1, Numbers DEF PipeInv, FramesInv, OutputInv, RestInv, Stopped, Written, InferPhases
<1> QED
  BY <1>6, <1>7, <1>8, <1>9 DEF PipeInv

\* The result is as old as the output at most.
LEMMA PipePublishResult ==
    ASSUME StateInv, NEW w \in Worker, threads = {w}, PipeInv(w), PublishResult(w)
    PROVE  PipeInv(w)'
<1> USE DEF queues, buffers, published, From, To, Keeps, PublishResult
<1>1. phase'[w] = "spin"
  BY DEF StateInv, TypeOK
<1> DEFINE e == [image |-> job[w].image,
                tensors |-> IF phase[w] = "failed" THEN <<>>
                            ELSE <<[offset |-> job[w].offset, ptr |-> 0]>>]
<1>2. e \in Result
  <2>1. <<>> \in Seq(Tensor) /\ <<[offset |-> 0, ptr |-> 0]>> \in Seq(Tensor)
    BY DEF Tensor
  <2>2. job[w] \in PlainFrame
    BY DEF StateInv, FlightInv, InferPhases
  <2> QED
    BY <2>1, <2>2 DEF Result, PlainFrame
<1>3. /\ resultQ \in Seq(Result) /\ Len(resultQ) <= Depth
      /\ resultQ' = KeepLast(resultQ, e) /\ e.image = job[w].image
      /\ e.tensors = <<>> <=> phase[w] = "failed"
  BY DEF StateInv, TypeOK
<1> HIDE DEF e
<1>4. resultQ' # <<>> /\ OldOrNew(resultQ, e, resultQ')
  BY <1>2, <1>3, KeepLastProperties
<1>6. ImagesInv(w)'
  BY <1>1, Numbers DEF PipeInv, ImagesInv, Written, Torn, PrePhases, InferPhases
<1>7. FramesInv(w)'
  BY <1>1, <1>3, <1>4, Numbers DEF OldOrNew, PipeInv, ImagesInv, FramesInv, Written,
     PrePhases, InferPhases
<1>8. OutputInv(w)'
  BY <1>1, <1>3, <1>4, Numbers DEF OldOrNew, PipeInv, ImagesInv, FramesInv, OutputInv,
     Written, Stopped, PrePhases, InferPhases
<1>9. RestInv(w)'
  BY <1>1, <1>3, <1>4, Numbers DEF OldOrNew, PipeInv, FramesInv, OutputInv, RestInv,
     Stopped, Written, InferPhases
<1> QED
  BY <1>6, <1>7, <1>8, <1>9 DEF PipeInv

\* The oldest result is taken; the buffer it names is at least as new.
LEMMA PipeTakeResult ==
    ASSUME StateInv, NEW w \in Worker, threads = {w}, PipeInv(w), TakeResult(w)
    PROVE  PipeInv(w)'
<1> USE DEF queues, buffers, published, From, To, TakeResult
<1>1. phase'[w] = (IF Head(resultQ).tensors = <<>> THEN "spin" ELSE "read")
  BY DEF StateInv, TypeOK
<1>2. job'[w] = Head(resultQ) /\ snap'[w] = output
  BY DEF StateInv, TypeOK, FlightInv
<1>3. /\ Head(resultQ) = resultQ[1] /\ 1 \in 1 .. Len(resultQ) /\ resultQ' = Tail(resultQ)
      /\ \A n \in 1 .. Len(resultQ') : /\ n + 1 \in 1 .. Len(resultQ)
                                       /\ resultQ'[n] = resultQ[n + 1]
  BY TakeProperties DEF StateInv, TypeOK
<1>6. ImagesInv(w)'
  BY <1>1, Numbers DEF PipeInv, ImagesInv, Written, Torn, PrePhases, InferPhases
<1>7. FramesInv(w)'
  BY <1>1, <1>2, <1>3, Numbers DEF PipeInv, ImagesInv, FramesInv, Written, PrePhases,
     InferPhases
<1>8. OutputInv(w)'
  BY <1>1, <1>2, <1>3, Numbers DEF PipeInv, ImagesInv, FramesInv, OutputInv, Written,
     Stopped, PrePhases, InferPhases
<1>9. RestInv(w)'
  BY <1>1, <1>2, <1>3, Numbers DEF PipeInv, FramesInv, OutputInv, RestInv, Stopped,
     Written, InferPhases
<1> QED
  BY <1>6, <1>7, <1>8, <1>9 DEF PipeInv

\* A map that is not shown is noted in unmapped.
LEMMA PipeMmapFails ==
    ASSUME StateInv, NEW w \in Worker, threads = {w}, PipeInv(w), MmapFails(w)
    PROVE  PipeInv(w)'
<1> USE DEF queues, buffers, published, From, To, Keeps, MmapFails
<1>1. phase'[w] = "spin"
  BY DEF StateInv, TypeOK
<1>6. ImagesInv(w)'
  BY <1>1, Numbers DEF PipeInv, ImagesInv, Written, Torn, PrePhases, InferPhases
<1>7. FramesInv(w)'
  BY <1>1, Numbers DEF PipeInv, ImagesInv, FramesInv, Written, PrePhases, InferPhases
<1>8. OutputInv(w)'
  BY <1>1, Numbers DEF PipeInv, ImagesInv, FramesInv, OutputInv, Written, Stopped,
     PrePhases, InferPhases
<1>9. RestInv(w)'
  BY <1>1, Numbers DEF PipeInv, FramesInv, OutputInv, RestInv, Stopped, Written, InferPhases
<1> QED
  BY <1>6, <1>7, <1>8, <1>9 DEF PipeInv

\* The map shown is that of the buffer, which nobody wrote meanwhile.
LEMMA PipePublishDepth ==
    ASSUME StateInv, NEW w \in Worker, threads = {w}, PipeInv(w), PublishDepth(w)
    PROVE  PipeInv(w)'
<1> USE DEF queues, buffers, published, From, To, Keeps, PublishDepth
<1>1. phase'[w] = "spin"
  BY DEF StateInv, TypeOK
<1>2. shown' = [image |-> job[w].image, content |-> output] /\ ok' = ok
  BY DEF PipeInv, OutputInv
<1>6. ImagesInv(w)'
  BY <1>1, Numbers DEF PipeInv, ImagesInv, Written, Torn, PrePhases, InferPhases
<1>7. FramesInv(w)'
  BY <1>1, Numbers DEF PipeInv, ImagesInv, FramesInv, Written, PrePhases, InferPhases
<1>8. OutputInv(w)'
  BY <1>1, <1>2, Numbers DEF PipeInv, ImagesInv, FramesInv, OutputInv, Written, Stopped,
     PrePhases, InferPhases
<1>9. RestInv(w)'
  BY <1>1, <1>2, Numbers DEF PipeInv, FramesInv, OutputInv, RestInv, Stopped, Written,
     InferPhases
<1> QED
  BY <1>6, <1>7, <1>8, <1>9 DEF PipeInv

\* All of it is about images that have come, and none has.
LEMMA InvInit == Init => Inv
<1> SUFFICES ASSUME Init PROVE Inv
  OBVIOUS
<1>1. StateInv
  BY StateInit
<1>2. ASSUME NEW w \in threads PROVE PipeInv(w)
  <2>1. phase[w] = "spin" /\ shown = [image |-> 0, content |-> 0]
    BY DEF Init
  <2> QED
    BY <2>1 DEF Init, PipeInv, ImagesInv, FramesInv, OutputInv, RestInv, Written, Stopped,
                InferPhases, Torn
<1> QED
  BY <1>1, <1>2 DEF Inv

\* Every step of the one thread keeps it.
LEMMA InvNext == ASSUME Inv, [Next]_vars PROVE Inv'
<1>1. StateInv /\ StateInv' /\ threads \subseteq Worker
  BY StateNext DEF Inv, StateInv, TypeOK
<1>2. threads' = threads
  BY DEF Next, vars, Arrive, Interrupt, WorkerStep, From, SpinOk, TakeImage, BeginWrite,
         PublishFrame, TakeFrame, BeginExecute, EndExecute, ExecuteFails, PublishResult,
         TakeResult, MmapFails, PublishDepth
<1> SUFFICES ASSUME NEW w \in Worker, threads = {w}, PipeInv(w)
             PROVE  PipeInv(w)'
  BY <1>1, <1>2 DEF Inv
<1>3. CASE UNCHANGED vars
  BY <1>3 DEF vars, queues, buffers, local, published, PipeInv, ImagesInv, FramesInv,
              OutputInv, RestInv, Written, Stopped
<1>4. ASSUME NEW supported \in BOOLEAN, Arrive(supported) PROVE PipeInv(w)'
  BY <1>1, <1>4, PipeArrive
<1>5. CASE Interrupt
  BY <1>5 DEF Interrupt, queues, buffers, local, published, PipeInv, ImagesInv, FramesInv,
              OutputInv, RestInv, Written, Stopped
<1>6. ASSUME NEW v \in Worker, WorkerStep(v) PROVE PipeInv(w)'
  <2>1. v = w
    BY <1>6 DEF WorkerStep, From, SpinOk, TakeImage, BeginWrite, PublishFrame, TakeFrame,
                BeginExecute, EndExecute, ExecuteFails, PublishResult, TakeResult,
                MmapFails, PublishDepth
  <2> QED
    BY <1>1, <1>6, <2>1, PipeSpinOk, PipeTakeImage, PipeBeginWrite, PipePublishFrame,
       PipeTakeFrame, PipeBeginExecute, PipeEndExecute, PipeExecuteFails,
       PipePublishResult, PipeTakeResult, PipeMmapFails, PipePublishDepth
       DEF WorkerStep
<1> QED
  BY <1>3, <1>4, <1>5, <1>6 DEF Next

\* With one thread each stage's content is at least as old as the next one's
\* upstream: the order in which images move through the two shared buffers.
THEOREM PipelineCorrect == Spec => []Inv
<1> QED
  BY InvInit, InvNext, PTL DEF Spec

-----------------------------------------------------------------------------
(* The properties.                                                         *)

\* The types, and that no queue outgrows its history depth.
THEOREM TypeCorrect == Spec => []TypeOK
<1>1. StateInv => TypeOK
  BY DEF StateInv
<1> QED
  BY <1>1, StateCorrect, PTL

\* With any number of threads, the consumer never frees the engine's buffer.
THEOREM OutputNotFreedCorrect == Spec => []OutputNotFreed
<1>1. StateInv => OutputNotFreed
  BY DEF StateInv, FlightInv, OutputNotFreed
<1> QED
  BY <1>1, StateCorrect, PTL

\* With any number of threads, the consumer reads inside what it mapped.
THEOREM ReadMappedCorrect == Spec => []ReadMapped
<1>1. ASSUME StateInv PROVE ReadMapped
  <2> SUFFICES ASSUME NEW w \in threads, phase[w] = "read"
               PROVE  job[w].tensors[1].offset + DepthBytes <= OutputBytes
    BY DEF ReadMapped
  <2>1. job[w] \in PlainResult /\ job[w].tensors # <<>>
    BY <1>1 DEF StateInv, TypeOK, FlightInv
  <2>2. job[w].tensors[1].offset = 0
    BY <2>1 DEF PlainResult, Plain
  <2> QED
    BY ONLY <2>2, PipelineAssumption
<1> QED
  BY <1>1, StateCorrect, PTL

\* The property's own hypothesis is the one of PipeInv.
LEMMA OneThread ==
    ASSUME Inv, SingleThreaded
    PROVE  \E w \in Worker : threads = {w} /\ PipeInv(w)
<1>1. PICK w \in Worker : threads = {w}
  BY DEF SingleThreaded, Inv, StateInv, TypeOK, FlightInv
<1> QED
  BY <1>1 DEF Inv

\* In the single-threaded container a depth map is of one image, at least as
\* new as its frame's.
THEOREM DepthFreshEnoughCorrect == Spec => []DepthFreshEnough
<1>1. ASSUME Inv, SingleThreaded PROVE shown.content >= shown.image
  <2>1. PICK w \in Worker : PipeInv(w)
    BY <1>1, OneThread
  <2> QED
    BY <1>1, <2>1, Numbers DEF Inv, PipeInv, OutputInv
<1>2. Inv => DepthFreshEnough
  BY <1>1 DEF DepthFreshEnough
<1> QED
  BY <1>2, PipelineCorrect, PTL

\* ... the depth maps never go back to an older image
THEOREM DepthMovesForwardCorrect == Spec => DepthMovesForward
<1>1. ASSUME Inv, [Next]_vars, SingleThreaded PROVE shown'.content >= shown.content
  <2>1. PICK w \in Worker : threads = {w} /\ PipeInv(w)
    BY <1>1, OneThread
  <2>2. /\ shown.content \in Int /\ output \in Int
    BY <1>1, Numbers DEF Inv
  <2>3. CASE shown' = shown
    BY <2>2, <2>3
  <2>4. CASE PublishDepth(w)
    <3>1. shown'.content = output /\ shown.content <= output
      BY <2>1, <2>4 DEF PublishDepth, From, PipeInv, OutputInv, Stopped
    <3> QED
      BY <2>2, <3>1
  <2>5. shown' = shown \/ \E v \in Worker : PublishDepth(v)
    BY <1>1 DEF Next, vars, Arrive, Interrupt, WorkerStep, SpinOk, TakeImage, BeginWrite,
                PublishFrame, TakeFrame, BeginExecute, EndExecute, ExecuteFails,
                PublishResult, TakeResult, MmapFails, published
  <2>6. \A v \in Worker : PublishDepth(v) => v = w
    BY <2>1 DEF PublishDepth, From
  <2> QED
    BY <2>3, <2>4, <2>5, <2>6
<1>2. Inv /\ [Next]_vars => [SingleThreaded => shown'.content >= shown.content]_vars
  BY <1>1
<1> QED
  BY <1>2, PipelineCorrect, PTL DEF Spec, DepthMovesForward

\* ... and at rest the last image written has been shown.
THEOREM RestShowsNewestCorrect == Spec => []RestShowsNewest
<1>1. ASSUME Inv, SingleThreaded, AtRest, ok, ~unmapped PROVE shown.content = input
  <2>1. PICK w \in Worker : threads = {w} /\ PipeInv(w)
    BY <1>1, OneThread
  <2>2. frameQ = <<>> /\ resultQ = <<>> /\ phase[w] \in {"spin", "ready"}
    BY <1>1, <2>1 DEF AtRest, queues
  <2> QED
    BY <1>1, <2>1, <2>2 DEF PipeInv, RestInv
<1>2. Inv => RestShowsNewest
  BY <1>1 DEF RestShowsNewest
<1> QED
  BY <1>2, PipelineCorrect, PTL
=============================================================================
