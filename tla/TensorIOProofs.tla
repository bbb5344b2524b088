--------------------------- MODULE TensorIOProofs ---------------------------
(***************************************************************************)
(* Theorems about TensorIO for every value of its constants: any models,   *)
(* with any numbers of graphs and tensors, any inputs and any word.  The   *)
(* invariant has three layers: the tensors built so far (BuiltInv), where  *)
(* each input's bytes come from (SpreadInv), and which execution the       *)
(* results are of (OriginInv).  From the last follows that inference_      *)
(* execute keeps the contract of the interface, InferenceEngine.  That     *)
(* sizes counted in a word are right wherever they fit it is by induction  *)
(* over a tensor's dimensions (CountIsProduct).                            *)
(***************************************************************************)
EXTENDS TensorIO, NatRecursion, SequenceTheorems, TLAPS

Busy == {"setup", "copy", "measure", "write", "free"}

\* The two loops write the size that they compute from the same source.
Filled(s, n) == tensors[s][n].room = get_tensor_size(Src(s)[n])

Built(s) == [1 .. Cnt(s) -> [owns : SUBSET Memory, room : 0 .. Word - 1]]

BuiltInv ==
    /\ pc \in Busy => i \in 1 .. Len(graphs)
    /\ pc \in {"idle", "graph"} => tensors = NoTensors
    /\ pc \in Busy => \A s \in Sides : tensors[s] \in {Null} \cup Built(s)
    /\ pc = "copy" =>
           /\ tensors[side] \in Built(side)
           /\ \A n \in 1 .. Cnt(side) : n < k => Filled(side, n)
    /\ pc \in {"measure", "write"} \/ (pc \in {"setup", "copy"} /\ side = "outputs")
           \/ (pc = "free" /\ copied # <<>>) =>
           /\ tensors["inputs"] \in Built("inputs")
           /\ \A n \in 1 .. Cnt("inputs") : Filled("inputs", n)
    /\ leaked = {}

\* The expected sizes are sums of the sizes of the tensors, and the source of
\* each input copied so far is the part between two of them.
Before(n) == IF n = 1 THEN 0 ELSE expected[n - 1]
SpreadInv ==
    /\ pc \in {"setup", "copy"} => expected = <<>>
    /\ pc \in {"setup", "copy", "measure", "crashed"} => copied = <<>>
    /\ pc = "measure" => Len(expected) = k - 1 /\ k - 1 <= Cnt("inputs")
    /\ pc = "write" =>
           /\ Len(expected) = Cnt("inputs") /\ total_expected_size = length
           /\ Len(copied) = k - 1 /\ k - 1 <= Cnt("inputs") /\ length # 0
    /\ \A n, m \in 1 .. Len(expected) : n <= m => expected[n] <= expected[m]
    /\ pc \in {"measure", "write"} =>
           \A n \in 1 .. Len(expected) :
               expected[n] = Before(n) + get_tensor_size(Src("inputs")[n])
    /\ pc \in Busy /\ copied # <<>> =>
           /\ Len(copied) <= Len(expected) /\ Len(expected) = Cnt("inputs")
           /\ expected[Len(expected)] = length
           /\ \A n \in 1 .. Len(copied) :
                  /\ copied[n].size = get_tensor_size(Src("inputs")[n])
                  /\ copied[n].from + copied[n].size = expected[n]
                  /\ copied[n].from = Before(n)
    /\ pc \in Busy \cup {"graph"} => length # 0

\* output_tensor_ is the outputs of graph g in call c.
From(c, g) ==
    /\ Len(output_tensor_) = Len(graphs[g].outputs)
    /\ \A n \in 1 .. Len(output_tensor_) :
           /\ output_tensor_[n].call = c /\ output_tensor_[n].graph = g
           /\ output_tensor_[n].tensor = n

\* Results are of the last graph that was executed, if it was in this call.
OriginInv ==
    /\ output_tensor_ # <<>> =>
           LET c == output_tensor_[1].call
               g == output_tensor_[1].graph
           IN  /\ From(c, g) /\ c \in 1 .. calls /\ g \in 1 .. Len(graphs)
               /\ pc \in Busy \cup {"graph"} =>
                      IF pc = "free" /\ returned # "FAILURE" THEN c = calls /\ g = i
                      ELSE IF i = 1 THEN c < calls ELSE c = calls /\ g = i - 1
               /\ pc = "idle" /\ returned = "SUCCESS" => c = calls /\ g = Len(graphs)
               /\ pc = "idle" /\ returned = "FAILURE" /\ c = calls => g < Len(graphs)
    /\ returned = "nothing" => pc # "idle" \/ calls = 0
    /\ pc \in {"graph", "setup", "copy", "measure", "write"} => returned = "nothing"
    /\ pc = "free" => returned # "SUCCESS"
    /\ pc # "idle" => calls # 0

Inv == TypeOK /\ BuiltInv /\ SpreadInv /\ OriginInv

-----------------------------------------------------------------------------
(* Data.                                                                   *)

\* The partial counts and the products of a tensor's dimensions are what their
\* recursive definitions say.
LEMMA CountsDefined ==
    ASSUME NEW dims \in Seq(Nat)
    PROVE  /\ PartialCounts(dims) \in [0 .. Len(dims) -> Nat]
           /\ PartialCounts(dims)[0] = 1
           /\ \A n \in 1 .. Len(dims) :
                  PartialCounts(dims)[n] = (PartialCounts(dims)[n - 1] * dims[n]) % Word
<1> DEFINE Def(f) == [n \in 0 .. Len(dims) |->
                         IF n = 0 THEN 1 ELSE (f[n - 1] * dims[n]) % Word]
           step == [n \in 1 .. Len(dims) |-> [v \in Nat |-> (v * dims[n]) % Word]]
<1>1. Len(dims) \in Nat /\ \A n \in 1 .. Len(dims) : dims[n] \in Nat
  BY LenProperties
<1>2. step \in [1 .. Len(dims) -> [Nat -> Nat]]
  BY <1>1, BoundsAssumption
<1> HIDE DEF step
<1>3. PICK g \in [0 .. Len(dims) -> Nat] : Follows(g, 1, step, Len(dims))
  BY <1>1, <1>2, Recursion
<1>4. g = Def(g)
  <2>1. ASSUME NEW n \in 1 .. Len(dims) PROVE g[n] = (g[n - 1] * dims[n]) % Word
    <3>1. g[n - 1] \in Nat
      BY <1>1
    <3> QED
      BY <1>3, <3>1 DEF Follows, step
  <2>2. g[0] = 1
    BY <1>3 DEF Follows
  <2> QED
    BY <1>1, <2>1, <2>2
<1>5. PartialCounts(dims) = CHOOSE f : f = Def(f)
  BY DEF PartialCounts
<1> HIDE DEF Def
<1>6. PartialCounts(dims) = Def(PartialCounts(dims))
  BY <1>4, <1>5
<1> QED
  BY <1>6

\* So are the exact products.
LEMMA ProductsDefined ==
    ASSUME NEW dims \in Seq(Nat)
    PROVE  /\ Products(dims) \in [0 .. Len(dims) -> Nat]
           /\ Products(dims)[0] = 1
           /\ \A n \in 1 .. Len(dims) :
                  Products(dims)[n] = Products(dims)[n - 1] * dims[n]
<1> DEFINE Def(f) == [n \in 0 .. Len(dims) |->
                         IF n = 0 THEN 1 ELSE f[n - 1] * dims[n]]
           step == [n \in 1 .. Len(dims) |-> [v \in Nat |-> v * dims[n]]]
<1>1. Len(dims) \in Nat /\ \A n \in 1 .. Len(dims) : dims[n] \in Nat
  BY LenProperties
<1>2. step \in [1 .. Len(dims) -> [Nat -> Nat]]
  BY <1>1
<1> HIDE DEF step
<1>3. PICK g \in [0 .. Len(dims) -> Nat] : Follows(g, 1, step, Len(dims))
  BY <1>1, <1>2, Recursion
<1>4. g = Def(g)
  <2>1. ASSUME NEW n \in 1 .. Len(dims) PROVE g[n] = g[n - 1] * dims[n]
    <3>1. g[n - 1] \in Nat
      BY <1>1
    <3> QED
      BY <1>3, <3>1 DEF Follows, step
  <2>2. g[0] = 1
    BY <1>3 DEF Follows
  <2> QED
    BY <1>1, <2>1, <2>2
<1>5. Products(dims) = CHOOSE f : f = Def(f)
  BY DEF Products
<1> HIDE DEF Def
<1>6. Products(dims) = Def(Products(dims))
  BY <1>4, <1>5
<1>7. DOMAIN Products(dims) = 0 .. Len(dims)
  BY <1>6 DEF Def
<1> QED
  BY <1>6

\* Cutting every partial count to a word gives the product, cut once.
LEMMA CountIsProduct ==
    ASSUME NEW dims \in Seq(Nat)
    PROVE  /\ element_cnt(dims) \in Nat /\ Products(dims)[Len(dims)] \in Nat
           /\ element_cnt(dims) % Word = Products(dims)[Len(dims)] % Word
<1> DEFINE c == PartialCounts(dims)
           p == Products(dims)
           Ok == {n \in Nat : n <= Len(dims) => c[n] % Word = p[n] % Word}
<1>1. Word \in Nat \ {0} /\ Len(dims) \in Nat /\ \A n \in 1 .. Len(dims) : dims[n] \in Nat
  BY BoundsAssumption, LenProperties
<1>2. /\ c \in [0 .. Len(dims) -> Nat] /\ c[0] = 1
      /\ \A n \in 1 .. Len(dims) : c[n] = (c[n - 1] * dims[n]) % Word
  BY CountsDefined
<1>3. /\ p \in [0 .. Len(dims) -> Nat] /\ p[0] = 1
      /\ \A n \in 1 .. Len(dims) : p[n] = p[n - 1] * dims[n]
  BY ProductsDefined
<1> HIDE DEF c, p
<1>4. 0 \in Ok
  BY <1>2, <1>3
<1>5. ASSUME NEW n \in Nat, n \in Ok PROVE n + 1 \in Ok
  <2> SUFFICES ASSUME n + 1 <= Len(dims) PROVE c[n + 1] % Word = p[n + 1] % Word
    OBVIOUS
  <2> DEFINE u == c[n]
             v == p[n]
             d == dims[n + 1]
  <2>0. n \in 0 .. Len(dims) /\ n + 1 \in 1 .. Len(dims) /\ n <= Len(dims)
    BY <1>1
  <2>1. u \in Nat /\ v \in Nat /\ d \in Nat /\ u % Word = v % Word
    <3>1. u \in Nat /\ v \in Nat /\ d \in Nat
      BY <1>1, <1>2, <1>3, <2>0
    <3>2. u % Word = v % Word
      BY <1>5, <2>0
    <3> QED
      BY <3>1, <3>2
  <2>2. c[n + 1] = (u * d) % Word /\ p[n + 1] = v * d
    <3>1. n + 1 \in 1 .. Len(dims) /\ (n + 1) - 1 = n
      BY <1>1
    <3> QED
      BY <1>2, <1>3, <3>1
  <2> HIDE DEF u, v, d
  <2>3. (u * d) % Word = (v * d) % Word
    <3>1. ((u % Word) * d) % Word = (u * d) % Word
      BY <1>1, <2>1, ProductRemainder
    <3>2. ((v % Word) * d) % Word = (v * d) % Word
      BY <1>1, <2>1, ProductRemainder
    <3> QED
      BY <2>1, <3>1, <3>2
  <2>4. ((u * d) % Word) % Word = (u * d) % Word
    <3>1. u * d \in Nat
      BY <2>1
    <3> QED
      BY <1>1, <3>1, RemainderTwice
  <2> QED
    BY <2>2, <2>3, <2>4
<1> HIDE DEF Ok
<1>6. Len(dims) \in Ok
  BY <1>1, <1>4, <1>5, Induction
<1>7. c[Len(dims)] % Word = p[Len(dims)] % Word
  BY <1>1, <1>6 DEF Ok
<1>8. c[Len(dims)] \in Nat /\ p[Len(dims)] \in Nat
  BY <1>1, <1>2, <1>3
<1> QED
  BY <1>7, <1>8 DEF element_cnt, c, p

\* A tensor that takes fewer bytes than a word counts has its size counted
\* right, if its type has a name outside.
LEMMA SizeIsBytes ==
    ASSUME NEW t, IsTensor(t), Supported(t.type), Bytes(t) < Word
    PROVE  get_tensor_size(t) = Bytes(t)
<1> DEFINE e == element_cnt(t.dims)
           p == Products(t.dims)[Len(t.dims)]
           w == Width(t.type)
<1>1. Word \in Nat \ {0} /\ e \in Nat /\ p \in Nat /\ e % Word = p % Word
  BY BoundsAssumption, CountIsProduct DEF IsTensor
<1>2. w \in Nat /\ Bits[t.type] \div 8 = w
  BY DEF IsTensor, DataTypes, Supported, Width, Bits
<1>3. get_tensor_size(t) = (w * e) % Word /\ Bytes(t) = w * p
  BY <1>2 DEF get_tensor_size, Bytes
<1> HIDE DEF e, p, w
<1>4. (e * w) % Word = (p * w) % Word
  <2>1. ((e % Word) * w) % Word = (e * w) % Word
    BY <1>1, <1>2, ProductRemainder
  <2>2. ((p % Word) * w) % Word = (p * w) % Word
    BY <1>1, <1>2, ProductRemainder
  <2> QED
    BY <1>1, <2>1, <2>2
<1>5. w * e = e * w /\ w * p = p * w /\ w * p \in Nat
  BY <1>1, <1>2
<1>6. (w * p) % Word = w * p
  BY <1>1, <1>3, <1>5, SmallRemainder
<1> QED
  BY <1>3, <1>4, <1>5, <1>6

\* A graph has finite lists of tensors.
LEMMA SourceTensors ==
    ASSUME graphs \in Models, i \in 1 .. Len(graphs), NEW s \in Sides
    PROVE  /\ Src(s) \in Seq(Range(Src(s))) /\ Cnt(s) \in Nat
           /\ \A n \in 1 .. Cnt(s) : IsTensor(Src(s)[n])
<1>1. graphs \in Seq(Range(graphs)) /\ \A g \in Range(graphs) : IsGraph(g)
  BY ModelsAssumption
<1>2. DOMAIN graphs = 1 .. Len(graphs)
  BY <1>1, LenProperties
<1>3. graphs[i] \in Range(graphs)
  BY <1>2 DEF Range
<1>4. Src(s) \in Seq(Range(Src(s))) /\ \A t \in Range(Src(s)) : IsTensor(t)
  BY <1>1, <1>3 DEF IsGraph, Src, Sides
<1>5. Cnt(s) \in Nat /\ DOMAIN Src(s) = 1 .. Cnt(s)
  BY <1>4, LenProperties DEF Cnt
<1>6. \A n \in 1 .. Cnt(s) : Src(s)[n] \in Range(Src(s))
  BY <1>5 DEF Range
<1> QED
  BY <1>4, <1>5, <1>6

\* Their sizes are counted in a word.
LEMMA Sizes ==
    ASSUME graphs \in Models, i \in 1 .. Len(graphs), NEW s \in Sides
    PROVE  /\ Src(s) \in Seq(Range(Src(s))) /\ Cnt(s) \in Nat
           /\ \A n \in 1 .. Cnt(s) : get_tensor_size(Src(s)[n]) \in 0 .. Word - 1
<1>1. ASSUME NEW n \in 1 .. Cnt(s) PROVE get_tensor_size(Src(s)[n]) \in 0 .. Word - 1
  <2>1. IsTensor(Src(s)[n])
    BY SourceTensors
  <2>2. element_cnt(Src(s)[n].dims) \in Nat
    BY <2>1, CountIsProduct DEF IsTensor
  <2>3. Width(Src(s)[n].type) \in {1, 2, 4, 8}
    BY DEF Width
  <2>4. Word \in Nat \ {0}
    BY BoundsAssumption
  <2>5. Width(Src(s)[n].type) * element_cnt(Src(s)[n].dims) \in Nat
    BY <2>2, <2>3
  <2> QED
    BY <2>4, <2>5 DEF get_tensor_size
<1> QED
  BY <1>1, SourceTensors

\* Neither the sources nor what is built of them change within a graph.
LEMMA SameGraph ==
    ASSUME UNCHANGED <<graphs, i>>
    PROVE  \A s \in Sides :
               Src(s)' = Src(s) /\ Cnt(s)' = Cnt(s) /\ Built(s)' = Built(s)
BY DEF Src, Cnt, Built

\* What TypeOK says of the tensors of a graph that is being executed.
LEMMA Typed ==
    ASSUME Inv, pc \in Busy, NEW s \in Sides
    PROVE  /\ Src(s) \in Seq(Range(Src(s))) /\ Cnt(s) \in Nat
           /\ \A n \in 1 .. Cnt(s) : get_tensor_size(Src(s)[n]) \in 0 .. Word - 1
           /\ tensors[s] \in {Null} \cup Built(s) /\ k \in Nat \ {0}
BY Sizes DEF Inv, TypeOK, BuiltInv

\* An array of tensors is a sequence.
LEMMA BuiltSeq ==
    ASSUME NEW s, Cnt(s) \in Nat, NEW f \in Built(s)
    PROVE  f \in Seq([owns : SUBSET Memory, room : 0 .. Word - 1])
BY SeqDef DEF Built

\* The part of a call in which no result changes.
Preparing == {"setup", "copy", "measure", "write"}

\* A step there goes on, ends in a crash, or ends the call with FAILURE.
PrepareStep ==
    /\ pc \in Preparing
    /\ UNCHANGED <<request, i, output_tensor_, leaked>>
    /\ \/ pc' \in Preparing \cup {"crashed"} /\ returned' = returned
       \/ pc' = "free" /\ returned' = "FAILURE"

\* It changes nothing about where the results are from.
LEMMA PrepareOrigin == ASSUME Inv, PrepareStep PROVE OriginInv'
<1>1. pc \in Busy /\ pc # "idle" /\ pc # "free" /\ pc' # "idle" /\ pc' # "graph"
  BY DEF PrepareStep, Preparing, Busy
<1>2. returned = "nothing"
  BY DEF Inv, OriginInv, PrepareStep, Preparing
<1>3. /\ UNCHANGED <<graphs, calls, i, output_tensor_>>
      /\ pc' = "free" => returned' = "FAILURE"
      /\ pc' # "free" => returned' = "nothing"
  BY <1>2 DEF PrepareStep, request, Preparing
<1>4. ASSUME output_tensor_ # <<>>
      PROVE  LET c == output_tensor_[1].call
                 g == output_tensor_[1].graph
             IN  /\ From(c, g)' /\ c \in 1 .. calls /\ g \in 1 .. Len(graphs)
                 /\ IF i = 1 THEN c < calls ELSE c = calls /\ g = i - 1
  BY <1>1, <1>3, <1>4 DEF Inv, OriginInv, From
<1>5. calls # 0
  BY <1>1 DEF Inv, OriginInv
<1> QED
  BY <1>1, <1>3, <1>4, <1>5 DEF OriginInv

\* The ways out with FAILURE that leave the tensors as they are.
FailSteps ==
    /\ pc \in Preparing /\ UNCHANGED <<request, tensors>> /\ Fail
    /\ k' \in {1, k}

\* The QnnTensor is left to its destructor as it stands.
LEMMA FailStep == ASSUME Inv, FailSteps PROVE Inv'
<1>1. /\ pc \in Preparing /\ pc' = "free" /\ returned' = "FAILURE"
      /\ UNCHANGED <<request, tensors, i, side, transfer, output_tensor_, leaked>>
      /\ k' \in {1, k}
  BY DEF FailSteps, Fail, Goto
<1>2. PrepareStep
  BY <1>1 DEF PrepareStep
<1>3. TypeOK'
  <2>1. k' \in Nat \ {0}
    BY <1>1 DEF Inv, TypeOK
  <2> QED
    BY <1>1, <2>1 DEF Inv, TypeOK, request, transfer, Places
<1>4. \A s \in Sides : Src(s)' = Src(s) /\ Cnt(s)' = Cnt(s) /\ Built(s)' = Built(s)
  BY <1>1, SameGraph DEF request
<1>5. BuiltInv'
  <2>1. copied # <<>> => pc = "write"
    BY <1>1 DEF Inv, SpreadInv, Preparing
  <2>2. "inputs" \in Sides
    BY DEF Sides
  <2>3. \A s \in Sides : \A n : Filled(s, n)' = Filled(s, n)
    BY <1>1, <1>4 DEF Filled
  <2> QED
    BY <1>1, <1>4, <2>1, <2>2, <2>3 DEF Inv, BuiltInv, request, transfer, Preparing, Busy
<1>6. SpreadInv'
  <2>1. Cnt("inputs")' = Cnt("inputs") /\ Src("inputs")' = Src("inputs")
    BY <1>4 DEF Sides
  <2> QED
    BY <1>1, <2>1 DEF Inv, SpreadInv, Before, request, transfer, Preparing, Busy
<1>7. OriginInv'
  BY <1>2, PrepareOrigin
<1> QED
  BY <1>3, <1>5, <1>6, <1>7 DEF Inv

-----------------------------------------------------------------------------
(* Building the tensors.                                                   *)

\* The graph has no inputs or no outputs: FAILURE, or the null pointer is used.
LEMMA NothingStep == ASSUME Inv, SetupNothing PROVE Inv'
<1>1. CASE Fail
  BY <1>1, FailStep DEF SetupNothing, At, FailSteps, Preparing
<1>2. CASE pc' = "crashed" /\ UNCHANGED <<i, side, transfer, results, leaked>>
  <2>1. /\ pc = "setup" /\ pc' = "crashed"
        /\ UNCHANGED <<request, i, side, k, tensors, transfer, results, leaked>>
    BY <1>2 DEF SetupNothing, At
  <2>2. TypeOK'
    BY <2>1 DEF Inv, TypeOK, request, transfer, results, Places
  <2>3. BuiltInv' /\ SpreadInv'
    BY <2>1 DEF Inv, BuiltInv, SpreadInv, transfer, Busy
  <2>4. OriginInv'
    BY <2>1, PrepareOrigin DEF PrepareStep, Preparing, results
  <2> QED
    BY <2>2, <2>3, <2>4 DEF Inv
<1> QED
  BY <1>1, <1>2 DEF SetupNothing, Goto

\* calloc of the array: empty tensors, which own nothing.
LEMMA SetupArrayStep == ASSUME Inv, SetupArray PROVE Inv'
<1> DEFINE empty == [n \in 1 .. Cnt(side) |-> [owns |-> {}, room |-> 0]]
<1>1. /\ pc = "setup" /\ pc' = "copy" /\ k' = 1
      /\ tensors' = [tensors EXCEPT ![side] = empty]
      /\ UNCHANGED <<request, i, side, transfer, results, leaked>>
  BY DEF SetupArray, At, Goto
<1>2. side \in Sides /\ "inputs" \in Sides /\ pc \in Busy
  BY <1>1 DEF Inv, TypeOK, Sides, Busy
<1>3. Cnt(side) \in Nat
  BY <1>2, Typed
<1>4. empty \in Built(side)
  BY BoundsAssumption DEF Built
<1>5. /\ tensors'[side] = empty
      /\ \A s \in Sides \ {side} : tensors'[s] = tensors[s]
  BY <1>1, <1>2 DEF Inv, TypeOK
<1>6. TypeOK'
  <2>1. empty \in Seq([owns : SUBSET Memory, room : 0 .. Word - 1])
    BY <1>3, <1>4, BuiltSeq
  <2> HIDE DEF empty
  <2>2. tensors' \in [Sides -> {Null} \cup Seq([owns : SUBSET Memory,
                                                 room : 0 .. Word - 1])]
    BY <1>1, <2>1 DEF Inv, TypeOK
  <2>3. /\ pc' = "copy" /\ k' \in Nat \ {0}
        /\ UNCHANGED <<request, i, side, transfer, results, leaked>>
    BY <1>1
  <2> QED
    BY ONLY Inv, <2>2, <2>3 DEF Inv, TypeOK, request, transfer, results, Places
<1>7. \A s \in Sides : Src(s)' = Src(s) /\ Cnt(s)' = Cnt(s) /\ Built(s)' = Built(s)
  BY <1>1, SameGraph DEF request
<1> HIDE DEF empty
<1>8. BuiltInv'
  <2>1. \A s \in Sides : tensors'[s] \in {Null} \cup Built(s)'
    BY <1>1, <1>2, <1>4, <1>5, <1>7 DEF Inv, BuiltInv
  <2>2. /\ tensors'[side] \in Built(side)'
        /\ \A n \in 1 .. Cnt(side)' : ~(n < 1)
    BY <1>1, <1>2, <1>3, <1>4, <1>5, <1>7
  <2>3. ASSUME side = "outputs"
        PROVE  /\ tensors'["inputs"] \in Built("inputs")'
               /\ \A n \in 1 .. Cnt("inputs")' : Filled("inputs", n)'
    <3>1. tensors'["inputs"] = tensors["inputs"] /\ "inputs" # side
      BY <2>3, <1>2, <1>5
    <3>2. /\ tensors["inputs"] \in Built("inputs")
          /\ \A n \in 1 .. Cnt("inputs") : Filled("inputs", n)
      BY <2>3, <1>1 DEF Inv, BuiltInv
    <3> QED
      BY <3>1, <3>2, <1>2, <1>7 DEF Filled
  <2>4. leaked' = {} /\ i' \in 1 .. Len(graphs')
    BY <1>1, <1>2 DEF Inv, BuiltInv, request
  <2> QED
    BY <1>1, <2>1, <2>2, <2>3, <2>4 DEF BuiltInv
<1>9. SpreadInv'
  BY <1>1, <1>2, <1>7 DEF Inv, SpreadInv, request, transfer, Busy
<1>10. OriginInv'
  BY <1>1, PrepareOrigin DEF PrepareStep, Preparing, results
<1> QED
  BY <1>6, <1>8, <1>9, <1>10 DEF Inv

\* One tensor of the side is rewritten, within its memory and with a size that
\* fits; the tensors before k and the other side stay.
Rewrites(e) ==
    /\ pc = "copy" /\ k <= Cnt(side)
    /\ e \in [owns : SUBSET Memory, room : 0 .. Word - 1]
    /\ tensors' = [tensors EXCEPT ![side][k] = e]
    /\ UNCHANGED <<request, i, side, transfer, leaked>>

\* The side stays an array of tensors, changed in one place only.
LEMMA RewriteBuilt ==
    ASSUME Inv, NEW e, Rewrites(e)
    PROVE  /\ tensors'[side] = [tensors[side] EXCEPT ![k] = e]
           /\ tensors'[side] \in Built(side) /\ tensors'[side][k] = e
           /\ \A n \in 1 .. Cnt(side) : n # k => tensors'[side][n] = tensors[side][n]
           /\ \A s \in Sides \ {side} : tensors'[s] = tensors[s]
           /\ tensors' \in [Sides -> {Null} \cup Seq([owns : SUBSET Memory,
                                                      room : 0 .. Word - 1])]
           /\ \A s \in Sides : tensors'[s] \in {Null} \cup Built(s)
<1>1. side \in Sides /\ pc \in Busy
  BY DEF Inv, TypeOK, Rewrites, Busy
<1>2. Cnt(side) \in Nat /\ k \in 1 .. Cnt(side)
  BY <1>1, Typed DEF Rewrites
<1>3. tensors[side] \in Built(side)
  BY DEF Inv, BuiltInv, Rewrites
<1> DEFINE new == [tensors[side] EXCEPT ![k] = e]
<1>4. /\ new \in Built(side) /\ new[k] = e
      /\ \A n \in 1 .. Cnt(side) : n # k => new[n] = tensors[side][n]
  BY <1>2, <1>3 DEF Built, Rewrites
<1>5. new \in Seq([owns : SUBSET Memory, room : 0 .. Word - 1])
  BY <1>2, <1>4, BuiltSeq
<1>6. tensors' = [tensors EXCEPT ![side] = new]
  BY DEF Rewrites
<1> HIDE DEF new
<1>7. tensors'[side] = new /\ \A s \in Sides \ {side} : tensors'[s] = tensors[s]
  BY <1>1, <1>6 DEF Inv, TypeOK
<1>8. tensors' \in [Sides -> {Null} \cup Seq([owns : SUBSET Memory, room : 0 .. Word - 1])]
  BY <1>5, <1>6 DEF Inv, TypeOK
<1>9. \A s \in Sides : tensors'[s] \in {Null} \cup Built(s)
  BY <1>1, <1>4, <1>7 DEF Inv, BuiltInv
<1> QED
  BY <1>4, <1>7, <1>8, <1>9 DEF new

\* The inputs stay whole while the outputs are built.
LEMMA RewriteInputs ==
    ASSUME Inv, NEW e, Rewrites(e), side = "outputs"
    PROVE  /\ tensors'["inputs"] \in Built("inputs")'
           /\ \A n \in 1 .. Cnt("inputs")' : Filled("inputs", n)'
<1>1. "inputs" \in Sides \ {side}
  BY DEF Sides
<1>2. tensors'["inputs"] = tensors["inputs"]
  BY <1>1, RewriteBuilt
<1>3. /\ tensors["inputs"] \in Built("inputs")
      /\ \A n \in 1 .. Cnt("inputs") : Filled("inputs", n)
  BY DEF Inv, BuiltInv, Rewrites
<1>4. /\ Src("inputs")' = Src("inputs") /\ Cnt("inputs")' = Cnt("inputs")
      /\ Built("inputs")' = Built("inputs")
  BY <1>1, SameGraph DEF Rewrites, request
<1> QED
  BY <1>2, <1>3, <1>4 DEF Filled

\* The tensor gets its name, its dimensions and a buffer of its size.
LEMMA CopyStep == ASSUME Inv, CopyTensor PROVE Inv'
<1> DEFINE size == get_tensor_size(Src(side)[k])
<1>1. PICK scales \in Scales(Src(side)[k]) :
          /\ pc = "copy" /\ pc' = "copy" /\ k <= Cnt(side) /\ k' = k + 1
          /\ tensors' = [tensors EXCEPT ![side][k] =
                  [owns |-> {"name", "dimensions", "data"} \cup scales, room |-> size]]
          /\ UNCHANGED <<request, i, side, transfer, results, leaked>>
  BY DEF CopyTensor, At, Goto
<1>2. side \in Sides /\ "inputs" \in Sides /\ pc \in Busy
  BY <1>1 DEF Inv, TypeOK, Sides, Busy
<1>3. /\ Cnt(side) \in Nat /\ k \in 1 .. Cnt(side)
      /\ \A n \in 1 .. Cnt(side) : get_tensor_size(Src(side)[n]) \in 0 .. Word - 1
  BY <1>1, <1>2, Typed
<1>4. size \in 0 .. Word - 1
  BY <1>3
<1>5. scales \subseteq {"scaleOffset"}
  BY DEF Scales
<1> DEFINE e == [owns |-> {"name", "dimensions", "data"} \cup scales, room |-> size]
<1>6. Rewrites(e)
  <2> HIDE DEF size
  <2>1. e \in [owns : SUBSET Memory, room : 0 .. Word - 1]
    BY <1>4, <1>5 DEF Memory
  <2> QED
    BY <1>1, <2>1 DEF Rewrites
<1>7. e.room = size
  OBVIOUS
<1> HIDE DEF e
<1>8. TypeOK'
  <2>1. k' \in Nat \ {0}
    BY <1>1, <1>3
  <2> QED
    BY <1>1, <1>6, <2>1, RewriteBuilt DEF Inv, TypeOK, request, transfer, results, Places
<1>9. \A s \in Sides : Src(s)' = Src(s) /\ Cnt(s)' = Cnt(s) /\ Built(s)' = Built(s)
  BY <1>1, SameGraph DEF request
<1>10. BuiltInv'
  <2>1. ASSUME NEW n \in 1 .. Cnt(side), n < k' PROVE Filled(side, n)'
    <3>1. CASE n = k
      BY <3>1, <1>1, <1>2, <1>6, <1>7, <1>9, RewriteBuilt DEF Filled
    <3>2. CASE n # k
      <4>1. n < k
        BY <2>1, <3>2, <1>1, <1>3
      <4>2. Filled(side, n)
        BY <4>1, <1>1 DEF Inv, BuiltInv
      <4>3. tensors'[side][n] = tensors[side][n]
        BY <3>2, <1>6, RewriteBuilt
      <4> QED
        BY <4>2, <4>3, <1>1, <1>2, <1>9 DEF Filled
    <3> QED
      BY <3>1, <3>2
  <2>2. /\ tensors'[side] \in Built(side)
        /\ \A s \in Sides : tensors'[s] \in {Null} \cup Built(s)
    BY <1>6, RewriteBuilt
  <2>3. side = "outputs" =>
            /\ tensors'["inputs"] \in Built("inputs")'
            /\ \A n \in 1 .. Cnt("inputs")' : Filled("inputs", n)'
    BY <1>6, RewriteInputs
  <2>4. leaked' = {} /\ i' \in 1 .. Len(graphs')
    BY <1>1, <1>2 DEF Inv, BuiltInv, request
  <2>5. \A n \in 1 .. Cnt(side)' : n < k' => Filled(side, n)'
    BY <2>1, <1>1, <1>2, <1>9
  <2> QED
    BY <1>1, <1>2, <1>9, <2>2, <2>3, <2>4, <2>5 DEF BuiltInv
<1>11. SpreadInv'
  BY <1>1, <1>2, <1>9 DEF Inv, SpreadInv, request, transfer, Busy
<1>12. OriginInv'
  BY <1>1, PrepareOrigin DEF PrepareStep, Preparing, results
<1> QED
  BY <1>8, <1>10, <1>11, <1>12 DEF Inv

\* The tensor is left with what was allocated before the failure.
LEMMA CopyFailsStep == ASSUME Inv, CopyTensorFails PROVE Inv'
<1>1. PICK got \in SUBSET Memory :
          /\ pc = "copy" /\ pc' = "free" /\ returned' = "FAILURE" /\ k <= Cnt(side)
          /\ tensors' = [tensors EXCEPT ![side][k].owns = got]
          /\ UNCHANGED <<request, i, side, k, transfer, output_tensor_, leaked>>
  <2>1. PICK got \in Allocated(Src(side)[k]) :
            tensors' = [tensors EXCEPT ![side][k].owns = got]
    BY DEF CopyTensorFails
  <2>2. got \in SUBSET Memory
    BY DEF Allocated, Scales, Memory
  <2>3. /\ pc = "copy" /\ pc' = "free" /\ returned' = "FAILURE" /\ k <= Cnt(side)
        /\ UNCHANGED <<request, i, side, k, transfer, output_tensor_, leaked>>
    BY DEF CopyTensorFails, At, Goto, Fail
  <2> QED
    BY <2>1, <2>2, <2>3
<1>2. side \in Sides /\ "inputs" \in Sides /\ pc \in Busy
  BY <1>1 DEF Inv, TypeOK, Sides, Busy
<1>3. Cnt(side) \in Nat /\ k \in 1 .. Cnt(side)
  BY <1>1, <1>2, Typed
<1>4. tensors[side][k] \in [owns : SUBSET Memory, room : 0 .. Word - 1]
  BY <1>1, <1>3 DEF Inv, BuiltInv, Built
<1> DEFINE e == [tensors[side][k] EXCEPT !.owns = got]
<1>5. e \in [owns : SUBSET Memory, room : 0 .. Word - 1]
  BY <1>1, <1>4
<1>6. Rewrites(e)
  BY <1>1, <1>5 DEF Rewrites
<1> HIDE DEF e
<1>7. TypeOK'
  BY <1>1, <1>6, RewriteBuilt DEF Inv, TypeOK, request, transfer, Places
<1>8. \A s \in Sides : Src(s)' = Src(s) /\ Cnt(s)' = Cnt(s) /\ Built(s)' = Built(s)
  BY <1>1, SameGraph DEF request
<1>9. copied' = <<>>
  BY <1>1 DEF Inv, SpreadInv, transfer
<1>10. BuiltInv'
  <2>1. \A s \in Sides : tensors'[s] \in {Null} \cup Built(s)
    BY <1>6, RewriteBuilt
  <2>2. leaked' = {} /\ i' \in 1 .. Len(graphs')
    BY <1>1, <1>2 DEF Inv, BuiltInv, request
  <2> QED
    BY <1>1, <1>8, <1>9, <2>1, <2>2 DEF BuiltInv
<1>11. SpreadInv'
  BY <1>1, <1>2, <1>9 DEF Inv, SpreadInv, request, transfer, Busy
<1>12. OriginInv'
  BY <1>1, PrepareOrigin DEF PrepareStep, Preparing
<1> QED
  BY <1>7, <1>10, <1>11, <1>12 DEF Inv

\* After the last tensor of a side every one of the side is whole.
LEMMA SetupDoneStep == ASSUME Inv, SetupDone PROVE Inv'
<1>1. /\ pc = "copy" /\ k > Cnt(side) /\ k' = 1
      /\ \/ side = "inputs" /\ side' = "outputs" /\ pc' = "setup"
         \/ side = "outputs" /\ side' = "inputs" /\ pc' = "measure"
      /\ UNCHANGED <<request, i, tensors, transfer, results, leaked>>
  BY DEF SetupDone, At, Goto, Inv, TypeOK, Sides
<1>2. side \in Sides /\ "inputs" \in Sides /\ pc \in Busy
  BY <1>1 DEF Inv, TypeOK, Sides, Busy
<1>3. Cnt(side) \in Nat /\ Cnt("inputs") \in Nat /\ k \in Nat
  BY <1>2, Typed
<1>4. TypeOK'
  <2>1. side' \in Sides /\ k' \in Nat \ {0} /\ pc' \in Places
    BY <1>1 DEF Sides, Places
  <2>2. UNCHANGED <<request, i, tensors, transfer, results, leaked>>
    BY <1>1
  <2> QED
    BY ONLY Inv, <2>1, <2>2 DEF Inv, TypeOK, request, transfer, results
<1>5. \A s \in Sides : Src(s)' = Src(s) /\ Cnt(s)' = Cnt(s) /\ Built(s)' = Built(s)
  BY <1>1, SameGraph DEF request
<1>6. tensors["inputs"] \in Built("inputs")
      /\ \A n \in 1 .. Cnt("inputs") : Filled("inputs", n)
  <2>1. CASE side = "outputs"
    BY <2>1, <1>1 DEF Inv, BuiltInv
  <2>2. CASE side = "inputs"
    <3>1. /\ tensors[side] \in Built(side)
          /\ \A n \in 1 .. Cnt(side) : n < k => Filled(side, n)
      BY <1>1 DEF Inv, BuiltInv
    <3>2. \A n \in 1 .. Cnt(side) : n < k
      BY <1>1, <1>3
    <3> QED
      BY <2>2, <3>1, <3>2
  <2> QED
    BY <2>1, <2>2, <1>2 DEF Sides
<1>7. BuiltInv'
  <2>1. /\ tensors'["inputs"] \in Built("inputs")'
        /\ \A n \in 1 .. Cnt("inputs")' : Filled("inputs", n)'
    BY <1>1, <1>2, <1>5, <1>6 DEF Filled
  <2>2. \A s \in Sides : tensors'[s] \in {Null} \cup Built(s)'
    BY <1>1, <1>2, <1>5 DEF Inv, BuiltInv
  <2>3. leaked' = {} /\ i' \in 1 .. Len(graphs')
    BY <1>1, <1>2 DEF Inv, BuiltInv, request
  <2> QED
    BY <1>1, <2>1, <2>2, <2>3 DEF BuiltInv
<1>8. SpreadInv'
  <2>1. expected = <<>> /\ copied = <<>> /\ length # 0
    BY <1>1, <1>2 DEF Inv, SpreadInv, Busy
  <2>2. Len(expected) = 0
    BY <2>1, EmptySeq
  <2>3. expected' = expected /\ copied' = copied /\ length' = length
    BY <1>1 DEF transfer, request
  <2>4. Cnt("inputs")' \in Nat
    BY <1>2, <1>3, <1>5
  <2> QED
    BY <1>1, <2>1, <2>2, <2>3, <2>4 DEF SpreadInv
<1>9. OriginInv'
  BY <1>1, PrepareOrigin DEF PrepareStep, Preparing, results
<1> QED
  BY <1>4, <1>7, <1>8, <1>9 DEF Inv

-----------------------------------------------------------------------------
(* Spreading the input over the tensors.                                   *)

\* Steps that only count or copy: the tensors stay as they are.
SpreadStep ==
    /\ pc \in {"measure", "write"} /\ pc' \in {"measure", "write"}
    /\ UNCHANGED <<request, i, side, tensors, results, leaked>>

\* So the inputs stay whole.
LEMMA SpreadBuilt == ASSUME Inv, SpreadStep PROVE BuiltInv' /\ OriginInv'
<1>1. /\ pc \in {"measure", "write"} /\ pc' \in {"measure", "write"}
      /\ UNCHANGED <<request, i, side, tensors, results, leaked>>
  BY DEF SpreadStep
<1>2. pc \in Busy /\ "inputs" \in Sides
  BY <1>1 DEF Busy, Sides
<1>3. \A s \in Sides : Src(s)' = Src(s) /\ Cnt(s)' = Cnt(s) /\ Built(s)' = Built(s)
  BY <1>1, SameGraph DEF request
<1>4. /\ tensors'["inputs"] \in Built("inputs")'
      /\ \A n \in 1 .. Cnt("inputs")' : Filled("inputs", n)'
  <2>1. /\ tensors["inputs"] \in Built("inputs")
        /\ \A n \in 1 .. Cnt("inputs") : Filled("inputs", n)
    BY <1>1 DEF Inv, BuiltInv
  <2> QED
    BY <2>1, <1>1, <1>2, <1>3 DEF Filled
<1>5. \A s \in Sides : tensors'[s] \in {Null} \cup Built(s)'
  BY <1>1, <1>2, <1>3 DEF Inv, BuiltInv
<1>6. leaked' = {} /\ i' \in 1 .. Len(graphs')
  BY <1>1, <1>2 DEF Inv, BuiltInv, request
<1>7. BuiltInv'
  BY <1>1, <1>4, <1>5, <1>6 DEF BuiltInv
<1>8. OriginInv'
  BY <1>1, PrepareOrigin DEF PrepareStep, Preparing, results
<1> QED
  BY <1>7, <1>8

\* The expected size grows by the size of one tensor.
LEMMA MeasureStep == ASSUME Inv, Measure PROVE Inv'
<1> DEFINE size == get_tensor_size(Src("inputs")[k])
           new == Append(expected, total_expected_size + size)
<1>1. /\ pc = "measure" /\ pc' = "measure" /\ k <= Cnt("inputs") /\ k' = k + 1
      /\ expected' = new
      /\ UNCHANGED <<request, i, side, tensors, copied, results, leaked>>
  BY DEF Measure, At, Goto
<1>2. "inputs" \in Sides /\ pc \in Busy
  BY <1>1 DEF Sides, Busy
<1>3. /\ Cnt("inputs") \in Nat /\ k \in 1 .. Cnt("inputs")
      /\ \A n \in 1 .. Cnt("inputs") :
             get_tensor_size(Src("inputs")[n]) \in 0 .. Word - 1
  BY <1>1, <1>2, Typed
<1>4. size \in 0 .. Word - 1
  BY <1>3
<1>5. expected \in Seq(Nat) /\ Len(expected) = k - 1
  BY <1>1 DEF Inv, TypeOK, SpreadInv
<1>6. total_expected_size \in Nat
      /\ \A n \in 1 .. Len(expected) : expected[n] <= total_expected_size
  <2>1. CASE expected = <<>>
    BY <2>1, EmptySeq DEF total_expected_size
  <2>2. CASE expected # <<>>
    <3>1. Len(expected) \in Nat \ {0}
      BY <2>2, <1>5, EmptySeq
    <3>2. total_expected_size = expected[Len(expected)]
      BY <2>2 DEF total_expected_size, Last
    <3>3. expected[Len(expected)] \in Nat
      <4>1. Len(expected) \in 1 .. Len(expected)
        BY <3>1
      <4> QED
        BY <4>1, <1>5, ElementOfSeq
    <3>4. \A n \in 1 .. Len(expected) : expected[n] <= expected[Len(expected)]
      BY <3>1 DEF Inv, SpreadInv
    <3> QED
      BY <3>2, <3>3, <3>4
  <2> QED
    BY <2>1, <2>2
<1> HIDE DEF size
<1>7. total_expected_size + size \in Nat /\ total_expected_size <= total_expected_size + size
  BY <1>4, <1>6, BoundsAssumption
<1>8. /\ new \in Seq(Nat) /\ Len(new) = k
      /\ \A n \in 1 .. Len(expected) : new[n] = expected[n]
      /\ new[k] = total_expected_size + size
  <2>1. /\ new \in Seq(Nat) /\ Len(new) = Len(expected) + 1
        /\ \A n \in 1 .. Len(expected) : new[n] = expected[n]
        /\ new[Len(expected) + 1] = total_expected_size + size
    BY <1>5, <1>7, AppendProperties
  <2> QED
    BY <2>1, <1>3, <1>5
<1> HIDE DEF new
<1>9. \A n, m \in 1 .. Len(new) : n <= m => new[n] <= new[m]
  <2> SUFFICES ASSUME NEW n \in 1 .. k, NEW m \in 1 .. k, n <= m
               PROVE  new[n] <= new[m]
    BY <1>8
  <2>1. CASE m = k
    <3>1. CASE n = k
      BY <2>1, <3>1, <1>7, <1>8
    <3>2. CASE n # k
      <4>1. n \in 1 .. Len(expected) /\ expected[n] \in Nat
        BY <3>2, <1>3, <1>5, LenProperties
      <4> QED
        BY <2>1, <4>1, <1>6, <1>7, <1>8
    <3> QED
      BY <3>1, <3>2
  <2>2. CASE m # k
    <3>1. n \in 1 .. Len(expected) /\ m \in 1 .. Len(expected)
      BY <2>2, <1>3, <1>5
    <3> QED
      BY <3>1, <1>8 DEF Inv, SpreadInv
  <2> QED
    BY <2>1, <2>2
<1>10. TypeOK'
  <2>1. k' \in Nat \ {0} /\ expected' \in Seq(Nat)
    BY <1>1, <1>3, <1>8
  <2>2. pc' = pc /\ UNCHANGED <<request, i, side, tensors, copied, results, leaked>>
    BY <1>1
  <2> QED
    BY ONLY Inv, <2>1, <2>2 DEF Inv, TypeOK, request, results
<1>11. BuiltInv' /\ OriginInv'
  BY <1>1, SpreadBuilt DEF SpreadStep
<1>12. SpreadInv'
  <2>1. copied' = <<>> /\ length' # 0
    BY <1>1, <1>2 DEF Inv, SpreadInv, request
  <2>2. Len(expected') = k' - 1 /\ k' - 1 <= Cnt("inputs")
    BY <1>1, <1>3, <1>8
  <2>3. Cnt("inputs")' = Cnt("inputs") /\ Src("inputs")' = Src("inputs")
    BY <1>1, <1>2, SameGraph DEF request
  <2>4. ASSUME NEW n \in 1 .. k
        PROVE  new[n] = Before(n)' + get_tensor_size(Src("inputs")[n])
    <3>1. CASE n = k
      <4>1. Before(n)' = total_expected_size
        <5>1. CASE k = 1
          <6>1. expected = <<>>
            BY <5>1, <1>5, EmptySeq
          <6> QED
            BY <3>1, <5>1, <6>1 DEF Before, total_expected_size
        <5>2. CASE k # 1
          <6>1. expected # <<>> /\ k - 1 \in 1 .. Len(expected)
            BY <5>2, <1>3, <1>5, EmptySeq
          <6>2. total_expected_size = expected[k - 1]
            BY <6>1, <1>5 DEF total_expected_size, Last
          <6> QED
            BY <3>1, <5>2, <6>1, <6>2, <1>1, <1>8 DEF Before
        <5> QED
          BY <5>1, <5>2
      <4> QED
        BY <3>1, <4>1, <1>8 DEF size
    <3>2. CASE n # k
      <4>1. n \in 1 .. Len(expected) /\ (n # 1 => n - 1 \in 1 .. Len(expected))
        BY <3>2, <1>3, <1>5
      <4>2. expected[n] = Before(n) + get_tensor_size(Src("inputs")[n])
        BY <4>1, <1>1 DEF Inv, SpreadInv
      <4>3. Before(n)' = Before(n)
        BY <4>1, <1>1, <1>8 DEF Before
      <4> QED
        BY <4>1, <4>2, <4>3, <1>8
    <3> QED
      BY <3>1, <3>2
  <2>5. \A n \in 1 .. Len(expected') :
            expected'[n] = Before(n)' + get_tensor_size(Src("inputs")[n])'
    BY <1>1, <1>8, <2>3, <2>4
  <2> QED
    BY <1>1, <1>9, <2>1, <2>2, <2>3, <2>5 DEF SpreadInv
<1> QED
  BY <1>10, <1>11, <1>12 DEF Inv

\* The input is as long as the tensors take together, or FAILURE.
LEMMA CheckStep == ASSUME Inv, CheckLength PROVE Inv'
<1>1. CASE total_expected_size # length
  <2>1. FailSteps
    BY <1>1 DEF CheckLength, At, FailSteps, Preparing
  <2> QED
    BY <2>1, FailStep
<1>2. CASE total_expected_size = length
  <2>1. /\ pc = "measure" /\ pc' = "write" /\ k > Cnt("inputs") /\ k' = 1
        /\ UNCHANGED <<request, i, side, tensors, transfer, results, leaked>>
    BY <1>2 DEF CheckLength, At, Goto
  <2>2. "inputs" \in Sides /\ pc \in Busy
    BY <2>1 DEF Sides, Busy
  <2>3. Cnt("inputs") \in Nat /\ k \in Nat
    BY <2>2, Typed
  <2>4. /\ Len(expected) = k - 1 /\ k - 1 <= Cnt("inputs") /\ copied = <<>>
        /\ length # 0
    BY <2>1, <2>2 DEF Inv, SpreadInv
  <2>5. Len(expected) = Cnt("inputs") /\ Len(copied) = 0
    BY <2>1, <2>3, <2>4, EmptySeq
  <2>6. TypeOK'
    <3>1. k' \in Nat \ {0} /\ pc' \in Places
      BY <2>1 DEF Places
    <3>2. UNCHANGED <<request, i, side, tensors, transfer, results, leaked>>
      BY <2>1
    <3> QED
      BY ONLY Inv, <3>1, <3>2 DEF Inv, TypeOK, request, transfer, results
  <2>7. BuiltInv' /\ OriginInv'
    BY <2>1, SpreadBuilt DEF SpreadStep
  <2>8. SpreadInv'
    <3>1. Cnt("inputs")' = Cnt("inputs") /\ Src("inputs")' = Src("inputs")
      BY <2>1, <2>2, SameGraph DEF request
    <3>2. UNCHANGED <<expected, copied, length, total_expected_size>>
      BY <2>1 DEF transfer, request, total_expected_size
    <3>3. \A n \in 1 .. Len(expected) :
              expected[n] = Before(n)' + get_tensor_size(Src("inputs")[n])'
      BY <2>1, <3>1, <3>2 DEF Inv, SpreadInv, Before
    <3> QED
      BY <1>2, <2>1, <2>3, <2>4, <2>5, <3>1, <3>2, <3>3 DEF Inv, SpreadInv
  <2> QED
    BY <2>6, <2>7, <2>8 DEF Inv
<1> QED
  BY <1>1, <1>2

\* The next part of the input goes to the next tensor.
LEMMA WriteStep == ASSUME Inv, WriteInput PROVE Inv'
<1> DEFINE size == get_tensor_size(Src("inputs")[k])
           part == [from |-> data_offset, size |-> size]
           new == Append(copied, part)
<1>1. /\ pc = "write" /\ pc' = "write" /\ k <= Cnt("inputs") /\ k' = k + 1
      /\ copied' = new
      /\ UNCHANGED <<request, i, side, tensors, expected, results, leaked>>
  BY DEF WriteInput, At, Goto
<1>2. "inputs" \in Sides /\ pc \in Busy
  BY <1>1 DEF Sides, Busy
<1>3. /\ Cnt("inputs") \in Nat /\ k \in 1 .. Cnt("inputs")
      /\ \A n \in 1 .. Cnt("inputs") :
             get_tensor_size(Src("inputs")[n]) \in 0 .. Word - 1
  BY <1>1, <1>2, Typed
<1>4. size \in Nat
  BY <1>3, BoundsAssumption
<1>5. /\ copied \in Seq([from : Nat, size : Nat]) /\ Len(copied) = k - 1
      /\ expected \in Seq(Nat) /\ Len(expected) = Cnt("inputs")
      /\ total_expected_size = length /\ length # 0
  BY <1>1 DEF Inv, TypeOK, SpreadInv
<1>6. /\ \A n \in 1 .. Cnt("inputs") :
             expected[n] = Before(n) + get_tensor_size(Src("inputs")[n])
      /\ \A n \in 1 .. k - 1 :
             /\ copied[n].size = get_tensor_size(Src("inputs")[n])
             /\ copied[n].from + copied[n].size = expected[n]
             /\ copied[n].from = Before(n)
  <2>1. k - 1 = 0 \/ copied # <<>>
    BY <1>5, EmptySeq
  <2> QED
    BY <2>1, <1>1, <1>2, <1>3, <1>5 DEF Inv, SpreadInv
<1>7. data_offset = Before(k) /\ data_offset \in Nat
  <2>1. CASE k = 1
    <3>1. copied = <<>>
      BY <2>1, <1>5, EmptySeq
    <3> QED
      BY <2>1, <3>1 DEF data_offset, Before
  <2>2. CASE k # 1
    <3>1. k - 1 \in 1 .. Len(copied) /\ k - 1 \in 1 .. Len(expected) /\ copied # <<>>
      BY <2>2, <1>3, <1>5, EmptySeq
    <3>2. data_offset = copied[k - 1].from + copied[k - 1].size
      BY <3>1, <1>5 DEF data_offset, Last
    <3>3. expected[k - 1] \in Nat
      BY <3>1, <1>5, ElementOfSeq
    <3> QED
      BY <2>2, <3>1, <3>2, <3>3, <1>5, <1>6 DEF Before
  <2> QED
    BY <2>1, <2>2
<1>8. expected[k] = data_offset + size
  BY <1>3, <1>6, <1>7
<1> HIDE DEF size
<1>9. part \in [from : Nat, size : Nat] /\ part.from = data_offset /\ part.size = size
  BY <1>4, <1>7
<1> HIDE DEF part
<1>10. /\ new \in Seq([from : Nat, size : Nat]) /\ Len(new) = k
       /\ \A n \in 1 .. k - 1 : new[n] = copied[n]
       /\ new[k] = part
  <2>1. /\ new \in Seq([from : Nat, size : Nat]) /\ Len(new) = Len(copied) + 1
        /\ \A n \in 1 .. Len(copied) : new[n] = copied[n]
        /\ new[Len(copied) + 1] = part
    BY <1>5, <1>9, AppendProperties
  <2> QED
    BY <2>1, <1>3, <1>5
<1> HIDE DEF new
<1>11. \A n \in 1 .. k :
           /\ new[n].size = get_tensor_size(Src("inputs")[n])
           /\ new[n].from + new[n].size = expected[n]
           /\ new[n].from = Before(n)
  <2> SUFFICES ASSUME NEW n \in 1 .. k
               PROVE  /\ new[n].size = get_tensor_size(Src("inputs")[n])
                      /\ new[n].from + new[n].size = expected[n]
                      /\ new[n].from = Before(n)
    OBVIOUS
  <2>1. CASE n = k
    BY <2>1, <1>7, <1>8, <1>9, <1>10 DEF size
  <2>2. CASE n # k
    <3>1. n \in 1 .. k - 1
      BY <2>2, <1>3
    <3> QED
      BY <3>1, <1>6, <1>10
  <2> QED
    BY <2>1, <2>2
<1>12. TypeOK'
  <2>1. k' \in Nat \ {0} /\ copied' \in Seq([from : Nat, size : Nat])
    BY <1>1, <1>3, <1>10
  <2>2. pc' = pc /\ UNCHANGED <<request, i, side, tensors, expected, results, leaked>>
    BY <1>1
  <2> QED
    BY ONLY Inv, <2>1, <2>2 DEF Inv, TypeOK, request, results
<1>13. BuiltInv' /\ OriginInv'
  BY <1>1, SpreadBuilt DEF SpreadStep
<1>14. SpreadInv'
  <2>1. Cnt("inputs")' = Cnt("inputs") /\ Src("inputs")' = Src("inputs")
    BY <1>1, <1>2, SameGraph DEF request
  <2>2. UNCHANGED <<expected, length, total_expected_size>>
    BY <1>1 DEF total_expected_size, request
  <2>3. \A n : UNCHANGED <<Before(n), get_tensor_size(Src("inputs")[n])>>
    BY <2>1, <2>2 DEF Before
  <2>4. \A n, m \in 1 .. Len(expected) : n <= m => expected[n] <= expected[m]
    BY DEF Inv, SpreadInv
  <2>5. expected[Len(expected)] = length
    <3>1. expected # <<>>
      BY <1>3, <1>5, EmptySeq
    <3> QED
      BY <3>1, <1>5 DEF total_expected_size, Last
  <2>6. Len(copied') = k' - 1 /\ k' - 1 <= Cnt("inputs") /\ Len(copied') <= Len(expected)
    BY <1>1, <1>3, <1>5, <1>10
  <2>7. \A n \in 1 .. Len(copied') :
            /\ copied'[n].size = get_tensor_size(Src("inputs")[n])'
            /\ copied'[n].from + copied'[n].size = expected'[n]
            /\ copied'[n].from = Before(n)'
    BY <1>1, <1>10, <1>11, <2>2, <2>3
  <2>8. \A n \in 1 .. Len(expected') :
            expected'[n] = Before(n)' + get_tensor_size(Src("inputs")[n])'
    BY <1>5, <1>6, <2>2, <2>3
  <2> HIDE DEF Before
  <2> QED
    BY <1>1, <1>5, <2>1, <2>2, <2>4, <2>5, <2>6, <2>7, <2>8 DEF SpreadInv
<1> QED
  BY <1>12, <1>13, <1>14 DEF Inv

-----------------------------------------------------------------------------
(* Executing a graph and freeing its tensors.                              *)

\* What read_output_tensors makes are all the outputs of this graph, or none.
LEMMA ReadResults ==
    ASSUME Inv, pc = "write"
    PROVE  /\ read_output_tensors \in Seq(Output)
           /\ read_output_tensors # <<>> =>
                  /\ Len(read_output_tensors) = Cnt("outputs")
                  /\ Len(read_output_tensors) \in Nat \ {0}
                  /\ \A n \in 1 .. Cnt("outputs") :
                         /\ read_output_tensors[n].call = calls
                         /\ read_output_tensors[n].graph = i
                         /\ read_output_tensors[n].tensor = n
<1>1. pc \in Busy /\ "outputs" \in Sides
  BY DEF Busy, Sides
<1>2. /\ Cnt("outputs") \in Nat
      /\ \A n \in 1 .. Cnt("outputs") : get_tensor_size(Src("outputs")[n]) \in 0 .. Word - 1
  BY <1>1, Typed
<1>3. calls \in 1 .. MaxCalls /\ i \in Nat
  <2>1. calls \in 0 .. MaxCalls /\ MaxCalls \in Nat /\ i \in 1 .. Len(graphs)
    BY <1>1, BoundsAssumption DEF Inv, TypeOK, BuiltInv
  <2>2. calls # 0
    BY DEF Inv, OriginInv
  <2> QED
    BY <2>1, <2>2
<1> DEFINE all == [n \in 1 .. Cnt("outputs") |->
                      [call |-> calls, graph |-> i, tensor |-> n,
                       size |-> get_tensor_size(Src("outputs")[n])]]
<1>4. all \in [1 .. Cnt("outputs") -> Output]
  <2> SUFFICES ASSUME NEW n \in 1 .. Cnt("outputs")
               PROVE  [call |-> calls, graph |-> i, tensor |-> n,
                       size |-> get_tensor_size(Src("outputs")[n])] \in Output
    OBVIOUS
  <2>1. get_tensor_size(Src("outputs")[n]) \in Nat /\ n \in Nat
    BY <1>2, BoundsAssumption
  <2> QED
    BY <2>1, <1>3 DEF Output
<1>5. all \in Seq(Output)
  BY <1>2, <1>4, SeqDef
<1>6. Len(all) = Cnt("outputs")
  BY <1>2
<1>7. \A n \in 1 .. Cnt("outputs") :
          all[n].call = calls /\ all[n].graph = i /\ all[n].tensor = n
  OBVIOUS
<1>8. read_output_tensors \in {all, <<>>}
  BY DEF read_output_tensors
<1> HIDE DEF all
<1>9. <<>> \in Seq(Output)
  BY EmptySeq
<1> QED
  BY <1>5, <1>6, <1>7, <1>8, <1>9, EmptySeq

\* The results are replaced by those of this graph, or emptied.
LEMMA ExecuteStep == ASSUME Inv, Execute PROVE Inv'
<1>1. /\ pc = "write" /\ pc' = "free" /\ output_tensor_' = read_output_tensors
      /\ UNCHANGED <<request, i, side, k, tensors, transfer, leaked, returned>>
  BY DEF Execute, Written, Goto
<1>2. pc \in Busy /\ "inputs" \in Sides /\ "outputs" \in Sides
  BY <1>1 DEF Busy, Sides
<1>3. \A s \in Sides : Src(s)' = Src(s) /\ Cnt(s)' = Cnt(s) /\ Built(s)' = Built(s)
  BY <1>1, SameGraph DEF request
<1>4. TypeOK'
  <2>1. output_tensor_' \in Seq(Output) /\ pc' \in Places
    BY <1>1, ReadResults DEF Places
  <2>2. UNCHANGED <<request, i, side, k, tensors, transfer, leaked, returned>>
    BY <1>1
  <2> QED
    BY ONLY Inv, <2>1, <2>2 DEF Inv, TypeOK, request, transfer
<1>5. BuiltInv'
  <2>1. /\ tensors'["inputs"] \in Built("inputs")'
        /\ \A n \in 1 .. Cnt("inputs")' : Filled("inputs", n)'
    <3>1. /\ tensors["inputs"] \in Built("inputs")
          /\ \A n \in 1 .. Cnt("inputs") : Filled("inputs", n)
      BY <1>1 DEF Inv, BuiltInv
    <3> QED
      BY <3>1, <1>1, <1>2, <1>3 DEF Filled
  <2>2. \A s \in Sides : tensors'[s] \in {Null} \cup Built(s)'
    BY <1>1, <1>2, <1>3 DEF Inv, BuiltInv
  <2>3. leaked' = {} /\ i' \in 1 .. Len(graphs')
    BY <1>1, <1>2 DEF Inv, BuiltInv, request
  <2> QED
    BY <1>1, <2>1, <2>2, <2>3 DEF BuiltInv
<1>6. SpreadInv'
  <2>1. Cnt("inputs")' = Cnt("inputs") /\ Src("inputs")' = Src("inputs")
    BY <1>2, <1>3
  <2> QED
    BY <1>1, <1>2, <2>1 DEF Inv, SpreadInv, Before, request, transfer, Busy
<1>7. OriginInv'
  <2>1. returned = "nothing" /\ calls # 0
    BY <1>1 DEF Inv, OriginInv
  <2>2. i \in 1 .. Len(graphs) /\ calls \in Nat
    BY <1>2, BoundsAssumption DEF Inv, BuiltInv, TypeOK
  <2>3. UNCHANGED <<graphs, calls, i, returned>>
    BY <1>1 DEF request
  <2>4. ASSUME output_tensor_' # <<>>
        PROVE  /\ output_tensor_'[1].call = calls /\ output_tensor_'[1].graph = i
               /\ From(calls, i)'
    <3>1. /\ Len(output_tensor_') = Cnt("outputs") /\ Cnt("outputs") \in Nat \ {0}
          /\ \A n \in 1 .. Cnt("outputs") :
                 /\ output_tensor_'[n].call = calls
                 /\ output_tensor_'[n].graph = i
                 /\ output_tensor_'[n].tensor = n
      BY <2>4, <1>1, ReadResults
    <3> QED
      BY <3>1, <2>3 DEF From, Cnt, Src
  <2>5. calls \in 1 .. calls
    BY <2>1, <2>2
  <2> HIDE DEF From
  <2> QED
    BY <1>1, <2>1, <2>2, <2>3, <2>4, <2>5 DEF OriginInv
<1> QED
  BY <1>4, <1>5, <1>6, <1>7 DEF Inv

\* ~QnnTensor frees all that any tensor may own.
LEMMA FreeStep == ASSUME Inv, FreeTensors PROVE Inv'
<1>1. /\ pc = "free" /\ tensors' = NoTensors
      /\ \/ returned = "FAILURE" /\ pc' = "idle" /\ i' = i
         \/ returned # "FAILURE" /\ pc' = "graph" /\ i' = i + 1
      /\ UNCHANGED <<request, side, k, transfer, results>>
  BY DEF FreeTensors, At, Goto
<1>2. pc \in Busy
  BY <1>1 DEF Busy
<1>3. leaked' = {}
  <2>1. \A s \in Sides : tensors[s] # Null =>
            \A n \in 1 .. Cnt(s) : tensors[s][n].owns \subseteq Memory
    BY <1>2 DEF Inv, BuiltInv, Built
  <2>2. leaked = {} /\ FreedMemory = Memory
    BY DEF Inv, BuiltInv, FreedMemory, Memory
  <2> DEFINE owned(s) == UNION {tensors[s][n].owns : n \in 1 .. Cnt(s)}
             left(s) == owned(s) \ FreedMemory
  <2>3. ASSUME NEW s \in Sides, tensors[s] # Null PROVE left(s) = {}
    <3>1. ASSUME NEW x \in UNION {tensors[s][n].owns : n \in 1 .. Cnt(s)}
          PROVE  x \in FreedMemory
      <4>1. PICK n \in 1 .. Cnt(s) : x \in tensors[s][n].owns
        OBVIOUS
      <4> QED
        BY <2>1, <2>2, <2>3, <4>1
    <3>2. owned(s) \subseteq FreedMemory
      BY <3>1, Zenon
    <3> HIDE DEF owned
    <3> QED
      BY <3>2
  <2>4. leaked' = leaked \cup UNION {left(s) : s \in {s \in Sides : tensors[s] # Null}}
    BY DEF FreeTensors
  <2> HIDE DEF left
  <2> QED
    BY <2>2, <2>3, <2>4
<1>4. i \in 1 .. Len(graphs) /\ Len(graphs) \in Nat
  <2>1. graphs \in Seq(Range(graphs))
    BY ModelsAssumption DEF Inv, TypeOK
  <2> QED
    BY <2>1, <1>2, LenProperties DEF Inv, BuiltInv
<1>5. TypeOK'
  <2>1. i' \in 1 .. Len(graphs) + 1 /\ pc' \in Places /\ leaked' \subseteq Memory
    BY <1>1, <1>3, <1>4 DEF Places
  <2>2. tensors' \in [Sides -> {Null} \cup Seq([owns : SUBSET Memory,
                                                 room : 0 .. Word - 1])]
    BY <1>1 DEF NoTensors
  <2>3. UNCHANGED <<request, side, k, transfer, results>>
    BY <1>1
  <2> QED
    BY ONLY Inv, <2>1, <2>2, <2>3 DEF Inv, TypeOK, request, transfer, results
<1>6. BuiltInv'
  BY <1>1, <1>3 DEF BuiltInv, Busy
<1>7. SpreadInv'
  <2>1. length' # 0 /\ UNCHANGED <<expected, copied>>
    BY <1>1, <1>2 DEF Inv, SpreadInv, request, transfer
  <2> QED
    BY <1>1, <2>1 DEF Inv, SpreadInv, Busy
<1>8. OriginInv'
  <2>1. UNCHANGED <<graphs, calls, output_tensor_, returned>> /\ calls # 0
    BY <1>1 DEF Inv, OriginInv, request, results
  <2>2. \A c, g : From(c, g)' = From(c, g)
    BY <2>1 DEF From
  <2>3. returned # "FAILURE" => returned = "nothing"
    BY <1>1 DEF Inv, TypeOK, OriginInv
  <2>4. i' # i => i' # 1 /\ i' - 1 = i
    BY <1>1, <1>4
  <2>5. i - 1 < Len(graphs)
    BY <1>4
  <2>6. calls \in Nat
    BY BoundsAssumption DEF Inv, TypeOK
  <2>7. ASSUME output_tensor_ # <<>>
        PROVE  LET c == output_tensor_[1].call
                   g == output_tensor_[1].graph
               IN  /\ From(c, g) /\ c \in 1 .. calls /\ g \in 1 .. Len(graphs)
                   /\ IF returned # "FAILURE" THEN c = calls /\ g = i
                      ELSE IF i = 1 THEN c < calls ELSE c = calls /\ g = i - 1
    BY <2>7, <1>1, <1>2 DEF Inv, OriginInv
  <2> HIDE DEF From
  <2> QED
    BY <1>1, <2>1, <2>2, <2>3, <2>4, <2>5, <2>6, <2>7 DEF OriginInv, Busy
<1> QED
  BY <1>5, <1>6, <1>7, <1>8 DEF Inv

-----------------------------------------------------------------------------
(* The caller.                                                             *)

\* A call starts at the first graph; what is left of older calls is older.
LEMMA CallStep == ASSUME Inv, NEW len \in InputLengths, Call(len) PROVE Inv'
<1>1. /\ pc = "idle" /\ calls < MaxCalls /\ calls' = calls + 1
      /\ length' = len /\ i' = 1
      /\ \/ len = 0 /\ pc' = "idle" /\ returned' = "FAILURE"
         \/ len # 0 /\ pc' = "graph" /\ returned' = "nothing"
      /\ UNCHANGED <<graphs, side, k, tensors, transfer, output_tensor_, leaked>>
  BY DEF Call, Goto
<1>2. calls \in Nat /\ calls' \in 0 .. MaxCalls /\ calls' # 0
  BY <1>1, BoundsAssumption DEF Inv, TypeOK
<1>3. TypeOK'
  <2>1. Len(graphs) \in Nat
    <3>1. graphs \in Seq(Range(graphs))
      BY ModelsAssumption DEF Inv, TypeOK
    <3> QED
      BY <3>1, LenProperties
  <2>2. /\ i' \in 1 .. Len(graphs) + 1 /\ pc' \in Places /\ length' \in Nat
        /\ returned' \in {"nothing", "SUCCESS", "FAILURE"}
    BY <1>1, <2>1, BoundsAssumption DEF Places
  <2>3. UNCHANGED <<graphs, side, k, tensors, transfer, output_tensor_, leaked>>
    BY <1>1
  <2> QED
    BY ONLY Inv, <1>2, <2>2, <2>3 DEF Inv, TypeOK, transfer
<1>4. BuiltInv'
  BY <1>1 DEF Inv, BuiltInv, Busy
<1>5. SpreadInv'
  BY <1>1 DEF Inv, SpreadInv, Busy, transfer
<1>6. OriginInv'
  <2>1. \A c, g : From(c, g)' = From(c, g)
    BY <1>1 DEF From
  <2>2. \A c \in 1 .. calls : c \in 1 .. calls' /\ c < calls' /\ c # calls'
    BY <1>1, <1>2
  <2>3. ASSUME output_tensor_ # <<>>
        PROVE  LET c == output_tensor_[1].call
                   g == output_tensor_[1].graph
               IN  From(c, g) /\ c \in 1 .. calls /\ g \in 1 .. Len(graphs)
    BY <2>3 DEF Inv, OriginInv
  <2> HIDE DEF From
  <2> QED
    BY <1>1, <1>2, <2>1, <2>2, <2>3 DEF OriginInv, Busy
<1> QED
  BY <1>3, <1>4, <1>5, <1>6 DEF Inv

\* The results are moved out.
LEMMA CollectStep == ASSUME Inv, Collect PROVE Inv'
<1>1. /\ pc = "idle" /\ pc' = "idle" /\ output_tensor_' = <<>>
      /\ UNCHANGED <<request, i, side, k, tensors, transfer, returned, leaked>>
  BY DEF Collect, At, Goto
<1>2. TypeOK'
  <2>1. output_tensor_' \in Seq(Output)
    BY <1>1, EmptySeq
  <2> QED
    BY <1>1, <2>1 DEF Inv, TypeOK, request, transfer
<1>3. BuiltInv' /\ SpreadInv'
  BY <1>1 DEF Inv, BuiltInv, SpreadInv, Busy, transfer
<1>4. OriginInv'
  BY <1>1 DEF Inv, OriginInv, Busy, request
<1> QED
  BY <1>2, <1>3, <1>4 DEF Inv

\* The loop goes on to the next graph, or the call ends with SUCCESS.
LEMMA NextGraphStep == ASSUME Inv, NextGraph PROVE Inv'
<1>1. /\ pc = "graph" /\ side' = "inputs" /\ k' = 1
      /\ expected' = <<>> /\ copied' = <<>>
      /\ \/ i <= Len(graphs) /\ pc' = "setup" /\ returned' = returned
         \/ ~(i <= Len(graphs)) /\ pc' = "idle" /\ returned' = "SUCCESS"
      /\ UNCHANGED <<request, i, tensors, output_tensor_, leaked>>
  BY DEF NextGraph, At, Goto
<1>2. Len(graphs) \in Nat /\ i \in 1 .. Len(graphs) + 1
  <2>1. graphs \in Seq(Range(graphs))
    BY ModelsAssumption DEF Inv, TypeOK
  <2> QED
    BY <2>1, LenProperties DEF Inv, TypeOK
<1>3. TypeOK'
  <2>1. /\ side' \in Sides /\ k' \in Nat \ {0} /\ pc' \in Places
        /\ returned' \in {"nothing", "SUCCESS", "FAILURE"}
    BY <1>1 DEF Inv, TypeOK, Sides, Places
  <2>2. expected' \in Seq(Nat) /\ copied' \in Seq([from : Nat, size : Nat])
    BY <1>1, EmptySeq
  <2>3. UNCHANGED <<request, i, tensors, output_tensor_, leaked>>
    BY <1>1
  <2> QED
    BY ONLY Inv, <2>1, <2>2, <2>3 DEF Inv, TypeOK, request
<1>4. BuiltInv'
  <2>1. tensors' = NoTensors /\ leaked' = {}
    BY <1>1 DEF Inv, BuiltInv
  <2>2. pc' = "setup" => i' \in 1 .. Len(graphs')
    BY <1>1, <1>2 DEF request
  <2>3. \A s \in Sides : tensors'[s] = Null
    BY <2>1 DEF NoTensors
  <2> QED
    BY <1>1, <2>1, <2>2, <2>3 DEF BuiltInv, Busy
<1>5. SpreadInv'
  <2>1. length' # 0 /\ Len(expected') = 0
    BY <1>1, EmptySeq DEF Inv, SpreadInv, request
  <2> QED
    BY <1>1, <2>1 DEF SpreadInv, Busy
<1>6. OriginInv'
  <2>1. UNCHANGED <<graphs, calls, i, output_tensor_>>
    BY <1>1 DEF request
  <2>2. \A c, g : From(c, g)' = From(c, g)
    BY <2>1 DEF From
  <2>3. calls # 0 /\ returned = "nothing"
    BY <1>1 DEF Inv, OriginInv
  <2>4. ~(i <= Len(graphs)) => i - 1 = Len(graphs)
    BY <1>2
  <2>5. ASSUME output_tensor_ # <<>>
        PROVE  LET c == output_tensor_[1].call
                   g == output_tensor_[1].graph
               IN  /\ From(c, g) /\ c \in 1 .. calls /\ g \in 1 .. Len(graphs)
                   /\ IF i = 1 THEN c < calls ELSE c = calls /\ g = i - 1
    BY <2>5, <1>1 DEF Inv, OriginInv
  <2>6. ~(i <= Len(graphs)) /\ i = 1 => 1 .. Len(graphs) = {}
    BY <1>2
  <2> HIDE DEF From
  <2> QED
    BY <1>1, <2>1, <2>2, <2>3, <2>4, <2>5, <2>6 DEF OriginInv, Busy
<1> QED
  BY <1>3, <1>4, <1>5, <1>6 DEF Inv

-----------------------------------------------------------------------------
(* The invariant, and what follows from it.                                *)

\* Nothing is built, copied or held before the first call.
LEMMA InvInit == Init => Inv
<1> SUFFICES ASSUME Init PROVE Inv
  OBVIOUS
<1>1. /\ graphs \in Models /\ calls = 0 /\ length = 0 /\ i = 1 /\ side = "inputs"
      /\ k = 1 /\ tensors = NoTensors /\ expected = <<>> /\ copied = <<>>
      /\ output_tensor_ = <<>> /\ leaked = {} /\ returned = "nothing" /\ pc = "idle"
  BY DEF Init
<1>2. Len(graphs) \in Nat
  <2>1. graphs \in Seq(Range(graphs))
    BY <1>1, ModelsAssumption
  <2> QED
    BY <2>1, LenProperties
<1>3. TypeOK
  <2>1. calls \in 0 .. MaxCalls /\ i \in 1 .. Len(graphs) + 1 /\ length \in Nat
    BY <1>1, <1>2, BoundsAssumption
  <2>2. /\ expected \in Seq(Nat) /\ copied \in Seq([from : Nat, size : Nat])
        /\ output_tensor_ \in Seq(Output)
    BY <1>1, EmptySeq
  <2>3. tensors \in [Sides -> {Null} \cup Seq([owns : SUBSET Memory,
                                                room : 0 .. Word - 1])]
    BY <1>1 DEF NoTensors
  <2> QED
    BY <1>1, <2>1, <2>2, <2>3 DEF TypeOK, Sides, Places
<1>4. BuiltInv /\ SpreadInv /\ OriginInv
  <2>1. Len(expected) = 0
    BY <1>1, EmptySeq
  <2> QED
    BY <1>1, <2>1 DEF BuiltInv, SpreadInv, OriginInv, Busy
<1> QED
  BY <1>3, <1>4 DEF Inv

\* Every step of the caller and of the engine keeps the invariant.
LEMMA InvNext == ASSUME Inv, [Next]_vars PROVE Inv'
<1>1. ASSUME NEW len \in InputLengths, Call(len) PROVE Inv'
  BY <1>1, CallStep
<1>2. CASE SetupArrayFails \/ WriteInputFails \/ ExecuteFails
  <2>1. FailSteps
    BY <1>2 DEF SetupArrayFails, WriteInputFails, ExecuteFails, Written, At, FailSteps,
                Preparing
  <2> QED
    BY <2>1, FailStep
<1>3. CASE UNCHANGED vars
  <2> USE <1>3 DEF vars, request, transfer, results
  <2>1. TypeOK'
    BY DEF Inv, TypeOK
  <2>2. /\ Src("inputs")' = Src("inputs") /\ Cnt("inputs")' = Cnt("inputs")
        /\ \A s \in Sides : Src(s)' = Src(s) /\ Cnt(s)' = Cnt(s) /\ Built(s)' = Built(s)
    BY SameGraph DEF Sides
  <2>3. BuiltInv'
    BY <2>2 DEF Inv, BuiltInv, Filled, Built, Cnt, Src
  <2>4. SpreadInv'
    BY <2>2 DEF Inv, SpreadInv, Before, total_expected_size
  <2>5. OriginInv'
    BY DEF Inv, OriginInv, From
  <2> QED
    BY <2>1, <2>3, <2>4, <2>5 DEF Inv
<1> QED
  BY <1>1, <1>2, <1>3, CollectStep, NextGraphStep, NothingStep, SetupArrayStep, CopyStep,
     CopyFailsStep, SetupDoneStep, MeasureStep, CheckStep, WriteStep, ExecuteStep, FreeStep
  DEF Next

\* The inductive invariant holds in every state of every execution.
THEOREM InvCorrect == Spec => []Inv
<1>1. Init => Inv
  BY InvInit
<1>2. Inv /\ [Next]_vars => Inv'
  BY InvNext
<1> QED
  BY <1>1, <1>2, PTL DEF Spec

\* Every variable of the copying execution keeps its type; a buffer never has
\* more bytes than a uint32_t counts.
THEOREM TypeCorrect == Spec => []TypeOK
<1>1. Inv => TypeOK
  BY DEF Inv
<1> QED
  BY <1>1, InvCorrect, PTL

\* No copy of an input reads past the caller's bytes or writes past its tensor,
\* whatever the sizes wrap to (write_input_tensors).
THEOREM CopyInBoundsCorrect == Spec => []CopyInBounds
<1>1. ASSUME Inv, tensors["inputs"] # Null, NEW n \in 1 .. Len(copied)
      PROVE  /\ copied[n].from + copied[n].size <= length
             /\ copied[n].size <= tensors["inputs"][n].room
  <2>1. /\ copied \in Seq([from : Nat, size : Nat]) /\ expected \in Seq(Nat)
        /\ pc \in Places
    BY <1>1 DEF Inv, TypeOK
  <2>2. copied # <<>> /\ Len(copied) \in Nat
    BY <1>1, <2>1, EmptySeq
  <2>3. pc \notin {"idle", "graph"}
    BY <1>1 DEF Inv, BuiltInv, NoTensors, Sides
  <2>4. pc \in {"write", "free"} /\ pc \in Busy
    BY <1>1, <2>1, <2>2, <2>3 DEF Inv, SpreadInv, Places, Busy
  <2>5. "inputs" \in Sides
    BY DEF Sides
  <2>6. Cnt("inputs") \in Nat
    BY <1>1, <2>4, <2>5, Typed
  <2>7. /\ n \in 1 .. Len(expected) /\ Len(expected) \in 1 .. Len(expected)
        /\ Len(expected) = Cnt("inputs") /\ expected[Len(expected)] = length
        /\ copied[n].size = get_tensor_size(Src("inputs")[n])
        /\ copied[n].from + copied[n].size = expected[n]
    BY <1>1, <2>2, <2>4, <2>6 DEF Inv, SpreadInv
  <2>8. expected[n] <= length
    BY <1>1, <2>6, <2>7 DEF Inv, SpreadInv
  <2>9. tensors["inputs"][n].room = get_tensor_size(Src("inputs")[n])
    BY <1>1, <2>2, <2>4, <2>7 DEF Inv, BuiltInv, Filled
  <2>10. get_tensor_size(Src("inputs")[n]) \in Int
    BY <1>1, <2>4, <2>5, <2>7, Typed, BoundsAssumption
  <2> QED
    BY <2>7, <2>8, <2>9, <2>10
<1>2. Inv => CopyInBounds
  BY <1>1 DEF CopyInBounds
<1> QED
  BY <1>2, InvCorrect, PTL

\* A graph that executes has read the caller's input from end to end, tensor
\* after tensor, whatever the number and the sizes of its inputs.
THEOREM InputTiledCorrect == Spec => []InputTiled
<1>1. ASSUME Inv, Written
      PROVE  /\ Len(copied) = Cnt("inputs")
             /\ copied[1].from = 0
             /\ \A n \in 1 .. Len(copied) - 1 :
                    copied[n + 1].from = copied[n].from + copied[n].size
             /\ Last(copied).from + Last(copied).size = length
  <2>1. pc \in Busy /\ "inputs" \in Sides /\ pc = "write" /\ k > Cnt("inputs")
    BY <1>1 DEF Written, Busy, Sides
  <2>2. Cnt("inputs") \in Nat /\ k \in Nat
    BY <1>1, <2>1, Typed
  <2>3. /\ Len(expected) = Cnt("inputs") /\ total_expected_size = length /\ length # 0
        /\ Len(copied) = k - 1 /\ k - 1 <= Cnt("inputs")
    BY <1>1, <2>1 DEF Inv, SpreadInv
  <2>4. Len(copied) = Cnt("inputs")
    BY <2>1, <2>2, <2>3
  <2>5. expected # <<>>
    BY <2>3 DEF total_expected_size
  <2>6. Cnt("inputs") # 0
    BY <1>1, <2>3, <2>5, EmptySeq DEF Inv, TypeOK
  <2>7. copied # <<>>
    BY <2>4, <2>6, EmptySeq
  <2>8. \A n \in 1 .. Len(copied) :
            copied[n].from + copied[n].size = expected[n] /\ copied[n].from = Before(n)
    BY <1>1, <2>1, <2>7 DEF Inv, SpreadInv
  <2>9. expected[Len(expected)] = length
    BY <2>3, <2>5 DEF total_expected_size, Last
  <2>10. \A n \in 1 .. Len(copied) - 1 :
            /\ n \in 1 .. Len(copied) /\ n + 1 \in 1 .. Len(copied)
            /\ Before(n + 1) = expected[n]
    BY <2>2, <2>4 DEF Before
  <2>11. 1 \in 1 .. Len(copied) /\ Before(1) = 0 /\ Len(copied) \in 1 .. Len(copied)
    BY <2>2, <2>4, <2>6 DEF Before
  <2> QED
    BY <2>3, <2>4, <2>8, <2>9, <2>10, <2>11 DEF Last
<1>2. Inv => InputTiled
  BY <1>1 DEF InputTiled
<1> QED
  BY <1>2, InvCorrect, PTL

\* Where a graph is about to execute, its outputs are built like its inputs, and
\* the inputs written so far are of types that have a name outside.
WholeInv ==
    /\ pc \in {"measure", "write"} =>
           /\ tensors["outputs"] \in Built("outputs")
           /\ \A n \in 1 .. Cnt("outputs") : Filled("outputs", n)
    /\ pc = "write" =>
           \A n \in 1 .. Cnt("inputs") : n < k => Supported(Src("inputs")[n].type)

\* SetupDone leaves the outputs complete; nothing touches them until they execute.
LEMMA WholeNext == ASSUME Inv, WholeInv, [Next]_vars PROVE WholeInv'
<1>1. CASE UNCHANGED <<graphs, i, tensors, pc, k>>
  BY <1>1 DEF WholeInv, Built, Cnt, Src, Filled
<1>2. CASE pc' \notin {"measure", "write"}
  BY <1>2 DEF WholeInv
<1>3. CASE SetupDone
  <2> SUFFICES ASSUME pc' \in {"measure", "write"} PROVE WholeInv'
    BY <1>2
  <2>1. /\ pc = "copy" /\ k > Cnt(side) /\ side = "outputs" /\ pc' = "measure"
        /\ UNCHANGED <<graphs, i, tensors>>
    BY <1>3 DEF SetupDone, At, Goto, request, Inv, TypeOK, Sides
  <2>2. "outputs" \in Sides /\ pc \in Busy
    BY <2>1 DEF Sides, Busy
  <2>3. Cnt("outputs") \in Nat /\ k \in Nat
    BY <2>2, Typed
  <2>4. /\ tensors["outputs"] \in Built("outputs")
        /\ \A n \in 1 .. Cnt("outputs") : n < k => Filled("outputs", n)
    BY <2>1 DEF Inv, BuiltInv
  <2>5. \A n \in 1 .. Cnt("outputs") : Filled("outputs", n)
    BY <2>1, <2>3, <2>4
  <2> QED
    BY <2>1, <2>4, <2>5 DEF WholeInv, Built, Cnt, Src, Filled
<1>4. CASE Measure
  <2>1. pc = "measure" /\ pc' = "measure" /\ UNCHANGED <<graphs, i, tensors>>
    BY <1>4 DEF Measure, At, Goto, request
  <2> QED
    BY <2>1 DEF WholeInv, Built, Cnt, Src, Filled
<1>5. CASE CheckLength
  <2> SUFFICES ASSUME pc' \in {"measure", "write"} PROVE WholeInv'
    BY <1>2
  <2>1. /\ pc = "measure" /\ pc' = "write" /\ k' = 1
        /\ UNCHANGED <<graphs, i, tensors>>
    BY <1>5 DEF CheckLength, At, Goto, Fail, request
  <2>2. \A n \in 1 .. Cnt("inputs")' : ~(n < k')
    BY <2>1
  <2> QED
    BY <2>1, <2>2 DEF WholeInv, Built, Cnt, Src, Filled
<1>6. CASE WriteInput
  <2>1. /\ pc = "write" /\ pc' = "write" /\ k' = k + 1
        /\ k <= Cnt("inputs") /\ Supported(Src("inputs")[k].type)
        /\ UNCHANGED <<graphs, i, tensors>>
    BY <1>6 DEF WriteInput, At, Goto, request
  <2>2. k \in Nat
    BY DEF Inv, TypeOK
  <2>3. \A n \in 1 .. Cnt("inputs") : n < k + 1 => Supported(Src("inputs")[n].type)
    <3>1. \A n \in 1 .. Cnt("inputs") : n < k + 1 => n < k \/ n = k
      BY <2>2
    <3> QED
      BY <2>1, <3>1 DEF WholeInv
  <2> QED
    BY <2>1, <2>3 DEF WholeInv, Built, Cnt, Src, Filled
<1>7. CASE \/ \E len \in InputLengths : Call(len)
           \/ Collect \/ NextGraph \/ SetupNothing \/ SetupArrayFails \/ SetupArray
           \/ CopyTensor \/ CopyTensorFails \/ WriteInputFails
           \/ Execute \/ ExecuteFails \/ FreeTensors
  BY <1>2, <1>7 DEF Call, Collect, NextGraph, SetupNothing, SetupArrayFails,
     SetupArray, CopyTensor, CopyTensorFails, WriteInputFails, Execute, ExecuteFails,
     FreeTensors, At, Goto, Fail
<1>8. CASE UNCHANGED vars
  BY <1>1, <1>8 DEF vars, request
<1> QED
  BY <1>3, <1>4, <1>5, <1>6, <1>7, <1>8 DEF Next

\* The buffer of every tensor of a graph that executes is as large as the tensor,
\* unless the tensor takes more bytes than the counter holds, whatever its rank and
\* dimensions (get_tensor_size): the 32-bit counting is exact where it can be.
THEOREM BuffersWholeCorrect == Spec => []BuffersWhole
<1>1. Init => WholeInv
  BY DEF Init, WholeInv
<1>2. Inv /\ WholeInv /\ [Next]_vars => WholeInv'
  BY WholeNext
<1>3. ASSUME Inv, WholeInv, Written, NEW s \in Sides, NEW n \in 1 .. Cnt(s)
      PROVE  LET t == Src(s)[n] IN
                 /\ s = "inputs" => Supported(t.type)
                 /\ Supported(t.type) /\ Bytes(t) < Word => tensors[s][n].room = Bytes(t)
  <2>1. pc = "write" /\ pc \in Busy /\ k > Cnt("inputs") /\ "inputs" \in Sides
    BY <1>3 DEF Written, Busy, Sides
  <2>2. Cnt("inputs") \in Nat /\ k \in Nat /\ Cnt(s) \in Nat
    BY <1>3, <2>1, Typed
  <2>3. s = "inputs" => Supported(Src(s)[n].type)
    <3>1. s = "inputs" => n < k
      BY <2>1, <2>2
    <3> QED
      BY <1>3, <2>1, <3>1 DEF WholeInv
  <2>4. tensors[s][n].room = get_tensor_size(Src(s)[n])
    BY <1>3, <2>1 DEF Inv, BuiltInv, WholeInv, Sides, Filled
  <2>5. IsTensor(Src(s)[n])
    <3>1. i \in 1 .. Len(graphs) /\ graphs \in Models
      BY <1>3, <2>1 DEF Inv, BuiltInv, TypeOK
    <3> QED
      BY <3>1, SourceTensors
  <2> QED
    BY <2>3, <2>4, <2>5, SizeIsBytes
<1>4. Inv /\ WholeInv => BuffersWhole
  BY <1>3 DEF BuffersWhole
<1> QED
  BY <1>1, <1>2, <1>4, InvCorrect, PTL DEF Spec

\* However far the tensors of a graph were built and wherever the call gave up,
\* no memory of theirs is left behind.
THEOREM NoLeakCorrect == Spec => []NoLeak
<1>1. Inv => NoLeak
  BY DEF Inv, BuiltInv, NoLeak
<1> QED
  BY <1>1, InvCorrect, PTL

\* The results are never a mixture: they are the outputs of one graph in one
\* call, of the last graph of this call after SUCCESS.
THEOREM ResultOriginCorrect == Spec => []ResultOrigin
<1>1. Inv => ResultOrigin
  BY DEF Inv, OriginInv, ResultOrigin, From
<1> QED
  BY <1>1, InvCorrect, PTL

-----------------------------------------------------------------------------
(* inference_execute keeps the contract of the interface.                  *)

\* What the steps inside a call do is not seen, but for the results.
LEMMA HiddenStep ==
    ASSUME pc # "idle", pc' # "idle", UNCHANGED <<graphs, calls, output_tensor_>>
    PROVE  UNCHANGED Engine!evars
BY DEF Engine!evars, Held, Answered

\* All or none of a graph's outputs, with the number of the call.
LEMMA ProducesResults ==
    ASSUME Inv, Execute PROVE Engine!Produce
<1>1. /\ pc = "write" /\ pc' = "free" /\ output_tensor_' = read_output_tensors
      /\ UNCHANGED <<graphs, calls>>
  BY DEF Execute, Written, Goto, request
<1>2. Held' \in {Null} \cup [call : {calls}, whole : BOOLEAN]
  <2>1. CASE output_tensor_' = <<>>
    BY <2>1 DEF Held
  <2>2. CASE output_tensor_' # <<>>
    <3>1. output_tensor_'[1].call = calls
      BY <2>2, <1>1, ReadResults
    <3> QED
      BY <2>2, <3>1 DEF Held
  <2> QED
    BY <2>1, <2>2
<1> QED
  BY <1>1, <1>2 DEF Engine!Produce, Answered

\* SUCCESS comes after the last graph, with that graph's outputs or none.
LEMMA ReturnsResults ==
    ASSUME Inv, NextGraph PROVE Engine!Return \/ UNCHANGED Engine!evars
<1>1. /\ pc = "graph" /\ UNCHANGED <<graphs, calls, output_tensor_>>
      /\ \/ pc' = "setup"
         \/ ~(i <= Len(graphs)) /\ pc' = "idle" /\ returned' = "SUCCESS"
  BY DEF NextGraph, At, Goto, request
<1>2. CASE pc' = "setup"
  BY <1>1, <1>2, HiddenStep
<1>3. CASE ~(i <= Len(graphs)) /\ pc' = "idle" /\ returned' = "SUCCESS"
  <2>1. Held' = Held
    BY <1>1 DEF Held
  <2>2. Held \in {Null, [call |-> calls, whole |-> TRUE]}
    <3> SUFFICES ASSUME output_tensor_ # <<>>
                 PROVE  Held = [call |-> calls, whole |-> TRUE]
      BY DEF Held
    <3> DEFINE c == output_tensor_[1].call
               g == output_tensor_[1].graph
    <3>1. /\ From(c, g) /\ g \in 1 .. Len(graphs)
          /\ IF i = 1 THEN c < calls ELSE c = calls /\ g = i - 1
      BY <1>1 DEF Inv, OriginInv
    <3>2. i # 1
      <4>1. Len(graphs) \in Nat
        <5>1. graphs \in Seq(Range(graphs))
          BY ModelsAssumption DEF Inv, TypeOK
        <5> QED
          BY <5>1, LenProperties
      <4> QED
        BY <4>1, <1>3, <3>1
    <3>3. c = calls /\ Len(output_tensor_) = Len(graphs[g].outputs)
      BY <3>1, <3>2 DEF From
    <3> QED
      BY <3>3 DEF Held
  <2> QED
    BY <1>1, <1>3, <2>1, <2>2 DEF Engine!Return, Answered
<1> QED
  BY <1>1, <1>2, <1>3

\* Every step is a step of the interface, or unseen by it.
LEMMA EngineStep ==
    ASSUME Inv, [Next]_vars PROVE [Engine!ENext]_Engine!evars
<1> USE DEF Engine!ENext
<1>1. ASSUME NEW len \in InputLengths, Call(len)
      PROVE  Engine!Start \/ Engine!Refuse
  <2>1. /\ pc = "idle" /\ calls' = calls + 1 /\ UNCHANGED <<graphs, output_tensor_>>
        /\ \/ pc' = "idle" /\ returned' = "FAILURE"
           \/ pc' = "graph"
    BY <1>1 DEF Call, Goto
  <2>2. Held' = Held
    BY <2>1 DEF Held
  <2> QED
    BY <2>1, <2>2 DEF Engine!Start, Engine!Refuse, Answered
<1>2. CASE Collect
  <2>1. /\ pc = "idle" /\ pc' = "idle" /\ output_tensor_' = <<>>
        /\ UNCHANGED <<calls, returned>>
    BY <1>2 DEF Collect, At, Goto, request
  <2> QED
    BY <2>1 DEF Engine!Collect, Held, Answered
<1>3. CASE NextGraph
  BY <1>3, ReturnsResults
<1>4. CASE Execute
  BY <1>4, ProducesResults
<1>5. CASE FreeTensors
  <2>1. /\ pc = "free" /\ UNCHANGED <<graphs, calls, output_tensor_>>
        /\ \/ returned = "FAILURE" /\ returned' = returned /\ pc' = "idle"
           \/ pc' = "graph"
    BY <1>5 DEF FreeTensors, At, Goto, request, results
  <2>2. CASE pc' = "graph"
    BY <2>1, <2>2, HiddenStep
  <2>3. CASE pc' = "idle"
    <3>1. Held' = Held
      BY <2>1 DEF Held
    <3> QED
      BY <2>1, <2>3, <3>1 DEF Engine!Return, Answered
  <2> QED
    BY <2>1, <2>2, <2>3
<1>6. CASE \/ SetupNothing \/ SetupArrayFails \/ SetupArray
          \/ CopyTensor \/ CopyTensorFails \/ SetupDone
          \/ Measure \/ CheckLength \/ WriteInput \/ WriteInputFails \/ ExecuteFails
  <2>1. pc # "idle" /\ pc' # "idle" /\ UNCHANGED <<graphs, calls, output_tensor_>>
    BY <1>6 DEF SetupNothing, SetupArrayFails, SetupArray, CopyTensor, CopyTensorFails,
                SetupDone, Measure, CheckLength, WriteInput, WriteInputFails, ExecuteFails,
                Written, Fail, At, Goto, request, results
  <2> QED
    BY <2>1, HiddenStep
<1>7. CASE UNCHANGED vars
  BY <1>7 DEF vars, request, results, Engine!evars, Held, Answered
<1> QED
  BY <1>1, <1>2, <1>3, <1>4, <1>5, <1>6, <1>7 DEF Next

\* For every model and every input, whoever is answered SUCCESS holds the
\* results of that call, all outputs of its last graph, or none: what the
\* interface promises.
THEOREM ImplementsEngineCorrect == Spec => ImplementsEngine
<1>1. Init => Engine!EInit
  <2> SUFFICES ASSUME Init PROVE Engine!EInit
    OBVIOUS
  <2>1. calls = 0 /\ pc = "idle" /\ returned = "nothing" /\ output_tensor_ = <<>>
    BY DEF Init
  <2>2. Held = Null /\ Answered = "nothing" /\ (pc # "idle") = FALSE
    BY <2>1 DEF Held, Answered
  <2> QED
    BY <2>1, <2>2 DEF Engine!EInit
<1>2. Inv /\ [Next]_vars => [Engine!ENext]_Engine!evars
  BY EngineStep
<1> QED
  BY <1>1, <1>2, InvCorrect, PTL DEF Spec, ImplementsEngine, Engine!EngineSpec
=============================================================================
