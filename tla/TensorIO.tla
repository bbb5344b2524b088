------------------------------ MODULE TensorIO ------------------------------
(***************************************************************************)
(* The copying execution of a Qnn engine: inference_execute builds, for    *)
(* every graph of the model, a QnnTensor with descriptions and buffers     *)
(* copied from the graph's own, spreads the bytes of the input over the    *)
(* input tensors, executes the graph and copies the outputs out            *)
(* (qnn_inference.cpp:98-145, qnn_inference_impl.cpp:149-549).             *)
(*                                                                         *)
(* One thread calls; the difficulty is in the sizes, which are 32 bits     *)
(* wide, and in the many exits, at each of which the QnnTensor is freed    *)
(* however far it was built.  Bytes are counted, their values left out.    *)
(***************************************************************************)
EXTENDS Integers, Sequences, SequencesExt

CONSTANTS
    Models,         \* the models: sequences of graphs, see IsGraph
    InputLengths,   \* the sizes of input a caller may pass
    Word,           \* the number of values of a uint32_t
    MaxCalls,       \* bound on the calls of inference_execute
    Null            \* nullptr

\* Tensor types: those the engine knows in full, BOOL_8, which has a size but
\* no name outside, and one (SFIXED_POINT_16) that only its default cases see.
DataTypes == {"U8", "U16", "F32", "F64", "BOOL_8", "SFIXED_16"}

IsTensor(t) ==
    /\ t.type \in DataTypes
    /\ t.dims \in Seq(Nat)          \* <<>>: rank 0 or no dimensions
    /\ {t.named, t.axis} \subseteq BOOLEAN  \* has a name; per-axis scales
IsGraph(g) ==
    \A side \in {"inputs", "outputs"} :
        g[side] \in Seq(Range(g[side])) /\ \A t \in Range(g[side]) : IsTensor(t)

ASSUME BoundsAssumption ==
    /\ Word \in Nat \ {0} /\ MaxCalls \in Nat /\ InputLengths \subseteq Nat
ASSUME ModelsAssumption ==
    \A m \in Models : m \in Seq(Range(m)) /\ \A g \in Range(m) : IsGraph(g)

\* Sixteen-bit types left to the default case.
WidthWithout16(type) ==
    CASE type = "F64" -> 8 [] type = "F32" -> 4 [] OTHER -> 1

Width(type) ==
    CASE type = "F64" -> 8 [] type = "F32" -> 4 [] type = "U16" -> 2 [] OTHER -> 1

\* std::accumulate with an int: every partial product is cut to 32 bits.
PartialCounts(dims) ==
    LET cnt[n \in 0 .. Len(dims)] ==
            IF n = 0 THEN 1 ELSE (cnt[n - 1] * dims[n]) % Word
    IN  cnt
element_cnt(dims) == PartialCounts(dims)[Len(dims)]

get_tensor_size(t) == (Width(t.type) * element_cnt(t.dims)) % Word

\* qnn_dtype_to_qrb_dtype is not -1.
Supported(type) == type \notin {"BOOL_8", "SFIXED_16"}

VARIABLES
    graphs,         \* graphs_info_
    calls,          \* the calls so far
    length,         \* input_tensor_data.size()
    i,              \* the graph being executed
    side, k,        \* the tensor the loop at pc is at
    tensors,        \* inputs_ and outputs_ of the QnnTensor: Null, or for each
                    \* tensor the pieces of memory it owns and its buffer's size
    expected,       \* total_expected_size after each tensor
    copied,         \* history: where each input tensor's bytes came from
    output_tensor_, \* each tensor with the call and the graph it came from
    leaked,         \* history: memory that nothing refers to any more
    returned,       \* history: what the last call returned
    pc

request == <<graphs, calls, length>>
transfer == <<expected, copied>>
results == <<output_tensor_, returned>>
vars == <<request, i, side, k, tensors, transfer, results, leaked, pc>>

Sides == {"inputs", "outputs"}
Memory == {"name", "scaleOffset", "dimensions", "data"}
Entry == [owns : SUBSET Memory, room : Nat]
Output == [call : 1 .. MaxCalls, graph : Nat, tensor : Nat, size : Nat]
Places == {"idle", "graph", "setup", "copy", "measure", "write", "free",
           "crashed"}

\* Source of the tensors of a side, and their number.
Src(s) == graphs[i][s]
Cnt(s) == Len(Src(s))
data_offset == IF copied = <<>> THEN 0
               ELSE Last(copied).from + Last(copied).size
total_expected_size == IF expected = <<>> THEN 0 ELSE Last(expected)

NoTensors == [s \in Sides |-> Null]

Init ==
    /\ graphs \in Models
    /\ calls = 0 /\ length = 0 /\ i = 1 /\ side = "inputs" /\ k = 1
    /\ tensors = NoTensors /\ expected = <<>> /\ copied = <<>>
    /\ output_tensor_ = <<>> /\ leaked = {} /\ returned = "nothing"
    /\ pc = "idle"

At(place) == pc = place /\ UNCHANGED request
Goto(place) == pc' = place

\* return FAILURE: the QnnTensor of the graph is destroyed on the way out.
Fail ==
    /\ returned' = "FAILURE" /\ Goto("free")
    /\ UNCHANGED <<i, side, transfer, output_tensor_, leaked>>

Call(len) ==
    /\ pc = "idle" /\ calls < MaxCalls /\ calls' = calls + 1
    /\ length' = len /\ i' = 1
    /\ IF len = 0 THEN Goto("idle") /\ returned' = "FAILURE"
                  ELSE Goto("graph") /\ returned' = "nothing"
    /\ UNCHANGED <<graphs, side, k, tensors, transfer, output_tensor_, leaked>>

\* The caller collects the results: get_output_tensors moves them out.
Collect ==
    /\ At("idle") /\ Goto("idle") /\ output_tensor_' = <<>>
    /\ UNCHANGED <<i, side, k, tensors, transfer, returned, leaked>>

NextGraph ==
    /\ At("graph")
    /\ IF i <= Len(graphs)
       THEN Goto("setup") /\ UNCHANGED returned
       ELSE Goto("idle") /\ returned' = "SUCCESS"
    /\ side' = "inputs" /\ k' = 1 /\ expected' = <<>> /\ copied' = <<>>
    /\ UNCHANGED <<i, tensors, output_tensor_, leaked>>

-----------------------------------------------------------------------------
(* setup_tensors, for the inputs and then for the outputs.                 *)

\* The version of the first source tensor is read before anyone asks whether
\* there is one.
SetupNothing ==
    /\ At("setup") /\ Cnt(side) = 0
    /\ \/ Fail
       \/ Goto("crashed")
          /\ UNCHANGED <<i, side, transfer, results, leaked>>
    /\ UNCHANGED <<k, tensors>>

SetupArrayFails == At("setup") /\ Fail /\ UNCHANGED <<k, tensors>>

SetupArray ==
    /\ At("setup") /\ Cnt(side) > 0 /\ Goto("copy") /\ k' = 1
    /\ tensors' = [tensors EXCEPT ![side] =
                       [n \in 1 .. Cnt(side) |-> [owns |-> {}, room |-> 0]]]
    /\ UNCHANGED <<i, side, transfer, results, leaked>>

\* What tensor_info_deep_copy may have allocated for the scales: their
\* allocation is allowed to fail.
Scales(t) == {{}} \cup IF t.axis THEN {{"scaleOffset"}} ELSE {}

\* All buffers get the size of the first tensor.
CopyTensorFirstSize ==
    /\ At("copy") /\ k <= Cnt(side)
    /\ Src(side)[k].dims # <<>> /\ Src(side)[k].named
    /\ \E scales \in Scales(Src(side)[k]) :
           tensors' = [tensors EXCEPT ![side][k] =
               [owns |-> {"name", "dimensions", "data"} \cup scales,
                room |-> get_tensor_size(Src(side)[1])]]
    /\ k' = k + 1 /\ Goto("copy")
    /\ UNCHANGED <<i, side, transfer, results, leaked>>

CopyTensor ==
    /\ At("copy") /\ k <= Cnt(side)
    /\ LET t == Src(side)[k] IN
           /\ t.dims # <<>> /\ t.named
           /\ \E scales \in Scales(t) :
                  tensors' = [tensors EXCEPT ![side][k] =
                      [owns |-> {"name", "dimensions", "data"} \cup scales,
                       room |-> get_tensor_size(t)]]
    /\ k' = k + 1 /\ Goto("copy")
    /\ UNCHANGED <<i, side, transfer, results, leaked>>

\* What a tensor may have got before it has no shape, no name, or no memory for
\* the name, the dimensions or the data.
Allocated(t) ==
    {{}} \cup IF t.dims # <<>> /\ t.named
             THEN {p \cup x : p \in {{"name"}, {"name", "dimensions"}}, x \in Scales(t)}
             ELSE {}

CopyTensorFails ==
    /\ At("copy") /\ k <= Cnt(side)
    /\ \E got \in Allocated(Src(side)[k]) :
           tensors' = [tensors EXCEPT ![side][k].owns = got]
    /\ Fail /\ UNCHANGED k

SetupDone ==
    /\ At("copy") /\ k > Cnt(side) /\ k' = 1
    /\ IF side = "inputs" THEN side' = "outputs" /\ Goto("setup")
                          ELSE side' = "inputs" /\ Goto("measure")
    /\ UNCHANGED <<i, tensors, transfer, results, leaked>>

-----------------------------------------------------------------------------
(* write_input_tensors.                                                    *)

Measure ==
    /\ At("measure") /\ k <= Cnt("inputs") /\ k' = k + 1 /\ Goto("measure")
    /\ expected' = Append(expected, total_expected_size
                                        + get_tensor_size(Src("inputs")[k]))
    /\ UNCHANGED <<i, side, tensors, copied, results, leaked>>

\* A longer input is accepted.
CheckLengthAtLeast ==
    /\ At("measure") /\ k > Cnt("inputs") /\ k' = 1
    /\ IF total_expected_size <= length
       THEN Goto("write") /\ UNCHANGED <<i, side, transfer, results, leaked>>
       ELSE Fail
    /\ UNCHANGED tensors

CheckLength ==
    /\ At("measure") /\ k > Cnt("inputs") /\ k' = 1
    /\ IF total_expected_size = length
       THEN Goto("write") /\ UNCHANGED <<i, side, transfer, results, leaked>>
       ELSE Fail
    /\ UNCHANGED tensors

WriteInput ==
    /\ At("write") /\ k <= Cnt("inputs") /\ Supported(Src("inputs")[k].type)
    /\ copied' = Append(copied, [from |-> data_offset,
                                 size |-> get_tensor_size(Src("inputs")[k])])
    /\ k' = k + 1 /\ Goto("write")
    /\ UNCHANGED <<i, side, tensors, expected, results, leaked>>

WriteInputFails ==
    /\ At("write") /\ k <= Cnt("inputs") /\ ~Supported(Src("inputs")[k].type)
    /\ Fail /\ UNCHANGED <<k, tensors>>

-----------------------------------------------------------------------------
\* The outputs before the first unsupported one.
read_output_tensors_Partly ==
    SelectSeq([n \in 1 .. Cnt("outputs") |->
                  [call |-> calls, graph |-> i, tensor |-> n,
                   size |-> get_tensor_size(Src("outputs")[n])]],
              LAMBDA o : Supported(Src("outputs")[o.tensor].type))

\* read_output_tensors: all of them or, if one has a type without a name
\* outside, none; the call goes on either way.
read_output_tensors ==
    IF \A n \in 1 .. Cnt("outputs") : Supported(Src("outputs")[n].type)
    THEN [n \in 1 .. Cnt("outputs") |->
             [call |-> calls, graph |-> i, tensor |-> n,
              size |-> get_tensor_size(Src("outputs")[n])]]
    ELSE <<>>

\* Every input tensor has its bytes: graphExecute is called.
Written == pc = "write" /\ k > Cnt("inputs")

Execute ==
    /\ Written /\ UNCHANGED request /\ Goto("free")
    /\ output_tensor_' = read_output_tensors
    /\ UNCHANGED <<i, side, k, tensors, transfer, leaked, returned>>

\* The failure is logged, like that of reading the outputs.
ExecuteFailsLogged ==
    /\ Written /\ UNCHANGED request /\ Goto("free")
    /\ UNCHANGED <<i, side, k, tensors, transfer, results, leaked>>

ExecuteFails == Written /\ Fail /\ UNCHANGED <<request, k, tensors>>

FreedMemoryButScales == {"dimensions", "name", "data"}

\* ~QnnTensor frees what each tensor owns, then the array.
FreedMemory == {"dimensions", "name", "data", "scaleOffset"}
FreeTensors ==
    /\ At("free") /\ tensors' = NoTensors
    /\ leaked' = leaked \cup
           UNION {(UNION {tensors[s][n].owns : n \in 1 .. Cnt(s)}) \ FreedMemory :
                      s \in {s \in Sides : tensors[s] # Null}}
    /\ IF returned = "FAILURE" THEN Goto("idle") /\ UNCHANGED i
                               ELSE Goto("graph") /\ i' = i + 1
    /\ UNCHANGED <<side, k, transfer, results>>

Next ==
    \/ \E len \in InputLengths : Call(len)
    \/ Collect \/ NextGraph
    \/ SetupNothing \/ SetupArrayFails \/ SetupArray
    \/ CopyTensor \/ CopyTensorFails \/ SetupDone
    \/ Measure \/ CheckLength \/ WriteInput \/ WriteInputFails
    \/ Execute \/ ExecuteFails \/ FreeTensors

Spec == Init /\ [][Next]_vars

-----------------------------------------------------------------------------
TypeOK ==
    /\ graphs \in Models /\ calls \in 0 .. MaxCalls /\ length \in Nat
    /\ i \in 1 .. Len(graphs) + 1 /\ side \in Sides /\ k \in Nat \ {0}
    /\ tensors \in [Sides -> {Null} \cup Seq([owns : SUBSET Memory,
                                              room : 0 .. Word - 1])]
    /\ expected \in Seq(Nat) /\ copied \in Seq([from : Nat, size : Nat])
    /\ output_tensor_ \in Seq(Output) /\ leaked \subseteq Memory
    /\ returned \in {"nothing", "SUCCESS", "FAILURE"} /\ pc \in Places

\* What a tensor takes: the product of its dimensions, times what the name of
\* its type says.
Bits == [U8 |-> 8, U16 |-> 16, F32 |-> 32, F64 |-> 64, BOOL_8 |-> 8, SFIXED_16 |-> 16]
Products(dims) ==
    LET p[n \in 0 .. Len(dims)] == IF n = 0 THEN 1 ELSE p[n - 1] * dims[n] IN p
Bytes(t) == (Bits[t.type] \div 8) * Products(t.dims)[Len(t.dims)]

\* No memcpy of write_input_tensors (impl.cpp:250) reads past the end of the
\* input or writes past the end of the tensor's buffer, which was allocated
\* in another loop from the source's dimensions.
CopyInBounds ==
    tensors["inputs"] # Null =>
        \A n \in 1 .. Len(copied) :
            /\ copied[n].from + copied[n].size <= length
            /\ copied[n].size <= tensors["inputs"][n].room

\* When a graph executes, its tensors hold the caller's input from the first
\* byte to the last, each the part that follows the one before, with no gap
\* and no overlap (impl.cpp:213-258).
InputTiled ==
    Written =>
        /\ Len(copied) = Cnt("inputs")
        /\ copied[1].from = 0
        /\ \A n \in 1 .. Len(copied) - 1 :
               copied[n + 1].from = copied[n].from + copied[n].size
        /\ Last(copied).from + Last(copied).size = length

\* When a graph executes, the buffer of every tensor whose type the engine
\* knows is as large as the tensor, unless the tensor takes more bytes than a
\* uint32_t counts (impl.cpp:471-500), and every input is of such a type.
BuffersWhole ==
    Written =>
        \A s \in Sides : \A n \in 1 .. Cnt(s) :
            LET t == Src(s)[n] IN
                /\ s = "inputs" => Supported(t.type)
                /\ Supported(t.type) /\ Bytes(t) < Word =>
                       tensors[s][n].room = Bytes(t)

\* However far a QnnTensor was built when the call gave up, all its memory
\* is freed before inference_execute returns (impl.cpp:330-361).
NoLeak == leaked = {} /\ (pc = "idle" => tensors = NoTensors)

\* The results are all outputs of one execution of one graph, or nothing:
\* never a part, never a mixture.  After a call that succeeded they come from
\* its last graph; what a failed call leaves of its own is of an earlier one.
ResultOrigin ==
    output_tensor_ # <<>> =>
        LET c == output_tensor_[1].call
            g == output_tensor_[1].graph
        IN  /\ Len(output_tensor_) = Len(graphs[g].outputs)
            /\ \A n \in 1 .. Len(output_tensor_) :
                   /\ output_tensor_[n].call = c /\ output_tensor_[n].graph = g
                   /\ output_tensor_[n].tensor = n
            /\ pc = "idle" /\ returned = "SUCCESS" =>
                   c = calls /\ g = Len(graphs)
            /\ pc = "idle" /\ returned = "FAILURE" /\ c = calls =>
                   g < Len(graphs)

\* inference_execute and get_output_tensors keep the promise of the interface
\* QrbInference: after SUCCESS the results are all those of one graph of this
\* call, or none.
Held ==
    IF output_tensor_ = <<>> THEN Null
    ELSE [call |-> output_tensor_[1].call,
          whole |-> Len(output_tensor_) = Len(graphs[output_tensor_[1].graph].outputs)]
Answered == IF pc = "idle" THEN returned ELSE "nothing"
Engine == INSTANCE InferenceEngine WITH
    Nothing <- Null, running <- pc # "idle", held <- Held, answer <- Answered
ImplementsEngine == Engine!EngineSpec
=============================================================================
