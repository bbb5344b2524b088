---------------------------- MODULE QnnLifecycle ----------------------------
(***************************************************************************)
(* The life of a Qnn engine: QrbInferenceManager's constructor builds a    *)
(* QnnInference, initialises it and its graphs step by step, each of which *)
(* may fail; a failure makes the constructor throw std::logic_error, which *)
(* destroys the half-built engine; ~QnnInference frees what is there       *)
(* (qrb_inference_manager.cpp:19-43, qnn_inference.cpp:9-96 and 342-802,   *)
(* qnn_inference_impl.cpp:9-147).                                          *)
(*                                                                         *)
(* There is one thread; the difficulty is the many exits.  A resource is   *)
(* live from the library call that creates it to the one that frees it,    *)
(* and each member variable keeps the name it has in the code.             *)
(***************************************************************************)
EXTENDS Integers

CONSTANTS
    BinGraphs,  \* the numbers of graphs a context binary (.bin) may hold
    SoGraphs,   \* the numbers of graphs a model library (.so) may compose
    Faults,     \* the library calls that may fail
    Null        \* nullptr

Libs == {"backendLib", "sysLib", "modelLib"}
DeviceResources == {"backend", "device", "context", "power"}
Resources == Libs \cup DeviceResources \cup {"sysContext"}
FaultKinds ==
    {"backendLib", "sysLib", "modelLib", "providers", "backendCreate",
     "deviceCreate", "read", "info", "alloc", "copy", "contextCreate",
     "retrieve", "perf", "compose", "finalize", "free"}

ASSUME CountsAssumption ==
    BinGraphs \subseteq Nat \ {0} /\ SoGraphs \subseteq Nat \ {0}
ASSUME FaultAssumption == Faults \subseteq FaultKinds
ASSUME NullAssumption == Null \notin Resources

VARIABLES
    kind, numGraphs,    \* the model: "bin" or "so", and its graphs
    live,       \* the resources that exist
    deps,       \* history: what each resource was created on top of
    failures,   \* history: the library calls that failed
    self,       \* the handles and flags of QnnInference
    cells,      \* graphs_info_: Null, or for each graph the graph whose
                \* description its cell holds (0: the cell is nullptr)
    handles,    \* the graphs whose handle has been retrieved or finalised
    i,          \* loop variable
    pc

libraries == <<live, deps>>
graphs == <<cells, handles, i>>
engine == <<libraries, self, graphs>>
model == <<kind, numGraphs>>
vars == <<model, engine, failures, pc>>

Graphs == 1 .. numGraphs
Building ==
    {"openBackend", "backendProviders", "openSys", "sysProviders", "openModel",
     "createBackend", "retryBackend", "createDevice", "readModel",
     "binaryInfo", "copyStart", "copy", "copied", "createFromBinary",
     "retrieve", "perf", "createContext", "compose", "finalize"}
Destroying ==
    {"freeGraphs", "freeContext", "freePower", "freeDevice", "freeBackend",
     "closeLibs"}

TypeOK ==
    /\ kind \in {"bin", "so"} /\ numGraphs \in BinGraphs \cup SoGraphs
    /\ live \subseteq Resources
    /\ deps \in [Resources -> SUBSET Resources] /\ failures \subseteq Faults
    /\ self \in [backend_lib_handle : {Null, "backendLib"},
                 sys_lib_handle_ : {Null, "sysLib"},
                 model_handle_ : {Null, "modelLib"},
                 backend_handle_ : {Null, "backendLib", "backend"},
                 device_handle_ : {Null, "device"},
                 context_ : {Null, "context"},
                 support_device_ : BOOLEAN,
                 perf_initialized_ : BOOLEAN]
    /\ cells = Null \/ cells \in [Graphs -> 0 .. numGraphs]
    /\ handles \subseteq Graphs
    /\ i \in 1 .. numGraphs + 1
    /\ pc \in Building \cup Destroying \cup {"ready", "gone", "threw", "crashed"}

Init ==
    /\ \/ kind = "bin" /\ numGraphs \in BinGraphs
       \/ kind = "so" /\ numGraphs \in SoGraphs
    /\ live = {} /\ deps = [r \in Resources |-> {}] /\ failures = {}
    /\ self = [backend_lib_handle |-> Null, sys_lib_handle_ |-> Null,
               model_handle_ |-> Null, backend_handle_ |-> Null,
               device_handle_ |-> Null, context_ |-> Null,
               support_device_ |-> FALSE, perf_initialized_ |-> FALSE]
    /\ cells = Null /\ handles = {} /\ i = 1
    /\ pc = "openBackend"

\* What a resource must not outlive, as far as it exists when the resource
\* is created.
Needs(r) ==
    CASE r = "backend" -> {"backendLib"}
      [] r = "device" -> {"backend"}
      [] r \in {"context", "power"} -> {"backend", "device"}
      [] OTHER -> {}

Create(r) ==
    /\ live' = live \cup {r}
    /\ deps' = [deps EXCEPT ![r] = Needs(r) \cap live]

At(place) == pc = place /\ UNCHANGED model
Goto(place) == pc' = place
Succeeds == UNCHANGED failures
Fails(fault) == fault \in Faults /\ failures' = failures \cup {fault}

\* The library frees what the handle denotes; a failure is only logged.
Free(r) ==
    /\ \/ Succeeds /\ live' = live \ {r}
       \/ Fails("free") /\ live' = live
    /\ UNCHANGED deps
FreeNothing == Succeeds /\ UNCHANGED libraries

\* A step returns StatusCode::FAILURE: the manager's constructor throws, and
\* its member qrb_inference_ is destroyed.
Fail(fault) == Fails(fault) /\ Goto("freeGraphs") /\ UNCHANGED engine

-----------------------------------------------------------------------------
(* The constructors of QnnInference and QnnInterface.                      *)

\* The binary model's constructor hands over the wrong slot as well.
OpenBackendLibTwoSlots ==
    /\ At("openBackend") /\ Succeeds
    /\ Goto("backendProviders") /\ Create("backendLib")
    /\ self' = [self EXCEPT !.backend_lib_handle = "backendLib",
                            !.backend_handle_ = "backendLib"]
    /\ UNCHANGED graphs

\* get_function_from_lib.  The .bin constructor passes the slot of the
\* library handle, the .so constructor that of the BACKEND handle.  If dlopen
\* or dlsym fails, the nullptr it returns is called.
OpenBackendLib ==
    /\ At("openBackend")
    /\ \/ /\ Succeeds /\ Goto("backendProviders") /\ Create("backendLib")
          /\ self' = IF kind = "bin"
                     THEN [self EXCEPT !.backend_lib_handle = "backendLib"]
                     ELSE [self EXCEPT !.backend_handle_ = "backendLib"]
       \/ /\ Fails("backendLib") /\ Goto("crashed")
          /\ UNCHANGED <<libraries, self>>
    /\ UNCHANGED graphs

\* A constructor of QnnInterface that throws ends that of QnnInference, whose
\* destructor is then not run.
Throw == Fails("providers") /\ Goto("threw")

BackendProviders ==
    /\ At("backendProviders") /\ UNCHANGED engine
    /\ \/ Succeeds /\ Goto(IF kind = "bin" THEN "openSys" ELSE "openModel")
       \/ Throw

OpenSysLib ==
    /\ At("openSys")
    /\ \/ /\ Succeeds /\ Goto("sysProviders") /\ Create("sysLib")
          /\ self' = [self EXCEPT !.sys_lib_handle_ = "sysLib"]
       \/ /\ Fails("sysLib") /\ Goto("crashed")
          /\ UNCHANGED <<libraries, self>>
    /\ UNCHANGED graphs

SysProviders ==
    /\ At("sysProviders") /\ UNCHANGED engine
    /\ (Succeeds /\ Goto("createBackend")) \/ Throw

\* init_qnn_graph_interface reports success also if the library is missing.
OpenModelLib ==
    /\ At("openModel") /\ Goto("createBackend")
    /\ \/ /\ Succeeds /\ Create("modelLib")
          /\ self' = [self EXCEPT !.model_handle_ = "modelLib"]
       \/ Fails("modelLib") /\ UNCHANGED <<libraries, self>>
    /\ UNCHANGED graphs

-----------------------------------------------------------------------------
(* inference_init.                                                         *)

\* The first failure is retried without the error-reporting configuration.
CreateBackend ==
    /\ At("createBackend") \/ At("retryBackend")
    /\ \/ /\ Succeeds /\ Goto("createDevice") /\ Create("backend")
          /\ self' = [self EXCEPT !.backend_handle_ = "backend"]
          /\ UNCHANGED graphs
       \/ /\ pc = "createBackend" /\ Fails("backendCreate")
          /\ Goto("retryBackend") /\ UNCHANGED engine
       \/ pc = "retryBackend" /\ Fail("backendCreate")

\* The device is created; or the feature is unsupported, which counts as
\* success without a device; or the property is unknown to the backend.
CreateDevice ==
    /\ At("createDevice")
    /\ \/ /\ Succeeds
          /\ Goto(IF kind = "bin" THEN "readModel" ELSE "createContext")
          /\ \/ /\ Create("device")
                /\ self' = [self EXCEPT !.device_handle_ = "device",
                                        !.support_device_ = TRUE]
             \/ /\ self' = [self EXCEPT !.support_device_ = TRUE]
                /\ UNCHANGED libraries
             \/ UNCHANGED <<self, libraries>>
          /\ UNCHANGED graphs
       \/ Fail("deviceCreate")

-----------------------------------------------------------------------------
(* inference_graph_init of a context binary.                               *)

\* read_binary_model and systemContextCreate.
ReadModel ==
    /\ At("readModel")
    /\ \/ /\ Succeeds /\ Goto("binaryInfo") /\ Create("sysContext")
          /\ UNCHANGED <<self, graphs>>
       \/ Fail("read")

\* A failure, or an unknown version, leaves the system context behind.
BinaryInfo ==
    /\ At("binaryInfo")
    /\ \/ Succeeds /\ Goto("copyStart") /\ UNCHANGED engine
       \/ Fail("info")

\* copy_graph_info allocates the array of cells, all nullptr.
CopyStart ==
    /\ At("copyStart")
    /\ \/ /\ Succeeds /\ Goto("copy") /\ cells' = [k \in Graphs |-> 0] /\ i' = 1
          /\ UNCHANGED <<libraries, self, handles>>
       \/ Fail("alloc")

\* A cell is stored when its graph has been copied completely, which a tensor
\* without a name, of rank 0, or the lack of memory prevents.  What is copied
\* is each time the description of the FIRST graph.
CopyGraph ==
    /\ At("copy")
    /\ \/ /\ Succeeds /\ Goto(IF i < numGraphs THEN "copy" ELSE "copied")
          /\ cells' = [cells EXCEPT ![i] = 1]
          /\ i' = i + 1
          /\ UNCHANGED <<libraries, self, handles>>
       \/ Fail("copy")

\* systemContextFree.
Copied ==
    /\ At("copied") /\ Succeeds /\ Goto("createFromBinary")
    /\ live' = live \ {"sysContext"}
    /\ UNCHANGED <<deps, self, graphs>>

CreateFromBinary ==
    /\ At("createFromBinary")
    /\ \/ /\ Succeeds /\ Goto("retrieve") /\ Create("context")
          /\ self' = [self EXCEPT !.context_ = "context"]
          /\ i' = 1 /\ UNCHANGED <<cells, handles>>
       \/ Fail("contextCreate")

\* graphRetrieve is given (*graphs_info_)[i]: the i-th GraphInfo from the
\* first cell on, but each cell is an allocation of one GraphInfo.
RetrieveGraph ==
    /\ At("retrieve")
    /\ \/ /\ i = 1 /\ Succeeds
          /\ Goto(IF i < numGraphs THEN "retrieve" ELSE "perf")
          /\ handles' = handles \cup {i} /\ i' = i + 1
          /\ UNCHANGED <<libraries, self, cells>>
       \/ i > 1 /\ Succeeds /\ Goto("crashed") /\ UNCHANGED engine
       \/ Fail("retrieve")

\* perf_initialized_ is not set.
InitPerformanceUnflagged ==
    /\ At("perf") /\ Succeeds
    /\ Goto("ready") /\ Create("power") /\ UNCHANGED <<self, graphs>>

\* init_performance is skipped for another backend than Htp, by the
\* environment, or if the backend has no such interface.
InitPerformance ==
    /\ At("perf")
    /\ \/ /\ Succeeds /\ Goto("ready") /\ UNCHANGED graphs
          /\ \/ /\ Create("power")
                /\ self' = [self EXCEPT !.perf_initialized_ = TRUE]
             \/ UNCHANGED <<libraries, self>>
       \/ Fail("perf")

-----------------------------------------------------------------------------
(* inference_graph_init of a model library.                                *)

CreateContext ==
    /\ At("createContext")
    /\ \/ /\ Succeeds /\ Goto("compose") /\ Create("context")
          /\ self' = [self EXCEPT !.context_ = "context"]
          /\ UNCHANGED graphs
       \/ Fail("contextCreate")

\* Without the model library compose_graphs_ is nullptr.
ComposeGraphs ==
    /\ At("compose")
    /\ \/ /\ self.model_handle_ # Null /\ Succeeds /\ Goto("finalize")
          /\ cells' = [k \in Graphs |-> k] /\ i' = 1
          /\ UNCHANGED <<libraries, self, handles>>
       \/ /\ self.model_handle_ = Null /\ Succeeds /\ Goto("crashed")
          /\ UNCHANGED engine
       \/ self.model_handle_ # Null /\ Fail("compose")

\* Only the first graph is finalised.
FinalizeGraphFirst ==
    /\ At("finalize") /\ Succeeds /\ Goto("ready")
    /\ handles' = handles \cup {i} /\ i' = i + 1
    /\ UNCHANGED <<libraries, self, cells>>

\* The library's GraphInfo cells are contiguous, so (*graphs_info_)[i] is
\* the cell of graph i.
FinalizeGraph ==
    /\ At("finalize")
    /\ \/ /\ Succeeds /\ Goto(IF i < numGraphs THEN "finalize" ELSE "ready")
          /\ handles' = handles \cup {i} /\ i' = i + 1
          /\ UNCHANGED <<libraries, self, cells>>
       \/ Fail("finalize")

-----------------------------------------------------------------------------
(* ~QnnInference.                                                          *)

\* The node that owns the manager is destroyed.
Destroy == At("ready") /\ Succeeds /\ Goto("freeGraphs") /\ UNCHANGED engine

CellsSet == cells # Null => \A k \in Graphs : cells[k] # 0

\* The early return for nullptr is forgotten.
FreeGraphsInfoUnchecked ==
    /\ At("freeGraphs") /\ Succeeds
    /\ IF cells # Null /\ CellsSet
       THEN Goto("freeContext") /\ cells' = Null
       ELSE Goto("crashed") /\ UNCHANGED cells
    /\ UNCHANGED <<libraries, self, handles, i>>

\* The array and its cells are freed; the loop dereferences graphs_info_[i],
\* which is nullptr for a graph that was not copied.
FreeGraphsInfo ==
    /\ At("freeGraphs") /\ Succeeds
    /\ IF CellsSet
       THEN Goto("freeContext") /\ cells' = Null
       ELSE Goto("crashed") /\ UNCHANGED cells
    /\ UNCHANGED <<libraries, self, handles, i>>

\* The library is given the member and frees the resource if it is its handle.
FreeHandle(r, member) ==
    /\ IF self[member] = r THEN Free(r) ELSE FreeNothing
    /\ self' = [self EXCEPT ![member] = Null]
    /\ UNCHANGED graphs

\* The device is freed in place of the context.
FreeContextAfterDevice ==
    /\ At("freeContext") /\ Goto("freePower")
    /\ FreeHandle("device", "device_handle_")

FreeContext ==
    /\ At("freeContext") /\ Goto("freePower")
    /\ FreeHandle("context", "context_")

FreePower ==
    /\ At("freePower") /\ Goto("freeDevice")
    /\ IF self.perf_initialized_ THEN Free("power") ELSE FreeNothing
    /\ self' = [self EXCEPT !.perf_initialized_ = FALSE]
    /\ UNCHANGED graphs

FreeDevice ==
    /\ At("freeDevice") /\ Goto("freeBackend")
    /\ IF self.support_device_ /\ self.device_handle_ # Null
       THEN Free("device") ELSE FreeNothing
    /\ self' = [self EXCEPT !.device_handle_ = Null]
    /\ UNCHANGED graphs

FreeBackend ==
    /\ At("freeBackend") /\ Goto("closeLibs")
    /\ FreeHandle("backend", "backend_handle_")

\* The system library is forgotten.
CloseLibsButSys ==
    /\ At("closeLibs") /\ Succeeds /\ Goto("gone")
    /\ live' = live \ {self.backend_lib_handle, self.model_handle_}
    /\ self' = [self EXCEPT !.backend_lib_handle = Null,
                            !.model_handle_ = Null]
    /\ UNCHANGED <<deps, graphs>>

CloseLibs ==
    /\ At("closeLibs") /\ Succeeds /\ Goto("gone")
    /\ live' = live \ {self.backend_lib_handle, self.model_handle_,
                       self.sys_lib_handle_}
    /\ self' = [self EXCEPT !.backend_lib_handle = Null,
                            !.model_handle_ = Null, !.sys_lib_handle_ = Null]
    /\ UNCHANGED <<deps, graphs>>

-----------------------------------------------------------------------------
Next ==
    \/ OpenBackendLib \/ BackendProviders \/ OpenSysLib \/ SysProviders
    \/ OpenModelLib
    \/ CreateBackend \/ CreateDevice
    \/ ReadModel \/ BinaryInfo \/ CopyStart \/ CopyGraph \/ Copied
    \/ CreateFromBinary \/ RetrieveGraph \/ InitPerformance
    \/ CreateContext \/ ComposeGraphs \/ FinalizeGraph
    \/ Destroy
    \/ FreeGraphsInfo \/ FreeContext \/ FreePower \/ FreeDevice \/ FreeBackend
    \/ CloseLibs

Spec == Init /\ [][Next]_vars

-----------------------------------------------------------------------------
(* Properties.                                                             *)

\* A manager can be built from every valid model and destroyed again: no null
\* function pointer is called and no null or foreign cell is dereferenced.
NeverCrashes == pc # "crashed"

\* Whatever else fails, the manager's constructor ends by throwing and the
\* destructor comes to its end.  The exceptions: a library that cannot be
\* opened, whose functions are called nonetheless, a graph that is copied in
\* part, and a context binary of several graphs.
CrashCauses ==
    pc = "crashed" =>
        \/ failures \cap {"backendLib", "sysLib", "modelLib", "copy"} # {}
        \/ kind = "bin" /\ numGraphs > 1

\* Nothing outlives what it was created on: the context, the power
\* configuration and the device are freed before the backend, and the
\* backend before its library is closed, from every point where building may
\* have stopped.
ParentOutlivesChild ==
    "free" \notin failures => \A r \in live : deps[r] \subseteq live

\* A destroyed engine leaves nothing on the device, whichever step of its
\* construction failed; a constructor that throws early had created nothing.
NoDeviceResourceSurvives ==
    pc \in {"gone", "threw"} /\ "free" \notin failures =>
        live \cap DeviceResources = {}

\* An engine that is handed out can execute every graph of its model: it has
\* a context, each graph's cell describes that graph, and all graphs have
\* handles.
ReadyComplete ==
    pc = "ready" =>
        /\ {"backend", "context"} \subseteq live /\ self.context_ = "context"
        /\ "sysContext" \notin live
        /\ cells = [k \in Graphs |-> k]
        /\ handles = Graphs

\* The handle given to backendFree was made by backendCreate, unless that
\* failed for a model library: then it is the handle of dlopen, which the
\* member held before.
BackendFreeOwn ==
    pc = "freeBackend" =>
        \/ self.backend_handle_ \in {Null, "backend"}
        \/ kind = "so" /\ "backendCreate" \in failures

\* A binary model's engine closes every library it opened.
BinLibrariesClosed ==
    pc = "gone" /\ kind = "bin" => live \cap Libs = {}
=============================================================================
