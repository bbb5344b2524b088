------------------------- MODULE QnnLifecycleProofs -------------------------
(***************************************************************************)
(* Theorems about QnnLifecycle for every value of its constants: any       *)
(* numbers of graphs, any set of library calls that may fail.  The         *)
(* invariant says where the construction of each kind of model may stand   *)
(* (PlaceInv), that a member denotes what is live (HandleInv), which       *)
(* resources the steps so far have left (LiveInv), that nothing depends on *)
(* what is gone (DepsInv), and how far graphs_info_ is filled (CellsInv).  *)
(***************************************************************************)
EXTENDS QnnLifecycle, TLAPS

BinPlaces ==
    {"openSys", "sysProviders", "readModel", "binaryInfo", "copyStart", "copy", "copied",
     "createFromBinary", "retrieve", "perf"}
SoPlaces == {"openModel", "createContext", "compose", "finalize"}
Opening ==
    {"openBackend", "backendProviders", "openSys", "sysProviders", "openModel"}
NoBackendYet == Opening \cup {"createBackend", "retryBackend", "threw"}

\* Each kind of model has its own steps, and its failures leave traces.
PlaceInv ==
    /\ pc \in BinPlaces => kind = "bin"
    /\ pc \in SoPlaces => kind = "so"
    /\ pc \in {"createBackend", "retryBackend", "createDevice", "createContext", "compose"}
           /\ kind = "so" /\ self.model_handle_ = Null => "modelLib" \in failures
    /\ self.backend_handle_ = "backendLib" =>
           /\ kind = "so"
           /\ pc \in NoBackendYet \cup {"crashed"} \/ "backendCreate" \in failures
    /\ CrashCauses

\* What is live is denoted by its member, so that it can be freed.
HandleInv ==
    /\ kind = "bin" =>
           /\ "modelLib" \notin live
           /\ "backendLib" \in live => self.backend_lib_handle = "backendLib"
           /\ "sysLib" \in live => self.sys_lib_handle_ = "sysLib"
    /\ "free" \notin failures =>
           /\ "context" \in live => self.context_ = "context"
           /\ "power" \in live => self.perf_initialized_
           /\ "device" \in live => self.support_device_ /\ self.device_handle_ = "device"
           /\ "backend" \in live => self.backend_handle_ = "backend"

\* What the construction and the destruction have left.
LiveInv ==
    /\ pc \in NoBackendYet => live \cap DeviceResources = {}
    /\ pc \in Building \cup {"ready"} /\ pc \notin NoBackendYet => "backend" \in live
    /\ pc \in {"retrieve", "perf", "compose", "finalize", "ready"} =>
           "context" \in live /\ self.context_ = "context"
    /\ pc \in Building \cup {"ready"} =>
           ("sysContext" \in live => pc \in {"binaryInfo", "copyStart", "copy", "copied"})
    /\ "free" \notin failures =>
           /\ pc \in {"freePower", "freeDevice", "freeBackend", "closeLibs", "gone"} =>
                  "context" \notin live
           /\ pc \in {"freeDevice", "freeBackend", "closeLibs", "gone"} =>
                  "power" \notin live
           /\ pc \in {"freeBackend", "closeLibs", "gone"} => "device" \notin live
           /\ pc \in {"closeLibs", "gone"} => "backend" \notin live
    /\ pc = "gone" /\ kind = "bin" => live \cap Libs = {}

DepsInv ==
    /\ \A r \in Resources : deps[r] \subseteq Needs(r)
    /\ ParentOutlivesChild

\* graphs_info_ and the handles of the graphs.
CellsInv ==
    /\ pc # "copy" /\ "copy" \notin failures => CellsSet
    /\ pc = "copy" =>
           /\ i \in Graphs /\ cells \in [Graphs -> 0 .. numGraphs]
           /\ \A k \in Graphs : k < i => cells[k] = 1
    /\ pc \in {"copied", "createFromBinary", "retrieve", "perf"} =>
           \A k \in Graphs : cells[k] = 1
    /\ pc \in {"copied", "createFromBinary", "retrieve", "perf"} =>
           cells \in [Graphs -> 0 .. numGraphs]
    /\ pc \in Building \ {"retrieve", "perf", "finalize"} => handles = {}
    /\ pc = "retrieve" => (i = 1 /\ handles = {}) \/ (i # 1 /\ numGraphs # 1)
    /\ pc = "perf" => numGraphs = 1 /\ handles = {1}
    /\ pc \in {"finalize", "ready"} => cells = [k \in Graphs |-> k]
    /\ pc = "finalize" => i \in Graphs /\ handles = 1 .. i - 1
    /\ pc = "ready" => handles = Graphs

Inv == TypeOK /\ PlaceInv /\ HandleInv /\ LiveInv /\ DepsInv /\ CellsInv

-----------------------------------------------------------------------------
(* The invariant is inductive.                                             *)

\* A model has at least one graph.
LEMMA Numbers ==
    ASSUME TypeOK PROVE numGraphs \in Nat \ {0} /\ 1 \in Graphs /\ i \in Nat
<1>1. numGraphs \in Nat \ {0}
  BY CountsAssumption DEF TypeOK
<1>2. i \in 1 .. numGraphs + 1
  BY DEF TypeOK
<1> QED
  BY <1>1, <1>2 DEF Graphs

\* Every step keeps the types.
LEMMA TypeNext == ASSUME Inv, Next PROVE TypeOK'
<1> USE DEF Inv, TypeOK, Graphs, Building, Destroying, Resources, Libs, DeviceResources
<1> USE DEF At, Goto, Succeeds, model, engine, libraries, graphs, Fail, Fails, Create, Needs
<1>0. numGraphs \in Nat \ {0} /\ i \in Nat /\ Graphs = 1 .. numGraphs
  BY Numbers DEF Graphs
<1>1. CASE OpenBackendLib
  BY <1>1 DEF OpenBackendLib
<1>2. CASE BackendProviders
  BY <1>2 DEF BackendProviders, Throw
<1>3. CASE OpenSysLib
  BY <1>3 DEF OpenSysLib
<1>4. CASE SysProviders
  BY <1>4 DEF SysProviders, Throw
<1>5. CASE OpenModelLib
  BY <1>5 DEF OpenModelLib
<1>6. CASE CreateBackend
  BY <1>6 DEF CreateBackend
<1>7. CASE CreateDevice
  <2>1. CASE Fail("deviceCreate")
    BY <1>7, <2>1, <1>0 DEF CreateDevice
  <2>2. CASE ~Fail("deviceCreate")
    <3>1. /\ pc' \in Building /\ UNCHANGED <<kind, numGraphs, failures, cells, handles, i>>
          /\ live' \subseteq Resources /\ deps' \in [Resources -> SUBSET Resources]
      BY <1>7, <2>2 DEF CreateDevice
    <3>2. \/ UNCHANGED self
          \/ self' = [self EXCEPT !.device_handle_ = "device", !.support_device_ = TRUE]
          \/ self' = [self EXCEPT !.support_device_ = TRUE]
      BY <1>7, <2>2 DEF CreateDevice
    <3>3. Graphs' = Graphs
      BY <3>1
    <3> QED
      BY <3>1, <3>2, <3>3
  <2> QED
    BY <2>1, <2>2
<1>8. CASE ReadModel
  BY <1>8 DEF ReadModel
<1>9. CASE BinaryInfo
  BY <1>9 DEF BinaryInfo
<1>10. CASE CopyStart
  <2>1. CASE Fail("alloc")
    BY <1>10, <2>1, <1>0 DEF CopyStart
  <2>2. CASE ~Fail("alloc")
    <3>1. /\ pc' = "copy" /\ cells' = [k \in Graphs |-> 0] /\ i' = 1
          /\ UNCHANGED <<kind, numGraphs, live, deps, failures, self>> /\ UNCHANGED handles
      BY <1>10, <2>2 DEF CopyStart
    <3>2. cells' = Null \/ cells' \in [Graphs -> 0 .. numGraphs]
      BY <3>1, <1>0
    <3>3. Graphs' = Graphs
      BY <3>1
    <3> QED
      BY <3>1, <3>2, <3>3, <1>0
  <2> QED
    BY <2>1, <2>2
<1>11. CASE CopyGraph
  <2>1. CASE Fail("copy")
    BY <1>11, <2>1, <1>0 DEF CopyGraph
  <2>2. CASE ~Fail("copy")
    <3>1. /\ pc' \in {"copy", "copied"} /\ cells' = [cells EXCEPT ![i] = 1] /\ i' = i + 1
          /\ i \in Graphs /\ cells \in [Graphs -> 0 .. numGraphs]
          /\ UNCHANGED <<kind, numGraphs, live, deps, failures, self>> /\ UNCHANGED handles
      BY <1>11, <2>2 DEF CopyGraph, CellsInv
    <3>2. cells' = Null \/ cells' \in [Graphs -> 0 .. numGraphs]
      BY <3>1, <1>0
    <3>3. Graphs' = Graphs
      BY <3>1
    <3> QED
      BY <3>1, <3>2, <3>3, <1>0
  <2> QED
    BY <2>1, <2>2
<1>12. CASE Copied
  BY <1>12 DEF Copied
<1>13. CASE CreateFromBinary
  <2>1. CASE Fail("contextCreate")
    BY <1>13, <2>1, <1>0 DEF CreateFromBinary
  <2>2. CASE ~Fail("contextCreate")
    BY <1>13, <2>2, <1>0 DEF CreateFromBinary
  <2> QED
    BY <2>1, <2>2
<1>14. CASE RetrieveGraph
  <2>1. CASE Fail("retrieve")
    BY <1>14, <2>1, <1>0 DEF RetrieveGraph
  <2>2. CASE ~Fail("retrieve")
    <3>1. /\ pc' \in {"retrieve", "perf", "crashed"}
          /\ i' \in {i, 2} /\ handles' \in {handles, handles \cup {1}}
          /\ UNCHANGED <<kind, numGraphs, live, deps, failures, self>> /\ UNCHANGED cells
      BY <1>14, <2>2 DEF RetrieveGraph
    <3>2. cells' = Null \/ cells' \in [Graphs -> 0 .. numGraphs]
      BY <3>1
    <3>3. Graphs' = Graphs
      BY <3>1
    <3> QED
      BY <3>1, <3>2, <3>3, <1>0
  <2> QED
    BY <2>1, <2>2
<1>15. CASE InitPerformance
  <2>1. CASE Fail("perf")
    BY <1>15, <2>1, <1>0 DEF InitPerformance
  <2>2. CASE ~Fail("perf")
    <3>1. /\ pc' = "ready" /\ UNCHANGED <<kind, numGraphs, failures, cells, handles, i>>
          /\ live' \subseteq Resources /\ deps' \in [Resources -> SUBSET Resources]
      BY <1>15, <2>2 DEF InitPerformance
    <3>2. UNCHANGED self \/ self' = [self EXCEPT !.perf_initialized_ = TRUE]
      BY <1>15, <2>2 DEF InitPerformance
    <3>3. Graphs' = Graphs
      BY <3>1
    <3> QED
      BY <3>1, <3>2, <3>3
  <2> QED
    BY <2>1, <2>2
<1>16. CASE CreateContext
  BY <1>16 DEF CreateContext
<1>17. CASE ComposeGraphs
  <2>1. CASE Fail("compose")
    BY <1>17, <2>1, <1>0 DEF ComposeGraphs
  <2>2. CASE ~Fail("compose")
    <3>1. /\ pc' \in {"finalize", "crashed"} /\ (cells' = [k \in Graphs |-> k] \/ UNCHANGED cells)
          /\ i' \in {1, i} /\ UNCHANGED <<kind, numGraphs, live, deps, failures, self>> /\ UNCHANGED handles
      BY <1>17, <2>2 DEF ComposeGraphs
    <3>2. cells' = Null \/ cells' \in [Graphs -> 0 .. numGraphs]
      BY <3>1, <1>0
    <3>3. Graphs' = Graphs
      BY <3>1
    <3> QED
      BY <3>1, <3>2, <3>3, <1>0
  <2> QED
    BY <2>1, <2>2
<1>18. CASE FinalizeGraph
  <2>1. CASE Fail("finalize")
    BY <1>18, <2>1, <1>0 DEF FinalizeGraph
  <2>2. CASE ~Fail("finalize")
    <3>1. /\ pc' \in {"finalize", "ready"} /\ i \in Graphs /\ i' = i + 1 /\ handles' = handles \cup {i}
          /\ UNCHANGED <<kind, numGraphs, live, deps, failures, self>> /\ UNCHANGED cells
      BY <1>18, <2>2 DEF FinalizeGraph, CellsInv
    <3>2. cells' = Null \/ cells' \in [Graphs -> 0 .. numGraphs]
      BY <3>1
    <3>3. Graphs' = Graphs
      BY <3>1
    <3> QED
      BY <3>1, <3>2, <3>3, <1>0
  <2> QED
    BY <2>1, <2>2
<1>19. CASE Destroy
  BY <1>19 DEF Destroy
<1>20. CASE FreeGraphsInfo
  BY <1>20 DEF FreeGraphsInfo
<1>21. CASE FreeContext
  BY <1>21 DEF FreeContext, FreeHandle, Free, FreeNothing
<1>22. CASE FreePower
  BY <1>22 DEF FreePower, Free, FreeNothing
<1>23. CASE FreeDevice
  BY <1>23 DEF FreeDevice, Free, FreeNothing
<1>24. CASE FreeBackend
  BY <1>24 DEF FreeBackend, FreeHandle, Free, FreeNothing
<1>25. CASE CloseLibs
  BY <1>25 DEF CloseLibs
<1> QED
  BY <1>1, <1>2, <1>3, <1>4, <1>5, <1>6, <1>7, <1>8, <1>9, <1>10, <1>11, <1>12, <1>13,
     <1>14, <1>15, <1>16, <1>17, <1>18, <1>19, <1>20, <1>21, <1>22, <1>23, <1>24, <1>25
     DEF Next

\* Every step leads to a place of the same kind of model, or to a known crash.
LEMMA PlaceNext == ASSUME Inv, Next PROVE PlaceInv'
<1> USE DEF Inv, PlaceInv, TypeOK, BinPlaces, SoPlaces, NoBackendYet, Opening, CrashCauses
<1> USE DEF At, Goto, Succeeds, model, engine, libraries, graphs, Fail, Fails, Create, Needs
<1>0. /\ numGraphs \in Nat \ {0} /\ "backendLib" # Null /\ "modelLib" # Null
      /\ pc = "retrieve" /\ i > 1 => numGraphs > 1
      /\ pc = "freeGraphs" /\ ~CellsSet => "copy" \in failures
  BY Numbers, NullAssumption DEF CellsInv, Resources, Libs
<1>1. CASE OpenBackendLib
  BY <1>1 DEF OpenBackendLib
<1>2. CASE BackendProviders
  BY <1>2 DEF BackendProviders, Throw
<1>3. CASE OpenSysLib
  BY <1>3 DEF OpenSysLib
<1>4. CASE SysProviders
  BY <1>4 DEF SysProviders, Throw
<1>5. CASE OpenModelLib
  <2>1. CASE Fails("modelLib")
    BY <1>5, <2>1, NullAssumption DEF OpenModelLib
  <2>2. CASE ~Fails("modelLib")
    BY <1>5, <2>2, NullAssumption, <1>0 DEF OpenModelLib
  <2> QED
    BY <2>1, <2>2
<1>6. CASE CreateBackend
  BY <1>6 DEF CreateBackend
<1>7. CASE CreateDevice
  BY <1>7 DEF CreateDevice
<1>8. CASE ReadModel
  BY <1>8 DEF ReadModel
<1>9. CASE BinaryInfo
  BY <1>9 DEF BinaryInfo
<1>10. CASE CopyStart
  BY <1>10 DEF CopyStart
<1>11. CASE CopyGraph
  BY <1>11 DEF CopyGraph
<1>12. CASE Copied
  BY <1>12 DEF Copied
<1>13. CASE CreateFromBinary
  BY <1>13 DEF CreateFromBinary
<1>14. CASE RetrieveGraph
  BY <1>14, <1>0 DEF RetrieveGraph
<1>15. CASE InitPerformance
  BY <1>15 DEF InitPerformance
<1>16. CASE CreateContext
  BY <1>16 DEF CreateContext
<1>17. CASE ComposeGraphs
  BY <1>17 DEF ComposeGraphs
<1>18. CASE FinalizeGraph
  BY <1>18 DEF FinalizeGraph
<1>19. CASE Destroy
  BY <1>19 DEF Destroy
<1>20. CASE FreeGraphsInfo
  BY <1>20, <1>0 DEF FreeGraphsInfo
<1>21. CASE FreeContext
  BY <1>21 DEF FreeContext, FreeHandle, Free, FreeNothing
<1>22. CASE FreePower
  BY <1>22 DEF FreePower, Free, FreeNothing
<1>23. CASE FreeDevice
  BY <1>23 DEF FreeDevice, Free, FreeNothing
<1>24. CASE FreeBackend
  BY <1>24, NullAssumption, <1>0 DEF FreeBackend, FreeHandle, Free, FreeNothing
<1>25. CASE CloseLibs
  BY <1>25 DEF CloseLibs
<1> QED
  BY <1>1, <1>2, <1>3, <1>4, <1>5, <1>6, <1>7, <1>8, <1>9, <1>10, <1>11, <1>12, <1>13,
     <1>14, <1>15, <1>16, <1>17, <1>18, <1>19, <1>20, <1>21, <1>22, <1>23, <1>24, <1>25
     DEF Next

\* Every step keeps what is live denoted by its member.
LEMMA HandleNext == ASSUME Inv, Next PROVE HandleInv'
<1> USE DEF Inv, PlaceInv, HandleInv, TypeOK, BinPlaces, SoPlaces, Resources, Libs,
   DeviceResources
<1> USE DEF At, Goto, Succeeds, model, engine, libraries, graphs, Fail, Fails, Create, Needs
<1>1. CASE OpenBackendLib
  <2>1. CASE kind = "bin"
    BY <1>1, <2>1 DEF OpenBackendLib
  <2>2. CASE kind # "bin"
    <3>1. LiveInv /\ pc = "openBackend" /\ kind = "so" /\ UNCHANGED kind
      BY <1>1, <2>2 DEF OpenBackendLib
    <3>2. live \cap DeviceResources = {}
      BY <3>1 DEF LiveInv, NoBackendYet, Opening
    <3> QED
      BY <3>1, <3>2, <1>1, <2>2 DEF OpenBackendLib
  <2> QED
    BY <2>1, <2>2
<1>2. CASE BackendProviders
  BY <1>2 DEF BackendProviders, Throw
<1>3. CASE OpenSysLib
  BY <1>3 DEF OpenSysLib
<1>4. CASE SysProviders
  BY <1>4 DEF SysProviders, Throw
<1>5. CASE OpenModelLib
  BY <1>5 DEF OpenModelLib
<1>6. CASE CreateBackend
  BY <1>6 DEF CreateBackend
<1>7. CASE CreateDevice
  BY <1>7 DEF CreateDevice
<1>8. CASE ReadModel
  BY <1>8 DEF ReadModel
<1>9. CASE BinaryInfo
  BY <1>9 DEF BinaryInfo
<1>10. CASE CopyStart
  BY <1>10 DEF CopyStart
<1>11. CASE CopyGraph
  BY <1>11 DEF CopyGraph
<1>12. CASE Copied
  BY <1>12 DEF Copied
<1>13. CASE CreateFromBinary
  BY <1>13 DEF CreateFromBinary
<1>14. CASE RetrieveGraph
  BY <1>14 DEF RetrieveGraph
<1>15. CASE InitPerformance
  BY <1>15 DEF InitPerformance
<1>16. CASE CreateContext
  BY <1>16 DEF CreateContext
<1>17. CASE ComposeGraphs
  BY <1>17 DEF ComposeGraphs
<1>18. CASE FinalizeGraph
  BY <1>18 DEF FinalizeGraph
<1>19. CASE Destroy
  BY <1>19 DEF Destroy
<1>20. CASE FreeGraphsInfo
  BY <1>20 DEF FreeGraphsInfo
<1>21. CASE FreeContext
  BY <1>21 DEF FreeContext, FreeHandle, Free, FreeNothing
<1>22. CASE FreePower
  BY <1>22 DEF FreePower, Free, FreeNothing
<1>23. CASE FreeDevice
  BY <1>23 DEF FreeDevice, Free, FreeNothing
<1>24. CASE FreeBackend
  BY <1>24 DEF FreeBackend, FreeHandle, Free, FreeNothing
<1>25. CASE CloseLibs
  BY <1>25 DEF CloseLibs
<1> QED
  BY <1>1, <1>2, <1>3, <1>4, <1>5, <1>6, <1>7, <1>8, <1>9, <1>10, <1>11, <1>12, <1>13,
     <1>14, <1>15, <1>16, <1>17, <1>18, <1>19, <1>20, <1>21, <1>22, <1>23, <1>24, <1>25
     DEF Next

\* Every step leaves on the device what LiveInv has there.
LEMMA LiveNext == ASSUME Inv, Next PROVE LiveInv'
<1> USE DEF Inv, PlaceInv, HandleInv, LiveInv, TypeOK, BinPlaces, SoPlaces, Resources,
   Libs, DeviceResources, Building, NoBackendYet, Opening
<1> USE DEF At, Goto, Succeeds, model, engine, libraries, graphs, Fail, Fails, Create, Needs
<1>1. CASE OpenBackendLib
  BY <1>1 DEF OpenBackendLib
<1>2. CASE BackendProviders
  BY <1>2 DEF BackendProviders, Throw
<1>3. CASE OpenSysLib
  BY <1>3 DEF OpenSysLib
<1>4. CASE SysProviders
  BY <1>4 DEF SysProviders, Throw
<1>5. CASE OpenModelLib
  BY <1>5 DEF OpenModelLib
<1>6. CASE CreateBackend
  BY <1>6 DEF CreateBackend
<1>7. CASE CreateDevice
  BY <1>7 DEF CreateDevice
<1>8. CASE ReadModel
  BY <1>8 DEF ReadModel
<1>9. CASE BinaryInfo
  BY <1>9 DEF BinaryInfo
<1>10. CASE CopyStart
  BY <1>10 DEF CopyStart
<1>11. CASE CopyGraph
  BY <1>11 DEF CopyGraph
<1>12. CASE Copied
  BY <1>12 DEF Copied
<1>13. CASE CreateFromBinary
  BY <1>13 DEF CreateFromBinary
<1>14. CASE RetrieveGraph
  BY <1>14 DEF RetrieveGraph
<1>15. CASE InitPerformance
  BY <1>15 DEF InitPerformance
<1>16. CASE CreateContext
  BY <1>16 DEF CreateContext
<1>17. CASE ComposeGraphs
  BY <1>17 DEF ComposeGraphs
<1>18. CASE FinalizeGraph
  BY <1>18 DEF FinalizeGraph
<1>19. CASE Destroy
  BY <1>19 DEF Destroy
<1>20. CASE FreeGraphsInfo
  BY <1>20 DEF FreeGraphsInfo
<1>21. CASE FreeContext
  BY <1>21 DEF FreeContext, FreeHandle, Free, FreeNothing
<1>22. CASE FreePower
  BY <1>22 DEF FreePower, Free, FreeNothing
<1>23. CASE FreeDevice
  BY <1>23, NullAssumption DEF FreeDevice, Free, FreeNothing
<1>24. CASE FreeBackend
  BY <1>24 DEF FreeBackend, FreeHandle, Free, FreeNothing
<1>25. CASE CloseLibs
  BY <1>25 DEF CloseLibs
<1> QED
  BY <1>1, <1>2, <1>3, <1>4, <1>5, <1>6, <1>7, <1>8, <1>9, <1>10, <1>11, <1>12, <1>13,
     <1>14, <1>15, <1>16, <1>17, <1>18, <1>19, <1>20, <1>21, <1>22, <1>23, <1>24, <1>25
     DEF Next

\* No step frees what something live was created on.
LEMMA DepsNext == ASSUME Inv, Next PROVE DepsInv'
<1> USE DEF Inv, PlaceInv, HandleInv, LiveInv, DepsInv, ParentOutlivesChild, TypeOK,
   Resources, Libs, DeviceResources, Building, NoBackendYet, Opening, Needs
<1> USE DEF At, Goto, Succeeds, model, engine, libraries, graphs, Fail, Fails, Create, Needs
<1>1. CASE OpenBackendLib
  BY <1>1 DEF OpenBackendLib
<1>2. CASE BackendProviders
  BY <1>2 DEF BackendProviders, Throw
<1>3. CASE OpenSysLib
  BY <1>3 DEF OpenSysLib
<1>4. CASE SysProviders
  BY <1>4 DEF SysProviders, Throw
<1>5. CASE OpenModelLib
  BY <1>5 DEF OpenModelLib
<1>6. CASE CreateBackend
  BY <1>6 DEF CreateBackend
<1>7. CASE CreateDevice
  BY <1>7 DEF CreateDevice
<1>8. CASE ReadModel
  BY <1>8 DEF ReadModel
<1>9. CASE BinaryInfo
  BY <1>9 DEF BinaryInfo
<1>10. CASE CopyStart
  BY <1>10 DEF CopyStart
<1>11. CASE CopyGraph
  BY <1>11 DEF CopyGraph
<1>12. CASE Copied
  BY <1>12 DEF Copied
<1>13. CASE CreateFromBinary
  BY <1>13 DEF CreateFromBinary
<1>14. CASE RetrieveGraph
  BY <1>14 DEF RetrieveGraph
<1>15. CASE InitPerformance
  BY <1>15 DEF InitPerformance
<1>16. CASE CreateContext
  BY <1>16 DEF CreateContext
<1>17. CASE ComposeGraphs
  BY <1>17 DEF ComposeGraphs
<1>18. CASE FinalizeGraph
  BY <1>18 DEF FinalizeGraph
<1>19. CASE Destroy
  BY <1>19 DEF Destroy
<1>20. CASE FreeGraphsInfo
  BY <1>20 DEF FreeGraphsInfo
<1>21. CASE FreeContext
  BY <1>21 DEF FreeContext, FreeHandle, Free, FreeNothing
<1>22. CASE FreePower
  BY <1>22 DEF FreePower, Free, FreeNothing
<1>23. CASE FreeDevice
  BY <1>23 DEF FreeDevice, Free, FreeNothing
<1>24. CASE FreeBackend
  BY <1>24 DEF FreeBackend, FreeHandle, Free, FreeNothing
<1>25. CASE CloseLibs
  BY <1>25 DEF CloseLibs
<1> QED
  BY <1>1, <1>2, <1>3, <1>4, <1>5, <1>6, <1>7, <1>8, <1>9, <1>10, <1>11, <1>12, <1>13,
     <1>14, <1>15, <1>16, <1>17, <1>18, <1>19, <1>20, <1>21, <1>22, <1>23, <1>24, <1>25
     DEF Next

\* Every step fills graphs_info_ and the handles as CellsInv has them.
LEMMA CellsNext == ASSUME Inv, Next PROVE CellsInv'
<1> USE DEF Inv, PlaceInv, CellsInv, CellsSet, TypeOK, BinPlaces, SoPlaces, Building,
   Graphs
<1> USE DEF At, Goto, Succeeds, model, engine, libraries, graphs, Fail, Fails, Create, Needs
<1>0. numGraphs \in Nat \ {0} /\ i \in Nat
  BY Numbers
<1>1. CASE OpenBackendLib
  BY <1>1 DEF OpenBackendLib
<1>2. CASE BackendProviders
  BY <1>2 DEF BackendProviders, Throw
<1>3. CASE OpenSysLib
  BY <1>3 DEF OpenSysLib
<1>4. CASE SysProviders
  BY <1>4 DEF SysProviders, Throw
<1>5. CASE OpenModelLib
  BY <1>5 DEF OpenModelLib
<1>6. CASE CreateBackend
  BY <1>6 DEF CreateBackend
<1>7. CASE CreateDevice
  BY <1>7 DEF CreateDevice
<1>8. CASE ReadModel
  BY <1>8 DEF ReadModel
<1>9. CASE BinaryInfo
  BY <1>9 DEF BinaryInfo
<1>10. CASE CopyStart
  <2>1. CASE Fail("alloc")
    BY <1>10, <2>1, <1>0 DEF CopyStart
  <2>2. CASE ~Fail("alloc")
    <3>1. /\ pc' = "copy" /\ cells' = [k \in Graphs |-> 0] /\ i' = 1
          /\ pc = "copyStart" /\ handles = {} /\ UNCHANGED <<kind, numGraphs, failures, handles>>
      BY <1>10, <2>2 DEF CopyStart
    <3> QED
      BY <3>1, <1>0
  <2> QED
    BY <2>1, <2>2
<1>11. CASE CopyGraph
  <2>1. CASE Fail("copy")
    BY <1>11, <2>1, <1>0 DEF CopyGraph
  <2>2. CASE ~Fail("copy")
    <3>1. /\ pc = "copy" /\ i \in 1 .. numGraphs /\ handles = {}
          /\ cells \in [1 .. numGraphs -> 0 .. numGraphs]
          /\ \A k \in 1 .. numGraphs : k < i => cells[k] = 1
      BY <1>11, <2>2 DEF CopyGraph
    <3>2. /\ pc' = IF i < numGraphs THEN "copy" ELSE "copied"
          /\ cells' = [cells EXCEPT ![i] = 1] /\ i' = i + 1
          /\ UNCHANGED <<kind, numGraphs, failures, handles>>
      BY <1>11, <2>2 DEF CopyGraph
    <3>3. /\ cells' \in [1 .. numGraphs -> 0 .. numGraphs]
          /\ \A k \in 1 .. numGraphs : k < i + 1 => cells'[k] = 1
      BY ONLY <3>1, <3>2, <1>0
    <3>4. i < numGraphs => i + 1 \in 1 .. numGraphs
      BY <3>1, <1>0
    <3>5. ~(i < numGraphs) => \A k \in 1 .. numGraphs : cells'[k] = 1
      BY ONLY <3>1, <3>3, <1>0
    <3> QED
      BY <3>1, <3>2, <3>3, <3>4, <3>5, <1>0
  <2> QED
    BY <2>1, <2>2
<1>12. CASE Copied
  BY <1>12 DEF Copied
<1>13. CASE CreateFromBinary
  <2>1. CASE Fail("contextCreate")
    BY <1>13, <2>1, <1>0 DEF CreateFromBinary
  <2>2. CASE ~Fail("contextCreate")
    <3>1. /\ pc = "createFromBinary" /\ pc' = "retrieve" /\ i' = 1 /\ handles = {}
          /\ (\A k \in 1 .. numGraphs : cells[k] = 1) /\ cells \in [1 .. numGraphs -> 0 .. numGraphs]
          /\ UNCHANGED <<kind, numGraphs, failures, cells, handles>>
      BY <1>13, <2>2 DEF CreateFromBinary
    <3> QED
      BY <3>1, <1>0
  <2> QED
    BY <2>1, <2>2
<1>14. CASE RetrieveGraph
  <2>1. CASE Fail("retrieve")
    BY <1>14, <2>1, <1>0 DEF RetrieveGraph
  <2>2. CASE ~Fail("retrieve")
    <3>1. /\ pc = "retrieve" /\ UNCHANGED <<kind, numGraphs, failures, cells>>
          /\ (\A k \in 1 .. numGraphs : cells[k] = 1) /\ cells \in [1 .. numGraphs -> 0 .. numGraphs]
      BY <1>14, <2>2 DEF RetrieveGraph
    <3>2. \/ /\ i = 1 /\ handles' = handles \cup {i} /\ i' = i + 1
             /\ pc' = IF i < numGraphs THEN "retrieve" ELSE "perf"
          \/ pc' = "crashed"
      BY <1>14, <2>2 DEF RetrieveGraph
    <3>3. i = 1 => handles = {}
      BY <3>1
    <3>4. \/ /\ i = 1 /\ handles' = {1} /\ i' = 2
             /\ pc' = IF 1 < numGraphs THEN "retrieve" ELSE "perf"
          \/ pc' = "crashed"
      BY ONLY <3>2, <3>3
    <3> QED
      BY <3>1, <3>4, <1>0
  <2> QED
    BY <2>1, <2>2
<1>15. CASE InitPerformance
  BY <1>15 DEF InitPerformance
<1>16. CASE CreateContext
  BY <1>16 DEF CreateContext
<1>17. CASE ComposeGraphs
  <2>1. CASE Fail("compose")
    BY <1>17, <2>1, <1>0 DEF ComposeGraphs
  <2>2. CASE ~Fail("compose")
    <3>1. /\ pc = "compose" /\ handles = {} /\ UNCHANGED <<kind, numGraphs, failures, handles>>
          /\ \/ pc' = "finalize" /\ cells' = [k \in Graphs |-> k] /\ i' = 1
             \/ pc' = "crashed" /\ UNCHANGED cells
      BY <1>17, <2>2 DEF ComposeGraphs
    <3> QED
      BY <3>1, <1>0
  <2> QED
    BY <2>1, <2>2
<1>18. CASE FinalizeGraph
  <2>1. CASE Fail("finalize")
    BY <1>18, <2>1, <1>0 DEF FinalizeGraph
  <2>2. CASE ~Fail("finalize")
    <3>1. /\ pc = "finalize" /\ i \in 1 .. numGraphs /\ handles = 1 .. i - 1
          /\ cells = [k \in Graphs |-> k] /\ UNCHANGED <<kind, numGraphs, failures, cells>>
      BY <1>18, <2>2 DEF FinalizeGraph
    <3>2. /\ pc' = IF i < numGraphs THEN "finalize" ELSE "ready"
          /\ handles' = handles \cup {i} /\ i' = i + 1
      BY <1>18, <2>2 DEF FinalizeGraph
    <3>3. handles' = 1 .. i
      BY ONLY <3>1, <3>2, <1>0
    <3> QED
      BY <3>1, <3>2, <3>3, <1>0
  <2> QED
    BY <2>1, <2>2
<1>19. CASE Destroy
  BY <1>19 DEF Destroy
<1>20. CASE FreeGraphsInfo
  BY <1>20 DEF FreeGraphsInfo
<1>21. CASE FreeContext
  BY <1>21 DEF FreeContext, FreeHandle, Free, FreeNothing
<1>22. CASE FreePower
  BY <1>22 DEF FreePower, Free, FreeNothing
<1>23. CASE FreeDevice
  BY <1>23 DEF FreeDevice, Free, FreeNothing
<1>24. CASE FreeBackend
  BY <1>24 DEF FreeBackend, FreeHandle, Free, FreeNothing
<1>25. CASE CloseLibs
  BY <1>25 DEF CloseLibs
<1> QED
  BY <1>1, <1>2, <1>3, <1>4, <1>5, <1>6, <1>7, <1>8, <1>9, <1>10, <1>11, <1>12, <1>13,
     <1>14, <1>15, <1>16, <1>17, <1>18, <1>19, <1>20, <1>21, <1>22, <1>23, <1>24, <1>25
     DEF Next

\* The invariant holds at first,
LEMMA InvInit == ASSUME Init PROVE Inv
<1>1. numGraphs \in Nat \ {0} /\ numGraphs \in BinGraphs \cup SoGraphs
  BY CountsAssumption DEF Init
<1>2. TypeOK
  BY <1>1 DEF Init, TypeOK, Building, Graphs, Resources
<1>3. PlaceInv /\ HandleInv
  BY NullAssumption DEF Init, PlaceInv, HandleInv, BinPlaces, SoPlaces, CrashCauses,
     Resources, Libs
<1>4. LiveInv /\ DepsInv
  BY DEF Init, LiveInv, DepsInv, ParentOutlivesChild, NoBackendYet, Opening, Building, Needs
<1>5. CellsInv
  BY DEF Init, CellsInv, CellsSet, Building
<1> QED
  BY <1>2, <1>3, <1>4, <1>5 DEF Inv

\* and every step keeps it.
LEMMA InvNext == ASSUME Inv, [Next]_vars PROVE Inv'
<1>1. CASE Next
  BY <1>1, TypeNext, PlaceNext, HandleNext, LiveNext, DepsNext, CellsNext DEF Inv
<1>2. CASE UNCHANGED vars
  <2>1. UNCHANGED <<kind, numGraphs, live, deps, failures, self, cells, handles, i, pc>>
    BY <1>2 DEF vars, model, engine, libraries, graphs
  <2>2. TypeOK'
    BY ONLY Inv, <2>1 DEF Inv, TypeOK, Graphs
  <2>3. PlaceInv' /\ HandleInv' /\ LiveInv'
    BY <2>1 DEF Inv, PlaceInv, HandleInv, LiveInv, CrashCauses
  <2>4. DepsInv' /\ CellsInv'
    BY <2>1 DEF Inv, DepsInv, CellsInv, ParentOutlivesChild, CellsSet, Graphs
  <2> QED
    BY <2>2, <2>3, <2>4 DEF Inv
<1> QED
  BY <1>1, <1>2

\* The invariant holds in every state of every engine's life.
THEOREM InvCorrect == Spec => []Inv
  BY InvInit, InvNext, PTL DEF Spec

-----------------------------------------------------------------------------
(* The properties of QnnLifecycle follow.                                  *)

\* The members hold only handles of their own kinds, wherever building stops.
THEOREM TypeCorrect == Spec => []TypeOK
<1>1. Inv => TypeOK
  BY DEF Inv
<1> QED
  BY <1>1, InvCorrect, PTL

\* Only a library that cannot be opened, a graph that is copied in part and a
\* context binary of several graphs end a construction or a destruction early.
THEOREM CrashCausesCorrect == Spec => []CrashCauses
<1>1. Inv => CrashCauses
  BY DEF Inv, PlaceInv
<1> QED
  BY <1>1, InvCorrect, PTL

\* Whichever step of the construction failed, nothing is freed or closed before
\* what was created on it.
THEOREM ParentOutlivesChildCorrect == Spec => []ParentOutlivesChild
<1>1. Inv => ParentOutlivesChild
  BY DEF Inv, DepsInv
<1> QED
  BY <1>1, InvCorrect, PTL

\* A destroyed engine, or one whose constructor threw, has left nothing on the
\* device.
THEOREM NoDeviceResourceSurvivesCorrect == Spec => []NoDeviceResourceSurvives
<1>1. Inv => NoDeviceResourceSurvives
  BY DEF Inv, LiveInv, NoDeviceResourceSurvives, NoBackendYet, DeviceResources
<1> QED
  BY <1>1, InvCorrect, PTL

\* An engine that is handed out can execute every graph of its model.
THEOREM ReadyCompleteCorrect == Spec => []ReadyComplete
<1>1. Inv => ReadyComplete
  BY DEF Inv, LiveInv, CellsInv, ReadyComplete, NoBackendYet, Opening, Building
<1> QED
  BY <1>1, InvCorrect, PTL

\* backendFree is given what backendCreate made, unless that failed for a model
\* library.
THEOREM BackendFreeOwnCorrect == Spec => []BackendFreeOwn
<1>1. Inv => BackendFreeOwn
  BY DEF Inv, TypeOK, PlaceInv, BackendFreeOwn, NoBackendYet, Opening
<1> QED
  BY <1>1, InvCorrect, PTL

\* A binary model's engine closes every library it opened.
THEOREM BinLibrariesClosedCorrect == Spec => []BinLibrariesClosed
<1>1. Inv => BinLibrariesClosed
  BY DEF Inv, LiveInv, BinLibrariesClosed
<1> QED
  BY <1>1, InvCorrect, PTL
=============================================================================
