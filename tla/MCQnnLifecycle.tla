--------------------------- MODULE MCQnnLifecycle ---------------------------
(* An instance of QnnLifecycle for TLC: every library call may fail.       *)
EXTENDS QnnLifecycle

AllFaults == FaultKinds
=============================================================================
