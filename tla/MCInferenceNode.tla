--------------------------- MODULE MCInferenceNode ---------------------------
(* Small instances of InferenceNode for TLC. *)
EXTENDS InferenceNode, FiniteSets

ASSUME IsFiniteSet(Msg) /\ IsFiniteSet(Worker)
=============================================================================
