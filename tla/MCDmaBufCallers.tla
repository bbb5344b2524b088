--------------------------- MODULE MCDmaBufCallers ---------------------------
(* A small instance of DmaBufCallers for TLC: the number of outputs of     *)
(* each graph of the model.                                                *)
EXTENDS DmaBufCallers

ShrinkingOutputs == <<2, 1>>
=============================================================================
