--------------------------- MODULE MCDmaBufCache ---------------------------
(* Small instances of DmaBufCache for TLC: the number of outputs of each   *)
(* graph of the model.                                                     *)
EXTENDS DmaBufCache

GrowingOutputs == <<2, 3>>
OneGraph == <<2>>
=============================================================================
