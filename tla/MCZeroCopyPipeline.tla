------------------------- MODULE MCZeroCopyPipeline -------------------------
(* An instance of ZeroCopyPipeline for TLC.                                *)
EXTENDS ZeroCopyPipeline
=============================================================================
