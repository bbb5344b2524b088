------------------------- MODULE MCInferenceManager -------------------------
(* An instance of InferenceManager for TLC.                                *)
EXTENDS InferenceManager

NetSet ==
    {[type |-> t, bytes |-> b, outputs |-> o] :
         t \in {"uint8", "int32"}, b \in {2},
         o \in {<<>>, <<"uint8">>, <<"float32", "uint8">>,
                <<"float32", "int32", "uint8">>}}
=============================================================================
