----------------------------- MODULE MCTensorIO -----------------------------
(* An instance of TensorIO for TLC, with counters of 6 bits.               *)
EXTENDS TensorIO

\* One tensor for each thing that can matter about it: its type, a size that
\* wraps (8 * 9 = 64 + 8), a size of zero, no shape, no name.
T(type, dims) == [type |-> type, dims |-> dims, named |-> TRUE, axis |-> FALSE]
Image == [T("F32", <<2, 3>>) EXCEPT !.axis = TRUE]      \* 24 bytes
Mask == T("U8", <<2, 3>>)                               \* 6 bytes
Pair == T("U16", <<2>>)                                 \* 4 bytes
Huge == T("F64", <<3, 3>>)                              \* 72 bytes, counted 8
Wrapped == T("U8", <<13, 5, 2>>)                        \* 130 bytes, counted 2
Hollow == T("U8", <<0, 3>>)
Flag == T("BOOL_8", <<2>>)
Fixed == T("SFIXED_16", <<2>>)
Shapeless == T("U8", <<>>)
Nameless == [T("U8", <<2>>) EXCEPT !.named = FALSE]

InputLists ==
    {<<>>, <<Image>>, <<Image, Mask>>, <<Mask, Pair, Mask>>, <<Huge, Pair>>,
     <<Pair, Wrapped, Hollow>>, <<Mask, Fixed>>, <<Pair, Shapeless>>,
     <<Nameless>>}
OutputLists ==
    {<<>>, <<Pair>>, <<Image, Mask>>, <<Mask, Flag>>, <<Fixed>>, <<Huge, Shapeless>>}

OneGraph(ins, outs) == [inputs |-> ins, outputs |-> outs]
ModelSet ==
    {<<OneGraph(a, b)>> : a \in InputLists, b \in OutputLists}
        \cup {<<OneGraph(<<Image, Mask>>, <<Pair>>), OneGraph(a, b)>> :
                  a \in {<<Image, Mask>>, <<Mask, Image>>, <<Image>>},
                  b \in {<<Image, Mask>>, <<Mask, Flag>>}}

\* What some model expects, one less, one more, and nothing.
Lengths == {0, 4, 8, 12, 15, 16, 17, 24, 29, 30, 31}
=============================================================================
