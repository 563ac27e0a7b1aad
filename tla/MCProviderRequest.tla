--------------------------- MODULE MCProviderRequest ---------------------------
(* ProviderRequest for TLC: every adapter over every store. *)
EXTENDS ProviderRequest

Block(told, signed) == [told |-> told, signed |-> signed]

\* Nothing, one block of each kind, and two blocks of which the second has a signature that
\* is not kept, or the first no text.
OneOrTwoBlocks ==
    {<<>>, <<Block(TRUE, FALSE)>>, <<Block(TRUE, TRUE)>>, <<Block(FALSE, TRUE)>>,
     <<Block(TRUE, TRUE), Block(TRUE, TRUE)>>, <<Block(FALSE, TRUE), Block(TRUE, TRUE)>>}
================================================================================
