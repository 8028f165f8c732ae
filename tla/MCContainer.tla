---------------------------- MODULE MCContainer -----------------------------
(* Small instances of Container. *)
EXTENDS Container

TwoPieces == {<<1>>, <<2, 1>>}
OnePiece  == {<<2, 1>>}
Enough    == 100   \* more than a run ever writes
Full      == 9     \* a header, a blob's header and one byte
=============================================================================
