---------------------------- MODULE MCOutStream ----------------------------
(* Short rows of bytes, and files with and without a buffer. *)
EXTENDS OutStream

MCChunks == {<<1>>, <<2, 3>>, <<2, 1, 3>>, <<1, 1, 2, 2, 3>>}
MCBlocks == {0, 2, 3}
=============================================================================
