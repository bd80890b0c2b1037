--------------------------- MODULE MCTripleBuffer ---------------------------
(***************************************************************************)
(* TripleBuffer for TLC.  Two chunks are enough for a torn value, and four *)
(* publications let every slot be each thread's slot more than once.       *)
(***************************************************************************)
EXTENDS TripleBuffer

MCChunks == {1, 2}
=============================================================================
