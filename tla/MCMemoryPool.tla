---------------------------- MODULE MCMemoryPool ----------------------------
(***************************************************************************)
(* MemoryPool for TLC: a pool of a dozen words and requests of one, two,   *)
(* three and six words, two of them not whole words.                       *)
(***************************************************************************)
EXTENDS MemoryPool

MCRequests == {1, 8, 11, 24}
=============================================================================
