------------------------------ MODULE MCMemory ------------------------------
(***************************************************************************)
(* A memory of few cells, so that fills, images and writes overlap and     *)
(* reach its end in every way.                                             *)
(***************************************************************************)
EXTENDS MemoryDevice

MCFiles == {<<>>, <<9>>, <<7, 0, 7, 0, 7, 0>>}
=============================================================================
