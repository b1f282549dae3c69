--------------------------- MODULE MCContextCache ---------------------------
(***************************************************************************)
(* Small instances of ContextCache.  Readers, writers and entities are     *)
(* each interchangeable.                                                   *)
(***************************************************************************)
EXTENDS ContextCache, TLC

RequestSymmetry == Permutations(Reader) \cup Permutations(Writer)
=============================================================================
