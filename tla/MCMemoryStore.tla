--------------------------- MODULE MCMemoryStore ---------------------------
(***************************************************************************)
(* Small instances of MemoryStore.  Requests are interchangeable, and so   *)
(* are contents.                                                           *)
(***************************************************************************)
EXTENDS MemoryStore, TLC

StoreSymmetry == Permutations(Request) \cup Permutations(Content)
=============================================================================
