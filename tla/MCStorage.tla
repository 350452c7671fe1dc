----------------------------- MODULE MCStorage -----------------------------
(***************************************************************************)
(* The memory backend on small tables.  Two users find and reuse their     *)
(* conversation, three make groups and pairs; every capacity is reached.   *)
(***************************************************************************)
EXTENDS MemoryStorage

Symmetry == Permutations(Users)
=============================================================================
