------------------------------ MODULE MCMySql ------------------------------
(***************************************************************************)
(* The MySQL backend with few users and row ids.                           *)
(***************************************************************************)
EXTENDS MySqlStorage

\* Bounds: two conversations of three users, two messages to page between.
Rows == [convs |-> 2, messages |-> 2, deliveries |-> 2, files |-> 1]

Symmetry == Permutations(Users)
=============================================================================
