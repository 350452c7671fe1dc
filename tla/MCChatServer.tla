---------------------------- MODULE MCChatServer ----------------------------
(***************************************************************************)
(* ChatServer for TLC.  The users are model values and nothing in the      *)
(* server depends on which is which, so they may be permuted.  Every .cfg  *)
(* sets Registered to all users or to none of those that symmetry moves.   *)
(***************************************************************************)
EXTENDS ChatServer, TLC

Symmetry == Permutations(Users)
=============================================================================
