---------------------------- MODULE MCGroupCache ----------------------------
(* Two users, alike, and two handlers, alike, with three calls to serve. *)
EXTENDS GroupCache, TLC

Symmetric == Permutations(Workers) \cup Permutations(Users)
=============================================================================
