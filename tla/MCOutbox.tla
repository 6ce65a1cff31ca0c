------------------------------ MODULE MCOutbox ------------------------------
(* Instances of the outbox that TLC checks. *)
EXTENDS Outbox, TLC

Instances == Permutations(Procs)
=============================================================================
