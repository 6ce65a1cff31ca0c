------------------------------- MODULE MCCall -------------------------------
(* Instances of the call service that TLC checks. *)
EXTENDS Call, TLC

CONSTANTS alice, bob, carol, v1, v2

Direct == [conv |-> v1, caller |-> alice, callees |-> {bob}, direct |-> TRUE]
Onward == [conv |-> v1, caller |-> bob, callees |-> {carol}, direct |-> TRUE]
Group  == [conv |-> v2, caller |-> alice, callees |-> {bob, carol}, direct |-> FALSE]

OneGroup == {Group}
TwoDirect == {Direct, Onward}
Symmetric == Permutations(Handlers)
=============================================================================
