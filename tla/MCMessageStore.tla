--------------------------- MODULE MCMessageStore ---------------------------
(* Instances of the message store that TLC checks. *)
EXTENDS MessageStore, TLC

CONSTANTS m1, m2, s1, s2, s3

OneTopic  == [accepted |-> <<m1, m2>>]
SystemLog == [system |-> <<s1, s2, s3>>]
Replicas  == Permutations(Instances)
=============================================================================
