----------------------------- MODULE MCDelivery -----------------------------
(* Two members who write to each other and one who only reads.             *)
EXTENDS Delivery, TLC

CONSTANTS alice, bob, carol, m1, m2

BothWrite == (m1 :> alice) @@ (m2 :> bob)
=============================================================================
