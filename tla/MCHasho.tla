------------------------------ MODULE MCHasho ------------------------------
(* A small instance of Hasho for TLC: two keys share a bucket.             *)
EXTENDS Hasho

CONSTANTS k1, k2, k3

ThreeKeys == {k1, k2, k3}
TwoBuckets == 0 .. 1
Collide == [x \in ThreeKeys |-> IF x = k3 THEN 1 ELSE 0]
=============================================================================
