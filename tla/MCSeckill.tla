----------------------------- MODULE MCSeckill -----------------------------
(* Requests of two users for one product or two; the config takes two.     *)
EXTENDS Seckill

CONSTANTS r1, r2, r3, u1, u2, q1, q2, c1, c2, k1, k2

Senders == [r \in Requests |-> IF r = r2 THEN u2 ELSE u1]
Wanted == [r \in Requests |-> IF r = r3 THEN q2 ELSE q1]
WrittenTo == [r \in Requests |-> IF r = r3 THEN k2 ELSE k1]
OwnChannel == [p \in Products |-> IF p = q1 THEN c1 ELSE c2]
=============================================================================
