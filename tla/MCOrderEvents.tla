--------------------------- MODULE MCOrderEvents ---------------------------
(* One order of two items, two consumers where they race.                  *)
EXTENDS OrderEvents, TLC

CONSTANTS o1, p1, p2, oc, d1, d2, s1, s2, nc

OneOrder == {o1}
TwoItems == [o \in OneOrder |-> {p1, p2}]
\* Only marks of the delay consumer expire: those of the other two guard
\* nothing that a property is about.
Lapses == [k \in Lapsing |-> IF k = "cancel" THEN 1 ELSE 0]
Sym == Permutations({p1, p2}) \cup Permutations({d1, d2}) \cup Permutations({s1, s2})
=============================================================================
