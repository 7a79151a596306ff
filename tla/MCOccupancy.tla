---------------------------- MODULE MCOccupancy ----------------------------
(* Small instances of Occupancy: two Clients, two processes on the first.   *)
EXTENDS Occupancy, TLC

CONSTANTS a, b, a1, a2, b1

TwoClients == {a, b}
ThreeProcs == {a1, a2, b1}
TwoProcs == {a1, b1}
HostOfThree == [p \in ThreeProcs |-> IF p = b1 THEN b ELSE a]
HostOfTwo == [p \in TwoProcs |-> IF p = b1 THEN b ELSE a]

\* The two processes of one Client are interchangeable.
SameHost == Permutations({a1, a2})
=============================================================================
