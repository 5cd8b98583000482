---------------------------- MODULE MCSizeStore -----------------------------
EXTENDS SizeStore
CONSTANTS p1, p2, l1, l2
MCHost == [l \in Listings |-> IF l = l1 THEN p1 ELSE p2]
MCSizeOf == [d \in Docs |-> [v \in Versions |-> 10 * d + v]]
=============================================================================
