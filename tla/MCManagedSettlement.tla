------------------------ MODULE MCManagedSettlement ------------------------
(* Small instances of ManagedSettlement. *)
EXTENDS ManagedSettlementRefinement, TLC

CONSTANTS w1, w2, s1, s2, s3, m1, m2, k1, k2, b1, b2, o1, o2

OneWorker == [s \in Slot |-> w1]
OneEach == [s \in Slot |-> IF s = s1 THEN w1 ELSE w2]
KeyEach == [m \in Msg |-> IF m = m1 THEN k1 ELSE k2]
OneKey == [m \in Msg |-> k1]
SameBody == [m \in Msg |-> b1]
OtherBody == [m \in Msg |-> IF m = m1 THEN b1 ELSE b2]
AllToW1 == [m \in Msg |-> w1]
Lifetime3 == [m \in Msg |-> 3]
Lifetime4 == [m \in Msg |-> 4]
Lifetime32 == [m \in Msg |-> IF m = m1 THEN 3 ELSE 2]
Symmetry == Permutations(Slot) \cup Permutations(Outcome)
=============================================================================
