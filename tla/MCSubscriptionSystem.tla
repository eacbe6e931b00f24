------------------------ MODULE MCSubscriptionSystem ------------------------
(* Instances of SubscriptionSystem, with its properties and Claims, for TLC. *)
EXTENDS Claims, SubscriptionInvariants, LedgerRefinement, TLC

CONSTANTS u1, u2, s1, s2, s3, m1, m2

Users == {u1, u2}
\* Two sessions of one payer; a third that cannot be identified.
PayerOf(s) == IF s = s3 THEN None ELSE u1
MCPayer == [s \in Session |-> PayerOf(s)]
MCSender == [m \in Message |-> u1]

Symmetry == Permutations(SubId) \cup Permutations(Task)

=============================================================================
