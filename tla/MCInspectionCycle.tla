--------------------------- MODULE MCInspectionCycle ---------------------------
(* Instances of InspectionCycle for TLC.                                       *)
EXTENDS InspectionCycle, TLC

CONSTANTS n1, n2, j1, j2

OneNode == <<n1>>
TwoNodes == <<n1, n2>>

\* Version k of the configuration allows k retries.
RetriesOfVersion == [v \in Versions |-> v]

TwoRetries == [v \in Versions |-> 2]

\* From version 2 on the notifier cannot format the first alert of node n1.
FirstAlertBroken ==
  [v \in Versions |-> IF v = 1 THEN {} ELSE {<<n1, 1>>}]

AllFormattable == [v \in Versions |-> {}]

Symmetry == Permutations(Jobs)

=============================================================================
