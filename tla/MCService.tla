------------------------------- MODULE MCService -------------------------------
(* Instances of Service for TLC: a version that watches every alert, one in    *)
(* which a rule is switched off, and one that does not load.                   *)
EXTENDS Service

CONSTANTS a1, a2, all, one, broken

MCAlerts == {a1, a2}
MCVersions == {all, one, broken}
MCValid == {all, one}
MCWatched == [v \in MCValid |-> IF v = all THEN MCAlerts ELSE {a1}]

=============================================================================
