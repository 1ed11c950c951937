---------------------------- MODULE AlertLifecycle ----------------------------
(***************************************************************************)
(* What the alerter promises to whoever reads its notifications: for every  *)
(* alert the events it reports are triggered, recovered, triggered, ...     *)
(* An alert is reported triggered once, and again only after it has been    *)
(* reported recovered; a recovery is reported only for an alert that is     *)
(* standing.  raised and cleared count the two kinds of event per alert.    *)
(***************************************************************************)
EXTENDS Naturals

CONSTANT Alerts   \* the alerts, one per node and rule

VARIABLES raised, cleared

lifecycleVars == <<raised, cleared>>

Standing(a) == raised[a] = cleared[a] + 1

Init == /\ raised = [a \in Alerts |-> 0]
        /\ cleared = [a \in Alerts |-> 0]

Trigger(a) == /\ raised[a] = cleared[a]
              /\ raised' = [raised EXCEPT ![a] = @ + 1]
              /\ UNCHANGED cleared

Recover(a) == /\ Standing(a)
              /\ cleared' = [cleared EXCEPT ![a] = @ + 1]
              /\ UNCHANGED raised

Next == \E a \in Alerts : Trigger(a) \/ Recover(a)

Spec == Init /\ [][Next]_lifecycleVars

=============================================================================
