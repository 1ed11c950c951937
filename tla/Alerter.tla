-------------------------------- MODULE Alerter --------------------------------
(***************************************************************************)
(* Alerter.evaluate of inspector/alerter.py over the alert_states table.     *)
(*                                                                           *)
(* One call evaluates one node: it makes the checks of AlertRules one after  *)
(* the other, and each reads its row, decides, appends its event to a local  *)
(* list and writes the row back.  A store call never suspends (nothing is    *)
(* awaited while the store's lock is held, so the lock is always free), so   *)
(* one check is one step; but every row is committed on its own, so a crash  *)
(* or an sqlite error can fall between two checks.  The table survives it,   *)
(* the local list does not.                                                  *)
(***************************************************************************)
EXTENDS AlertRules, FiniteSets

CONSTANTS
  Nodes,          \* the configured nodes
  Gpus,           \* how many GPUs a node has
  Samples,        \* the node metrics the collector may report
  MaxCycles       \* bound: evaluations started, of all nodes together

Alerts == Nodes \X Rules

(* A call of evaluate: its node, its metrics, the number of its next check,   *)
(* and the list of the events it made.                                        *)
Event == [type : {"alert_triggered", "alert_recovered"}, rule : Rules]

Call == [node : Nodes, sample : Samples, at : Nat \ {0}, events : Seq(Event)]

ASSUME AlerterAssumption ==
  /\ Samples \subseteq Sample
  /\ Gpus \in [Nodes -> Nat]
  /\ MaxCycles \in Nat
  /\ None \notin Call

VARIABLES
  alertStates,    \* the table: a Row for each (node, rule)
  eval,           \* the call of evaluate in progress, or None
  cycle,          \* per node, evaluations started: the time stamps of the rows
  (* History, read by no action. *)
  raised,         \* alert_triggered events made for each (node, rule)
  cleared,        \* alert_recovered events made for each (node, rule)
  hotCycles,      \* the cycles whose checks breached since the last good check
  streak          \* consecutive completed cycles whose sample breached

systemVars == <<alertStates, eval, cycle>>
historyVars == <<raised, cleared, hotCycles, streak>>
vars == <<systemVars, historyVars>>

\* Every variable has its type, the rows of the table and the local state of a
\* call of evaluate included.
TypeOK ==
  /\ alertStates \in [Alerts -> Row]
  /\ eval \in Call \cup {None}
  /\ cycle \in [Nodes -> Nat]
  /\ raised \in [Alerts -> Nat]
  /\ cleared \in [Alerts -> Nat]
  /\ hotCycles \in [Alerts -> SUBSET Nat]
  /\ streak \in [Alerts -> Nat]

Init ==
  /\ alertStates = [a \in Alerts |-> NoRow]
  /\ eval = None
  /\ cycle = [n \in Nodes |-> 0]
  /\ raised = [a \in Alerts |-> 0]
  /\ cleared = [a \in Alerts |-> 0]
  /\ hotCycles = [a \in Alerts |-> {}]
  /\ streak = [a \in Alerts |-> 0]

-----------------------------------------------------------------------------

\* The evaluations so far, for the bound.
Begun == UNION {{n} \X (1 .. cycle[n]) : n \in Nodes}

\* nvidia-smi reports the node's GPUs, or fewer if it fails.
Evaluate(n) ==
  /\ eval = None
  /\ Cardinality(Begun) < MaxCycles
  /\ \E s \in {t \in Samples : Len(t.gpus) <= Gpus[n]} :
       eval' = [node |-> n, sample |-> s, at |-> 1, events |-> <<>>]
  /\ cycle' = [cycle EXCEPT ![n] = @ + 1]
  /\ UNCHANGED <<alertStates, historyVars>>

\* The alert the next check is about, and the events that check makes.
Current == <<eval.node, RuleOf(eval.sample, eval.at)>>

EventsOf(row, breach, rule) ==
  IF Triggers(row, breach) THEN <<[type |-> "alert_triggered", rule |-> rule]>>
  ELSE IF Recovers(row, breach) THEN <<[type |-> "alert_recovered", rule |-> rule]>>
  ELSE <<>>

Check ==
  LET a      == Current
      row    == alertStates[a]
      breach == IsBreach(eval.sample, eval.at)
      now    == cycle[eval.node]
  IN
  /\ eval # None
  /\ eval.at <= LastCheck(eval.sample)
  /\ Checked(eval.sample, eval.at)
  /\ alertStates' = [alertStates EXCEPT ![a] = CheckRule(row, breach, now)]
  /\ eval' = [eval EXCEPT !.at = @ + 1,
                          !.events = @ \o EventsOf(row, breach, a[2])]
  /\ raised' = IF Triggers(row, breach) THEN [raised EXCEPT ![a] = @ + 1] ELSE raised
  /\ cleared' = IF Recovers(row, breach) THEN [cleared EXCEPT ![a] = @ + 1] ELSE cleared
  /\ hotCycles' = [hotCycles EXCEPT ![a] = IF breach THEN @ \cup {now} ELSE {}]
  /\ UNCHANGED <<cycle, streak>>

\* No threshold, or no reading: the check returns without touching the table.
SkipCheck ==
  /\ eval # None
  /\ eval.at <= LastCheck(eval.sample)
  /\ ~Checked(eval.sample, eval.at)
  /\ eval' = [eval EXCEPT !.at = @ + 1]
  /\ UNCHANGED <<alertStates, cycle, historyVars>>

Return ==
  /\ eval # None
  /\ eval.at > LastCheck(eval.sample)
  /\ eval' = None
  /\ streak' = [a \in Alerts |->
                  IF a[1] # eval.node THEN streak[a]
                  ELSE IF Breaches(eval.sample, a[2]) THEN streak[a] + 1 ELSE 0]
  /\ UNCHANGED <<alertStates, cycle, raised, cleared, hotCycles>>

\* An sqlite error raised through evaluate, or a crash and restart.
Abort ==
  /\ eval # None
  /\ eval' = None
  /\ streak' = [a \in Alerts |-> IF a[1] = eval.node THEN 0 ELSE streak[a]]
  /\ UNCHANGED <<alertStates, cycle, raised, cleared, hotCycles>>

Next ==
  \/ \E n \in Nodes : Evaluate(n)
  \/ Check
  \/ SkipCheck
  \/ Return
  \/ Abort

Spec == Init /\ [][Next]_vars

-----------------------------------------------------------------------------
(* Properties. *)

\* The state column and the debounce counter of a row always agree, in every
\* order of good and bad readings and across crashes: normal has counted
\* nothing, breaching less than stability_cycles, triggered at least that.
RowsConsistent ==
  \A a \in Alerts :
    LET row == alertStates[a] IN
    /\ row.state = "normal" <=> row.cycles = 0
    /\ row.state = "breaching" <=> row.cycles \in 1 .. StabilityCycles - 1
    /\ row.state = "triggered" <=> row.cycles >= StabilityCycles

\* The persisted state remembers what was reported: an alert stands in the
\* table exactly while one more trigger than recovery was made for it, even
\* though the process may have died between any two commits.
StandingIsRecorded ==
  \A a \in Alerts :
    raised[a] = cleared[a] + (IF alertStates[a].state = "triggered" THEN 1 ELSE 0)

\* The alerter implements the lifecycle its readers are promised: an alert is
\* reported once, and again only after its recovery was reported.
Lifecycle == INSTANCE AlertLifecycle

LifecycleSpec == Lifecycle!Spec

DistinctCycles(a) ==
  alertStates[a].state = "triggered" => Cardinality(hotCycles[a]) >= StabilityCycles

\* Debounce: whenever an alert stands, stability_cycles different cycles
\* have breached it since its last good check (_check_rule's breach_cycles).
TriggeredByDistinctCycles == \A a \in Alerts : DistinctCycles(a)

StandsOnceSustained(a) ==
  /\ streak[a] >= StabilityCycles
  /\ eval = None \/ eval.node # a[1]
  => alertStates[a].state = "triggered"

\* No alert is missed: after stability_cycles completed cycles in a row in
\* which some reading of the node broke the rule, the alert stands.
SustainedBreachStands == \A a \in Alerts : StandsOnceSustained(a)

\* The GPUs of a node share its rows, so both can only be said of the nodes with
\* one GPU at most, whatever the nodes beside them have.
OneGpuAlerts == {a \in Alerts : Gpus[a[1]] <= 1}

\* Debounce, of the alerts of a node with one GPU at most.
OneGpuDebounced == \A a \in OneGpuAlerts : DistinctCycles(a)

\* No alert of a node with one GPU at most is missed.
OneGpuBreachStands == \A a \in OneGpuAlerts : StandsOnceSustained(a)

\* What a call of evaluate is about to report is what it has committed: the
\* last event it holds for a rule agrees with the row, also when several GPUs
\* move the same row back and forth within the call.
ReportMatchesTable ==
  eval # None =>
    \A i \in DOMAIN eval.events :
      LET e == eval.events[i] IN
      (\A j \in i + 1 .. Len(eval.events) : eval.events[j].rule # e.rule)
        => (e.type = "alert_triggered"
              <=> alertStates[eval.node, e.rule].state = "triggered")

=============================================================================
