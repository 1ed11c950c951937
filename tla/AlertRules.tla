------------------------------ MODULE AlertRules ------------------------------
(***************************************************************************)
(* The pure part of inspector/alerter.py: which checks Alerter.evaluate     *)
(* makes of one node's metrics and in which order, when a check breaches    *)
(* its threshold, and how _check_rule and SqliteStore.update_alert_state    *)
(* together move one row of the alert_states table.                         *)
(*                                                                          *)
(* A threshold or a reading that is absent in Python (None) is None here;   *)
(* the other readings are integers.  The percentage used/total*100 is       *)
(* compared by cross-multiplication, that is without float rounding.        *)
(***************************************************************************)
EXTENDS Integers, Sequences

CONSTANTS
  None,               \* Python's None
  TempLimit,          \* alert_rules.gpu_temp_c
  MemLimit,           \* alert_rules.gpu_memory_pct
  DiskLimit,          \* alert_rules.disk_usage_pct
  UnreachableRule,    \* alert_rules.node_unreachable
  StabilityCycles     \* alert_rules.stability_cycles

Reading == Int \cup {None}

ASSUME RulesAssumption ==
  /\ None \notin Int
  /\ {TempLimit, MemLimit, DiskLimit} \subseteq Reading
  /\ UnreachableRule \in BOOLEAN
  /\ StabilityCycles \in Nat \ {0}

-----------------------------------------------------------------------------
(* What the collector reports of a node.  An unreachable node has no GPUs    *)
(* and no system metrics; a missing SystemMetric shows as disk = None.       *)

Rules == {"node_unreachable", "gpu_temp_c", "gpu_memory_pct", "disk_usage_pct"}

Gpu == [temp : Reading, used : Reading, total : Nat \cup {None}]

Sample == [reachable : BOOLEAN, gpus : Seq(Gpu), disk : Reading]

-----------------------------------------------------------------------------
(* The checks of evaluate, numbered in the order the code makes them:        *)
(* check 1 is node_unreachable; checks 2g and 2g+1 are the temperature and   *)
(* the memory of the g-th GPU; the last one is the disk.                     *)

LastCheck(s) == IF s.reachable THEN 2 * Len(s.gpus) + 2 ELSE 1

RuleOf(s, k) ==
  CASE k = 1                   -> "node_unreachable"
    [] k = 2 * Len(s.gpus) + 2 -> "disk_usage_pct"
    [] OTHER                   -> IF k % 2 = 0 THEN "gpu_temp_c" ELSE "gpu_memory_pct"

GpuOf(s, k) == s.gpus[k \div 2]

\* The check is made: its threshold is configured and its reading is there.
Checked(s, k) ==
  CASE RuleOf(s, k) = "node_unreachable" -> UnreachableRule
    [] RuleOf(s, k) = "gpu_temp_c"       -> None \notin {TempLimit, GpuOf(s, k).temp}
    [] RuleOf(s, k) = "gpu_memory_pct"   -> /\ None \notin {MemLimit, GpuOf(s, k).used}
                                            /\ GpuOf(s, k).total \notin {None, 0}
    [] RuleOf(s, k) = "disk_usage_pct"   -> None \notin {DiskLimit, s.disk}

IsBreach(s, k) ==
  CASE RuleOf(s, k) = "node_unreachable" -> ~s.reachable
    [] RuleOf(s, k) = "gpu_temp_c"       -> GpuOf(s, k).temp > TempLimit
    [] RuleOf(s, k) = "gpu_memory_pct"   ->
         100 * GpuOf(s, k).used > MemLimit * GpuOf(s, k).total
    [] RuleOf(s, k) = "disk_usage_pct"   -> s.disk > DiskLimit

\* Some check of rule r in sample s is made and breaches.
Breaches(s, r) ==
  \E k \in 1 .. LastCheck(s) : RuleOf(s, k) = r /\ Checked(s, k) /\ IsBreach(s, k)

-----------------------------------------------------------------------------
(* One row of alert_states.  A missing row reads as normal with 0 cycles.    *)

Row == [state : {"normal", "breaching", "triggered"}, cycles : Nat, triggeredAt : Reading]

NoRow == [state |-> "normal", cycles |-> 0, triggeredAt |-> None]

\* The upsert: triggered_at is now for a triggered row, else what it was.
Upsert(row, state, cycles, now) ==
  [state |-> state, cycles |-> cycles,
   triggeredAt |-> IF state = "triggered" THEN now ELSE row.triggeredAt]

-----------------------------------------------------------------------------
(* Variants with a bug a change of this code might bring in; no action uses   *)
(* them, the mutation runs put each in the place of its original.             *)

TriggersAgain(row, breach) == breach /\ row.cycles + 1 >= StabilityCycles

RecoversAfterAnyBreach(row, breach) == ~breach /\ row.state # "normal"

RecoversOnlyOldAlert(row, breach) ==
  ~breach /\ row.state = "triggered" /\ row.cycles > StabilityCycles

StateAfterWithThreshold(row, breach, threshold) ==
  CASE ~breach                                        -> "normal"
    [] breach /\ (row.state = "triggered"
                    \/ row.cycles + 1 >= threshold)    -> "triggered"
    [] OTHER                                          -> "breaching"

StateAfterTooEarly(row, breach) == StateAfterWithThreshold(row, breach, StabilityCycles - 1)
StateAfterTooLate(row, breach) == StateAfterWithThreshold(row, breach, StabilityCycles + 1)

CyclesAfterWithoutReset(row, breach) == IF breach THEN row.cycles + 1 ELSE row.cycles
CyclesAfterCountingDown(row, breach) == IF breach THEN row.cycles + 1 ELSE row.cycles - 1

-----------------------------------------------------------------------------
(* One check of _check_rule. *)

\* The check reports alert_triggered / alert_recovered.
Triggers(row, breach) ==
  breach /\ row.state # "triggered" /\ row.cycles + 1 >= StabilityCycles

Recovers(row, breach) == ~breach /\ row.state = "triggered"

StateAfter(row, breach) ==
  CASE ~breach                                          -> "normal"
    [] breach /\ (row.state = "triggered"
                    \/ row.cycles + 1 >= StabilityCycles) -> "triggered"
    [] OTHER                                            -> "breaching"

CyclesAfter(row, breach) == IF breach THEN row.cycles + 1 ELSE 0

CheckRule(row, breach, now) ==
  Upsert(row, StateAfter(row, breach), CyclesAfter(row, breach), now)

=============================================================================
