---------------------------- MODULE AlerterProofs ----------------------------
(***************************************************************************)
(* Proofs about Alerter: type correctness, the consistency of the rows, the *)
(* agreement of the table with the reported events, the refinement of       *)
(* AlertLifecycle, and the debounce in both directions.  They hold for      *)
(* every set of nodes and samples and every choice of thresholds; the       *)
(* debounce is that of the nodes with at most one GPU, because the GPUs of  *)
(* a node share one row and each of them counts as a cycle.                 *)
(***************************************************************************)
EXTENDS Alerter, FiniteSetTheorems, TLAPS

\* A check reports events of the right type, at most one.
LEMMA EventsOfType ==
  ASSUME NEW row, NEW breach, NEW rule \in Rules
  PROVE  EventsOf(row, breach, rule) \in Seq(Event)
<1>1. ASSUME NEW t \in {"alert_triggered", "alert_recovered"}
      PROVE  <<[type |-> t, rule |-> rule]>> \in Seq(Event)
  BY DEF Event
<1>2. <<>> \in Seq(Event)
  OBVIOUS
<1> QED
  BY <1>1, <1>2 DEF EventsOf

\* The alert a check is about is one of the node that is evaluated.
LEMMA CurrentType ==
  ASSUME TypeOK, eval # None
  PROVE  Current \in Alerts /\ Current[1] = eval.node /\ Current[2] \in Rules
  BY DEF TypeOK, Call, Current, Alerts, RuleOf, Rules

\* A call of evaluate that goes on to its next check is still one.
LEMMA CallStep ==
  ASSUME NEW c \in Call, NEW events \in Seq(Event)
  PROVE  /\ [c EXCEPT !.at = c.at + 1] \in Call
         /\ [c EXCEPT !.at = c.at + 1, !.events = events] \in Call
<1>1. [c EXCEPT !.at = c.at + 1] \in Call
  <2>1. c.at + 1 \in Nat \ {0}
    BY DEF Call
  <2> QED
    BY <2>1 DEF Call
<1>2. [c EXCEPT !.at = c.at + 1, !.events = events] \in Call
  <2>1. ASSUME NEW k \in Nat \ {0}
        PROVE  [c EXCEPT !.at = k, !.events = events] \in Call
    BY DEF Call
  <2>2. c.at + 1 \in Nat \ {0}
    BY DEF Call
  <2> QED
    BY <2>1, <2>2
<1> QED
  BY <1>1, <1>2

\* Every reachable state is well typed: the rows of alert_states, the running
\* call of evaluate and the histories keep their types.
THEOREM TypeCorrect == Spec => []TypeOK
<1>1. Init => TypeOK
  BY DEF Init, TypeOK, Alerts, NoRow, Row, Reading, Rules
<1>2. TypeOK /\ [Next]_vars => TypeOK'
  <2> SUFFICES ASSUME TypeOK, [Next]_vars PROVE TypeOK'
    OBVIOUS
  <2> USE DEF TypeOK
  <2>1. ASSUME NEW n \in Nodes, Evaluate(n) PROVE TypeOK'
    BY <2>1 DEF Evaluate, Call, historyVars
  <2>2. CASE Check
    <3> DEFINE a == Current
               breach == IsBreach(eval.sample, eval.at)
               now == cycle[eval.node]
    <3>1. /\ eval \in Call
          /\ a \in Alerts
          /\ a[2] \in Rules
          /\ now \in Nat
      BY <2>2, CurrentType DEF Check, Call
    <3>2. CheckRule(alertStates[a], breach, now) \in Row
      <4>1. alertStates[a] \in Row
        BY <3>1
      <4>2. CASE breach
        BY <4>1, <4>2, <3>1 DEF CheckRule, Upsert, StateAfter, CyclesAfter, Row, Reading
      <4>3. CASE ~breach
        BY <4>1, <4>3, <3>1 DEF CheckRule, Upsert, StateAfter, CyclesAfter, Row, Reading
      <4> QED BY <4>2, <4>3
    <3>3. EventsOf(alertStates[a], breach, a[2]) \in Seq(Event)
      BY <3>1, EventsOfType
    <3>4. alertStates' \in [Alerts -> Row]
      BY <2>2, <3>1, <3>2 DEF Check
    <3>5. eval' \in Call
      <4>1. eval' = [eval EXCEPT !.at = eval.at + 1,
                                 !.events = eval.events \o EventsOf(alertStates[a], breach, a[2])]
        BY <2>2 DEF Check
      <4>2. eval.events \o EventsOf(alertStates[a], breach, a[2]) \in Seq(Event)
        <5>1. eval.events \in Seq(Event)
          BY <3>1 DEF Call
        <5> HIDE DEF a, breach
        <5> QED BY <5>1, <3>3
      <4> QED
        BY <3>1, <4>1, <4>2, CallStep
    <3>6. /\ raised' \in [Alerts -> Nat]
          /\ cleared' \in [Alerts -> Nat]
          /\ hotCycles' \in [Alerts -> SUBSET Nat]
      BY <2>2, <3>1 DEF Check
    <3> QED
      BY <2>2, <3>4, <3>5, <3>6 DEF Check
  <2>3. CASE SkipCheck
    <3>1. eval \in Call
      BY <2>3 DEF SkipCheck
    <3>2. eval' = [eval EXCEPT !.at = eval.at + 1]
      BY <2>3 DEF SkipCheck
    <3>3. eval' \in Call
      BY <3>1, <3>2, CallStep DEF Call
    <3> QED
      BY <2>3, <3>3 DEF SkipCheck, historyVars
  <2>4. CASE Return
    BY <2>4 DEF Return
  <2>5. CASE Abort
    BY <2>5 DEF Abort
  <2>6. CASE UNCHANGED vars
    BY <2>6 DEF vars, systemVars, historyVars
  <2> QED
    BY <2>1, <2>2, <2>3, <2>4, <2>5, <2>6 DEF Next
<1> QED
  BY <1>1, <1>2, PTL DEF Spec

-----------------------------------------------------------------------------
(* The rows and the reports. *)

\* Only Check writes the table or the counters of events.
LEMMA OnlyCheckWrites ==
  ASSUME [Next]_vars, ~Check
  PROVE  UNCHANGED <<alertStates, raised, cleared>>
  BY DEF Next, Evaluate, SkipCheck, Return, Abort, vars, systemVars, historyVars

\* What Check does to the row and the counters of one alert.
LEMMA CheckEffect ==
  ASSUME TypeOK, Check, NEW b \in Alerts
  PROVE  \/ /\ alertStates'[b] = alertStates[b]
            /\ raised'[b] = raised[b]
            /\ cleared'[b] = cleared[b]
         \/ \E breach \in BOOLEAN :
              /\ alertStates'[b].state = StateAfter(alertStates[b], breach)
              /\ alertStates'[b].cycles = CyclesAfter(alertStates[b], breach)
              /\ raised'[b] = raised[b] + IF Triggers(alertStates[b], breach) THEN 1 ELSE 0
              /\ cleared'[b] = cleared[b] + IF Recovers(alertStates[b], breach) THEN 1 ELSE 0
<1> DEFINE a == Current
           hot == IsBreach(eval.sample, eval.at)
<1>1. /\ a \in Alerts
      /\ raised \in [Alerts -> Nat]
      /\ cleared \in [Alerts -> Nat]
      /\ alertStates \in [Alerts -> Row]
  BY CurrentType DEF Check, TypeOK
<1>2. /\ alertStates' = [alertStates EXCEPT ![a] = CheckRule(alertStates[a], hot, cycle[eval.node])]
      /\ raised' = IF Triggers(alertStates[a], hot) THEN [raised EXCEPT ![a] = @ + 1] ELSE raised
      /\ cleared' = IF Recovers(alertStates[a], hot) THEN [cleared EXCEPT ![a] = @ + 1] ELSE cleared
  BY DEF Check
<1> HIDE DEF a
<1>3. CASE b # a
  BY <1>1, <1>2, <1>3
<1>4. CASE b = a /\ hot
  <2>1. /\ alertStates'[b].state = StateAfter(alertStates[b], TRUE)
        /\ alertStates'[b].cycles = CyclesAfter(alertStates[b], TRUE)
    BY <1>1, <1>2, <1>4 DEF CheckRule, Upsert, StateAfter, CyclesAfter
  <2>2. /\ raised'[b] = raised[b] + IF Triggers(alertStates[b], TRUE) THEN 1 ELSE 0
        /\ cleared'[b] = cleared[b] + IF Recovers(alertStates[b], TRUE) THEN 1 ELSE 0
    BY <1>1, <1>2, <1>4 DEF Triggers, Recovers
  <2> QED
    BY <2>1, <2>2
<1>5. CASE b = a /\ ~hot
  <2>1. /\ alertStates'[b].state = StateAfter(alertStates[b], FALSE)
        /\ alertStates'[b].cycles = CyclesAfter(alertStates[b], FALSE)
    BY <1>1, <1>2, <1>5 DEF CheckRule, Upsert, StateAfter, CyclesAfter
  <2>2. /\ raised'[b] = raised[b] + IF Triggers(alertStates[b], FALSE) THEN 1 ELSE 0
        /\ cleared'[b] = cleared[b] + IF Recovers(alertStates[b], FALSE) THEN 1 ELSE 0
    BY <1>1, <1>2, <1>5 DEF Triggers, Recovers
  <2> QED
    BY <2>1, <2>2
<1> QED
  BY <1>3, <1>4, <1>5

\* The state column and breach_cycles agree in every reachable state, whatever
\* the readings and wherever a crash or an error falls.
THEOREM RowsAreConsistent == Spec => []RowsConsistent
<1>1. Init => RowsConsistent
  BY RulesAssumption DEF Init, RowsConsistent, NoRow
<1>2. TypeOK /\ RowsConsistent /\ [Next]_vars => RowsConsistent'
  <2> SUFFICES ASSUME TypeOK, RowsConsistent, [Next]_vars PROVE RowsConsistent'
    OBVIOUS
  <2>1. CASE ~Check
    BY <2>1, OnlyCheckWrites DEF RowsConsistent
  <2>2. CASE Check
    <3> SUFFICES ASSUME NEW b \in Alerts
                 PROVE  LET row == alertStates'[b] IN
                        /\ row.state = "normal" <=> row.cycles = 0
                        /\ row.state = "breaching" <=> row.cycles \in 1 .. StabilityCycles - 1
                        /\ row.state = "triggered" <=> row.cycles >= StabilityCycles
      BY DEF RowsConsistent
    <3>1. alertStates[b] \in Row
      BY DEF TypeOK
    <3>2. CASE alertStates'[b] = alertStates[b]
      BY <3>2 DEF RowsConsistent
    <3>3. ASSUME NEW breach \in BOOLEAN,
                 alertStates'[b].state = StateAfter(alertStates[b], breach),
                 alertStates'[b].cycles = CyclesAfter(alertStates[b], breach)
          PROVE  LET row == alertStates'[b] IN
                 /\ row.state = "normal" <=> row.cycles = 0
                 /\ row.state = "breaching" <=> row.cycles \in 1 .. StabilityCycles - 1
                 /\ row.state = "triggered" <=> row.cycles >= StabilityCycles
      BY <3>1, <3>3, RulesAssumption DEF RowsConsistent, StateAfter, CyclesAfter, Row
    <3> QED
      BY <2>2, <3>2, <3>3, CheckEffect
  <2> QED
    BY <2>1, <2>2
<1> QED
  BY <1>1, <1>2, TypeCorrect, PTL DEF Spec

\* The persisted state never forgets nor invents a report.
THEOREM StandingRecorded == Spec => []StandingIsRecorded
<1>1. Init => StandingIsRecorded
  BY DEF Init, StandingIsRecorded, NoRow
<1>2. TypeOK /\ StandingIsRecorded /\ [Next]_vars => StandingIsRecorded'
  <2> SUFFICES ASSUME TypeOK, StandingIsRecorded, [Next]_vars PROVE StandingIsRecorded'
    OBVIOUS
  <2>1. CASE ~Check
    BY <2>1, OnlyCheckWrites DEF StandingIsRecorded
  <2>2. CASE Check
    <3> SUFFICES ASSUME NEW b \in Alerts
                 PROVE  raised'[b] = cleared'[b] +
                          (IF alertStates'[b].state = "triggered" THEN 1 ELSE 0)
      BY DEF StandingIsRecorded
    <3>1. /\ raised[b] \in Nat
          /\ cleared[b] \in Nat
          /\ raised[b] = cleared[b] + (IF alertStates[b].state = "triggered" THEN 1 ELSE 0)
      BY DEF TypeOK, StandingIsRecorded
    <3> QED
      BY <2>2, <3>1, CheckEffect DEF StateAfter, Triggers, Recovers
  <2> QED
    BY <2>1, <2>2
<1> QED
  BY <1>1, <1>2, TypeCorrect, PTL DEF Spec

\* Alerter implements AlertLifecycle: every step reports nothing, or triggers
\* an alert that is not standing, or recovers one that is.
THEOREM ImplementsLifecycle == Spec => LifecycleSpec
<1>1. Init => Lifecycle!Init
  BY DEF Init, Lifecycle!Init
<1>2. TypeOK /\ StandingIsRecorded /\ [Next]_vars => [Lifecycle!Next]_(Lifecycle!lifecycleVars)
  <2> SUFFICES ASSUME TypeOK, StandingIsRecorded, [Next]_vars
               PROVE  Lifecycle!Next \/ UNCHANGED <<raised, cleared>>
    BY DEF Lifecycle!lifecycleVars
  <2>1. CASE ~Check
    BY <2>1, OnlyCheckWrites
  <2>2. CASE Check
    <3> DEFINE a == Current
               row == alertStates[a]
               hot == IsBreach(eval.sample, eval.at)
    <3>1. /\ a \in Alerts
          /\ raised[a] = cleared[a] + (IF row.state = "triggered" THEN 1 ELSE 0)
          /\ raised[a] \in Nat /\ cleared[a] \in Nat
      BY <2>2, CurrentType DEF Check, TypeOK, StandingIsRecorded
    <3>2. /\ raised' = IF Triggers(row, hot) THEN [raised EXCEPT ![a] = @ + 1] ELSE raised
          /\ cleared' = IF Recovers(row, hot) THEN [cleared EXCEPT ![a] = @ + 1] ELSE cleared
      BY <2>2 DEF Check
    <3> HIDE DEF a
    <3>3. CASE Triggers(row, hot)
      <4>1. Lifecycle!Trigger(a)
        BY <3>1, <3>2, <3>3 DEF Lifecycle!Trigger, Triggers, Recovers
      <4> QED
        BY <3>1, <4>1 DEF Lifecycle!Next
    <3>4. CASE Recovers(row, hot)
      <4>1. Lifecycle!Recover(a)
        BY <3>1, <3>2, <3>4 DEF Lifecycle!Recover, Lifecycle!Standing, Triggers, Recovers
      <4> QED
        BY <3>1, <4>1 DEF Lifecycle!Next
    <3>5. CASE ~Triggers(row, hot) /\ ~Recovers(row, hot)
      BY <3>2, <3>5
    <3> QED
      BY <3>3, <3>4, <3>5
  <2> QED
    BY <2>1, <2>2
<1> QED
  BY <1>1, <1>2, TypeCorrect, StandingRecorded, PTL DEF Spec, LifecycleSpec, Lifecycle!Spec

-----------------------------------------------------------------------------
(* What a running call of evaluate is about to report. *)

\* The call after a step that goes on to the next check.
LEMMA CallParts ==
  ASSUME NEW c \in Call, NEW events \in Seq(Event)
  PROVE  LET d == [c EXCEPT !.at = c.at + 1]
             e == [c EXCEPT !.at = c.at + 1, !.events = events]
         IN
         /\ d.node = c.node /\ d.sample = c.sample /\ d.at = c.at + 1 /\ d.events = c.events
         /\ e.node = c.node /\ e.sample = c.sample /\ e.at = c.at + 1 /\ e.events = events
<1>1. c.at \in Nat
  BY DEF Call
<1>2. ASSUME NEW k \in Nat
      PROVE  LET d == [c EXCEPT !.at = k]
                 e == [c EXCEPT !.at = k, !.events = events]
             IN
             /\ d.node = c.node /\ d.sample = c.sample /\ d.at = k /\ d.events = c.events
             /\ e.node = c.node /\ e.sample = c.sample /\ e.at = k /\ e.events = events
  BY DEF Call
<1> QED
  BY <1>1, <1>2

\* What a check does to its row, to its history and to the call.
LEMMA CheckMoves ==
  ASSUME TypeOK, Check
  PROVE  LET a   == Current
             hot == IsBreach(eval.sample, eval.at)
         IN
         /\ a \in Alerts /\ a[1] = eval.node /\ a[2] = RuleOf(eval.sample, eval.at)
         /\ alertStates'[a].state = StateAfter(alertStates[a], hot)
         /\ alertStates'[a].cycles = CyclesAfter(alertStates[a], hot)
         /\ hotCycles'[a] = IF hot THEN hotCycles[a] \cup {cycle[eval.node]} ELSE {}
         /\ \A b \in Alerts \ {a} : /\ alertStates'[b] = alertStates[b]
                                    /\ hotCycles'[b] = hotCycles[b]
         /\ eval \in Call /\ eval' \in Call /\ eval' # None
         /\ eval'.node = eval.node /\ eval'.sample = eval.sample /\ eval'.at = eval.at + 1
         /\ eval'.events = eval.events \o EventsOf(alertStates[a], hot, a[2])
         /\ cycle' = cycle /\ streak' = streak
<1> DEFINE a == Current
           hot == IsBreach(eval.sample, eval.at)
           row == CheckRule(alertStates[a], hot, cycle[eval.node])
<1>1. /\ a \in Alerts /\ a[1] = eval.node /\ a[2] \in Rules /\ eval # None
      /\ alertStates \in [Alerts -> Row] /\ hotCycles \in [Alerts -> SUBSET Nat]
      /\ eval \in Call
  BY CurrentType DEF Check, TypeOK
<1>2. a[2] = RuleOf(eval.sample, eval.at)
  BY DEF Current
<1>3. /\ alertStates' = [alertStates EXCEPT ![a] = row]
      /\ hotCycles' = [hotCycles EXCEPT ![a] = IF hot THEN hotCycles[a] \cup {cycle[eval.node]}
                                                      ELSE {}]
      /\ eval' = [eval EXCEPT !.at = eval.at + 1,
                              !.events = eval.events \o EventsOf(alertStates[a], hot, a[2])]
      /\ cycle' = cycle /\ streak' = streak
  BY DEF Check
<1>4. row.state = StateAfter(alertStates[a], hot) /\ row.cycles = CyclesAfter(alertStates[a], hot)
  BY DEF CheckRule, Upsert
<1>5. EventsOf(alertStates[a], hot, a[2]) \in Seq(Event) /\ eval.events \in Seq(Event)
  BY <1>1, EventsOfType DEF Call
<1> HIDE DEF a, hot, row
<1>6. eval.events \o EventsOf(alertStates[a], hot, a[2]) \in Seq(Event)
  BY <1>5
<1>7. /\ eval' \in Call
      /\ eval'.node = eval.node /\ eval'.sample = eval.sample /\ eval'.at = eval.at + 1
      /\ eval'.events = eval.events \o EventsOf(alertStates[a], hot, a[2])
  BY <1>1, <1>3, <1>6, CallStep, CallParts, Zenon
<1>8. eval' # None
  BY <1>7, AlerterAssumption, Zenon
<1>9. /\ alertStates'[a] = row
      /\ hotCycles'[a] = IF hot THEN hotCycles[a] \cup {cycle[eval.node]} ELSE {}
      /\ \A b \in Alerts \ {a} : /\ alertStates'[b] = alertStates[b]
                                 /\ hotCycles'[b] = hotCycles[b]
  BY <1>1, <1>3
<1> QED
  BY <1>1, <1>2, <1>3, <1>4, <1>7, <1>8, <1>9, Zenon DEF a, hot

\* The row moves into or out of triggered exactly when an event says so.
EventsFollow(row, breach, rule, state) ==
  /\ Triggers(row, breach) =>
       /\ EventsOf(row, breach, rule) = <<[type |-> "alert_triggered", rule |-> rule]>>
       /\ state = "triggered"
  /\ Recovers(row, breach) =>
       /\ EventsOf(row, breach, rule) = <<[type |-> "alert_recovered", rule |-> rule]>>
       /\ state # "triggered"
  /\ ~Triggers(row, breach) /\ ~Recovers(row, breach) =>
       /\ EventsOf(row, breach, rule) = <<>>
       /\ state = "triggered" <=> row.state = "triggered"

\* The events of one check follow the change of its row.
LEMMA EventsFollowRow ==
  ASSUME NEW row \in Row, NEW breach, NEW rule
  PROVE  EventsFollow(row, breach, rule, StateAfter(row, breach))
<1> DEFINE state == StateAfter(row, breach)
<1>1. Triggers(row, breach) => state = "triggered"
  BY DEF Triggers, StateAfter
<1>2. Recovers(row, breach) => state # "triggered"
  BY DEF Recovers, StateAfter
<1>3. ~Triggers(row, breach) /\ ~Recovers(row, breach) =>
        (state = "triggered" <=> row.state = "triggered")
  BY DEF Triggers, Recovers, StateAfter
<1>4. ~(Triggers(row, breach) /\ Recovers(row, breach))
  BY DEF Triggers, Recovers
<1> HIDE DEF state
<1>5. EventsFollow(row, breach, rule, state)
  BY <1>1, <1>2, <1>3, <1>4, Zenon DEF EventsOf, EventsFollow
<1> QED
  BY <1>5 DEF state

\* A sequence that got one more element.
LEMMA OneMore ==
  ASSUME NEW S, NEW s \in Seq(S), NEW e \in S
  PROVE  LET t == s \o <<e>> IN
         /\ t \in Seq(S) /\ Len(t) = Len(s) + 1 /\ t[Len(s) + 1] = e
         /\ \A i \in 1 .. Len(s) : t[i] = s[i]
OBVIOUS

\* The last event of each rule tells whether the rule's alert stands.
Matches(events, standing) ==
  \A i \in DOMAIN events :
    (\A j \in i + 1 .. Len(events) : events[j].rule # events[i].rule)
      => (events[i].type = "alert_triggered" <=> events[i].rule \in standing)

StandingOf(node) == {r \in Rules : alertStates[node, r].state = "triggered"}

\* A list of events that matches the rows still does after one more event, if no
\* row of another rule changed.
LEMMA MatchesAfterEvent ==
  ASSUME NEW events \in Seq(Event), NEW e \in Event, NEW old, NEW new, Matches(events, old),
         \A r \in Rules \ {e.rule} : r \in new <=> r \in old,
         e.type = "alert_triggered" <=> e.rule \in new
  PROVE  Matches(events \o <<e>>, new)
<1> DEFINE longer == events \o <<e>>
           n == Len(events)
<1>1. /\ longer \in Seq(Event) /\ Len(longer) = n + 1
      /\ longer[n + 1] = e /\ \A i \in 1 .. n : longer[i] = events[i]
  BY OneMore, Zenon
<1>2. n \in Nat /\ DOMAIN events = 1 .. n
  OBVIOUS
<1>3. DOMAIN longer = 1 .. n + 1
  <2> HIDE DEF longer, n
  <2> QED
    BY <1>1, <1>2
<1>4. \A i \in 1 .. n : events[i].rule \in Rules
  <2>1. \A i \in 1 .. n : events[i] \in Event
    OBVIOUS
  <2> QED
    BY <2>1 DEF Event
<1> HIDE DEF longer, n
<1>5. SUFFICES ASSUME NEW i \in DOMAIN longer,
                      \A j \in i + 1 .. Len(longer) : longer[j].rule # longer[i].rule
               PROVE  longer[i].type = "alert_triggered" <=> longer[i].rule \in new
  BY Zenon DEF Matches, longer
<1>6. CASE i = n + 1
  BY <1>1, <1>6, Zenon
<1>7. CASE i # n + 1
  <2>1. i \in 1 .. n
    BY <1>2, <1>3, <1>5, <1>7
  <2>2. longer[i] = events[i]
    BY <1>1, <2>1, Zenon
  <2>3. e.rule # events[i].rule
    <3>1. n + 1 \in i + 1 .. n + 1
      BY <1>2, <2>1
    <3> QED
      BY <1>1, <1>5, <2>2, <3>1, Zenon
  <2>4. ASSUME NEW j \in i + 1 .. n
        PROVE  events[j].rule # events[i].rule
    <3>1. j \in i + 1 .. n + 1 /\ j \in 1 .. n
      BY <1>2, <2>1, <2>4
    <3> QED
      BY <1>1, <1>5, <2>2, <3>1, Zenon
  <2>5. events[i].type = "alert_triggered" <=> events[i].rule \in old
    BY <1>2, <2>1, <2>4, Zenon DEF Matches, n
  <2>6. events[i].rule \in new <=> events[i].rule \in old
    BY <1>4, <2>1, <2>3
  <2> QED
    BY <2>2, <2>5, <2>6, Zenon
<1> QED
  BY <1>6, <1>7

\* What a call of evaluate is about to report is what it has committed, also when
\* several GPUs move the same row back and forth within the call.
THEOREM ReportsMatchTable == Spec => []ReportMatchesTable
<1> DEFINE Good == eval # None => Matches(eval.events, StandingOf(eval.node))
<1>1. TypeOK /\ Good => ReportMatchesTable
  <2> SUFFICES ASSUME TypeOK, Good, eval # None, NEW i \in DOMAIN eval.events,
                      \A j \in i + 1 .. Len(eval.events) : eval.events[j].rule # eval.events[i].rule
               PROVE  eval.events[i].type = "alert_triggered"
                        <=> alertStates[eval.node, eval.events[i].rule].state = "triggered"
    BY Zenon DEF ReportMatchesTable
  <2>1. eval.events[i].rule \in Rules
    <3>1. eval.events \in Seq(Event)
      BY DEF TypeOK, Call
    <3>2. eval.events[i] \in Event
      BY <3>1
    <3> QED
      BY <3>2 DEF Event
  <2>2. eval.events[i].type = "alert_triggered" <=> eval.events[i].rule \in StandingOf(eval.node)
    BY Zenon DEF Matches
  <2> QED
    BY <2>1, <2>2, Zenon DEF StandingOf
<1>2. Init => Good
  BY Zenon DEF Init
<1>3. TypeOK /\ Good /\ [Next]_vars => Good'
  <2> SUFFICES ASSUME TypeOK, Good, [Next]_vars, eval' # None
               PROVE  Matches(eval.events, StandingOf(eval.node))'
    BY Zenon
  <2>1. ASSUME NEW n \in Nodes, Evaluate(n)
        PROVE  Matches(eval.events, StandingOf(eval.node))'
    <3>1. eval'.events = <<>>
      BY <2>1 DEF Evaluate
    <3>2. DOMAIN eval'.events = {}
      BY <3>1
    <3> QED
      BY <3>2, Zenon DEF Matches
  <2>2. CASE Check
    <3> DEFINE a == Current
               hot == IsBreach(eval.sample, eval.at)
               row == alertStates[a]
               rule == a[2]
               made == EventsOf(row, hot, rule)
               old == StandingOf(eval.node)
               new == StandingOf(eval.node)'
    <3>1. eval # None /\ eval \in Call /\ a \in Alerts /\ rule \in Rules /\ a = <<eval.node, rule>>
      BY <2>2, CurrentType DEF Check, TypeOK, Alerts, Current
    <3>2. /\ alertStates'[a].state = StateAfter(row, hot)
          /\ \A b \in Alerts \ {a} : alertStates'[b] = alertStates[b]
          /\ eval'.node = eval.node /\ eval'.events = eval.events \o made
      BY <2>2, CheckMoves, Zenon
    <3>3. eval.events \in Seq(Event) /\ eval.node \in Nodes /\ row \in Row
      BY <3>1 DEF Call, TypeOK
    <3>4. Matches(eval.events, old)
      BY <3>1, Zenon
    <3> HIDE DEF a, hot, row, made
    <3>5. new = {r \in Rules : alertStates'[eval.node, r].state = "triggered"}
      BY <3>2, Zenon DEF StandingOf
    <3>6. \A r \in Rules \ {rule} : r \in new <=> r \in old
      <4>1. ASSUME NEW r \in Rules \ {rule}
            PROVE  alertStates'[eval.node, r] = alertStates[eval.node, r]
        <5>1. <<eval.node, r>> \in Alerts \ {a}
          BY <3>1, <3>3 DEF Alerts
        <5> QED
          BY <3>2, <5>1, Zenon
      <4> QED
        BY <3>5, <4>1, Zenon DEF StandingOf
    <3>7. /\ rule \in new <=> alertStates'[a].state = "triggered"
          /\ rule \in old <=> row.state = "triggered"
      BY <3>1, <3>5, Zenon DEF StandingOf, row
    <3>8. /\ Triggers(row, hot) => /\ made = <<[type |-> "alert_triggered", rule |-> rule]>>
                                   /\ rule \in new
          /\ Recovers(row, hot) => /\ made = <<[type |-> "alert_recovered", rule |-> rule]>>
                                   /\ rule \notin new
          /\ ~Triggers(row, hot) /\ ~Recovers(row, hot) =>
               made = <<>> /\ (rule \in new <=> rule \in old)
      <4>1. EventsFollow(row, hot, rule, alertStates'[a].state)
        BY <3>2, <3>3, EventsFollowRow, Zenon
      <4> QED
        BY <3>7, <4>1, Zenon DEF made, EventsFollow
    <3> HIDE DEF rule, old, new
    <3>9. ASSUME NEW e \in Event, e.rule = rule, made = <<e>>,
                 e.type = "alert_triggered" <=> rule \in new
          PROVE  Matches(eval'.events, new)
      <4>1. Matches(eval.events \o <<e>>, new)
        BY <3>3, <3>4, <3>6, <3>9, MatchesAfterEvent, Zenon
      <4> QED
        BY <3>2, <3>9, <4>1, Zenon
    <3>10. CASE Triggers(row, hot)
      <4> DEFINE e == [type |-> "alert_triggered", rule |-> rule]
      <4>1. e \in Event /\ e.rule = rule /\ e.type = "alert_triggered"
        BY <3>1 DEF Event
      <4>2. made = <<e>> /\ rule \in new
        BY <3>8, <3>10, Zenon
      <4> HIDE DEF e
      <4>3. Matches(eval'.events, new)
        BY <3>9, <4>1, <4>2, Zenon
      <4> QED
        BY <3>2, <4>3, Zenon DEF new, StandingOf
    <3>11. CASE Recovers(row, hot)
      <4> DEFINE e == [type |-> "alert_recovered", rule |-> rule]
      <4>1. e \in Event /\ e.rule = rule /\ e.type # "alert_triggered"
        BY <3>1 DEF Event
      <4>2. made = <<e>> /\ rule \notin new
        BY <3>8, <3>11, Zenon
      <4> HIDE DEF e
      <4>3. Matches(eval'.events, new)
        BY <3>9, <4>1, <4>2, Zenon
      <4> QED
        BY <3>2, <4>3, Zenon DEF new, StandingOf
    <3>12. CASE ~Triggers(row, hot) /\ ~Recovers(row, hot)
      <4>1. made = <<>> /\ (rule \in new <=> rule \in old)
        BY <3>8, <3>12, Zenon
      <4>2. eval'.events = eval.events
        BY <3>2, <3>3, <4>1
      <4>3. \A i \in DOMAIN eval.events : eval.events[i].rule \in Rules
        <5>1. \A i \in DOMAIN eval.events : eval.events[i] \in Event
          BY <3>3
        <5> QED
          BY <5>1 DEF Event
      <4>4. \A r \in Rules : r \in new <=> r \in old
        BY <3>6, <4>1
      <4>5. Matches(eval.events, new)
        BY <3>4, <4>3, <4>4, Zenon DEF Matches
      <4> QED
        BY <3>2, <4>2, <4>5, Zenon DEF new, StandingOf
    <3> QED
      BY <3>10, <3>11, <3>12
  <2>3. CASE SkipCheck
    <3>1. eval \in Call /\ eval' = [eval EXCEPT !.at = eval.at + 1] /\ alertStates' = alertStates
          /\ eval # None
      BY <2>3 DEF SkipCheck, TypeOK
    <3>2. <<>> \in Seq(Event)
      OBVIOUS
    <3>3. eval'.node = eval.node /\ eval'.events = eval.events
      BY <3>1, <3>2, CallParts, Zenon
    <3> QED
      BY <3>1, <3>3, Zenon DEF StandingOf
  <2>4. CASE Return
    BY <2>4 DEF Return
  <2>5. CASE Abort
    BY <2>5 DEF Abort
  <2>6. CASE UNCHANGED vars
    <3>1. eval' = eval /\ alertStates' = alertStates
      BY <2>6 DEF vars, systemVars
    <3> QED
      BY <3>1, Zenon DEF StandingOf
  <2> QED
    BY <2>1, <2>2, <2>3, <2>4, <2>5, <2>6 DEF Next
<1> HIDE DEF Good
<1> QED
  BY <1>1, <1>2, <1>3, TypeCorrect, PTL DEF Spec

-----------------------------------------------------------------------------
(* The alerts of nodes with one GPU at most (OneGpuAlerts).  With several, one *)
(* cycle may count more than once, and a cool GPU may reset the count of a    *)
(* hot one.                                                                   *)

\* The sample of a call is one that its node can have.
GpusFit == eval # None => Len(eval.sample.gpus) <= Gpus[eval.node]

\* The checks of a node with one GPU at most are each about a rule of their own.
LEMMA RulesOfChecks ==
  ASSUME NEW s \in Sample, Len(s.gpus) <= 1, NEW k \in 1 .. LastCheck(s)
  PROVE  /\ k = 1 => RuleOf(s, k) = "node_unreachable"
         /\ k # 1 /\ k = 2 * Len(s.gpus) + 2 => RuleOf(s, k) = "disk_usage_pct"
         /\ k # 1 /\ k # 2 * Len(s.gpus) + 2 =>
              \/ k = 2 /\ RuleOf(s, k) = "gpu_temp_c"
              \/ k = 3 /\ RuleOf(s, k) = "gpu_memory_pct"
<1>1. Len(s.gpus) \in {0, 1}
  <2> DEFINE n == Len(s.gpus)
  <2>1. n \in Nat /\ n <= 1
    BY DEF Sample
  <2> HIDE DEF n
  <2>2. n \in {0, 1}
    BY <2>1
  <2> QED
    BY <2>2 DEF n
<1>2. k \in 1 .. 2 * Len(s.gpus) + 2
  BY <1>1 DEF LastCheck
<1>3. k = 1 => RuleOf(s, k) = "node_unreachable"
  BY DEF RuleOf
<1>4. k # 1 /\ k = 2 * Len(s.gpus) + 2 => RuleOf(s, k) = "disk_usage_pct"
  BY DEF RuleOf
<1>5. ASSUME k # 1, k # 2 * Len(s.gpus) + 2
      PROVE  \/ k = 2 /\ RuleOf(s, k) = "gpu_temp_c"
             \/ k = 3 /\ RuleOf(s, k) = "gpu_memory_pct"
  <2>1. k = 2 \/ k = 3
    BY <1>1, <1>2, <1>5
  <2>2. RuleOf(s, k) = IF k % 2 = 0 THEN "gpu_temp_c" ELSE "gpu_memory_pct"
    BY <1>5 DEF RuleOf
  <2>3. 2 % 2 = 0 /\ 3 % 2 # 0
    OBVIOUS
  <2> QED
    BY <2>1, <2>2, <2>3
<1> QED
  BY <1>3, <1>4, <1>5

\* No two checks of one call are about the same rule.
LEMMA OneCheckPerRule ==
  ASSUME NEW s \in Sample, Len(s.gpus) <= 1,
         NEW j \in 1 .. LastCheck(s), NEW k \in 1 .. LastCheck(s), RuleOf(s, j) = RuleOf(s, k)
  PROVE  j = k
<1> DEFINE last == 2 * Len(s.gpus) + 2
<1>1. ASSUME NEW i \in 1 .. LastCheck(s)
      PROVE  \/ i = 1 /\ RuleOf(s, i) = "node_unreachable"
             \/ i = last /\ RuleOf(s, i) = "disk_usage_pct"
             \/ i = 2 /\ RuleOf(s, i) = "gpu_temp_c"
             \/ i = 3 /\ RuleOf(s, i) = "gpu_memory_pct"
  BY RulesOfChecks
<1> HIDE DEF last
<1> QED
  BY <1>1

\* Whether the call that runs is one of the alert's node, whether its check of
\* the alert is still to come, and whether it found the rule broken.
Running(a) == eval # None /\ eval.node = a[1]

ToCome(a) ==
  \E k \in 1 .. LastCheck(eval.sample) : k >= eval.at /\ RuleOf(eval.sample, k) = a[2]

Broken(a) ==
  \E k \in 1 .. LastCheck(eval.sample) :
    /\ k < eval.at
    /\ RuleOf(eval.sample, k) = a[2]
    /\ Checked(eval.sample, k)
    /\ IsBreach(eval.sample, k)

\* The row has counted every cycle of the streak, and the running one as soon as
\* its check was made.
StreakCounted ==
  \A a \in OneGpuAlerts :
    /\ ~Running(a) \/ ToCome(a) => alertStates[a].cycles >= streak[a]
    /\ Running(a) /\ Broken(a) => alertStates[a].cycles >= streak[a] + 1

\* The row has counted no cycle twice.
HotCounted ==
  \A a \in OneGpuAlerts :
    /\ IsFiniteSet(hotCycles[a])
    /\ Cardinality(hotCycles[a]) >= alertStates[a].cycles
    /\ \A c \in hotCycles[a] : c <= cycle[a[1]]
    /\ Running(a) /\ ToCome(a) => \A c \in hotCycles[a] : c < cycle[a[1]]

\* The next check of the running call.
LEMMA NextCheck ==
  ASSUME TypeOK, eval # None, eval.at <= LastCheck(eval.sample)
  PROVE  /\ eval.sample \in Sample
         /\ eval.at \in 1 .. LastCheck(eval.sample) /\ LastCheck(eval.sample) \in Nat
<1>1. /\ eval \in Call /\ eval.sample \in Samples /\ eval.at \in Nat \ {0}
  BY DEF TypeOK, Call
<1>2. eval.sample \in Sample
  BY <1>1, AlerterAssumption
<1>3. Len(eval.sample.gpus) \in Nat
  BY <1>2 DEF Sample
<1>4. LastCheck(eval.sample) \in Nat
  BY <1>3 DEF LastCheck
<1> QED
  BY <1>1, <1>2, <1>4

\* The check about such an alert is the only one of its call, which moves on past
\* it.
LEMMA CheckOnce ==
  ASSUME GpusFit, TypeOK, Check, NEW a \in OneGpuAlerts, a = Current
  PROVE  /\ ToCome(a) /\ Running(a) /\ ~ToCome(a)'
         /\ Broken(a)' => IsBreach(eval.sample, eval.at)
<1> DEFINE s == eval.sample
           at == eval.at
<1>1. eval # None /\ at <= LastCheck(s)
  BY DEF Check
<1>2. s \in Sample /\ at \in 1 .. LastCheck(s) /\ LastCheck(s) \in Nat
  BY <1>1, NextCheck
<1>3. /\ a[1] = eval.node /\ a[2] = RuleOf(s, at)
      /\ eval'.sample = s /\ eval'.at = at + 1
  BY CheckMoves, Zenon DEF OneGpuAlerts
<1>9. Len(s.gpus) <= 1
  <2>1. Len(s.gpus) \in Nat
    BY <1>2 DEF Sample
  <2>2. Gpus[eval.node] \in Nat /\ Gpus[eval.node] <= 1
    BY <1>1, <1>3, AlerterAssumption DEF OneGpuAlerts, Alerts
  <2>3. Len(s.gpus) <= Gpus[eval.node]
    BY <1>1 DEF GpusFit
  <2> QED
    BY <2>1, <2>2, <2>3
<1>4. \A k \in 1 .. LastCheck(s) : RuleOf(s, k) = a[2] => k = at
  BY <1>2, <1>3, <1>9, OneCheckPerRule
<1>5. ToCome(a) /\ Running(a)
  <2>1. at >= at
    BY <1>2
  <2> QED
    BY <1>1, <1>2, <1>3, <2>1, Zenon DEF ToCome, Running
<1>6. ToCome(a)' <=> \E k \in 1 .. LastCheck(s) : k >= at + 1 /\ RuleOf(s, k) = a[2]
  BY <1>3, Zenon DEF ToCome
<1>7. Broken(a)' => \E k \in 1 .. LastCheck(s) : RuleOf(s, k) = a[2] /\ IsBreach(s, k)
  BY <1>3, Zenon DEF Broken
<1>8. ~(at >= at + 1)
  BY <1>2
<1> QED
  BY <1>4, <1>5, <1>6, <1>7, <1>8, Zenon

\* Every step keeps a call's sample one that its node can have.
LEMMA GpusStep ==
  ASSUME TypeOK, GpusFit, [Next]_vars
  PROVE  GpusFit'
<1>1. ASSUME NEW n \in Nodes, Evaluate(n)
      PROVE  GpusFit'
  <2>1. PICK t \in Samples :
          /\ Len(t.gpus) <= Gpus[n]
          /\ eval' = [node |-> n, sample |-> t, at |-> 1, events |-> <<>>]
    BY <1>1 DEF Evaluate
  <2> QED
    BY <2>1 DEF GpusFit
<1>2. CASE Check
  <2>1. eval # None /\ eval'.node = eval.node /\ eval'.sample = eval.sample
    BY <1>2, CheckMoves, Zenon DEF Check
  <2> QED
    BY <2>1, Zenon DEF GpusFit
<1>3. CASE SkipCheck
  <2>1. eval # None /\ eval \in Call /\ eval' = [eval EXCEPT !.at = eval.at + 1]
    BY <1>3 DEF SkipCheck, TypeOK
  <2>2. eval'.node = eval.node /\ eval'.sample = eval.sample
    BY <2>1 DEF Call
  <2> QED
    BY <2>1, <2>2, Zenon DEF GpusFit
<1>4. CASE Return \/ Abort
  BY <1>4 DEF Return, Abort, GpusFit
<1>5. CASE UNCHANGED vars
  BY <1>5, Zenon DEF vars, systemVars, GpusFit
<1> QED
  BY <1>1, <1>2, <1>3, <1>4, <1>5 DEF Next

\* So it is in every state.
LEMMA GpusAlwaysFit == Spec => []GpusFit
<1>1. Init => GpusFit
  BY DEF Init, GpusFit
<1>2. TypeOK /\ GpusFit /\ [Next]_vars => GpusFit'
  BY GpusStep
<1> QED
  BY <1>1, <1>2, TypeCorrect, PTL DEF Spec

\* It is none of another alert.
LEMMA CheckOfOther ==
  ASSUME TypeOK, Check, NEW b \in Alerts, b # Current
  PROVE  /\ Running(b)' <=> Running(b)
         /\ ToCome(b)' => ToCome(b)
         /\ Running(b) /\ Broken(b)' => Broken(b)
<1> DEFINE s == eval.sample
           at == eval.at
<1>1. eval # None /\ at <= LastCheck(s)
  BY DEF Check
<1>2. at \in 1 .. LastCheck(s) /\ LastCheck(s) \in Nat
  BY <1>1, NextCheck
<1>3. /\ Current[1] = eval.node /\ Current[2] = RuleOf(s, at)
      /\ eval' # None /\ eval'.node = eval.node /\ eval'.sample = s /\ eval'.at = at + 1
  BY CheckMoves, Zenon
<1>4. Running(b)' <=> Running(b)
  BY <1>1, <1>3, Zenon DEF Running
<1>5. \A k \in 1 .. LastCheck(s) : (k >= at + 1 => k >= at) /\ (k < at + 1 => k < at \/ k = at)
  BY <1>2
<1>6. ToCome(b)' => ToCome(b)
  BY <1>3, <1>5, Zenon DEF ToCome
<1>7. Running(b) => RuleOf(s, at) # b[2]
  <2>1. Current = <<Current[1], Current[2]>> /\ b = <<b[1], b[2]>>
    BY <1>1, CurrentType DEF Alerts
  <2> QED
    BY <1>3, <2>1, Zenon DEF Running
<1>8. Broken(b)' => \E k \in 1 .. LastCheck(s) :
        k < at + 1 /\ RuleOf(s, k) = b[2] /\ Checked(s, k) /\ IsBreach(s, k)
  BY <1>3, Zenon DEF Broken
<1>9. Running(b) /\ Broken(b)' => Broken(b)
  BY <1>5, <1>7, <1>8, Zenon DEF Broken
<1> QED
  BY <1>4, <1>6, <1>9

\* A check that is not made breaks nothing.
LEMMA SkipOfAny ==
  ASSUME TypeOK, SkipCheck, NEW b \in Alerts
  PROVE  /\ Running(b)' <=> Running(b)
         /\ ToCome(b)' => ToCome(b)
         /\ Broken(b)' => Broken(b)
<1> DEFINE s == eval.sample
           at == eval.at
<1>1. eval # None /\ at <= LastCheck(s) /\ ~Checked(s, at) /\ eval' = [eval EXCEPT !.at = at + 1]
  BY DEF SkipCheck
<1>2. at \in 1 .. LastCheck(s) /\ LastCheck(s) \in Nat
  BY <1>1, NextCheck
<1>3. eval \in Call
  BY <1>1 DEF TypeOK
<1>4. eval'.node = eval.node /\ eval'.sample = s /\ eval'.at = at + 1 /\ eval' \in Call
  <2>1. <<>> \in Seq(Event)
    OBVIOUS
  <2> QED
    BY <1>1, <1>3, <2>1, CallParts, CallStep, Zenon
<1>5. eval' # None
  BY <1>4, AlerterAssumption, Zenon
<1>6. \A k \in 1 .. LastCheck(s) : (k >= at + 1 => k >= at) /\ (k < at + 1 => k < at \/ k = at)
  BY <1>2
<1>7. ToCome(b)' => ToCome(b)
  BY <1>4, <1>6, Zenon DEF ToCome
<1>8. Broken(b)' => \E k \in 1 .. LastCheck(s) :
        k < at + 1 /\ RuleOf(s, k) = b[2] /\ Checked(s, k) /\ IsBreach(s, k)
  BY <1>4, Zenon DEF Broken
<1>9. Broken(b)' => Broken(b)
  BY <1>1, <1>6, <1>8, Zenon DEF Broken
<1> QED
  BY <1>1, <1>4, <1>5, <1>7, <1>9, Zenon DEF Running

\* Every step keeps the row up with the streak.
LEMMA StreakStep ==
  ASSUME GpusFit, TypeOK, StreakCounted, [Next]_vars
  PROVE  StreakCounted'
<1>0. /\ alertStates \in [Alerts -> Row] /\ streak \in [Alerts -> Nat]
      /\ \A a \in Alerts : alertStates[a].cycles \in Nat /\ streak[a] \in Nat
      /\ OneGpuAlerts \subseteq Alerts
  BY DEF TypeOK, Row, OneGpuAlerts
<1>1. ASSUME NEW n \in Nodes, Evaluate(n)
      PROVE  StreakCounted'
  <2>1. eval = None /\ alertStates' = alertStates /\ streak' = streak /\ eval'.at = 1
    BY <1>1 DEF Evaluate, historyVars
  <2>2. ASSUME NEW a \in OneGpuAlerts
        PROVE  ~Broken(a)'
    <3>1. \A k \in 1 .. LastCheck(eval'.sample) : ~(k < 1)
      OBVIOUS
    <3> QED
      BY <2>1, <3>1, Zenon DEF Broken
  <2> QED
    BY <2>1, <2>2, Zenon DEF StreakCounted, Running
<1>2. CASE Check
  <2> DEFINE hot == IsBreach(eval.sample, eval.at)
  <2>1. PICK a0 \in Alerts :
          /\ a0 = Current
          /\ alertStates'[a0].cycles = CyclesAfter(alertStates[a0], hot)
          /\ \A b \in Alerts \ {a0} : alertStates'[b] = alertStates[b]
          /\ streak' = streak
    BY <1>2, CheckMoves, Zenon
  <2>2. ASSUME NEW b \in OneGpuAlerts, b # a0
        PROVE  /\ ~Running(b)' \/ ToCome(b)' => alertStates'[b].cycles >= streak'[b]
               /\ Running(b)' /\ Broken(b)' => alertStates'[b].cycles >= streak'[b] + 1
    <3>1. /\ Running(b)' <=> Running(b)
          /\ ToCome(b)' => ToCome(b)
          /\ Running(b) /\ Broken(b)' => Broken(b)
      BY <1>0, <1>2, <2>1, <2>2, CheckOfOther
    <3>2. alertStates'[b] = alertStates[b] /\ streak'[b] = streak[b]
      BY <1>0, <2>1, <2>2
    <3> QED
      BY <3>1, <3>2, Zenon DEF StreakCounted
  <2>3. ASSUME a0 \in OneGpuAlerts
        PROVE  /\ ~Running(a0)' \/ ToCome(a0)' => alertStates'[a0].cycles >= streak'[a0]
               /\ Running(a0)' /\ Broken(a0)' => alertStates'[a0].cycles >= streak'[a0] + 1
    <3>1. /\ ToCome(a0) /\ Running(a0) /\ ~ToCome(a0)'
          /\ Broken(a0)' => hot
      BY <1>2, <2>1, <2>3, CheckOnce, Zenon
    <3>2. Running(a0)'
      <4>1. eval' # None /\ eval'.node = eval.node /\ eval.node = a0[1]
        BY <1>2, <2>1, CheckMoves, Zenon
      <4> QED
        BY <4>1, Zenon DEF Running
    <3>3. alertStates[a0].cycles >= streak[a0]
      BY <2>1, <2>3, <3>1, Zenon DEF StreakCounted
    <3>4. hot => alertStates'[a0].cycles >= streak'[a0] + 1
      <4>1. hot => alertStates'[a0].cycles = alertStates[a0].cycles + 1
        BY <2>1, Zenon DEF CyclesAfter
      <4>2. alertStates[a0].cycles \in Nat /\ streak[a0] \in Nat /\ streak'[a0] = streak[a0]
        BY <1>0, <2>1
      <4> HIDE DEF hot
      <4> QED
        BY <3>3, <4>1, <4>2
    <3> QED
      BY <3>1, <3>2, <3>4, Zenon
  <2>4. \A b \in OneGpuAlerts :
          /\ ~Running(b)' \/ ToCome(b)' => alertStates'[b].cycles >= streak'[b]
          /\ Running(b)' /\ Broken(b)' => alertStates'[b].cycles >= streak'[b] + 1
    BY <2>2, <2>3, Zenon
  <2> QED
    BY <2>4, Zenon DEF StreakCounted
<1>3. CASE SkipCheck
  <2>1. alertStates' = alertStates /\ streak' = streak
    BY <1>3 DEF SkipCheck, historyVars
  <2>2. \A b \in OneGpuAlerts : /\ Running(b)' <=> Running(b)
                                /\ ToCome(b)' => ToCome(b)
                                /\ Broken(b)' => Broken(b)
    BY <1>0, <1>3, SkipOfAny
  <2> QED
    BY <2>1, <2>2, Zenon DEF StreakCounted
<1>4. CASE Return
  <2>1. /\ eval # None /\ eval' = None /\ alertStates' = alertStates
        /\ eval.at > LastCheck(eval.sample)
        /\ streak' = [a \in Alerts |->
                        IF a[1] # eval.node THEN streak[a]
                        ELSE IF Breaches(eval.sample, a[2]) THEN streak[a] + 1 ELSE 0]
    BY <1>4 DEF Return
  <2>2. ASSUME NEW a \in OneGpuAlerts
        PROVE  alertStates'[a].cycles >= streak'[a]
    <3>1. CASE a[1] # eval.node
      <4>1. streak'[a] = streak[a]
        BY <1>0, <2>1, <3>1
      <4> QED
        BY <2>1, <3>1, <4>1, Zenon DEF StreakCounted, Running
    <3>2. CASE a[1] = eval.node /\ Breaches(eval.sample, a[2])
      <4>1. streak'[a] = streak[a] + 1
        BY <1>0, <2>1, <3>2
      <4>2. \A k \in 1 .. LastCheck(eval.sample) : k < eval.at
        <5>1. eval.at \in Nat /\ LastCheck(eval.sample) \in Nat
          <6>1. eval \in Call /\ eval.sample \in Sample
            BY <2>1, AlerterAssumption DEF TypeOK, Call
          <6>2. Len(eval.sample.gpus) \in Nat
            BY <6>1 DEF Sample
          <6> QED
            BY <6>1, <6>2 DEF Call, LastCheck
        <5> QED
          BY <2>1, <5>1
      <4>3. Broken(a)
        BY <3>2, <4>2, Zenon DEF Broken, Breaches
      <4>4. alertStates[a].cycles >= streak[a] + 1
        BY <2>1, <3>2, <4>3, Zenon DEF StreakCounted, Running
      <4> QED
        BY <2>1, <4>1, <4>4, Zenon
    <3>3. CASE a[1] = eval.node /\ ~Breaches(eval.sample, a[2])
      <4>1. streak'[a] = 0
        BY <1>0, <2>1, <3>3
      <4>2. alertStates'[a].cycles \in Nat
        BY <1>0, <2>1
      <4> QED
        BY <4>1, <4>2
    <3> QED
      BY <3>1, <3>2, <3>3
  <2> QED
    BY <2>1, <2>2, Zenon DEF StreakCounted, Running
<1>5. CASE Abort
  <2>1. /\ eval # None /\ eval' = None /\ alertStates' = alertStates
        /\ streak' = [a \in Alerts |-> IF a[1] = eval.node THEN 0 ELSE streak[a]]
    BY <1>5 DEF Abort
  <2>2. ASSUME NEW a \in OneGpuAlerts
        PROVE  alertStates'[a].cycles >= streak'[a]
    <3>1. CASE a[1] # eval.node
      <4>1. streak'[a] = streak[a]
        BY <1>0, <2>1, <3>1
      <4> QED
        BY <2>1, <3>1, <4>1, Zenon DEF StreakCounted, Running
    <3>2. CASE a[1] = eval.node
      <4>1. streak'[a] = 0
        BY <1>0, <2>1, <3>2
      <4>2. alertStates'[a].cycles \in Nat
        BY <1>0, <2>1
      <4> QED
        BY <4>1, <4>2
    <3> QED
      BY <3>1, <3>2
  <2> QED
    BY <2>1, <2>2, Zenon DEF StreakCounted, Running
<1>6. CASE UNCHANGED vars
  <2>1. eval' = eval /\ alertStates' = alertStates /\ streak' = streak
    BY <1>6 DEF vars, systemVars, historyVars
  <2> QED
    BY <2>1, Zenon DEF StreakCounted, Running, ToCome, Broken
<1> QED
  BY <1>1, <1>2, <1>3, <1>4, <1>5, <1>6 DEF Next

\* No alert of a node with one GPU at most is missed: after stability_cycles
\* completed cycles in a row that broke the rule, the alert stands.
THEOREM SustainedBreachIsCaught == Spec => []OneGpuBreachStands
<1>1. Init => StreakCounted
  <2> SUFFICES ASSUME Init PROVE StreakCounted
    OBVIOUS
  <2>1. /\ eval = None /\ streak = [a \in Alerts |-> 0]
        /\ alertStates = [a \in Alerts |-> NoRow]
        /\ OneGpuAlerts \subseteq Alerts
    BY DEF Init, OneGpuAlerts
  <2>2. NoRow.cycles = 0 /\ 0 >= 0
    BY DEF NoRow
  <2> QED
    BY <2>1, <2>2, Zenon DEF StreakCounted, Running
<1>2. TypeOK /\ GpusFit /\ StreakCounted /\ [Next]_vars => StreakCounted'
  BY StreakStep
<1>3. TypeOK /\ RowsConsistent /\ StreakCounted => OneGpuBreachStands
  <2> SUFFICES ASSUME TypeOK, RowsConsistent, StreakCounted, NEW a \in OneGpuAlerts,
                      streak[a] >= StabilityCycles, eval = None \/ eval.node # a[1]
               PROVE  alertStates[a].state = "triggered"
    BY Zenon DEF OneGpuBreachStands, StandsOnceSustained
  <2> a \in Alerts
    BY DEF OneGpuAlerts
  <2>1. alertStates[a].cycles >= streak[a]
    BY Zenon DEF StreakCounted, Running
  <2>2. alertStates[a].cycles \in Nat /\ streak[a] \in Nat
    BY DEF TypeOK, Row
  <2>3. alertStates[a].cycles >= StabilityCycles
    BY <2>1, <2>2, RulesAssumption
  <2> QED
    BY <2>3, Zenon DEF RowsConsistent
<1> QED
  BY <1>1, <1>2, <1>3, TypeCorrect, GpusAlwaysFit, RowsAreConsistent, PTL DEF Spec

\* Every step keeps the row from counting a cycle twice.
LEMMA HotStep ==
  ASSUME GpusFit, TypeOK, HotCounted, [Next]_vars
  PROVE  HotCounted'
<1>0. /\ cycle \in [Nodes -> Nat] /\ \A a \in Alerts : a[1] \in Nodes
      /\ hotCycles \in [Alerts -> SUBSET Nat]
      /\ OneGpuAlerts \subseteq Alerts
  BY DEF TypeOK, Alerts, OneGpuAlerts
<1>1. ASSUME NEW n \in Nodes, Evaluate(n)
      PROVE  HotCounted'
  <2>1. /\ alertStates' = alertStates /\ hotCycles' = hotCycles
        /\ cycle' = [cycle EXCEPT ![n] = cycle[n] + 1] /\ eval'.node = n
    BY <1>1 DEF Evaluate, historyVars
  <2>2. ASSUME NEW a \in OneGpuAlerts, NEW c \in hotCycles[a]
        PROVE  /\ c <= cycle'[a[1]]
               /\ a[1] = n => c < cycle'[a[1]]
    <3>1. c <= cycle[a[1]] /\ c \in Nat /\ cycle[a[1]] \in Nat
      BY <1>0 DEF HotCounted
    <3>2. cycle'[a[1]] = IF a[1] = n THEN cycle[a[1]] + 1 ELSE cycle[a[1]]
      BY <1>0, <2>1
    <3> QED
      BY <3>1, <3>2
  <2>3. \A a \in OneGpuAlerts : Running(a)' => a[1] = n
    BY <2>1, Zenon DEF Running
  <2> QED
    BY <2>1, <2>2, <2>3, Zenon DEF HotCounted
<1>2. CASE Check
  <2> DEFINE hot == IsBreach(eval.sample, eval.at)
             now == cycle[eval.node]
  <2>1. PICK a0 \in Alerts :
          /\ a0 = Current /\ a0[1] = eval.node
          /\ alertStates'[a0].cycles = CyclesAfter(alertStates[a0], hot)
          /\ hotCycles'[a0] = IF hot THEN hotCycles[a0] \cup {now} ELSE {}
          /\ \A b \in Alerts \ {a0} : /\ alertStates'[b] = alertStates[b]
                                      /\ hotCycles'[b] = hotCycles[b]
          /\ cycle' = cycle
    BY <1>2, CheckMoves, Zenon
  <2> HIDE DEF hot, now
  <2>2. ASSUME NEW b \in OneGpuAlerts, b # a0
        PROVE  /\ IsFiniteSet(hotCycles'[b])
               /\ Cardinality(hotCycles'[b]) >= alertStates'[b].cycles
               /\ \A c \in hotCycles'[b] : c <= cycle'[b[1]]
               /\ Running(b)' /\ ToCome(b)' => \A c \in hotCycles'[b] : c < cycle'[b[1]]
    <3>1. /\ Running(b)' <=> Running(b)
          /\ ToCome(b)' => ToCome(b)
      BY <1>0, <1>2, <2>1, <2>2, CheckOfOther
    <3>2. alertStates'[b] = alertStates[b] /\ hotCycles'[b] = hotCycles[b] /\ cycle' = cycle
      BY <1>0, <2>1, <2>2
    <3> QED
      BY <3>1, <3>2, Zenon DEF HotCounted
  <2>3. ASSUME a0 \in OneGpuAlerts
        PROVE  /\ IsFiniteSet(hotCycles'[a0])
               /\ Cardinality(hotCycles'[a0]) >= alertStates'[a0].cycles
               /\ \A c \in hotCycles'[a0] : c <= cycle'[a0[1]]
               /\ ~ToCome(a0)'
    <3>1. ToCome(a0) /\ Running(a0) /\ ~ToCome(a0)'
      BY <1>2, <2>1, <2>3, CheckOnce, Zenon
    <3>2. now = cycle[a0[1]] /\ now \in Nat
      BY <1>0, <2>1 DEF now
    <3>3. /\ IsFiniteSet(hotCycles[a0])
          /\ Cardinality(hotCycles[a0]) >= alertStates[a0].cycles
          /\ \A c \in hotCycles[a0] : c <= now /\ c < now
      BY <2>3, <3>1, <3>2, Zenon DEF HotCounted
    <3>4. CASE hot
      <4>1. hotCycles'[a0] = hotCycles[a0] \cup {now}
        BY <2>1, <3>4
      <4>2. now \notin hotCycles[a0]
        BY <3>2, <3>3
      <4>3. /\ IsFiniteSet(hotCycles[a0] \cup {now})
            /\ Cardinality(hotCycles[a0] \cup {now}) = Cardinality(hotCycles[a0]) + 1
        BY <3>3, <4>2, FS_AddElement
      <4>4. alertStates'[a0].cycles = alertStates[a0].cycles + 1
        BY <2>1, <3>4 DEF CyclesAfter
      <4>5. Cardinality(hotCycles[a0]) \in Nat /\ alertStates[a0].cycles \in Nat
        BY <3>3, FS_CardinalityType DEF TypeOK, Row
      <4>6. Cardinality(hotCycles[a0]) + 1 >= alertStates[a0].cycles + 1
        BY <3>3, <4>5
      <4>7. \A c \in hotCycles[a0] \cup {now} : c <= now
        BY <3>2, <3>3
      <4> QED
        BY <2>1, <3>1, <3>2, <4>1, <4>3, <4>4, <4>6, <4>7, Zenon
    <3>5. CASE ~hot
      <4>1. hotCycles'[a0] = {}
        BY <2>1, <3>5
      <4>2. alertStates'[a0].cycles = 0
        BY <2>1, <3>5 DEF CyclesAfter
      <4>3. IsFiniteSet({}) /\ Cardinality({}) = 0 /\ 0 >= 0
        BY FS_EmptySet
      <4> QED
        BY <3>1, <4>1, <4>2, <4>3, Zenon
    <3> QED
      BY <3>4, <3>5
  <2>4. \A b \in OneGpuAlerts :
          /\ IsFiniteSet(hotCycles'[b])
          /\ Cardinality(hotCycles'[b]) >= alertStates'[b].cycles
          /\ \A c \in hotCycles'[b] : c <= cycle'[b[1]]
          /\ Running(b)' /\ ToCome(b)' => \A c \in hotCycles'[b] : c < cycle'[b[1]]
    BY <2>2, <2>3, Zenon
  <2> QED
    BY <2>4, Zenon DEF HotCounted
<1>3. CASE SkipCheck
  <2>1. alertStates' = alertStates /\ hotCycles' = hotCycles /\ cycle' = cycle
    BY <1>3 DEF SkipCheck, historyVars
  <2>2. \A b \in OneGpuAlerts : (Running(b)' <=> Running(b)) /\ (ToCome(b)' => ToCome(b))
    BY <1>0, <1>3, SkipOfAny
  <2> QED
    BY <2>1, <2>2, Zenon DEF HotCounted
<1>4. CASE Return
  <2>1. /\ alertStates' = alertStates /\ hotCycles' = hotCycles /\ cycle' = cycle
        /\ eval' = None
    BY <1>4 DEF Return
  <2> QED
    BY <2>1, Zenon DEF HotCounted, Running
<1>5. CASE Abort
  <2>1. /\ alertStates' = alertStates /\ hotCycles' = hotCycles /\ cycle' = cycle
        /\ eval' = None
    BY <1>5 DEF Abort
  <2> QED
    BY <2>1, Zenon DEF HotCounted, Running
<1>6. CASE UNCHANGED vars
  <2>1. eval' = eval /\ alertStates' = alertStates /\ hotCycles' = hotCycles /\ cycle' = cycle
    BY <1>6 DEF vars, systemVars, historyVars
  <2> QED
    BY <2>1, Zenon DEF HotCounted, Running, ToCome
<1> QED
  BY <1>1, <1>2, <1>3, <1>4, <1>5, <1>6 DEF Next

\* Debounce where a node has one GPU at most: whenever an alert stands,
\* stability_cycles different cycles have breached it since its last good check.
THEOREM DebounceCountsCycles == Spec => []OneGpuDebounced
<1>1. Init => HotCounted
  <2> SUFFICES ASSUME Init PROVE HotCounted
    OBVIOUS
  <2>1. /\ eval = None /\ hotCycles = [a \in Alerts |-> {}]
        /\ alertStates = [a \in Alerts |-> NoRow]
        /\ OneGpuAlerts \subseteq Alerts
    BY DEF Init, OneGpuAlerts
  <2>2. NoRow.cycles = 0 /\ 0 >= 0 /\ IsFiniteSet({}) /\ Cardinality({}) = 0
    BY FS_EmptySet DEF NoRow
  <2> QED
    BY <2>1, <2>2, Zenon DEF HotCounted, Running
<1>2. TypeOK /\ GpusFit /\ HotCounted /\ [Next]_vars => HotCounted'
  BY HotStep
<1>3. TypeOK /\ RowsConsistent /\ HotCounted => OneGpuDebounced
  <2> SUFFICES ASSUME TypeOK, RowsConsistent, HotCounted, NEW a \in OneGpuAlerts,
                      alertStates[a].state = "triggered"
               PROVE  Cardinality(hotCycles[a]) >= StabilityCycles
    BY Zenon DEF OneGpuDebounced, DistinctCycles
  <2> a \in Alerts
    BY DEF OneGpuAlerts
  <2>1. /\ alertStates[a].cycles >= StabilityCycles
        /\ IsFiniteSet(hotCycles[a]) /\ Cardinality(hotCycles[a]) >= alertStates[a].cycles
    BY Zenon DEF RowsConsistent, HotCounted
  <2>2. alertStates[a].cycles \in Nat /\ Cardinality(hotCycles[a]) \in Nat
    BY <2>1, FS_CardinalityType DEF TypeOK, Row
  <2> QED
    BY <2>1, <2>2, RulesAssumption
<1> QED
  BY <1>1, <1>2, <1>3, TypeCorrect, GpusAlwaysFit, RowsAreConsistent, PTL DEF Spec

=============================================================================
