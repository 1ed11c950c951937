----------------------------- MODULE ServiceProofs -----------------------------
(* What holds of Service for every set of alerts, all contents of the           *)
(* configuration and any number of requests, edits, stops and crashes.          *)
EXTENDS Service, TLAPS

\* What an end by force, of the cycle alone or of the process, does to the alerts.
LEMMA CycleDiesKeepsTypes ==
  ASSUME TypeOK, CycleDies
  PROVE  inCycle' \in BOOLEAN /\ left' \subseteq Alerts /\ events' \subseteq Alerts
         /\ told' \subseteq Alerts /\ lost' \subseteq Alerts
BY DEF TypeOK, CycleDies, Tell

\* Every step keeps the types of the file, the process and the table.
LEMMA TypeStep ==
  ASSUME TypeOK, [Next]_vars
  PROVE  TypeOK'
<1> USE ServiceAssumption DEF TypeOK, vars, world, process, cycle, Files, Phases
<1>1. CASE EditFile
  BY <1>1 DEF EditFile, Change
<1>2. CASE ChangeHost
  BY <1>2 DEF ChangeHost, Change
<1>3. CASE ChangeReading
  BY <1>3 DEF ChangeReading, Change
<1>4. CASE Start
  BY <1>4 DEF Start, CanStart, Loads
<1>5. CASE Reload
  BY <1>5 DEF Reload, Loads
<1>6. CASE Stop
  BY <1>6 DEF Stop
<1>7. CASE CloseStore
  BY <1>7 DEF CloseStore
<1>8. CASE Exit
  <2>1. CycleDies
    BY <1>8 DEF Exit, Gone
  <2> QED
    BY <1>8, <2>1, CycleDiesKeepsTypes DEF Exit, Gone
<1>9. CASE Crash
  <2>1. CycleDies
    BY <1>9 DEF Crash, Gone
  <2> QED
    BY <1>9, <2>1, CycleDiesKeepsTypes DEF Crash, Gone
<1>10. CASE Ask
  BY <1>10 DEF Ask
<1>11. CASE Answered
  BY <1>11 DEF Answered
<1>12. CASE BeginCycle
  BY <1>12 DEF BeginCycle
<1>13. ASSUME NEW a \in Alerts, Evaluate(a) PROVE TypeOK'
  BY <1>13 DEF Evaluate
<1>14. CASE Pushed
  BY <1>14 DEF Pushed, Tell
<1>15. CASE EndCycle
  BY <1>15 DEF EndCycle
<1>16. CASE Fail
  BY <1>16, CycleDiesKeepsTypes DEF Fail
<1>17. CASE UNCHANGED vars
  BY <1>17
<1> QED
  BY <1>1, <1>2, <1>3, <1>4, <1>5, <1>6, <1>7, <1>8, <1>9, <1>10, <1>11, <1>12,
     <1>13, <1>14, <1>15, <1>16, <1>17 DEF Next

\* The running settings, old or reloaded, are always ones that load_config has
\* accepted, and everything else has its type.
THEOREM TypesKept == Spec => []TypeOK
<1>1. Init => TypeOK
  <2>1. MaxRequests \in Nat /\ MaxChanges \in Nat /\ MaxEnds \in Nat
    BY ServiceAssumption
  <2>2. Valid \subseteq Versions
    BY ServiceAssumption
  <2> SUFFICES ASSUME Init PROVE TypeOK
    OBVIOUS
  <2>3. file \in Files /\ started \in Valid /\ holder \in Valid
    BY <2>2 DEF Init, Files
  <2>4. host \in BOOLEAN /\ inCycle \in BOOLEAN /\ phase \in Phases
    BY DEF Init, Phases
  <2>5. bad \subseteq Alerts /\ left \subseteq Alerts /\ events \subseteq Alerts /\ rows \subseteq Alerts
        /\ told \subseteq Alerts /\ lost \subseteq Alerts
    BY DEF Init
  <2>6. requests \in 0 .. MaxRequests /\ changes \in 0 .. MaxChanges /\ ends \in 0 .. MaxEnds
    BY <2>1 DEF Init
  <2> QED
    BY <2>3, <2>4, <2>5, <2>6 DEF TypeOK
<1>2. TypeOK /\ [Next]_vars => TypeOK'
  BY TypeStep
<1> QED
  BY <1>1, <1>2, PTL DEF Spec

-----------------------------------------------------------------------------

\* Only Ask gives the web server a request, and only while it is up; the phases
\* without a store are entered with no request left.
LEMMA RequestsStep ==
  ASSUME TypeOK, StoreServesRequests, [Next]_vars
  PROVE  StoreServesRequests'
<1> USE DEF TypeOK, StoreServesRequests, Running, vars, world, process, cycle
<1>1. CASE EditFile \/ ChangeHost \/ ChangeReading
  BY <1>1 DEF EditFile, ChangeHost, ChangeReading, Change
<1>2. CASE Start \/ Reload \/ Stop
  BY <1>2 DEF Start, Reload, Stop
<1>3. CASE CloseStore
  BY <1>3 DEF CloseStore
<1>4. CASE Exit \/ Crash
  BY <1>4 DEF Exit, Crash, Gone
<1>5. CASE Ask \/ Answered
  BY <1>5 DEF Ask, Answered
<1>6. CASE BeginCycle \/ Pushed \/ EndCycle \/ Fail
  BY <1>6 DEF BeginCycle, Pushed, EndCycle, Fail
<1>7. ASSUME NEW a \in Alerts, Evaluate(a) PROVE StoreServesRequests'
  BY <1>7 DEF Evaluate
<1>8. CASE UNCHANGED vars
  BY <1>8
<1> QED
  BY <1>1, <1>2, <1>3, <1>4, <1>5, <1>6, <1>7, <1>8 DEF Next

\* No request is ever served by a store that main has closed.
THEOREM RequestsHaveAStore == Spec => []StoreServesRequests
<1>1. Init => StoreServesRequests
  BY DEF Init, StoreServesRequests
<1>2. TypeOK /\ StoreServesRequests /\ [Next]_vars => StoreServesRequests'
  BY RequestsStep
<1> QED
  BY <1>1, <1>2, TypesKept, PTL DEF Spec

-----------------------------------------------------------------------------

\* A change enters the table together with the hands of a cycle, and leaves
\* those only for the receiver, the queue or the lost ones.
LEMMA AgreementStep ==
  ASSUME ReceiverAgreesWithTable, [Next]_vars
  PROVE  ReceiverAgreesWithTable'
<1> USE DEF ReceiverAgreesWithTable, vars, world, process, cycle
<1>1. CASE EditFile \/ ChangeHost \/ ChangeReading
  BY <1>1 DEF EditFile, ChangeHost, ChangeReading, Change
<1>2. CASE Start \/ Reload \/ Stop \/ CloseStore
  BY <1>2 DEF Start, Reload, Stop, CloseStore
<1>3. CASE Exit \/ Crash \/ Fail
  <2>1. CycleDies /\ rows' = rows
    BY <1>3 DEF Exit, Crash, Gone, Fail
  <2> QED
    BY <2>1 DEF CycleDies, Tell
<1>4. CASE Ask \/ Answered \/ BeginCycle \/ EndCycle
  BY <1>4 DEF Ask, Answered, BeginCycle, EndCycle
<1>5. ASSUME NEW a \in Alerts, Evaluate(a) PROVE ReceiverAgreesWithTable'
  BY <1>5 DEF Evaluate
<1>6. CASE Pushed
  BY <1>6 DEF Pushed, Tell
<1>7. CASE UNCHANGED vars
  BY <1>7
<1> QED
  BY <1>1, <1>2, <1>3, <1>4, <1>5, <1>6, <1>7 DEF Next

\* Whatever stops, crashes and exceptions come between: of every alert the
\* receiver and the queue know what the table says, or its change is in the hands
\* of a cycle, or such a cycle ended by force.
THEOREM ReceiverAgrees == Spec => []ReceiverAgreesWithTable
<1>1. Init => ReceiverAgreesWithTable
  BY DEF Init, ReceiverAgreesWithTable
<1>2. ReceiverAgreesWithTable /\ [Next]_vars => ReceiverAgreesWithTable'
  BY AgreementStep
<1> QED
  BY <1>1, <1>2, PTL DEF Spec

=============================================================================
