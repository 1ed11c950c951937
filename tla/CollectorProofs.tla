---------------------------- MODULE CollectorProofs ----------------------------
(***************************************************************************)
(* Proofs about Collector, for every configuration of nodes, commands and    *)
(* time-outs.                                                                *)
(***************************************************************************)
EXTENDS Collector, TLAPS

(* How long a collection takes.                                              *)

\* The time a session may have taken up to its current wait.
Before(n) ==
  IF sessions[n].at = "connecting" THEN 0
  ELSE ConnectTimeout + (sessions[n].step - 1) * CommandTimeout

SessionsTyped == sessions \in [Nodes -> Session]

\* Everyone who still waits has been waiting since the collection began.
WaitsAccounted ==
  \A n \in Nodes : Waiting(n) =>
    /\ sessions[n].spent <= Limit(n)
    /\ elapsed <= Before(n) + sessions[n].spent

TimeInv ==
  /\ elapsed \in Nat
  /\ SessionsTyped
  /\ WaitsAccounted
  /\ CollectionBounded

\* The facts about the constants that the proofs use.
LEMMA Constants ==
  /\ ConnectTimeout \in Nat
  /\ CommandTimeout \in Nat
  /\ Len(Commands) \in Nat \ {0}
PROOF
<1>1. Commands \in Seq(STRING) /\ Commands # <<>>
  BY CollectorAssumption DEF CollectorAssumption
<1>2. Len(Commands) \in Nat \ {0}
  BY <1>1
<1> QED
  BY <1>2, CollectorAssumption DEF CollectorAssumption

\* Multiplication by a natural number keeps the order.
LEMMA TimesMonotone ==
  ASSUME NEW k \in Nat, NEW l \in Nat, NEW t \in Nat, k <= l
  PROVE  k * t <= l * t
PROOF
<1>1. PICK d \in Nat : l = k + d
  <2>1. l - k \in Nat
    OBVIOUS
  <2> QED
    BY <2>1
<1>2. d * t \in Nat
  OBVIOUS
<1>3. l * t = k * t + d * t
  BY <1>1
<1>4. k * t \in Nat
  OBVIOUS
<1> QED
  BY <1>2, <1>3, <1>4

\* The limits of the waits up to and including a step add up to no more than
\* the limit of the collection.
LEMMA StepLimit ==
  ASSUME NEW k \in 1 .. Len(Commands)
  PROVE  /\ (k - 1) * CommandTimeout \in Nat
         /\ (k - 1) * CommandTimeout + CommandTimeout = k * CommandTimeout
         /\ k * CommandTimeout <= Len(Commands) * CommandTimeout
         /\ Len(Commands) * CommandTimeout \in Nat
PROOF
<1>1. k - 1 \in Nat /\ k \in Nat /\ k <= Len(Commands) /\ Len(Commands) \in Nat /\ CommandTimeout \in Nat
  BY Constants
<1>2. k * CommandTimeout <= Len(Commands) * CommandTimeout
  BY <1>1, TimesMonotone
<1>3. (k - 1) * CommandTimeout + CommandTimeout = k * CommandTimeout
  BY <1>1
<1>4. (k - 1) * CommandTimeout \in Nat /\ Len(Commands) * CommandTimeout \in Nat
  BY <1>1
<1> QED
  BY <1>2, <1>3, <1>4

\* The sessions of a node that is given up and of one that is begun.
LEMMA NewSessions ==
  /\ Unreachable \in Session /\ Unreachable.at = "done"
  /\ Connecting \in Session /\ Connecting.at = "connecting" /\ Connecting.spent = 0
PROOF
<1>1. 1 \in 1 .. Len(Commands)
  BY Constants
<1>2. Unreachable \in Session /\ Unreachable.at = "done" /\ Unreachable.spent = 0
  BY <1>1 DEF Unreachable, Session
<1>3. Connecting = [Unreachable EXCEPT !.at = "connecting"]
  BY DEF Connecting
<1>4. Connecting \in Session /\ Connecting.at = "connecting" /\ Connecting.spent = 0
  BY <1>2, <1>3 DEF Session
<1> QED
  BY <1>2, <1>4

\* What a session's own step has to keep for the invariant to be kept.
LEMMA OneSession ==
  ASSUME TimeInv, NEW n \in Nodes, NEW s \in Session, Becomes(n, s),
         s.at # "done" =>
           /\ s.spent <= IF s.at = "connecting" THEN ConnectTimeout ELSE CommandTimeout
           /\ elapsed <= (IF s.at = "connecting" THEN 0
                          ELSE ConnectTimeout + (s.step - 1) * CommandTimeout) + s.spent
  PROVE  TimeInv'
PROOF
<1>1. UNCHANGED <<phase, elapsed>> /\ sessions' = [sessions EXCEPT ![n] = s]
  BY DEF Becomes, cycle
<1>2. elapsed' \in Nat
  BY <1>1 DEF TimeInv
<1>3. SessionsTyped'
  BY <1>1 DEF TimeInv, SessionsTyped
<1>4. WaitsAccounted'
  <2> SUFFICES ASSUME NEW m \in Nodes, Waiting(m)'
               PROVE  (sessions[m].spent <= Limit(m) /\ elapsed <= Before(m) + sessions[m].spent)'
    BY DEF WaitsAccounted
  <2>1. CASE m = n
    <3>1. sessions'[m] = s
      BY <2>1, <1>1 DEF TimeInv, SessionsTyped
    <3> QED
      BY <3>1, <1>1 DEF Waiting, Limit, Before
  <2>2. CASE m # n
    <3>1. sessions'[m] = sessions[m]
      BY <2>2, <1>1 DEF TimeInv, SessionsTyped
    <3> QED
      BY <3>1, <1>1 DEF Waiting, Limit, Before, TimeInv, WaitsAccounted
  <2> QED
    BY <2>1, <2>2
<1>5. CollectionBounded'
  BY <1>1 DEF TimeInv, CollectionBounded
<1> QED
  BY <1>2, <1>3, <1>4, <1>5 DEF TimeInv

\* The step in which time passes: some session still waits below its limit,
\* and its account bounds the time of them all.
LEMMA TickKeepsTime == ASSUME TimeInv, Tick PROVE TimeInv'
PROOF
<1> DEFINE Older(n) == IF Waiting(n) THEN [sessions[n] EXCEPT !.spent = @ + 1] ELSE sessions[n]
<1>1. /\ elapsed' = elapsed + 1 /\ phase' = phase
      /\ sessions' = [n \in Nodes |-> Older(n)]
  BY DEF Tick, cycle
<1>2. elapsed \in Nat /\ elapsed' \in Nat
  BY <1>1 DEF TimeInv
<1>3. \A n \in Nodes : sessions[n] \in Session
  BY DEF TimeInv, SessionsTyped
<1>4. \A n \in Nodes : Older(n) \in Session
  BY <1>3 DEF Session
<1>5. SessionsTyped'
  BY <1>1, <1>4 DEF SessionsTyped
<1>6. \A n \in Nodes :
        /\ Older(n).at = sessions[n].at /\ Older(n).step = sessions[n].step
        /\ Waiting(n) => Older(n).spent = sessions[n].spent + 1
  BY <1>3 DEF Session
<1>7. ASSUME NEW n \in Nodes, Waiting(n)
      PROVE  /\ sessions[n].spent + 1 <= Limit(n)
             /\ elapsed + 1 <= Before(n) + (sessions[n].spent + 1)
             /\ Before(n) \in Nat
  <2>1. sessions[n].spent < Limit(n) /\ elapsed <= Before(n) + sessions[n].spent
    BY <1>7 DEF Tick, TimeInv, WaitsAccounted
  <2>2. sessions[n].spent \in Nat /\ sessions[n].step \in 1 .. Len(Commands)
    BY <1>3 DEF Session
  <2>3. Before(n) \in Nat
    <3>1. (sessions[n].step - 1) * CommandTimeout \in Nat
      BY <2>2, StepLimit
    <3> QED
      BY <3>1, Constants DEF Before
  <2>4. Limit(n) \in Nat
    BY Constants DEF Limit
  <2> QED
    BY <2>1, <2>2, <2>3, <2>4, <1>2
<1>8. WaitsAccounted'
  <2> SUFFICES ASSUME NEW m \in Nodes, Waiting(m)'
               PROVE  (sessions[m].spent <= Limit(m) /\ elapsed <= Before(m) + sessions[m].spent)'
    BY DEF WaitsAccounted
  <2>1. sessions'[m] = Older(m)
    BY <1>1
  <2>2. Waiting(m)
    BY <2>1, <1>1, <1>6 DEF Waiting
  <2>3. Limit(m)' = Limit(m) /\ Before(m)' = Before(m)
    BY <2>1, <1>6 DEF Limit, Before
  <2> QED
    BY <2>1, <2>2, <2>3, <1>1, <1>6, <1>7
<1>9. CollectionBounded'
  <2>1. PICK n \in Nodes : Waiting(n)
    BY DEF Tick
  <2>2. elapsed + 1 <= Before(n) + Limit(n)
    <3>1. sessions[n].spent \in Nat
      BY <1>3 DEF Session
    <3>2. Limit(n) \in Nat
      BY Constants DEF Limit
    <3> QED
      BY <3>1, <3>2, <2>1, <1>2, <1>7
  <2>3. Before(n) + Limit(n) <= ConnectTimeout + Len(Commands) * CommandTimeout
    <3>1. sessions[n].step \in 1 .. Len(Commands)
      BY <1>3 DEF Session
    <3>2. CASE sessions[n].at = "connecting"
      <4>1. Len(Commands) * CommandTimeout \in Nat
        BY <3>1, StepLimit
      <4> QED
        BY <3>2, <4>1, Constants DEF Before, Limit
    <3>3. CASE sessions[n].at # "connecting"
      <4> DEFINE k == sessions[n].step
      <4>1. /\ (k - 1) * CommandTimeout \in Nat
            /\ (k - 1) * CommandTimeout + CommandTimeout = k * CommandTimeout
            /\ k * CommandTimeout <= Len(Commands) * CommandTimeout
            /\ Len(Commands) * CommandTimeout \in Nat
        BY <3>1, StepLimit
      <4>2. Before(n) = ConnectTimeout + (k - 1) * CommandTimeout /\ Limit(n) = CommandTimeout
        BY <3>3 DEF Before, Limit
      <4> HIDE DEF k
      <4> QED
        BY <4>1, <4>2, Constants
    <3> QED
      BY <3>2, <3>3
  <2>4. Before(n) + Limit(n) \in Nat /\ ConnectTimeout + Len(Commands) * CommandTimeout \in Nat
    BY <2>1, <1>7, Constants DEF Limit
  <2> QED
    BY <2>2, <2>3, <2>4, <1>1, <1>2 DEF CollectionBounded
<1> QED
  BY <1>2, <1>5, <1>8, <1>9 DEF TimeInv

\* The invariant holds in the initial state.
LEMMA TimeInvInit == Init => TimeInv
PROOF
<1> SUFFICES ASSUME Init PROVE TimeInv
  OBVIOUS
<1>1. Unreachable \in Session
  BY NewSessions
<1> QED
  BY <1>1 DEF Init, TimeInv, SessionsTyped, WaitsAccounted, CollectionBounded, Waiting

\* Every step keeps the invariant.
LEMMA TimeInvNext == TimeInv /\ [Next]_vars => TimeInv'
PROOF
<1> SUFFICES ASSUME TimeInv, [Next]_vars PROVE TimeInv'
  OBVIOUS
<1>0. /\ Unreachable \in Session /\ Connecting \in Session
      /\ Unreachable.at = "done" /\ Connecting.at = "connecting" /\ Connecting.spent = 0
  BY NewSessions
<1>1. CASE Begin
  <2>1. elapsed' = 0
    BY <1>1 DEF Begin
  <2>2. PICK noKey \in SUBSET Nodes :
          sessions' = [n \in Nodes |-> IF n \in noKey THEN Unreachable ELSE Connecting]
    BY <1>1 DEF Begin
  <2>3. SessionsTyped'
    BY <2>2, <1>0 DEF SessionsTyped
  <2>4. WaitsAccounted'
    BY <2>1, <2>2, <1>0, Constants DEF WaitsAccounted, Waiting, Limit, Before
  <2>5. Len(Commands) * CommandTimeout \in Nat
    BY Constants
  <2>6. CollectionBounded'
    BY <2>1, <2>5, Constants DEF CollectionBounded
  <2> QED
    BY <2>1, <2>3, <2>4, <2>6 DEF TimeInv
<1>2. ASSUME NEW n \in Nodes, SessionStep(n)
      PROVE  TimeInv'
  <2> DEFINE s == sessions[n]
  <2>1. s \in Session
    BY DEF TimeInv, SessionsTyped
  <2>2. Waiting(n)
    BY <1>2 DEF SessionStep, Connected, Answered, Finished, Fails
  <2>3. /\ s.spent \in Nat /\ s.step \in 1 .. Len(Commands) /\ elapsed \in Nat
        /\ s.spent <= Limit(n) /\ elapsed <= Before(n) + s.spent
    BY <2>1, <2>2 DEF TimeInv, WaitsAccounted, Session
  <2>4. CASE Connected(n)
    <3> DEFINE t == [s EXCEPT !.at = "running", !.spent = 0]
    <3>1. t \in Session /\ t.at = "running" /\ t.spent = 0 /\ t.step = s.step
      BY <2>1 DEF Session
    <3>2. Becomes(n, t) /\ s.at = "connecting"
      BY <2>4 DEF Connected
    <3>3. elapsed <= ConnectTimeout
      BY <2>3, <3>2, Constants DEF Limit, Before
    <3>4. (s.step - 1) * CommandTimeout \in Nat
      BY <2>3, StepLimit
    <3>5. elapsed <= (ConnectTimeout + (s.step - 1) * CommandTimeout) + 0
      BY <3>3, <3>4, <2>3, Constants
    <3> HIDE DEF t, s
    <3> QED
      BY <3>1, <3>2, <3>5, OneSession, Constants
  <2>5. CASE Answered(n)
    <3>1. PICK gpus \in GpusAfter(n) :
            Becomes(n, [s EXCEPT !.step = @ + 1, !.spent = 0, !.gpus = gpus])
      BY <2>5 DEF Answered
    <3> DEFINE t == [s EXCEPT !.step = @ + 1, !.spent = 0, !.gpus = gpus]
    <3>2. s.at = "running" /\ s.step < Len(Commands)
      BY <2>5 DEF Answered
    <3>3. gpus \in BOOLEAN
      BY <3>1, <2>1 DEF GpusAfter, Session
    <3>4. s.step + 1 \in 1 .. Len(Commands)
      BY <2>3, <3>2, Constants
    <3>5. t \in Session /\ t.at = "running" /\ t.spent = 0 /\ t.step = s.step + 1
      BY <2>1, <3>3, <3>4, <3>2 DEF Session
    <3> DEFINE a == (s.step - 1) * CommandTimeout
               b == s.step * CommandTimeout
    <3>6. a \in Nat /\ a + CommandTimeout = b
      BY <2>3, StepLimit
    <3>7. s.spent <= CommandTimeout /\ elapsed <= (ConnectTimeout + a) + s.spent
      BY <2>3, <3>2 DEF Limit, Before
    <3>8. (t.step - 1) * CommandTimeout = b
      <4>1. t.step - 1 = s.step
        BY <3>5, <2>3
      <4> QED
        BY <4>1
    <3> HIDE DEF a, b, t, s
    <3>9. elapsed <= (ConnectTimeout + b) + 0
      BY <3>6, <3>7, <2>3, Constants
    <3>10. Becomes(n, t)
      BY <3>1 DEF t, s
    <3> QED
      BY <3>5, <3>8, <3>9, <3>10, OneSession, Constants
  <2>6. CASE Finished(n)
    <3>1. PICK gpus \in GpusAfter(n) :
            Becomes(n, [s EXCEPT !.at = "done", !.gpus = gpus, !.reachable = TRUE])
      BY <2>6 DEF Finished
    <3>2. gpus \in BOOLEAN
      BY <3>1, <2>1 DEF GpusAfter, Session
    <3> DEFINE t == [s EXCEPT !.at = "done", !.gpus = gpus, !.reachable = TRUE]
    <3>3. t \in Session /\ t.at = "done"
      BY <2>1, <3>2 DEF Session
    <3> HIDE DEF t
    <3> QED
      BY <3>1, <3>3, OneSession DEF t
  <2>7. CASE Fails(n)
    <3>1. Becomes(n, Unreachable)
      BY <2>7 DEF Fails
    <3> QED
      BY <3>1, <1>0, OneSession
  <2> QED
    BY <1>2, <2>4, <2>5, <2>6, <2>7 DEF SessionStep
<1>3. CASE Tick
  BY <1>3, TickKeepsTime
<1>4. ASSUME UNCHANGED <<elapsed, sessions>>, phase' # "collect" \/ phase' = phase
      PROVE  TimeInv'
  BY <1>4 DEF TimeInv, SessionsTyped, WaitsAccounted, CollectionBounded, Waiting, Limit, Before
<1>5. CASE Gathered
  BY <1>4, <1>5 DEF Gathered
<1>6. CASE WriteNodeStatus \/ WriteMetrics \/ CleanupMetrics
  BY <1>4, <1>6 DEF WriteNodeStatus, WriteMetrics, CleanupMetrics
<1>7. CASE StatusError \/ MetricsError \/ Crash
  BY <1>4, <1>7 DEF StatusError, MetricsError, CycleFails, Crash
<1>8. CASE OtherCommit \/ UNCHANGED vars
  BY <1>4, <1>8 DEF OtherCommit, vars, cycle
<1> QED
  BY <1>1, <1>2, <1>3, <1>5, <1>6, <1>7, <1>8 DEF Next

\* A collection ends within connect_timeout and one command_timeout per
\* command (Collector.collect_all), for every number of nodes: what makes the
\* phase "collect" of InspectionCycle end.
THEOREM CollectionInTime == Spec => []CollectionBounded
PROOF
<1>1. TimeInv => CollectionBounded
  BY DEF TimeInv
<1> QED
  BY <1>1, TimeInvInit, TimeInvNext, PTL DEF Spec

=============================================================================
