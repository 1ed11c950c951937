------------------------ MODULE CollectorHistoryProofs ------------------------
(***************************************************************************)
(* Proofs about Collector: the tables node_status and metrics agree, in what *)
(* the service reads and in what it finds after a restart, for every number  *)
(* of nodes, rounds, errors and crashes.                                     *)
(***************************************************************************)
EXTENDS Collector, TLAPS

N == Len(NodeOrder)

(* One view of the database.                                                 *)

StatusesInOrder(d) ==
  \A i, j \in DOMAIN NodeOrder :
    i <= j => d.status[NodeOrder[i]].round >= d.status[NodeOrder[j]].round

RowsMatch(d) ==
  \A r \in d.rows :
    /\ r.round <= d.status[r.node].round
    /\ r.round = d.status[r.node].round => d.status[r.node].reachable

Sound(d, now) ==
  /\ d \in Database
  /\ \A n \in Nodes : d.status[n].round <= now
  /\ StatusesInOrder(d)
  /\ RowsMatch(d)

\* The first k statuses are of this round, the others are older.
Written(d, k, now) ==
  \A i \in DOMAIN NodeOrder :
    IF i <= k THEN d.status[NodeOrder[i]].round = now ELSE d.status[NodeOrder[i]].round < now

(* The invariant: how far each view is, given what is left of the results.   *)

SessionsConsistent ==
  \A n \in Nodes :
    /\ sessions[n] \in Session
    /\ sessions[n].at = "done" /\ sessions[n].gpus => sessions[n].reachable

ResultsAreSuffix ==
  /\ results \in Seq(NodeMetrics)
  /\ Len(results) <= N
  /\ \A i \in 1 .. Len(results) :
       /\ results[i].node = NodeOrder[N - Len(results) + i]
       /\ results[i].round = round
       /\ results[i].gpus => results[i].reachable

Progress(d) ==
  /\ Sound(d, round)
  /\ phase = "collect" => Written(d, 0, round)
  /\ phase = "status" => Written(d, N - Len(results), round)
  /\ phase = "metrics" =>
       /\ Written(d, N - Len(results) + 1, round)
       /\ d.status[Current.node] = [round |-> round, reachable |-> Current.reachable]

HistoryInv ==
  /\ round \in Nat
  /\ phase \in {"idle", "collect", "status", "metrics"}
  /\ sessions \in [Nodes -> Session]
  /\ SessionsConsistent
  /\ phase \in {"idle", "collect"} => results = <<>>
  /\ phase = "metrics" => results # <<>>
  /\ ResultsAreSuffix
  /\ Progress(db)
  /\ Progress(disk)

-----------------------------------------------------------------------------
(* The configuration and the statements.                                     *)

\* The order of the configuration numbers the nodes.
LEMMA Configuration ==
  /\ NodeOrder \in Seq(Nodes)
  /\ N \in Nat /\ DOMAIN NodeOrder = 1 .. N
  /\ \A i \in 1 .. N : NodeOrder[i] \in Nodes
  /\ \A i, j \in 1 .. N : NodeOrder[i] = NodeOrder[j] => i = j
  /\ \A n \in Nodes : \E i \in 1 .. N : NodeOrder[i] = n
PROOF
<1>1. NodeOrder \in Seq(Nodes)
  BY CollectorAssumption DEF CollectorAssumption
<1>2. N \in Nat /\ DOMAIN NodeOrder = 1 .. N
  BY <1>1 DEF N
<1>3. \A n \in Nodes : \E i \in 1 .. N : NodeOrder[i] = n
  BY <1>2 DEF Nodes
<1> QED
  BY <1>1, <1>2, <1>3, CollectorAssumption DEF CollectorAssumption, Nodes

\* A change of the rows only.
LEMMA WithRows ==
  ASSUME NEW d \in Database, NEW rows
  PROVE  [d EXCEPT !.rows = rows] = [status |-> d.status, rows |-> rows]
PROOF
  BY DEF Database

\* What an upsert of the status makes of the row of each node.
LEMMA UpsertEffect ==
  ASSUME NEW d \in Database, NEW m \in NodeMetrics
  PROVE  /\ UpsertStatus(d, m) \in Database
         /\ UpsertStatus(d, m).rows = d.rows
         /\ \A n \in Nodes :
              UpsertStatus(d, m).status[n] =
                IF n = m.node THEN [round |-> m.round, reachable |-> m.reachable] ELSE d.status[n]
PROOF
<1> DEFINE new == [round |-> m.round, reachable |-> m.reachable]
<1>1. /\ d.status \in [Nodes -> [round : Nat, reachable : BOOLEAN]]
      /\ d.rows \in SUBSET Row
      /\ d = [status |-> d.status, rows |-> d.rows]
  BY DEF Database
<1>2. new \in [round : Nat, reachable : BOOLEAN]
  BY DEF NodeMetrics
<1>3. UpsertStatus(d, m) = [status |-> [d.status EXCEPT ![m.node] = new], rows |-> d.rows]
  BY <1>1 DEF UpsertStatus
<1> HIDE DEF new
<1>4. [d.status EXCEPT ![m.node] = new] \in [Nodes -> [round : Nat, reachable : BOOLEAN]]
  BY <1>1, <1>2
<1>5. UpsertStatus(d, m) \in Database
  BY <1>1, <1>3, <1>4 DEF Database
<1>6. \A n \in Nodes : UpsertStatus(d, m).status[n] = IF n = m.node THEN new ELSE d.status[n]
  BY <1>1, <1>3
<1> QED
  BY <1>3, <1>5, <1>6 DEF new

\* A batch is a sequence of parts.
LEMMA FlattenType ==
  ASSUME NEW m, NEW batch \in FlattenMetrics(m)
  PROVE  batch \in Seq(Part) /\ Len(batch) \in Nat
PROOF
<1>1. "gpu" \in Part /\ "system" \in Part /\ "network" \in Part
  BY DEF Part
<1> DEFINE gpus == IF m.gpus THEN <<"gpu">> ELSE <<>>
           network == IF m.reachable THEN <<"network">> ELSE <<>>
<1>2. gpus \in Seq(Part)
  BY <1>1
<1>3. network \in Seq(Part)
  BY <1>1
<1>4. PICK system \in SystemPart(m) : batch = gpus \o system \o network
  BY DEF FlattenMetrics
<1>5. system \in Seq(Part)
  <2>1. <<>> \in Seq(Part) /\ <<"system">> \in Seq(Part)
    BY <1>1
  <2>2. system = <<>> \/ system = <<"system">>
    BY DEF SystemPart
  <2> QED
    BY <2>1, <2>2, Zenon
<1> HIDE DEF gpus, network
<1>6. gpus \o system \in Seq(Part)
  BY <1>2, <1>5
<1>7. (gpus \o system) \o network \in Seq(Part)
  BY <1>3, <1>6
<1>8. batch \in Seq(Part)
  BY <1>4, <1>7
<1> QED
  BY <1>8

\* An insert adds rows of the node and its round, and for an unreachable node
\* without GPUs it adds none.
LEMMA InsertEffect ==
  ASSUME NEW d \in Database, NEW m \in NodeMetrics, NEW batch \in FlattenMetrics(m),
         NEW k \in 0 .. Len(batch), m.gpus => m.reachable
  PROVE  /\ InsertMetrics(d, m, batch, k) \in Database
         /\ InsertMetrics(d, m, batch, k).status = d.status
         /\ \A r \in InsertMetrics(d, m, batch, k).rows :
              r \in d.rows \/ (r.node = m.node /\ r.round = m.round /\ m.reachable)
PROOF
<1> DEFINE new == {RowOf(m, batch[i]) : i \in 1 .. k}
<1>1. /\ d.status \in [Nodes -> [round : Nat, reachable : BOOLEAN]]
      /\ d.rows \in SUBSET Row
      /\ d = [status |-> d.status, rows |-> d.rows]
  BY DEF Database
<1>2. m.node \in Nodes /\ m.round \in Nat /\ m.reachable \in BOOLEAN /\ m.gpus \in BOOLEAN
  BY DEF NodeMetrics
<1>3. batch \in Seq(Part)
  BY FlattenType
<1>4. \A i \in 1 .. k : batch[i] \in Part
  BY <1>3
<1>5. ~m.reachable => batch = <<>>
  BY <1>2 DEF FlattenMetrics, SystemPart
<1>6. \A r \in new : r.node = m.node /\ r.round = m.round /\ r \in Row
  BY <1>2, <1>4 DEF RowOf, Row
<1>7. new # {} => m.reachable
  <2> SUFFICES ASSUME ~m.reachable PROVE new = {}
    BY <1>2
  <2>1. Len(batch) = 0
    BY <1>5
  <2>2. k = 0
    BY <2>1
  <2> QED
    BY <2>2
<1>8. InsertMetrics(d, m, batch, k) = [status |-> d.status, rows |-> d.rows \cup new]
  <2>1. InsertMetrics(d, m, batch, k) = [d EXCEPT !.rows = d.rows \cup new]
    BY DEF InsertMetrics
  <2> HIDE DEF new
  <2> QED
    BY <2>1, WithRows
<1> HIDE DEF new
<1>9. InsertMetrics(d, m, batch, k) \in Database
  BY <1>1, <1>6, <1>8 DEF Database
<1> QED
  BY <1>6, <1>7, <1>8, <1>9

\* A clean-up takes rows away.
LEMMA CleanupEffect ==
  ASSUME NEW d \in Database, NEW cutoff \in [Nodes -> Nat]
  PROVE  LET e == [d EXCEPT !.rows = {r \in @ : r.round >= cutoff[r.node]}] IN
         e \in Database /\ e.status = d.status /\ e.rows \subseteq d.rows
PROOF
<1> DEFINE kept == {r \in d.rows : r.round >= cutoff[r.node]}
           e == [d EXCEPT !.rows = {r \in @ : r.round >= cutoff[r.node]}]
<1>1. /\ d.status \in [Nodes -> [round : Nat, reachable : BOOLEAN]]
      /\ d.rows \in SUBSET Row
      /\ d = [status |-> d.status, rows |-> d.rows]
  BY DEF Database
<1>2. kept \subseteq d.rows
  OBVIOUS
<1>3. e = [status |-> d.status, rows |-> kept]
  <2>1. e = [d EXCEPT !.rows = kept]
    OBVIOUS
  <2> HIDE DEF kept, e
  <2> QED
    BY <2>1, WithRows
<1> HIDE DEF kept, e
<1>4. e \in Database
  BY <1>1, <1>2, <1>3 DEF Database
<1> QED
  BY <1>2, <1>3, <1>4 DEF e

-----------------------------------------------------------------------------
(* The statements keep a view sound.                                         *)

\* A view whose statuses stay and whose rows are as they were, fewer, or of a
\* status that allows them.
LEMMA RowsChange ==
  ASSUME NEW now \in Nat, NEW d, NEW e, Sound(d, now), e \in Database,
         e.status = d.status,
         \A r \in e.rows : r \in d.rows \/
           (r.round = d.status[r.node].round /\ d.status[r.node].reachable)
  PROVE  /\ Sound(e, now)
         /\ \A k : Written(d, k, now) => Written(e, k, now)
PROOF
<1>1. RowsMatch(e)
  <2> SUFFICES ASSUME NEW r \in e.rows
               PROVE  /\ r.round <= e.status[r.node].round
                      /\ r.round = e.status[r.node].round => e.status[r.node].reachable
    BY DEF RowsMatch
  <2>1. CASE r \in d.rows
    BY <2>1 DEF Sound, RowsMatch
  <2>2. CASE r.round = d.status[r.node].round /\ d.status[r.node].reachable
    <3>1. r \in Row
      BY DEF Database
    <3>2. r.round \in Nat
      BY <3>1 DEF Row
    <3> QED
      BY <2>2, <3>2
  <2> QED
    BY <2>1, <2>2
<1>2. StatusesInOrder(e) /\ \A n \in Nodes : e.status[n].round <= now
  BY DEF Sound, StatusesInOrder
<1>3. \A k : Written(d, k, now) => Written(e, k, now)
  BY DEF Written
<1> QED
  BY <1>1, <1>2, <1>3 DEF Sound

\* The status of the next node in the order of the configuration.
LEMMA NextStatus ==
  ASSUME NEW now \in Nat, NEW d, Sound(d, now), NEW k \in 0 .. N - 1, Written(d, k, now),
         NEW m \in NodeMetrics, m.node = NodeOrder[k + 1], m.round = now
  PROVE  LET e == UpsertStatus(d, m) IN
         /\ Sound(e, now)
         /\ Written(e, k + 1, now)
         /\ e.status[m.node] = [round |-> now, reachable |-> m.reachable]
PROOF
<1> DEFINE e == UpsertStatus(d, m)
<1>1. d \in Database /\ N \in Nat /\ DOMAIN NodeOrder = 1 .. N /\ k \in Nat /\ k + 1 \in 1 .. N
  BY Configuration DEF Sound
<1>2. /\ e \in Database
      /\ e.rows = d.rows
      /\ \A n \in Nodes : e.status[n] =
           IF n = m.node THEN [round |-> now, reachable |-> m.reachable] ELSE d.status[n]
  BY <1>1, UpsertEffect
<1>3. m.node \in Nodes
  BY DEF NodeMetrics
<1>4. \A n \in Nodes : d.status[n].round \in Nat
  BY <1>1 DEF Database
<1> HIDE DEF e
<1>5. e.status[m.node] = [round |-> now, reachable |-> m.reachable] /\ e.status[m.node].round = now
  BY <1>2, <1>3
<1>6. \A i \in 1 .. N : e.status[NodeOrder[i]].round =
        IF i = k + 1 THEN now ELSE d.status[NodeOrder[i]].round
  BY <1>1, <1>2, <1>5, Configuration
<1>7. \A i \in 1 .. N : d.status[NodeOrder[i]].round \in Nat /\ d.status[NodeOrder[i]].round <= now
  BY <1>4, Configuration DEF Sound
<1>8. Written(e, k + 1, now)
  BY <1>1, <1>6, <1>7 DEF Written
<1>9. StatusesInOrder(e)
  <2> SUFFICES ASSUME NEW i \in 1 .. N, NEW j \in 1 .. N, i <= j
               PROVE  e.status[NodeOrder[i]].round >= e.status[NodeOrder[j]].round
    BY <1>1 DEF StatusesInOrder
  <2>1. CASE i <= k + 1
    <3>1. e.status[NodeOrder[i]].round = now
      BY <2>1, <1>8, <1>1 DEF Written
    <3>2. e.status[NodeOrder[j]].round \in Nat /\ e.status[NodeOrder[j]].round <= now
      BY <1>6, <1>7
    <3> QED
      BY <3>1, <3>2
  <2>2. CASE ~(i <= k + 1)
    <3>1. i # k + 1 /\ j # k + 1
      BY <2>2, <1>1
    <3> QED
      BY <3>1, <1>1, <1>6 DEF Sound, StatusesInOrder
  <2> QED
    BY <2>1, <2>2
<1>10. \A n \in Nodes : e.status[n].round <= now
  <2> SUFFICES ASSUME NEW n \in Nodes PROVE e.status[n].round <= now
    OBVIOUS
  <2>1. CASE n = m.node
    BY <2>1, <1>5
  <2>2. CASE n # m.node
    BY <2>2, <1>2 DEF Sound
  <2> QED
    BY <2>1, <2>2
<1>11. RowsMatch(e)
  <2> SUFFICES ASSUME NEW r \in d.rows
               PROVE  /\ r.round <= e.status[r.node].round
                      /\ r.round = e.status[r.node].round => e.status[r.node].reachable
    BY <1>2 DEF RowsMatch
  <2>1. r \in Row
    BY <1>1 DEF Database
  <2>2. r.node \in Nodes /\ r.round \in Nat
    BY <2>1 DEF Row
  <2>3. r.round <= d.status[r.node].round
    BY DEF Sound, RowsMatch
  <2>4. CASE r.node = m.node
    <3>1. d.status[m.node].round < now
      BY <1>1 DEF Written
    <3>2. r.round < now
      BY <3>1, <2>2, <2>3, <2>4, <1>4
    <3> QED
      BY <3>2, <2>4, <1>5, <2>2
  <2>5. CASE r.node # m.node
    BY <2>5, <2>2, <1>2 DEF Sound, RowsMatch
  <2> QED
    BY <2>4, <2>5
<1> QED
  BY <1>2, <1>5, <1>8, <1>9, <1>10, <1>11 DEF Sound, e

-----------------------------------------------------------------------------
(* The steps.                                                                *)

\* The invariant holds in the initial state.
LEMMA HistoryInit == Init => HistoryInv
PROOF
<1> SUFFICES ASSUME Init PROVE HistoryInv
  OBVIOUS
<1>1. 1 \in 1 .. Len(Commands)
  <2>1. Commands \in Seq(STRING) /\ Commands # <<>>
    BY CollectorAssumption DEF CollectorAssumption
  <2> QED
    BY <2>1
<1>2. Unreachable \in Session /\ ~Unreachable.gpus
  BY <1>1 DEF Unreachable, Session
<1>3. sessions \in [Nodes -> Session] /\ SessionsConsistent
  BY <1>2 DEF Init, SessionsConsistent
<1>4. ResultsAreSuffix
  <2>1. results = <<>> /\ results \in Seq(NodeMetrics) /\ Len(results) = 0
    BY DEF Init
  <2> QED
    BY <2>1, Configuration DEF ResultsAreSuffix
<1>5. Sound(db, 0)
  <2>1. db = [status |-> [n \in Nodes |-> [round |-> 0, reachable |-> FALSE]], rows |-> {}]
    BY DEF Init
  <2>2. /\ db.status = [n \in Nodes |-> [round |-> 0, reachable |-> FALSE]]
        /\ db.rows = {}
    BY <2>1
  <2>3. \A n \in Nodes : db.status[n].round = 0
    BY <2>2
  <2>4. db \in Database
    BY <2>1 DEF Database
  <2> QED
    BY <2>2, <2>3, <2>4, Configuration DEF Sound, StatusesInOrder, RowsMatch
<1> QED
  BY <1>3, <1>4, <1>5 DEF Init, HistoryInv, Progress

\* The results of the gather follow the sessions.
LEMMA GatherEffect == ASSUME HistoryInv, Gathered PROVE HistoryInv'
PROOF
<1> DEFINE res(i) == [node |-> NodeOrder[i], round |-> round,
                      reachable |-> sessions[NodeOrder[i]].reachable,
                      gpus |-> sessions[NodeOrder[i]].gpus]
<1>1. /\ phase = "collect" /\ phase' = "status"
      /\ results' = [i \in DOMAIN NodeOrder |-> res(i)]
      /\ UNCHANGED <<round, sessions, db, disk>>
      /\ \A n \in Nodes : sessions[n].at = "done"
  BY DEF Gathered, tables, Waiting
<1>2. N \in Nat /\ DOMAIN NodeOrder = 1 .. N /\ round \in Nat
  BY Configuration DEF HistoryInv
<1>3. \A i \in 1 .. N :
        /\ res(i) \in NodeMetrics
        /\ res(i).node = NodeOrder[i] /\ res(i).round = round
        /\ res(i).gpus => res(i).reachable
  <2> SUFFICES ASSUME NEW i \in 1 .. N
               PROVE  /\ res(i) \in NodeMetrics
                      /\ res(i).node = NodeOrder[i] /\ res(i).round = round
                      /\ res(i).gpus => res(i).reachable
    OBVIOUS
  <2>1. NodeOrder[i] \in Nodes
    BY Configuration
  <2>2. /\ sessions[NodeOrder[i]] \in Session
        /\ sessions[NodeOrder[i]].gpus => sessions[NodeOrder[i]].reachable
    BY <2>1, <1>1 DEF HistoryInv, SessionsConsistent
  <2>3. sessions[NodeOrder[i]].gpus \in BOOLEAN /\ sessions[NodeOrder[i]].reachable \in BOOLEAN
    BY <2>2 DEF Session
  <2> QED
    BY <2>1, <2>2, <2>3, <1>2 DEF NodeMetrics
<1> HIDE DEF res
<1>4. results' = [i \in 1 .. N |-> res(i)]
  BY <1>1, <1>2
<1>5. results' \in Seq(NodeMetrics) /\ Len(results') = N
  BY <1>2, <1>3, <1>4
<1>6. ResultsAreSuffix'
  <2>1. \A i \in 1 .. N : results'[i] = res(i) /\ N - N + i = i
    BY <1>2, <1>4
  <2> QED
    BY <2>1, <1>1, <1>2, <1>3, <1>5 DEF ResultsAreSuffix
<1>7. N - Len(results') = 0
  BY <1>2, <1>5
<1>8. Progress(db)' /\ Progress(disk)'
  BY <1>1, <1>7 DEF HistoryInv, Progress
<1>9. SessionsConsistent' /\ sessions' \in [Nodes -> Session]
  BY <1>1 DEF HistoryInv, SessionsConsistent
<1> QED
  BY <1>1, <1>2, <1>6, <1>8, <1>9 DEF HistoryInv

\* The result that the loop is at, and the place of its node.
LEMMA CurrentResult ==
  ASSUME HistoryInv, results # <<>>
  PROVE  /\ Current \in NodeMetrics
         /\ Current.round = round
         /\ Current.gpus => Current.reachable
         /\ N - Len(results) \in 0 .. N - 1
         /\ Current.node = NodeOrder[N - Len(results) + 1]
         /\ Tail(results) \in Seq(NodeMetrics)
         /\ N - Len(Tail(results)) = N - Len(results) + 1
PROOF
<1>1. results \in Seq(NodeMetrics) /\ Len(results) <= N /\ N \in Nat
  BY Configuration DEF HistoryInv, ResultsAreSuffix
<1>2. Len(results) \in 1 .. N /\ 1 \in 1 .. Len(results)
  BY <1>1
<1>3. Current = results[1]
  BY <1>2 DEF Current
<1>4. Tail(results) \in Seq(NodeMetrics) /\ Len(Tail(results)) = Len(results) - 1
  BY <1>1
<1> QED
  BY <1>1, <1>2, <1>3, <1>4 DEF HistoryInv, ResultsAreSuffix

\* The rest of the results is a suffix again.
LEMMA TailIsSuffix ==
  ASSUME HistoryInv, results # <<>>, results' = Tail(results), round' = round
  PROVE  ResultsAreSuffix'
PROOF
<1>1. results \in Seq(NodeMetrics) /\ Len(results) <= N /\ N \in Nat /\ Len(results) \in Nat \ {0}
  BY Configuration DEF HistoryInv, ResultsAreSuffix
<1>2. results' \in Seq(NodeMetrics) /\ Len(results') = Len(results) - 1
  BY <1>1
<1> SUFFICES ASSUME NEW i \in 1 .. Len(results')
             PROVE  /\ results'[i].node = NodeOrder[N - Len(results') + i]
                    /\ results'[i].round = round
                    /\ results'[i].gpus => results'[i].reachable
  BY <1>1, <1>2 DEF ResultsAreSuffix
<1>3. i + 1 \in 1 .. Len(results) /\ results'[i] = results[i + 1]
  BY <1>1, <1>2
<1>4. N - Len(results') + i = N - Len(results) + (i + 1)
  BY <1>1, <1>2
<1> QED
  BY <1>3, <1>4 DEF HistoryInv, ResultsAreSuffix

\* So is the empty list of results.
LEMMA EmptyIsSuffix == ASSUME results' = <<>> PROVE ResultsAreSuffix'
PROOF
<1>1. <<>> \in Seq(NodeMetrics) /\ Len(<<>>) = 0
  OBVIOUS
<1> QED
  BY <1>1, Configuration DEF ResultsAreSuffix

\* The two statements of the loop, done in the view db.
LEMMA StatusStatement ==
  ASSUME HistoryInv, phase = "status", results # <<>>
  PROVE  LET e == UpsertStatus(db, Current) IN
         /\ Sound(e, round)
         /\ Written(e, N - Len(results) + 1, round)
         /\ e.status[Current.node] = [round |-> round, reachable |-> Current.reachable]
PROOF
<1>1. Sound(db, round) /\ Written(db, N - Len(results), round) /\ round \in Nat
  BY DEF HistoryInv, Progress
<1> QED
  BY <1>1, CurrentResult, NextStatus

\* The inserts of any part of the batch.
LEMMA MetricsStatement ==
  ASSUME HistoryInv, phase = "metrics",
         NEW batch \in FlattenMetrics(Current), NEW k \in 0 .. Len(batch)
  PROVE  LET e == InsertMetrics(db, Current, batch, k) IN
         /\ Sound(e, round)
         /\ Written(e, N - Len(results) + 1, round)
PROOF
<1> DEFINE e == InsertMetrics(db, Current, batch, k)
<1>1. /\ Sound(db, round) /\ round \in Nat /\ results # <<>>
      /\ Written(db, N - Len(results) + 1, round)
      /\ db.status[Current.node] = [round |-> round, reachable |-> Current.reachable]
  BY DEF HistoryInv, Progress
<1>2. db \in Database /\ Current \in NodeMetrics /\ Current.round = round
      /\ (Current.gpus => Current.reachable)
  BY <1>1, CurrentResult DEF Sound
<1>3. /\ e \in Database /\ e.status = db.status
      /\ \A r \in e.rows :
           r \in db.rows \/ (r.node = Current.node /\ r.round = round /\ Current.reachable)
  BY <1>2, InsertEffect
<1> HIDE DEF e
<1>4. \A r \in e.rows :
        r \in db.rows \/ (r.round = db.status[r.node].round /\ db.status[r.node].reachable)
  BY <1>1, <1>3
<1>5. Sound(e, round) /\ \A k0 : Written(db, k0, round) => Written(e, k0, round)
  BY <1>1, <1>3, <1>4, RowsChange
<1> QED
  BY <1>1, <1>5 DEF e

\* Every step keeps the invariant.
LEMMA HistoryNext == HistoryInv /\ [Next]_vars => HistoryInv'
PROOF
<1> SUFFICES ASSUME HistoryInv, [Next]_vars PROVE HistoryInv'
  OBVIOUS
<1> USE DEF cycle, tables
<1>0. /\ Unreachable \in Session /\ Connecting \in Session
      /\ ~Unreachable.gpus /\ Connecting.at = "connecting"
  <2>1. Commands \in Seq(STRING) /\ Commands # <<>>
    BY CollectorAssumption DEF CollectorAssumption
  <2>2. 1 \in 1 .. Len(Commands)
    BY <2>1
  <2>3. Unreachable \in Session /\ ~Unreachable.gpus
    BY <2>2 DEF Unreachable, Session
  <2>4. Connecting = [Unreachable EXCEPT !.at = "connecting"]
    BY DEF Connecting
  <2> QED
    BY <2>3, <2>4 DEF Session
\* A step that ends or leaves the loop, or is outside of it.
<1>1. ASSUME /\ UNCHANGED <<round, sessions>>
             /\ phase' = "idle" /\ results' = <<>>
             /\ Sound(db', round) /\ Sound(disk', round)
      PROVE  HistoryInv'
  BY <1>1, EmptyIsSuffix DEF HistoryInv, SessionsConsistent, Progress
<1>2. Sound(db, round) /\ Sound(disk, round) /\ round \in Nat
  BY DEF HistoryInv, Progress
<1>3. CASE Begin
  <2>1. /\ phase = "idle" /\ phase' = "collect" /\ round' = round + 1
        /\ UNCHANGED <<results, db, disk>> /\ results = <<>>
    BY <1>3 DEF Begin, HistoryInv
  <2>2. PICK noKey \in SUBSET Nodes :
          sessions' = [n \in Nodes |-> IF n \in noKey THEN Unreachable ELSE Connecting]
    BY <1>3 DEF Begin
  <2>3. sessions' \in [Nodes -> Session] /\ SessionsConsistent'
    BY <2>2, <1>0 DEF SessionsConsistent
  <2>4. ASSUME NEW d, Sound(d, round)
        PROVE  Sound(d, round + 1) /\ Written(d, 0, round + 1)
    <3>1. \A n \in Nodes : d.status[n].round \in Nat /\ d.status[n].round <= round
      BY <2>4 DEF Sound, Database
    <3>2. \A n \in Nodes : d.status[n].round <= round + 1 /\ d.status[n].round < round + 1
      BY <3>1, <1>2
    <3> QED
      BY <2>4, <3>2, Configuration DEF Sound, Written
  <2>5. Progress(db)' /\ Progress(disk)'
    BY <2>1, <2>4, <1>2 DEF Progress
  <2>6. results' = <<>>
    BY <2>1
  <2> QED
    BY <2>1, <2>3, <2>5, <2>6, <1>2, EmptyIsSuffix DEF HistoryInv
<1>4. ASSUME UNCHANGED <<phase, results, round, db, disk>>,
             sessions' \in [Nodes -> Session], SessionsConsistent'
      PROVE  HistoryInv'
  BY <1>4 DEF HistoryInv, ResultsAreSuffix, Progress, Current
<1>5. ASSUME NEW n \in Nodes, NEW s \in Session, Becomes(n, s), s.at = "done" /\ s.gpus => s.reachable
      PROVE  HistoryInv'
  <2>1. /\ UNCHANGED <<phase, results, round, db, disk>>
        /\ sessions' = [sessions EXCEPT ![n] = s]
    BY <1>5 DEF Becomes
  <2>2. sessions' \in [Nodes -> Session] /\ SessionsConsistent'
    BY <2>1, <1>5 DEF HistoryInv, SessionsConsistent
  <2> QED
    BY <2>1, <2>2, <1>4
<1>6. ASSUME NEW n \in Nodes, SessionStep(n)
      PROVE  HistoryInv'
  <2> DEFINE s == sessions[n]
  <2>1. s \in Session
    BY DEF HistoryInv
  <2>2. CASE Connected(n)
    <3>1. [s EXCEPT !.at = "running", !.spent = 0] \in Session
      BY <2>1 DEF Session
    <3>2. [s EXCEPT !.at = "running", !.spent = 0].at = "running"
      BY <2>1 DEF Session
    <3> QED
      BY <2>2, <3>1, <3>2, <1>5 DEF Connected
  <2>3. CASE Answered(n)
    <3>1. PICK gpus \in GpusAfter(n) :
            Becomes(n, [s EXCEPT !.step = @ + 1, !.spent = 0, !.gpus = gpus])
      BY <2>3 DEF Answered
    <3>2. gpus \in BOOLEAN
      BY <3>1, <2>1 DEF GpusAfter, Session
    <3>3. s.at = "running" /\ s.step + 1 \in 1 .. Len(Commands)
      <4>1. s.step \in 1 .. Len(Commands) /\ s.step < Len(Commands) /\ s.at = "running"
        BY <2>3, <2>1 DEF Answered, Session
      <4>2. Len(Commands) \in Nat
        BY CollectorAssumption DEF CollectorAssumption
      <4> QED
        BY <4>1, <4>2
    <3>4. [s EXCEPT !.step = @ + 1, !.spent = 0, !.gpus = gpus] \in Session
      BY <2>1, <3>2, <3>3 DEF Session
    <3>5. [s EXCEPT !.step = @ + 1, !.spent = 0, !.gpus = gpus].at = "running"
      BY <2>1, <3>3 DEF Session
    <3> QED
      BY <3>1, <3>4, <3>5, <1>5
  <2>4. CASE Finished(n)
    <3>1. PICK gpus \in GpusAfter(n) :
            Becomes(n, [s EXCEPT !.at = "done", !.gpus = gpus, !.reachable = TRUE])
      BY <2>4 DEF Finished
    <3>2. gpus \in BOOLEAN
      BY <3>1, <2>1 DEF GpusAfter, Session
    <3>3. [s EXCEPT !.at = "done", !.gpus = gpus, !.reachable = TRUE] \in Session
      BY <2>1, <3>2 DEF Session
    <3>4. [s EXCEPT !.at = "done", !.gpus = gpus, !.reachable = TRUE].reachable = TRUE
      BY <2>1 DEF Session
    <3> QED
      BY <3>1, <3>3, <3>4, <1>5
  <2>5. CASE Fails(n)
    BY <2>5, <1>0, <1>5 DEF Fails
  <2> QED
    BY <1>6, <2>2, <2>3, <2>4, <2>5 DEF SessionStep
<1>7. CASE Tick
  <2> DEFINE Older(n) == IF Waiting(n) THEN [sessions[n] EXCEPT !.spent = @ + 1] ELSE sessions[n]
  <2>1. UNCHANGED <<phase, results, round, db, disk>> /\ sessions' = [n \in Nodes |-> Older(n)]
    BY <1>7 DEF Tick
  <2>2. \A n \in Nodes : sessions[n] \in Session
    BY DEF HistoryInv
  <2>3. \A n \in Nodes : /\ Older(n) \in Session
                         /\ Older(n).at = sessions[n].at
                         /\ Older(n).gpus = sessions[n].gpus
                         /\ Older(n).reachable = sessions[n].reachable
    BY <2>2 DEF Session
  <2> HIDE DEF Older
  <2>4. sessions' \in [Nodes -> Session] /\ SessionsConsistent'
    BY <2>1, <2>3 DEF HistoryInv, SessionsConsistent
  <2> QED
    BY <2>1, <2>4, <1>4
<1>8. CASE Gathered
  BY <1>8, GatherEffect
<1>9. CASE WriteNodeStatus
  <2>1. /\ phase = "status" /\ phase' = "metrics" /\ results # <<>>
        /\ UNCHANGED <<round, sessions, results>>
        /\ db' = UpsertStatus(db, Current) /\ disk' = UpsertStatus(db, Current)
    BY <1>9 DEF WriteNodeStatus, Commits
  <2> DEFINE e == UpsertStatus(db, Current)
  <2>2. /\ Sound(e, round) /\ Written(e, N - Len(results) + 1, round)
        /\ e.status[Current.node] = [round |-> round, reachable |-> Current.reachable]
    BY <2>1, StatusStatement
  <2> HIDE DEF e
  <2>3. db' = e /\ disk' = e /\ Current' = Current
    BY <2>1 DEF e, Current
  <2>4. Progress(db)' /\ Progress(disk)'
    BY <2>1, <2>2, <2>3 DEF Progress
  <2> QED
    BY <2>1, <2>4 DEF HistoryInv, SessionsConsistent, ResultsAreSuffix
<1>10. CASE WriteMetrics
  <2>0. PICK batch \in FlattenMetrics(Current) :
          Commits(InsertMetrics(db, Current, batch, Len(batch)))
    BY <1>10 DEF WriteMetrics
  <2>1. /\ phase = "metrics" /\ phase' = "status" /\ results # <<>>
        /\ UNCHANGED <<round, sessions>> /\ results' = Tail(results)
        /\ db' = InsertMetrics(db, Current, batch, Len(batch)) /\ disk' = db'
    BY <1>10, <2>0 DEF WriteMetrics, Commits, HistoryInv
  <2>2. Len(batch) \in 0 .. Len(batch)
    BY FlattenType
  <2>3. Sound(db', round) /\ Written(db', N - Len(results) + 1, round)
    BY <2>1, <2>2, MetricsStatement
  <2>4. N - Len(results') = N - Len(results) + 1
    BY <2>1, CurrentResult
  <2>5. Progress(db)' /\ Progress(disk)'
    BY <2>1, <2>3, <2>4 DEF Progress
  <2> QED
    BY <2>1, <2>5, TailIsSuffix DEF HistoryInv, SessionsConsistent
<1>11. CASE CleanupMetrics
  <2>1. PICK cutoff \in [Nodes -> 1 .. round] :
          Commits([db EXCEPT !.rows = {r \in @ : r.round >= cutoff[r.node]}])
    BY <1>11 DEF CleanupMetrics
  <2> DEFINE e == [db EXCEPT !.rows = {r \in @ : r.round >= cutoff[r.node]}]
  <2>2. e \in Database /\ e.status = db.status /\ e.rows \subseteq db.rows
    <3>1. cutoff \in [Nodes -> Nat] /\ db \in Database
      BY <1>2 DEF Sound
    <3> QED
      BY <3>1, CleanupEffect
  <2>3. db' = e /\ disk' = e
    BY <2>1 DEF Commits
  <2> HIDE DEF e
  <2>4. Sound(e, round)
    BY <2>2, <1>2, RowsChange
  <2>5. /\ phase' = "idle" /\ results' = <<>> /\ UNCHANGED <<round, sessions>>
    BY <1>11 DEF CleanupMetrics
  <2> QED
    BY <2>3, <2>4, <2>5, <1>1
<1>12. CASE StatusError
  <2>1. /\ phase = "status" /\ results # <<>> /\ db' \in {db, UpsertStatus(db, Current)}
        /\ phase' = "idle" /\ results' = <<>> /\ UNCHANGED <<round, sessions, disk>>
    BY <1>12 DEF StatusError, CycleFails
  <2>2. Sound(db', round)
    BY <2>1, <1>2, StatusStatement
  <2> QED
    BY <2>1, <2>2, <1>1, <1>2
<1>13. CASE MetricsError
  <2>1. /\ phase = "metrics"
        /\ phase' = "idle" /\ results' = <<>> /\ UNCHANGED <<round, sessions, disk>>
    BY <1>13 DEF MetricsError, CycleFails
  <2>0. PICK batch \in FlattenMetrics(Current) :
          \E k \in 0 .. Len(batch) : db' = InsertMetrics(db, Current, batch, k)
    BY <1>13 DEF MetricsError
  <2>2. PICK k \in 0 .. Len(batch) : db' = InsertMetrics(db, Current, batch, k)
    BY <2>0
  <2>3. Sound(db', round)
    BY <2>1, <2>2, MetricsStatement
  <2> QED
    BY <2>1, <2>3, <1>1, <1>2
<1>14. CASE OtherCommit
  <2>1. UNCHANGED <<phase, results, round, sessions, db>> /\ disk' = db
    BY <1>14 DEF OtherCommit
  <2> QED
    BY <2>1 DEF HistoryInv, SessionsConsistent, ResultsAreSuffix, Progress, Current
<1>15. CASE Crash
  BY <1>15, <1>1, <1>2 DEF Crash
<1>16. CASE UNCHANGED vars
  <2>1. UNCHANGED <<phase, results, round, sessions, db, disk>>
    BY <1>16 DEF vars
  <2> QED
    BY <2>1 DEF HistoryInv, SessionsConsistent, ResultsAreSuffix, Progress, Current
<1> QED
  BY <1>3, <1>6, <1>7, <1>8, <1>9, <1>10, <1>11, <1>12, <1>13, <1>14, <1>15, <1>16 DEF Next

\* node_status is written in the order of the configuration, so the nodes that
\* a cycle did not come to are the last ones (run_inspection_cycle's loop).
THEOREM StatusesStayInOrder == Spec => []NodesInOrder
PROOF
<1>1. HistoryInv => NodesInOrder
  BY DEF HistoryInv, Progress, Sound, StatusesInOrder, NodesInOrder, Views
<1> QED
  BY <1>1, HistoryInit, HistoryNext, PTL DEF Spec

\* metrics never tells of a node what node_status contradicts, whatever fails
\* between the two writes of run_inspection_cycle.
THEOREM HistoryAndStatusAgree == Spec => []HistoryMatchesStatus
PROOF
<1>1. HistoryInv => HistoryMatchesStatus
  BY DEF HistoryInv, Progress, Sound, RowsMatch, HistoryMatchesStatus, Views
<1> QED
  BY <1>1, HistoryInit, HistoryNext, PTL DEF Spec


-----------------------------------------------------------------------------
(* The counters and the history variable: with HistoryInv, the types.        *)

\* A round is under way only after one was begun; a batch is broken only by
\* the round that wrote it.
CountersInv ==
  /\ elapsed \in Nat
  /\ round \in 0 .. MaxRounds
  /\ phase # "idle" => round >= 1
  /\ faults \in 0 .. MaxFaults
  /\ broken \subseteq Nodes \X (1 .. MaxRounds)

\* The counters stay in their bounds.
LEMMA CountersNext == HistoryInv /\ CountersInv /\ [Next]_vars => CountersInv'
PROOF
<1> SUFFICES ASSUME HistoryInv, CountersInv, [Next]_vars PROVE CountersInv'
  OBVIOUS
<1> USE DEF cycle, tables
<1>0. MaxRounds \in Nat /\ MaxFaults \in Nat
  BY CollectorAssumption DEF CollectorAssumption
<1>1. CASE Begin
  <2>1. /\ round < MaxRounds /\ round' = round + 1 /\ elapsed' = 0
        /\ faults' = faults /\ broken' = broken
    BY <1>1 DEF Begin
  <2>2. round' \in 0 .. MaxRounds /\ round' >= 1
    BY <2>1, <1>0 DEF CountersInv
  <2> QED
    BY <2>1, <2>2 DEF CountersInv
<1>2. ASSUME /\ round' = round /\ faults' = faults /\ broken' = broken
             /\ elapsed' = elapsed \/ elapsed' = elapsed + 1
             /\ phase # "idle" \/ phase' = phase
      PROVE  CountersInv'
  BY <1>2 DEF CountersInv
<1>3. ASSUME NEW n \in Nodes, SessionStep(n)
      PROVE  CountersInv'
  BY <1>2, <1>3 DEF SessionStep, Connected, Answered, Finished, Fails, Becomes
<1>4. CASE Tick
  BY <1>2, <1>4 DEF Tick
<1>5. CASE Gathered
  BY <1>2, <1>5 DEF Gathered
<1>6. CASE WriteNodeStatus
  BY <1>2, <1>6 DEF WriteNodeStatus
<1>7. CASE WriteMetrics
  BY <1>2, <1>7 DEF WriteMetrics
<1>8. CASE CleanupMetrics
  BY <1>2, <1>8 DEF CleanupMetrics
<1>9. CASE OtherCommit \/ UNCHANGED vars
  BY <1>2, <1>9 DEF OtherCommit, vars
<1>10. ASSUME faults < MaxFaults, faults' = faults + 1, phase' = "idle",
              UNCHANGED <<round, elapsed>>, broken' \subseteq Nodes \X (1 .. MaxRounds)
       PROVE  CountersInv'
  BY <1>0, <1>10 DEF CountersInv
<1>11. CASE StatusError
  BY <1>10, <1>11 DEF StatusError, CycleFails, CountersInv
<1>12. CASE Crash
  BY <1>10, <1>12 DEF Crash, CountersInv
<1>13. CASE MetricsError
  <2>1. results # <<>> /\ broken' = broken \cup {<<Current.node, Current.round>>}
    BY <1>13 DEF MetricsError, HistoryInv
  <2>2. Current.node \in Nodes /\ Current.round = round
    BY <2>1, CurrentResult DEF NodeMetrics
  <2>3. round \in 1 .. MaxRounds
    BY <1>0, <1>13 DEF CountersInv, MetricsError
  <2>4. broken' \subseteq Nodes \X (1 .. MaxRounds)
    BY <2>1, <2>2, <2>3 DEF CountersInv
  <2> QED
    BY <2>4, <1>10, <1>13 DEF MetricsError, CycleFails
<1> QED
  BY <1>1, <1>3, <1>4, <1>5, <1>6, <1>7, <1>8, <1>9, <1>11, <1>12, <1>13 DEF Next

\* The coroutines of collect_all, the results they leave and both views of the
\* database keep their types, through every error and restart.
THEOREM TypesKept == Spec => []TypeOK
PROOF
<1>1. Init => CountersInv
  BY CollectorAssumption DEF CollectorAssumption, Init, CountersInv
<1>2. HistoryInv /\ CountersInv => TypeOK
  BY DEF HistoryInv, CountersInv, ResultsAreSuffix, Progress, Sound, TypeOK
<1> QED
  BY <1>1, <1>2, HistoryInit, HistoryNext, CountersNext, PTL DEF Spec

-----------------------------------------------------------------------------
(* The batches: a whole one has a network row, its last part.                *)

\* In a view, the batches that are not among the lost ones are whole.
Whole(d, lost) ==
  \A r \in d.rows :
    \/ <<r.node, r.round>> \in lost
    \/ RowOf(r, "network") \in d.rows

BatchesInv == Whole(db, broken) /\ Whole(disk, broken)

\* Another part of the batch of a row.
LEMMA OtherPart ==
  ASSUME NEW r \in Row, NEW part
  PROVE  [r EXCEPT !.part = part] = RowOf(r, part)
PROOF
  BY DEF Row, RowOf

\* More batches may be lost.
LEMMA WholeMonotone ==
  ASSUME NEW d, NEW lost, NEW more, Whole(d, lost), lost \subseteq more
  PROVE  Whole(d, more)
PROOF
  BY DEF Whole

\* What an insert makes of the rows.
LEMMA InsertedRows ==
  ASSUME NEW d \in Database, NEW m, NEW batch, NEW k
  PROVE  InsertMetrics(d, m, batch, k).rows = d.rows \cup {RowOf(m, batch[i]) : i \in 1 .. k}
PROOF
<1> DEFINE new == {RowOf(m, batch[i]) : i \in 1 .. k}
<1>1. InsertMetrics(d, m, batch, k) = [d EXCEPT !.rows = d.rows \cup new]
  BY DEF InsertMetrics
<1> HIDE DEF new
<1>2. InsertMetrics(d, m, batch, k) = [status |-> d.status, rows |-> d.rows \cup new]
  BY <1>1, WithRows
<1>3. InsertMetrics(d, m, batch, k).rows = d.rows \cup new
  BY <1>2
<1> QED
  BY <1>3 DEF new

\* The batch of a reachable node ends with its network, that of another is empty.
LEMMA BatchIsWhole ==
  ASSUME NEW m \in NodeMetrics, m.gpus => m.reachable, NEW batch \in FlattenMetrics(m)
  PROVE  /\ ~m.reachable => Len(batch) = 0
         /\ m.reachable => \E j \in 1 .. Len(batch) : batch[j] = "network"
PROOF
<1>0. m.gpus \in BOOLEAN /\ m.reachable \in BOOLEAN
  BY DEF NodeMetrics
<1>1. CASE ~m.reachable
  BY <1>0, <1>1 DEF FlattenMetrics, SystemPart
<1>2. CASE m.reachable
  <2> DEFINE gpus == IF m.gpus THEN <<"gpu">> ELSE <<>>
  <2>1. PICK system \in {<<>>, <<"system">>} : batch = gpus \o system \o <<"network">>
    BY <1>2 DEF FlattenMetrics, SystemPart
  <2>2. gpus \in Seq(Part) /\ system \in Seq(Part)
    <3>1. "gpu" \in Part /\ "system" \in Part
      BY DEF Part
    <3>2. gpus \in Seq(Part)
      BY <3>1
    <3>3. <<>> \in Seq(Part) /\ <<"system">> \in Seq(Part)
      BY <3>1
    <3>4. system \in Seq(Part)
      BY <2>1, <3>3, Zenon
    <3> QED
      BY <3>2, <3>4
  <2> HIDE DEF gpus
  <2> DEFINE before == gpus \o system
  <2>3. before \in Seq(Part) /\ batch = before \o <<"network">>
    BY <2>1, <2>2
  <2> HIDE DEF before
  <2>4. Len(batch) = Len(before) + 1 /\ batch[Len(batch)] = "network"
    BY <2>3
  <2>5. Len(batch) \in 1 .. Len(batch)
    BY <2>3, <2>4
  <2> QED
    BY <2>4, <2>5, <1>2
<1> QED
  BY <1>0, <1>1, <1>2

\* The insert of a whole batch, and of some rows of a batch that is lost.
LEMMA InsertKeepsWhole ==
  ASSUME NEW d \in Database, NEW lost, Whole(d, lost),
         NEW m \in NodeMetrics, m.gpus => m.reachable,
         NEW batch \in FlattenMetrics(m), NEW k \in 0 .. Len(batch),
         k = Len(batch) \/ <<m.node, m.round>> \in lost
  PROVE  Whole(InsertMetrics(d, m, batch, k), lost)
PROOF
<1> DEFINE new == {RowOf(m, batch[i]) : i \in 1 .. k}
           e == InsertMetrics(d, m, batch, k)
<1>1. e.rows = d.rows \cup new
  BY InsertedRows
<1>2. \A r \in new : r.node = m.node /\ r.round = m.round
  BY DEF RowOf
<1>3. ASSUME NEW r \in new, <<m.node, m.round>> \notin lost
      PROVE  RowOf(m, "network") \in new
  <2>1. k = Len(batch) /\ k # 0
    BY <1>3
  <2>2. m.reachable
    <3>1. m.reachable \in BOOLEAN
      BY DEF NodeMetrics
    <3> QED
      BY <2>1, <3>1, BatchIsWhole
  <2>3. PICK j \in 1 .. k : batch[j] = "network"
    BY <2>1, <2>2, BatchIsWhole
  <2> QED
    BY <2>3
<1> HIDE DEF new, e
<1>4. SUFFICES ASSUME NEW r \in e.rows, <<r.node, r.round>> \notin lost
               PROVE  RowOf(r, "network") \in e.rows
  BY DEF Whole, e
<1>5. CASE r \in d.rows
  BY <1>1, <1>4, <1>5 DEF Whole
<1>6. CASE r \in new
  <2>1. \A part : RowOf(r, part) = RowOf(m, part)
    BY <1>2, <1>6 DEF RowOf
  <2> QED
    BY <2>1, <1>1, <1>2, <1>3, <1>4, <1>6
<1> QED
  BY <1>1, <1>5, <1>6

\* A clean-up takes a batch away as a whole, whatever the retention.
LEMMA CleanupKeepsWhole ==
  ASSUME NEW d \in Database, NEW lost, Whole(d, lost), NEW cutoff
  PROVE  Whole([d EXCEPT !.rows = {r \in @ : r.round >= cutoff[r.node]}], lost)
PROOF
<1> DEFINE kept == {r \in d.rows : r.round >= cutoff[r.node]}
           e == [d EXCEPT !.rows = {r \in @ : r.round >= cutoff[r.node]}]
<1>1. e.rows = kept
  <2>1. e = [d EXCEPT !.rows = kept]
    OBVIOUS
  <2> HIDE DEF kept, e
  <2>2. e = [status |-> d.status, rows |-> kept]
    BY <2>1, WithRows
  <2> QED
    BY <2>2
<1>2. ASSUME NEW r \in kept, <<r.node, r.round>> \notin lost
      PROVE  RowOf(r, "network") \in kept
  <2>1. RowOf(r, "network") \in d.rows
    BY <1>2 DEF Whole
  <2>2. \A part : RowOf(r, part).node = r.node /\ RowOf(r, part).round = r.round
    BY DEF RowOf
  <2> QED
    BY <1>2, <2>1, <2>2
<1> HIDE DEF kept, e
<1>3. Whole(e, lost)
  BY <1>1, <1>2 DEF Whole
<1> QED
  BY <1>3 DEF e

\* Every step keeps the batches whole or counts them as lost.
LEMMA BatchesNext == HistoryInv /\ BatchesInv /\ [Next]_vars => BatchesInv'
PROOF
<1> SUFFICES ASSUME HistoryInv, BatchesInv, [Next]_vars PROVE BatchesInv'
  OBVIOUS
<1> USE DEF cycle, tables
<1>0. /\ db \in Database /\ disk \in Database
      /\ Whole(db, broken) /\ Whole(disk, broken)
  BY DEF HistoryInv, Progress, Sound, BatchesInv
<1>1. ASSUME db' \in {db, disk}, disk' \in {db, disk}, broken' = broken
      PROVE  BatchesInv'
  BY <1>0, <1>1 DEF BatchesInv
<1>2. CASE Begin \/ Tick \/ Gathered
  BY <1>1, <1>2 DEF Begin, Tick, Gathered
<1>3. ASSUME NEW n \in Nodes, SessionStep(n)
      PROVE  BatchesInv'
  BY <1>1, <1>3 DEF SessionStep, Connected, Answered, Finished, Fails, Becomes
<1>4. CASE Crash \/ OtherCommit \/ UNCHANGED vars
  BY <1>1, <1>4 DEF Crash, OtherCommit, vars
<1>5. ASSUME NEW m \in NodeMetrics
      PROVE  Whole(UpsertStatus(db, m), broken)
  <2>1. UpsertStatus(db, m).rows = db.rows
    BY <1>0, UpsertEffect
  <2> QED
    BY <1>0, <2>1 DEF Whole
<1>6. CASE WriteNodeStatus
  <2>1. /\ Current \in NodeMetrics /\ broken' = broken
        /\ db' = UpsertStatus(db, Current) /\ disk' = UpsertStatus(db, Current)
    BY <1>6, CurrentResult DEF WriteNodeStatus, Commits
  <2> QED
    BY <1>5, <2>1 DEF BatchesInv
<1>7. CASE StatusError
  <2>1. /\ Current \in NodeMetrics /\ broken' = broken /\ disk' = disk
        /\ db' \in {db, UpsertStatus(db, Current)}
    BY <1>7, CurrentResult DEF StatusError, CycleFails
  <2> QED
    BY <1>0, <1>5, <2>1 DEF BatchesInv
<1>8. ASSUME phase = "metrics"
      PROVE  Current \in NodeMetrics /\ (Current.gpus => Current.reachable)
  BY <1>8, CurrentResult DEF HistoryInv
<1>9. CASE WriteMetrics
  <2>0. PICK batch \in FlattenMetrics(Current) :
          Commits(InsertMetrics(db, Current, batch, Len(batch)))
    BY <1>9 DEF WriteMetrics
  <2> DEFINE n == Len(batch)
  <2>1. /\ phase = "metrics" /\ broken' = broken
        /\ db' = InsertMetrics(db, Current, batch, n) /\ disk' = InsertMetrics(db, Current, batch, n)
    BY <1>9, <2>0 DEF WriteMetrics, Commits
  <2>2. n \in 0 .. n
    BY FlattenType
  <2>3. Whole(InsertMetrics(db, Current, batch, n), broken)
    BY <1>0, <1>8, <2>1, <2>2, InsertKeepsWhole
  <2> HIDE DEF n
  <2> QED
    BY <2>1, <2>3 DEF BatchesInv
<1>10. CASE MetricsError
  <2>1. /\ phase = "metrics" /\ disk' = disk
        /\ broken' = broken \cup {<<Current.node, Current.round>>}
    BY <1>10 DEF MetricsError, CycleFails
  <2>0. PICK batch \in FlattenMetrics(Current) :
          \E k \in 0 .. Len(batch) : db' = InsertMetrics(db, Current, batch, k)
    BY <1>10 DEF MetricsError
  <2>2. PICK k \in 0 .. Len(batch) : db' = InsertMetrics(db, Current, batch, k)
    BY <2>0
  <2>3. Whole(db, broken') /\ Whole(disk, broken')
    BY <1>0, <2>1, WholeMonotone
  <2>4. Whole(InsertMetrics(db, Current, batch, k), broken')
    BY <1>0, <1>8, <2>1, <2>2, <2>3, InsertKeepsWhole
  <2> QED
    BY <2>1, <2>2, <2>3, <2>4 DEF BatchesInv
<1>11. CASE CleanupMetrics
  <2>1. PICK cutoff \in [Nodes -> 1 .. round] :
          Commits([db EXCEPT !.rows = {r \in @ : r.round >= cutoff[r.node]}])
    BY <1>11 DEF CleanupMetrics
  <2> DEFINE e == [db EXCEPT !.rows = {r \in @ : r.round >= cutoff[r.node]}]
  <2>2. Whole(e, broken)
    BY <1>0, CleanupKeepsWhole
  <2>3. db' = e /\ disk' = e /\ broken' = broken
    BY <1>11, <2>1 DEF Commits, CleanupMetrics
  <2> HIDE DEF e
  <2> QED
    BY <2>2, <2>3 DEF BatchesInv
<1> QED
  BY <1>2, <1>3, <1>4, <1>6, <1>7, <1>9, <1>10, <1>11 DEF Next

\* A write of metrics that raised nothing left a whole batch, and no later
\* statement, late commit, clean-up or restart takes half of it away
\* (write_metrics and cleanup_old_metrics of inspector/store.py).
THEOREM BatchesStayWhole == Spec => []HalfBatchesRaised
PROOF
<1>1. Init => BatchesInv
  <2> SUFFICES ASSUME Init PROVE BatchesInv
    OBVIOUS
  <2>1. db.rows = {} /\ disk.rows = {}
    BY DEF Init
  <2> QED
    BY <2>1 DEF BatchesInv, Whole
<1>2. HistoryInv /\ BatchesInv => HalfBatchesRaised
  <2> SUFFICES ASSUME HistoryInv, BatchesInv, NEW d \in Views, NEW r \in d.rows
               PROVE  \/ <<r.node, r.round>> \in broken
                      \/ [r EXCEPT !.part = "network"] \in d.rows
    BY DEF HalfBatchesRaised
  <2>1. d \in Database /\ Whole(d, broken)
    BY DEF Views, HistoryInv, Progress, Sound, BatchesInv
  <2>2. r \in Row
    BY <2>1 DEF Database
  <2>3. [r EXCEPT !.part = "network"] = RowOf(r, "network")
    BY <2>2, OtherPart
  <2> HIDE DEF Views
  <2> QED
    BY <2>1, <2>3 DEF Whole
<1> QED
  BY <1>1, <1>2, HistoryInit, HistoryNext, BatchesNext, PTL DEF Spec

=============================================================================
