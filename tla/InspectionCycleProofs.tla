-------------------------- MODULE InspectionCycleProofs --------------------------
(* What holds of InspectionCycle for every configuration of nodes, any number of *)
(* coroutines, reports, edits of the configuration, crashes and errors.          *)
EXTENDS InspectionCycle, FiniteSetTheorems, SequenceTheorems, TLAPS

TableFacts == INSTANCE WebhookTableProofs WITH Ids <- Messages

-----------------------------------------------------------------------------
(* The inductive invariants. *)

\* What a coroutine holds belongs to the place in the cycle where it is, and a
\* push that is under way is that of the first message it holds.
WellFormed(job) ==
  /\ job.at # "retry" => job.todo = <<>>
  /\ job.at # "nodes" => job.nodes = <<>> /\ job.events = <<>>
  /\ job.push # "none" => \/ job.at = "retry" /\ job.todo # <<>>
                          \/ job.at = "nodes" /\ job.events # <<>>

JobsWellFormed == \A j \in Jobs : WellFormed(jobs[j])

\* No message stands twice in a snapshot of the table.
TicketsDiffer ==
  \A j \in Jobs : \A i, k \in DOMAIN jobs[j].todo :
    jobs[j].todo[i].id = jobs[j].todo[k].id => i = k

\* A report enters the table only when its request has been answered.
ReportsQueuedOnce ==
  \A r \in Reports : reports[r] # "done" => ~Webhooks!InTable(table, r)

\* A push that is noted as received has reached the receiver.
ReceivedIsKnown ==
  \A j \in Jobs :
    jobs[j].push = "received" =>
      /\ jobs[j].at = "retry" => Head(jobs[j].todo).id \in got
      /\ jobs[j].at = "nodes" => Head(jobs[j].events) \in got

\* Nothing is held, queued or received that was not made.
OnlyMadeAlerts ==
  \A n \in Nodes : \A k \in 1 .. MaxEvents :
    k > made[n] => /\ <<n, k>> \notin got
                   /\ ~Webhooks!InTable(table, <<n, k>>)
                   /\ \A j \in Jobs : <<n, k>> \notin Held(j)

\* The alerts in hand stand in the order they were made in.
EventsInOrder ==
  \A j \in Jobs : \A i, k \in DOMAIN jobs[j].events :
    i < k /\ jobs[j].events[i][1] = jobs[j].events[k][1] =>
      jobs[j].events[i][2] < jobs[j].events[k][2]

\* While an alert is in hand the receiver has no later one of its node.
HeldIsLatest ==
  \A j \in Jobs : \A n \in Nodes : \A k, l \in 1 .. MaxEvents :
    <<n, k>> \in Held(j) /\ k < l => <<n, l>> \notin got

\* An alert is queued only when it is in hand no more.
HeldIsNotQueued ==
  \A j \in Jobs : \A a \in Held(j) : ~Webhooks!InTable(table, a)

-----------------------------------------------------------------------------
(* The table, for the messages of the cycle. *)

\* The constants have the types the model's operators expect.
LEMMA Constants ==
  /\ MaxEvents \in Nat /\ EventsPerCall \in Nat /\ MaxFaults \in Nat
  /\ EnqueueDelay \in Nat /\ RetryInterval \in Nat
  /\ \A v \in Versions : MaxRetriesOf[v] \in Nat
BY CycleAssumption

\* A finite configuration makes finitely many messages within the bounds.
LEMMA MessagesFinite == TableFacts!TableAssumption
<1>1. IsFiniteSet(Nodes)
  <2>1. Len(NodeOrder) \in Nat /\ DOMAIN NodeOrder = 1 .. Len(NodeOrder)
    BY CycleAssumption
  <2>2. NodeOrder \in [1 .. Len(NodeOrder) -> Nodes]
    BY <2>1, CycleAssumption
  <2>3. NodeOrder \in Surjection(1 .. Len(NodeOrder), Nodes)
    BY <2>1, <2>2 DEF Surjection, Nodes
  <2>4. IsFiniteSet(1 .. Len(NodeOrder))
    BY <2>1, FS_Interval
  <2> QED
    BY <2>3, <2>4, FS_Surjection
<1>2. IsFiniteSet(1 .. MaxEvents)
  BY Constants, FS_Interval
<1>3. IsFiniteSet(Alerts)
  BY <1>1, <1>2, FS_Product DEF Alerts
<1>4. IsFiniteSet(Messages)
  BY <1>3, FS_Union, CycleAssumption DEF Messages
<1> QED
  BY <1>4, Constants, CycleAssumption
     DEF TableFacts!TableAssumption, TableFacts!IsFiniteSet, IsFiniteSet

\* What the store's operations do to the table.
LEMMA EnqueueEffect ==
  ASSUME NEW t \in [Messages -> Webhooks!Entry], NEW m \in Messages,
         NEW after, after = Webhooks!EnqueueWebhook(t, m)
  PROVE  /\ after \in [Messages -> Webhooks!Entry]
         /\ Webhooks!InTable(after, m) /\ after[m].status = "pending"
         /\ \A n \in Messages \ {m} : after[n] = t[n]
<1>1. t \in [Messages -> TableFacts!Entry] /\ after = TableFacts!EnqueueWebhook(t, m)
  BY DEF Webhooks!Entry, TableFacts!Entry, Webhooks!EnqueueWebhook, TableFacts!EnqueueWebhook
<1>2. /\ after \in [Messages -> TableFacts!Entry]
      /\ after[m].status = "pending"
      /\ \A n \in Messages \ {m} : after[n] = t[n]
  BY <1>1, MessagesFinite, TableFacts!EnqueueEffect
<1> QED
  BY <1>2 DEF Webhooks!Entry, TableFacts!Entry, Webhooks!InTable

\* delete_webhook takes one row away.
LEMMA DeleteEffect ==
  ASSUME NEW t \in [Messages -> Webhooks!Entry], NEW m \in Messages,
         NEW after, after = Webhooks!DeleteWebhook(t, m)
  PROVE  /\ after \in [Messages -> Webhooks!Entry]
         /\ \A n \in Messages \ {m} : after[n] = t[n]
         /\ ~Webhooks!InTable(after, m)
<1>1. t \in [Messages -> TableFacts!Entry] /\ after = TableFacts!DeleteWebhook(t, m)
  BY DEF Webhooks!Entry, TableFacts!Entry, Webhooks!DeleteWebhook, TableFacts!DeleteWebhook,
         Webhooks!NoEntry, TableFacts!NoEntry
<1>2. /\ after \in [Messages -> TableFacts!Entry]
      /\ after[m].status = "absent"
      /\ \A n \in Messages \ {m} : after[n] = t[n]
  BY <1>1, MessagesFinite, TableFacts!DeleteEffect
<1> QED
  BY <1>2 DEF Webhooks!Entry, TableFacts!Entry, Webhooks!InTable

\* A failed retry changes one row and takes none away.
LEMMA FailedRetryEffect ==
  ASSUME NEW t \in [Messages -> Webhooks!Entry], NEW m \in Messages,
         NEW attempts \in Nat, NEW maxRetries \in Nat,
         NEW after, after = Webhooks!AfterFailedRetry(t, m, attempts, maxRetries)
  PROVE  /\ after \in [Messages -> Webhooks!Entry]
         /\ \A n \in Messages \ {m} : after[n] = t[n]
         /\ Webhooks!InTable(after, m) <=> Webhooks!InTable(t, m)
         /\ (after[m].status = t[m].status \/ after[m].status = "dead")
<1>1. CASE Webhooks!InTable(t, m)
  <2>1. /\ t \in [Messages -> TableFacts!Entry] /\ TableFacts!InTable(t, m)
        /\ after = TableFacts!AfterFailedRetry(t, m, attempts, maxRetries)
    BY <1>1 DEF Webhooks!Entry, TableFacts!Entry, Webhooks!InTable, TableFacts!InTable,
                Webhooks!AfterFailedRetry, TableFacts!AfterFailedRetry,
                Webhooks!MarkWebhookDead, TableFacts!MarkWebhookDead,
                Webhooks!UpdateWebhookRetry, TableFacts!UpdateWebhookRetry
  <2>2. /\ after \in [Messages -> TableFacts!Entry]
        /\ attempts + 1 >= maxRetries => after[m].status = "dead"
        /\ attempts + 1 < maxRetries => after[m].status = t[m].status
        /\ \A n \in Messages \ {m} : after[n] = t[n]
    BY <2>1, MessagesFinite, TableFacts!FailedRetryEffect
  <2>3. Webhooks!InTable(after, m) /\ (after[m].status = t[m].status \/ after[m].status = "dead")
    BY <1>1, <2>2 DEF Webhooks!InTable
  <2> QED
    BY <1>1, <2>2, <2>3 DEF Webhooks!Entry, TableFacts!Entry
<1>2. CASE ~Webhooks!InTable(t, m)
  BY <1>2 DEF Webhooks!AfterFailedRetry, Webhooks!MarkWebhookDead, Webhooks!UpdateWebhookRetry
<1> QED
  BY <1>1, <1>2

\* The passing of time changes no status and no count.
LEMMA OlderEffect ==
  ASSUME NEW t \in [Messages -> Webhooks!Entry]
  PROVE  /\ Webhooks!Older(t) \in [Messages -> Webhooks!Entry]
         /\ \A m \in Messages : /\ Webhooks!Older(t)[m].status = t[m].status
                                /\ Webhooks!Older(t)[m].attempts = t[m].attempts
<1>1. t \in [Messages -> TableFacts!Entry]
  BY DEF Webhooks!Entry, TableFacts!Entry
<1>2. Webhooks!Older(t) = TableFacts!Older(t)
  BY DEF Webhooks!Older, TableFacts!Older, Webhooks!Due, TableFacts!Due,
         Webhooks!IsPending, TableFacts!IsPending
<1>3. /\ TableFacts!Older(t) \in [Messages -> TableFacts!Entry]
      /\ \A m \in Messages : /\ TableFacts!Older(t)[m].status = t[m].status
                             /\ TableFacts!Older(t)[m].attempts = t[m].attempts
  BY <1>1, MessagesFinite, TableFacts!OlderEffect
<1>4. TableFacts!Entry = Webhooks!Entry
  BY DEF Webhooks!Entry, TableFacts!Entry
<1> QED
  BY <1>2, <1>3, <1>4

\* What the retry loop reads: pending rows with their counts, each of them once.
LEMMA DequeueEffect ==
  ASSUME NEW t \in [Messages -> Webhooks!Entry],
         NEW todo \in Webhooks!DequeuePendingWebhooks(t)
  PROVE  /\ todo \in Seq(Ticket)
         /\ \A i \in DOMAIN todo : /\ Webhooks!IsPending(t, todo[i].id)
                                   /\ t[todo[i].id].attempts = todo[i].attempts
         /\ \A i, k \in DOMAIN todo : todo[i].id = todo[k].id => i = k
<1> DEFINE due  == Webhooks!Due(t)
           size == IF Webhooks!Cardinality(due) < DequeueLimit
                   THEN Webhooks!Cardinality(due) ELSE DequeueLimit
<1>1. due \subseteq Messages /\ \A m \in due : Webhooks!IsPending(t, m)
  BY DEF Webhooks!Due
<1>2. Webhooks!Cardinality(due) \in Nat
  <2>1. IsFiniteSet(Messages)
    BY MessagesFinite DEF TableFacts!TableAssumption, TableFacts!IsFiniteSet, IsFiniteSet
  <2>2. Cardinality(due) \in Nat
    BY <1>1, <2>1, FS_Subset, FS_CardinalityType
  <2>3. Webhooks!Cardinality(due) = Cardinality(due)
    BY Zenon DEF Webhooks!Cardinality, Cardinality
  <2> QED
    BY <2>2, <2>3
<1>3. size \in Nat
  BY <1>2, CycleAssumption
<1>4. PICK s \in [1 .. size -> due] :
        /\ todo = [i \in 1 .. size |-> [id |-> s[i], attempts |-> t[s[i]].attempts]]
        /\ \A i, k \in 1 .. size : i < k => s[i] # s[k]
  BY DEF Webhooks!DequeuePendingWebhooks
<1> DEFINE Tickets == [id : Messages, attempts : Nat]
<1> HIDE DEF due, size
<1>5. ASSUME NEW i \in 1 .. size
      PROVE  /\ [id |-> s[i], attempts |-> t[s[i]].attempts] \in Tickets
             /\ Webhooks!IsPending(t, s[i])
  <2>1. s[i] \in due /\ s[i] \in Messages /\ t[s[i]] \in Webhooks!Entry
    BY <1>1
  <2>2. t[s[i]].attempts \in Nat
    BY <2>1 DEF Webhooks!Entry
  <2> QED
    BY <1>1, <2>1, <2>2
<1>6. ASSUME NEW i \in 1 .. size
      PROVE  todo[i].id = s[i] /\ todo[i].attempts = t[s[i]].attempts
  BY <1>4
<1>7. ASSUME NEW i \in 1 .. size, NEW k \in 1 .. size, s[i] = s[k]
      PROVE  i = k
  BY <1>3, <1>4, <1>7
<1> HIDE DEF Tickets
<1>8. todo \in [1 .. size -> Tickets]
  BY <1>4, <1>5
<1>9. todo \in Seq(Tickets) /\ DOMAIN todo = 1 .. size
  BY <1>3, <1>8, SeqDef
<1> QED
  BY <1>5, <1>6, <1>7, <1>9 DEF Tickets, Ticket

-----------------------------------------------------------------------------
(* What the steps of a coroutine do to its locals. *)

\* The parts of a coroutine.
LEMMA JobParts ==
  ASSUME TypeOK, NEW j \in Jobs
  PROVE  /\ jobs[j] \in Job
         /\ jobs[j].at \in {"idle", "retry", "collect", "nodes"}
         /\ jobs[j].cfg \in Versions /\ jobs[j].push \in Pushing
         /\ jobs[j].todo \in Seq(Ticket) /\ jobs[j].nodes \in Seq(Nodes)
         /\ jobs[j].events \in Seq(Alerts)
         /\ jobs[j] = [at |-> jobs[j].at, cfg |-> jobs[j].cfg, todo |-> jobs[j].todo,
                       nodes |-> jobs[j].nodes, events |-> jobs[j].events,
                       push |-> jobs[j].push]
<1>1. jobs[j] \in Job
  BY DEF TypeOK
<1> QED
  BY <1>1 DEF Job

\* Job j is in this state after the step, and the others are in the one they had.
Becomes(j, job) ==
  /\ jobs' \in [Jobs -> Job]
  /\ jobs'[j] = job
  /\ \A i \in Jobs \ {j} : jobs'[i] = jobs[i]

\* A step of one coroutine leaves the others.
LEMMA OneJob ==
  ASSUME TypeOK, NEW j \in Jobs, NEW job \in Job, jobs' = [jobs EXCEPT ![j] = job]
  PROVE  Becomes(j, job)
BY DEF TypeOK, Becomes

\* A coroutine's locals as one record.
Locals(j) == [at |-> jobs[j].at, cfg |-> jobs[j].cfg, todo |-> jobs[j].todo,
              nodes |-> jobs[j].nodes, events |-> jobs[j].events, push |-> jobs[j].push]

\* A push is sent, or its message arrives.
LEMMA PushChange ==
  ASSUME TypeOK, NEW j \in Jobs, NEW p \in Pushing, jobs' = [jobs EXCEPT ![j].push = p]
  PROVE  Becomes(j, [at |-> jobs[j].at, cfg |-> jobs[j].cfg, todo |-> jobs[j].todo,
                      nodes |-> jobs[j].nodes, events |-> jobs[j].events, push |-> p])
<1> DEFINE job == [at |-> jobs[j].at, cfg |-> jobs[j].cfg, todo |-> jobs[j].todo,
                   nodes |-> jobs[j].nodes, events |-> jobs[j].events, push |-> p]
<1>1. jobs' = [jobs EXCEPT ![j] = [jobs[j] EXCEPT !.push = p]]
  BY Zenon
<1>2. [jobs[j] EXCEPT !.push = p] = job
  <2>1. jobs[j] = Locals(j)
    BY JobParts DEF Locals
  <2>2. [Locals(j) EXCEPT !.push = p] = job
    BY DEF Locals
  <2> HIDE DEF job
  <2> QED
    BY <2>1, <2>2, Zenon
<1>3. job \in Job
  BY JobParts DEF Job
<1> QED
  BY <1>1, <1>2, <1>3, OneJob

\* The loops over the tickets and over the events go on.
LEMMA TicketChange ==
  ASSUME TypeOK, NEW j \in Jobs, jobs[j].todo # <<>>, NextTicket(j)
  PROVE  Becomes(j, [at |-> jobs[j].at, cfg |-> jobs[j].cfg, todo |-> Tail(jobs[j].todo),
                      nodes |-> jobs[j].nodes, events |-> jobs[j].events, push |-> "none"])
<1> DEFINE job == [at |-> jobs[j].at, cfg |-> jobs[j].cfg, todo |-> Tail(jobs[j].todo),
                   nodes |-> jobs[j].nodes, events |-> jobs[j].events, push |-> "none"]
<1>1. jobs' = [jobs EXCEPT ![j] = [jobs[j] EXCEPT !.todo = Tail(jobs[j].todo), !.push = "none"]]
  BY Zenon DEF NextTicket
<1>2. [jobs[j] EXCEPT !.todo = Tail(jobs[j].todo), !.push = "none"] = job
  <2>1. jobs[j] = Locals(j)
    BY JobParts DEF Locals
  <2> DEFINE first == [at |-> jobs[j].at, cfg |-> jobs[j].cfg, todo |-> Tail(jobs[j].todo),
                     nodes |-> jobs[j].nodes, events |-> jobs[j].events, push |-> jobs[j].push]
  <2>2. [Locals(j) EXCEPT !.todo = Tail(jobs[j].todo)] = first
    BY DEF Locals
  <2>3. [first EXCEPT !.push = "none"] = job
    OBVIOUS
  <2> HIDE DEF job, first
  <2> QED
    BY <2>1, <2>2, <2>3, Zenon
<1>3. Tail(jobs[j].todo) \in Seq(Ticket)
  BY JobParts, HeadTailProperties
<1>4. job \in Job
  BY <1>3, JobParts DEF Job, Pushing
<1> QED
  BY <1>1, <1>2, <1>4, OneJob

\* The locals of a coroutine that goes on to the next event,
LEMMA EventChange ==
  ASSUME TypeOK, NEW j \in Jobs, jobs[j].events # <<>>, NextEvent(j)
  PROVE  Becomes(j, [at |-> jobs[j].at, cfg |-> jobs[j].cfg, todo |-> jobs[j].todo,
                      nodes |-> jobs[j].nodes, events |-> Tail(jobs[j].events), push |-> "none"])
<1> DEFINE job == [at |-> jobs[j].at, cfg |-> jobs[j].cfg, todo |-> jobs[j].todo,
                   nodes |-> jobs[j].nodes, events |-> Tail(jobs[j].events), push |-> "none"]
<1>1. jobs' = [jobs EXCEPT ![j] = [jobs[j] EXCEPT !.events = Tail(jobs[j].events), !.push = "none"]]
  BY Zenon DEF NextEvent
<1>2. [jobs[j] EXCEPT !.events = Tail(jobs[j].events), !.push = "none"] = job
  <2>1. jobs[j] = Locals(j)
    BY JobParts DEF Locals
  <2> DEFINE first == [at |-> jobs[j].at, cfg |-> jobs[j].cfg, todo |-> jobs[j].todo,
                     nodes |-> jobs[j].nodes, events |-> Tail(jobs[j].events),
                     push |-> jobs[j].push]
  <2>2. [Locals(j) EXCEPT !.events = Tail(jobs[j].events)] = first
    BY DEF Locals
  <2>3. [first EXCEPT !.push = "none"] = job
    OBVIOUS
  <2> HIDE DEF job, first
  <2> QED
    BY <2>1, <2>2, <2>3, Zenon
<1>3. Tail(jobs[j].events) \in Seq(Alerts)
  BY JobParts, HeadTailProperties
<1>4. job \in Job
  BY <1>3, JobParts DEF Job, Pushing
<1> QED
  BY <1>1, <1>2, <1>4, OneJob

\* A cycle begins, comes to its next part, or ends.
LEMMA BeginChange ==
  ASSUME TypeOK, NEW j \in Jobs, NEW todo \in Seq(Ticket),
         jobs' = [jobs EXCEPT ![j] = [Idle(holder) EXCEPT !.at = "retry", !.todo = todo]]
  PROVE  Becomes(j, [at |-> "retry", cfg |-> holder, todo |-> todo,
                     nodes |-> <<>>, events |-> <<>>, push |-> "none"])
<1> DEFINE job == [at |-> "retry", cfg |-> holder, todo |-> todo,
                  nodes |-> <<>>, events |-> <<>>, push |-> "none"]
<1>1. [Idle(holder) EXCEPT !.at = "retry", !.todo = todo] = job
  <2> DEFINE first == [at |-> "retry", cfg |-> holder, todo |-> <<>>,
                      nodes |-> <<>>, events |-> <<>>, push |-> "none"]
  <2>1. [Idle(holder) EXCEPT !.at = "retry"] = first
    BY DEF Idle
  <2>2. [first EXCEPT !.todo = todo] = job
    OBVIOUS
  <2> HIDE DEF job, first
  <2> QED
    BY <2>1, <2>2, Zenon
<1>2. holder \in Versions /\ <<>> \in Seq(Nodes) /\ <<>> \in Seq(Alerts)
  BY DEF TypeOK
<1>3. job \in Job
  BY <1>2 DEF Job, Pushing
<1> QED
  BY <1>1, <1>3, OneJob

\* that begins to collect,
LEMMA CollectChange ==
  ASSUME TypeOK, NEW j \in Jobs, jobs' = [jobs EXCEPT ![j].at = "collect"]
  PROVE  Becomes(j, [at |-> "collect", cfg |-> jobs[j].cfg, todo |-> jobs[j].todo,
                      nodes |-> jobs[j].nodes, events |-> jobs[j].events, push |-> jobs[j].push])
<1> DEFINE job == [at |-> "collect", cfg |-> jobs[j].cfg, todo |-> jobs[j].todo,
                   nodes |-> jobs[j].nodes, events |-> jobs[j].events, push |-> jobs[j].push]
<1>1. jobs' = [jobs EXCEPT ![j] = [jobs[j] EXCEPT !.at = "collect"]]
  BY Zenon
<1>2. [jobs[j] EXCEPT !.at = "collect"] = job
  <2>1. jobs[j] = Locals(j)
    BY JobParts DEF Locals
  <2>2. [Locals(j) EXCEPT !.at = "collect"] = job
    BY DEF Locals
  <2> HIDE DEF job
  <2> QED
    BY <2>1, <2>2, Zenon
<1>3. job \in Job
  BY JobParts DEF Job
<1> QED
  BY <1>1, <1>2, <1>3, OneJob

\* and that begins its loop over the nodes.
LEMMA NodesChange ==
  ASSUME TypeOK, NEW j \in Jobs,
         jobs' = [jobs EXCEPT ![j].at = "nodes", ![j].nodes = NodeOrder]
  PROVE  Becomes(j, [at |-> "nodes", cfg |-> jobs[j].cfg, todo |-> jobs[j].todo,
                      nodes |-> NodeOrder, events |-> jobs[j].events, push |-> jobs[j].push])
<1> DEFINE job == [at |-> "nodes", cfg |-> jobs[j].cfg, todo |-> jobs[j].todo,
                   nodes |-> NodeOrder, events |-> jobs[j].events, push |-> jobs[j].push]
<1>1. jobs' = [jobs EXCEPT ![j] = [jobs[j] EXCEPT !.at = "nodes", !.nodes = NodeOrder]]
  BY Zenon
<1>2. [jobs[j] EXCEPT !.at = "nodes", !.nodes = NodeOrder] = job
  <2>1. jobs[j] = Locals(j)
    BY JobParts DEF Locals
  <2> DEFINE first == [at |-> "nodes", cfg |-> jobs[j].cfg, todo |-> jobs[j].todo,
                     nodes |-> jobs[j].nodes, events |-> jobs[j].events, push |-> jobs[j].push]
  <2>2. [Locals(j) EXCEPT !.at = "nodes"] = first
    BY DEF Locals
  <2>3. [first EXCEPT !.nodes = NodeOrder] = job
    OBVIOUS
  <2> HIDE DEF job, first
  <2> QED
    BY <2>1, <2>2, <2>3, Zenon
<1>3. job \in Job
  BY JobParts, CycleAssumption DEF Job
<1> QED
  BY <1>1, <1>2, <1>3, OneJob

\* A record of locals with other nodes and events,
LEMMA NodesAndEventsSet ==
  ASSUME NEW j, NEW rest, NEW new
  PROVE  [Locals(j) EXCEPT !.nodes = rest, !.events = new] =
           [at |-> jobs[j].at, cfg |-> jobs[j].cfg, todo |-> jobs[j].todo,
            nodes |-> rest, events |-> new, push |-> jobs[j].push]
<1> DEFINE first == [at |-> jobs[j].at, cfg |-> jobs[j].cfg, todo |-> jobs[j].todo,
                    nodes |-> rest, events |-> jobs[j].events, push |-> jobs[j].push]
<1>1. [Locals(j) EXCEPT !.nodes = rest] = first
  BY DEF Locals
<1>2. [first EXCEPT !.events = new] =
        [at |-> jobs[j].at, cfg |-> jobs[j].cfg, todo |-> jobs[j].todo,
         nodes |-> rest, events |-> new, push |-> jobs[j].push]
  OBVIOUS
<1> HIDE DEF first
<1> QED
  BY <1>1, <1>2, Zenon

\* which is what evaluate leaves.
LEMMA EvaluateChange ==
  ASSUME TypeOK, NEW j \in Jobs, NEW new \in Seq(Alerts), jobs[j].nodes # <<>>,
         jobs' = [jobs EXCEPT ![j].nodes = Tail(@), ![j].events = new]
  PROVE  Becomes(j, [at |-> jobs[j].at, cfg |-> jobs[j].cfg, todo |-> jobs[j].todo,
                      nodes |-> Tail(jobs[j].nodes), events |-> new, push |-> jobs[j].push])
<1> DEFINE job == [at |-> jobs[j].at, cfg |-> jobs[j].cfg, todo |-> jobs[j].todo,
                   nodes |-> Tail(jobs[j].nodes), events |-> new, push |-> jobs[j].push]
<1>1. jobs' = [jobs EXCEPT ![j] = [jobs[j] EXCEPT !.nodes = Tail(jobs[j].nodes), !.events = new]]
  BY Zenon
<1>2. [jobs[j] EXCEPT !.nodes = Tail(jobs[j].nodes), !.events = new] = job
  <2>1. jobs[j] = Locals(j)
    BY JobParts DEF Locals
  <2>2. [Locals(j) EXCEPT !.nodes = Tail(jobs[j].nodes), !.events = new] = job
    BY NodesAndEventsSet, Zenon
  <2> HIDE DEF job
  <2> QED
    BY <2>1, <2>2, Zenon
<1>3. Tail(jobs[j].nodes) \in Seq(Nodes)
  BY JobParts, HeadTailProperties
<1>4. job \in Job
  BY <1>3, JobParts DEF Job
<1> QED
  BY <1>1, <1>2, <1>4, OneJob

\* A coroutine that releases the lock is idle.
LEMMA ReleaseChange ==
  ASSUME TypeOK, NEW j \in Jobs, Release(j)
  PROVE  Becomes(j, Idle(jobs[j].cfg))
<1>1. jobs' = [jobs EXCEPT ![j] = Idle(jobs[j].cfg)]
  BY Zenon DEF Release
<1>2. <<>> \in Seq(Nodes) /\ <<>> \in Seq(Alerts) /\ <<>> \in Seq(Ticket)
  OBVIOUS
<1>3. Idle(jobs[j].cfg) \in Job
  BY <1>2, JobParts DEF Job, Idle, Pushing
<1> QED
  BY <1>1, <1>3, OneJob

-----------------------------------------------------------------------------
(* The effect of each action on the coroutine. *)

\* The message that a coroutine pushes next.
LEMMA Hand ==
  ASSUME TypeOK, JobsWellFormed, NEW j \in Jobs
  PROVE  /\ jobs[j].at = "retry" /\ InHand(j) # <<>> =>
              /\ jobs[j].todo # <<>>
              /\ Head(InHand(j)) = Head(jobs[j].todo).id
         /\ jobs[j].at = "retry" /\ jobs[j].todo # <<>> =>
              /\ InHand(j) # <<>> /\ Head(InHand(j)) = Head(jobs[j].todo).id
              /\ Head(jobs[j].todo).id \in Messages
              /\ Head(jobs[j].todo).attempts \in Nat
         /\ jobs[j].at # "retry" => InHand(j) = jobs[j].events
         /\ jobs[j].events # <<>> => /\ Head(jobs[j].events) \in Alerts
                                     /\ Head(jobs[j].events) \in Messages
         /\ InHand(j) # <<>> => \/ jobs[j].at = "retry"
                                \/ jobs[j].at = "nodes" /\ jobs[j].events # <<>>
<1> DEFINE todo == jobs[j].todo
<1>1. todo \in Seq(Ticket) /\ jobs[j].events \in Seq(Alerts)
  BY JobParts
<1>2. CASE jobs[j].at = "retry"
  <2>1. InHand(j) = [i \in DOMAIN todo |-> todo[i].id]
    BY <1>2 DEF InHand
  <2>2. CASE todo = <<>>
    <3>1. DOMAIN todo = {}
      BY <2>2
    <3>2. InHand(j) = <<>>
      BY <2>1, <3>1
    <3> QED
      BY <1>1, <1>2, <2>2, <3>2 DEF Messages
  <2>3. CASE todo # <<>>
    <3>1. 1 \in DOMAIN todo /\ Head(todo) = todo[1] /\ Head(todo) \in Ticket
      BY <1>1, <2>3
    <3>2. Len(todo) \in Nat /\ DOMAIN todo = 1 .. Len(todo) /\ Len(todo) > 0
      BY <1>1, <2>3
    <3>3. ASSUME NEW i \in 1 .. Len(todo)
          PROVE  todo[i].id \in Messages
      <4>1. todo[i] \in Ticket
        BY <1>1
      <4> QED
        BY <4>1 DEF Ticket
    <3>4. InHand(j) \in Seq(Messages) /\ DOMAIN InHand(j) = 1 .. Len(todo)
      BY <2>1, <3>2, <3>3
    <3>5. InHand(j) # <<>> /\ Head(InHand(j)) = todo[1].id
      BY <2>1, <3>1, <3>2, <3>4
    <3>6. Head(todo).id \in Messages /\ Head(todo).attempts \in Nat
      BY <3>1 DEF Ticket
    <3> QED
      BY <1>1, <1>2, <2>3, <3>1, <3>5, <3>6 DEF Messages
  <2> QED
    BY <2>2, <2>3
<1>3. CASE jobs[j].at # "retry"
  <2>1. InHand(j) = jobs[j].events
    BY <1>3 DEF InHand
  <2>2. jobs[j].at = "nodes" \/ jobs[j].events = <<>>
    BY DEF JobsWellFormed, WellFormed
  <2> QED
    BY <1>1, <1>3, <2>1, <2>2 DEF Messages
<1> QED
  BY <1>2, <1>3

\* Job j comes to this place with these locals, and the other jobs stay.
MovesTo(j, at, todo, nodes, events, push) ==
  /\ jobs' \in [Jobs -> Job]
  /\ jobs'[j].at = at /\ jobs'[j].todo = todo /\ jobs'[j].nodes = nodes
  /\ jobs'[j].events = events /\ jobs'[j].push = push
  /\ \A i \in Jobs \ {j} : jobs'[i] = jobs[i]

\* Coroutines stay well formed when one becomes a well-formed one.
LEMMA StaysWellFormed ==
  ASSUME JobsWellFormed, NEW j \in Jobs, NEW job, Becomes(j, job), WellFormed(job)
  PROVE  JobsWellFormed'
BY DEF JobsWellFormed, Becomes

\* A push begins,
LEMMA PostMoves ==
  ASSUME TypeOK, JobsWellFormed, NEW j \in Jobs, Post(j)
  PROVE  /\ MovesTo(j, jobs[j].at, jobs[j].todo, jobs[j].nodes, jobs[j].events, "sent")
         /\ JobsWellFormed'
<1> DEFINE job == [at |-> jobs[j].at, cfg |-> jobs[j].cfg, todo |-> jobs[j].todo,
                   nodes |-> jobs[j].nodes, events |-> jobs[j].events, push |-> "sent"]
<1>1. Becomes(j, job)
  BY PushChange DEF Post, Pushing
<1>2. WellFormed(jobs[j])
  BY DEF JobsWellFormed
<1>3. \/ jobs[j].at = "retry" /\ jobs[j].todo # <<>>
      \/ jobs[j].at = "nodes" /\ jobs[j].events # <<>>
  BY Hand DEF Post
<1>4. WellFormed(job)
  BY <1>2, <1>3 DEF WellFormed
<1>5. JobsWellFormed'
  BY <1>1, <1>4, StaysWellFormed
<1> QED
  BY <1>1, <1>5 DEF Becomes, MovesTo

\* and arrives.
LEMMA ReceiveMoves ==
  ASSUME TypeOK, JobsWellFormed, NEW j \in Jobs, Receive(j)
  PROVE  /\ MovesTo(j, jobs[j].at, jobs[j].todo, jobs[j].nodes, jobs[j].events, "received")
         /\ JobsWellFormed'
<1> DEFINE job == [at |-> jobs[j].at, cfg |-> jobs[j].cfg, todo |-> jobs[j].todo,
                   nodes |-> jobs[j].nodes, events |-> jobs[j].events, push |-> "received"]
<1>1. Becomes(j, job)
  BY PushChange DEF Receive, Pushing
<1>2. WellFormed(jobs[j])
  BY DEF JobsWellFormed
<1>3. WellFormed(job)
  BY <1>2 DEF WellFormed, Receive
<1>4. JobsWellFormed'
  BY <1>1, <1>3, StaysWellFormed
<1> QED
  BY <1>1, <1>4 DEF Becomes, MovesTo

\* A retry ends, with or without success.
LEMMA TicketMoves ==
  ASSUME TypeOK, JobsWellFormed, NEW j \in Jobs, jobs[j].at = "retry",
         jobs[j].push # "none", NextTicket(j)
  PROVE  /\ jobs[j].todo # <<>> /\ jobs[j].nodes = <<>> /\ jobs[j].events = <<>>
         /\ MovesTo(j, "retry", Tail(jobs[j].todo), <<>>, <<>>, "none")
         /\ JobsWellFormed'
<1> DEFINE job == [at |-> jobs[j].at, cfg |-> jobs[j].cfg, todo |-> Tail(jobs[j].todo),
                   nodes |-> jobs[j].nodes, events |-> jobs[j].events, push |-> "none"]
<1>1. jobs[j].todo # <<>> /\ jobs[j].nodes = <<>> /\ jobs[j].events = <<>>
  BY DEF JobsWellFormed, WellFormed
<1>2. Becomes(j, job)
  BY <1>1, TicketChange
<1>3. WellFormed(job)
  BY <1>1 DEF WellFormed
<1>4. JobsWellFormed'
  BY <1>2, <1>3, StaysWellFormed
<1> QED
  BY <1>1, <1>2, <1>4 DEF Becomes, MovesTo

\* The push of an event ends, with or without success.
LEMMA EventMoves ==
  ASSUME TypeOK, JobsWellFormed, NEW j \in Jobs, jobs[j].at = "nodes",
         jobs[j].push # "none", NextEvent(j)
  PROVE  /\ jobs[j].events # <<>> /\ jobs[j].todo = <<>>
         /\ MovesTo(j, "nodes", <<>>, jobs[j].nodes, Tail(jobs[j].events), "none")
         /\ JobsWellFormed'
<1> DEFINE job == [at |-> jobs[j].at, cfg |-> jobs[j].cfg, todo |-> jobs[j].todo,
                   nodes |-> jobs[j].nodes, events |-> Tail(jobs[j].events), push |-> "none"]
<1>1. jobs[j].events # <<>> /\ jobs[j].todo = <<>>
  BY DEF JobsWellFormed, WellFormed
<1>2. Becomes(j, job)
  BY <1>1, EventChange
<1>3. WellFormed(job)
  BY <1>1 DEF WellFormed
<1>4. JobsWellFormed'
  BY <1>2, <1>3, StaysWellFormed
<1> QED
  BY <1>1, <1>2, <1>4 DEF Becomes, MovesTo

\* A cycle begins with the rows it has read.
LEMMA BeginMoves ==
  ASSUME TypeOK, JobsWellFormed, NEW j \in Jobs, Begin(j)
  PROVE  /\ JobsWellFormed'
         /\ \E todo \in Webhooks!DequeuePendingWebhooks(table) :
              MovesTo(j, "retry", todo, <<>>, <<>>, "none")
<1>1. PICK todo \in Webhooks!DequeuePendingWebhooks(table) :
        jobs' = [jobs EXCEPT ![j] = [Idle(holder) EXCEPT !.at = "retry", !.todo = todo]]
  BY DEF Begin
<1> DEFINE job == [at |-> "retry", cfg |-> holder, todo |-> todo,
                   nodes |-> <<>>, events |-> <<>>, push |-> "none"]
<1>2. todo \in Seq(Ticket)
  BY <1>1, DequeueEffect DEF TypeOK
<1>3. Becomes(j, job)
  BY <1>1, <1>2, BeginChange
<1>4. WellFormed(job)
  BY DEF WellFormed
<1>5. JobsWellFormed'
  BY <1>3, <1>4, StaysWellFormed
<1>6. MovesTo(j, "retry", todo, <<>>, <<>>, "none")
  BY <1>3 DEF Becomes, MovesTo
<1> QED
  BY <1>1, <1>5, <1>6

\* After its retries it collects,
LEMMA CollectAllMoves ==
  ASSUME TypeOK, JobsWellFormed, NEW j \in Jobs, CollectAll(j)
  PROVE  /\ MovesTo(j, "collect", <<>>, <<>>, <<>>, "none")
         /\ JobsWellFormed'
<1> DEFINE job == [at |-> "collect", cfg |-> jobs[j].cfg, todo |-> jobs[j].todo,
                   nodes |-> jobs[j].nodes, events |-> jobs[j].events, push |-> jobs[j].push]
<1>1. Becomes(j, job)
  BY CollectChange DEF CollectAll
<1>2. /\ jobs[j].todo = <<>> /\ jobs[j].nodes = <<>> /\ jobs[j].events = <<>>
      /\ jobs[j].push = "none"
  BY DEF JobsWellFormed, WellFormed, CollectAll
<1>3. WellFormed(job)
  BY <1>2 DEF WellFormed
<1>4. JobsWellFormed'
  BY <1>1, <1>3, StaysWellFormed
<1> QED
  BY <1>1, <1>2, <1>4 DEF Becomes, MovesTo

\* then it goes through the nodes,
LEMMA CollectedMoves ==
  ASSUME TypeOK, JobsWellFormed, NEW j \in Jobs, Collected(j)
  PROVE  /\ jobs[j].todo = <<>> /\ jobs[j].events = <<>>
         /\ MovesTo(j, "nodes", <<>>, NodeOrder, <<>>, "none")
         /\ JobsWellFormed'
<1> DEFINE job == [at |-> "nodes", cfg |-> jobs[j].cfg, todo |-> jobs[j].todo,
                   nodes |-> NodeOrder, events |-> jobs[j].events, push |-> jobs[j].push]
<1>1. Becomes(j, job)
  BY NodesChange DEF Collected
<1>2. jobs[j].todo = <<>> /\ jobs[j].events = <<>> /\ jobs[j].push = "none"
  BY DEF JobsWellFormed, WellFormed, Collected
<1>3. WellFormed(job)
  BY <1>2 DEF WellFormed
<1>4. JobsWellFormed'
  BY <1>1, <1>3, StaysWellFormed
<1> QED
  BY <1>1, <1>2, <1>4 DEF Becomes, MovesTo

\* The changes that a call of evaluate commits.
LEMMA CommitEffect ==
  ASSUME TypeOK, NEW j \in Jobs, NEW k \in 0 .. EventsPerCall, Commit(j, k),
         NEW n, n = Head(jobs[j].nodes)
  PROVE  /\ n \in Nodes /\ made[n] \in 0 .. MaxEvents /\ k \in Nat
         /\ made[n] + k \in 0 .. MaxEvents
         /\ made' \in [Nodes -> 0 .. MaxEvents]
         /\ made'[n] = made[n] + k
         /\ \A o \in Nodes \ {n} : made'[o] = made[o]
         /\ EventsOf(n, k) \in Seq(Alerts)
         /\ DOMAIN EventsOf(n, k) = 1 .. k
         /\ \A i \in 1 .. k : EventsOf(n, k)[i] = <<n, made[n] + i>>
<1>1. n \in Nodes
  <2>1. jobs[j].nodes \in Seq(Nodes)
    BY JobParts
  <2>2. jobs[j].nodes # <<>>
    BY Zenon DEF Commit
  <2> QED
    BY <2>1, <2>2, HeadTailProperties
<1>2. made[n] \in 0 .. MaxEvents /\ k \in Nat /\ MaxEvents \in Nat
  BY <1>1, Constants DEF TypeOK
<1>3. made[n] + k <= MaxEvents /\ made' = [made EXCEPT ![n] = @ + k]
  BY Zenon DEF Commit
<1>4. made[n] + k \in 0 .. MaxEvents
  BY <1>2, <1>3
<1>5. \A i \in 1 .. k : made[n] + i \in 1 .. MaxEvents
  BY <1>2, <1>3
<1>6. \A i \in 1 .. k : <<n, made[n] + i>> \in Alerts
  BY <1>1, <1>5 DEF Alerts
<1>7. EventsOf(n, k) \in Seq(Alerts)
  BY <1>2, <1>6 DEF EventsOf
<1>8. DOMAIN EventsOf(n, k) = 1 .. k /\ \A i \in 1 .. k : EventsOf(n, k)[i] = <<n, made[n] + i>>
  BY DEF EventsOf
<1> QED
  BY <1>1, <1>2, <1>3, <1>4, <1>7, <1>8 DEF TypeOK

\* and after a node's evaluation it holds the events of that call.
LEMMA EvaluateMoves ==
  ASSUME TypeOK, JobsWellFormed, NEW j \in Jobs, NEW k \in 0 .. EventsPerCall, Commit(j, k),
         NEW n, n = Head(jobs[j].nodes),
         jobs' = [jobs EXCEPT ![j].nodes = Tail(@), ![j].events = EventsOf(n, k)]
  PROVE  /\ jobs[j].todo = <<>> /\ jobs[j].push = "none"
         /\ MovesTo(j, "nodes", <<>>, Tail(jobs[j].nodes), EventsOf(n, k), "none")
         /\ JobsWellFormed'
<1> DEFINE new == EventsOf(n, k)
           job == [at |-> jobs[j].at, cfg |-> jobs[j].cfg, todo |-> jobs[j].todo,
                   nodes |-> Tail(jobs[j].nodes), events |-> new, push |-> jobs[j].push]
<1>1. new \in Seq(Alerts)
  BY CommitEffect
<1>2. /\ jobs[j].at = "nodes" /\ jobs[j].nodes # <<>>
      /\ jobs[j].todo = <<>> /\ jobs[j].push = "none"
  BY DEF JobsWellFormed, WellFormed, Commit
<1> HIDE DEF new
<1>3. Becomes(j, job)
  BY <1>1, <1>2, EvaluateChange DEF new
<1>4. WellFormed(job)
  BY <1>2 DEF WellFormed
<1>5. JobsWellFormed'
  BY <1>3, <1>4, StaysWellFormed
<1> QED
  BY <1>2, <1>3, <1>5 DEF Becomes, MovesTo, new

\* The cycle ends: at the end of its loops, or by an exception.
LEMMA ReleaseMoves ==
  ASSUME TypeOK, JobsWellFormed, NEW j \in Jobs, Release(j)
  PROVE  /\ MovesTo(j, "idle", <<>>, <<>>, <<>>, "none")
         /\ JobsWellFormed'
<1>1. Becomes(j, Idle(jobs[j].cfg))
  BY ReleaseChange
<1>2. WellFormed(Idle(jobs[j].cfg))
  BY DEF WellFormed, Idle
<1>3. JobsWellFormed'
  BY <1>1, <1>2, StaysWellFormed
<1> QED
  BY <1>1, <1>3 DEF Becomes, MovesTo, Idle

\* After a crash no coroutine is left.
LEMMA CrashMoves ==
  ASSUME TypeOK, Crash
  PROVE  /\ jobs' \in [Jobs -> Job]
         /\ \A j \in Jobs : /\ jobs'[j].at = "idle" /\ jobs'[j].push = "none"
                            /\ jobs'[j].todo = <<>> /\ jobs'[j].nodes = <<>>
                            /\ jobs'[j].events = <<>>
         /\ JobsWellFormed'
<1>1. <<>> \in Seq(Nodes) /\ <<>> \in Seq(Alerts) /\ <<>> \in Seq(Ticket)
  OBVIOUS
<1>2. file \in Versions
  BY DEF TypeOK
<1>3. Idle(file) \in Job /\ WellFormed(Idle(file))
  BY <1>1, <1>2 DEF Job, Idle, Pushing, WellFormed
<1>4. \A j \in Jobs : jobs'[j] = Idle(file)
  BY DEF Crash
<1>5. jobs' \in [Jobs -> Job]
  BY <1>3 DEF Crash
<1> QED
  BY <1>3, <1>4, <1>5 DEF JobsWellFormed, Idle

-----------------------------------------------------------------------------
(* Type correctness. *)

\* The settings as three memberships.
SettingsTyped == file \in Versions /\ holder \in Versions /\ started \in Versions

\* TypeOK without the coroutines.
RestTyped ==
  /\ table \in [Messages -> Webhooks!Entry]
  /\ made \in [Nodes -> 0 .. MaxEvents]
  /\ isCollecting \in BOOLEAN
  /\ SettingsTyped
  /\ reports \in [Reports -> {"new", "sent", "received", "done"}]
  /\ faults \in 0 .. MaxFaults
  /\ got \subseteq Messages
  /\ lost \subseteq Alerts

\* The types are those of the coroutines and of the rest,
LEMMA TypeParts ==
  TypeOK <=> RestTyped /\ jobs \in [Jobs -> Job]
<1>1. {file, holder, started} \subseteq Versions <=> SettingsTyped
  BY DEF SettingsTyped
<1> QED
  BY <1>1, Zenon DEF TypeOK, RestTyped

\* also after a step.
LEMMA TypePartsNext ==
  RestTyped' /\ jobs' \in [Jobs -> Job] => TypeOK'
<1>1. SettingsTyped' => ({file, holder, started} \subseteq Versions)'
  BY DEF SettingsTyped
<1> QED
  BY <1>1, Zenon DEF TypeOK, RestTyped

\* The messages and the alerts that a coroutine holds are ones.
LEMMA HeldTyped ==
  ASSUME TypeOK, NEW j \in Jobs
  PROVE  Held(j) \subseteq Alerts
<1>1. jobs[j].events \in Seq(Alerts)
  BY JobParts
<1> QED
  BY <1>1 DEF Held

\* The initial state is typed.
LEMMA InitTyped == Init => TypeOK /\ JobsWellFormed
<1> SUFFICES ASSUME Init PROVE TypeOK /\ JobsWellFormed
  OBVIOUS
<1>1. <<>> \in Seq(Nodes) /\ <<>> \in Seq(Alerts) /\ <<>> \in Seq(Ticket)
  OBVIOUS
<1>2. 1 \in Versions
  BY CycleAssumption
<1>3. Idle(file) \in Job /\ WellFormed(Idle(file))
  BY <1>1, <1>2 DEF Init, Job, Idle, Pushing, WellFormed
<1>4. jobs \in [Jobs -> Job] /\ JobsWellFormed
  BY <1>3 DEF Init, JobsWellFormed
<1>5. table \in [Messages -> Webhooks!Entry]
  BY DEF Init, Webhooks!NoEntry, Webhooks!Entry
<1>6. SettingsTyped
  BY <1>2 DEF Init, SettingsTyped
<1>7. made \in [Nodes -> 0 .. MaxEvents] /\ faults \in 0 .. MaxFaults
  BY Constants DEF Init
<1>8. reports \in [Reports -> {"new", "sent", "received", "done"}]
  BY DEF Init
<1>9. isCollecting \in BOOLEAN /\ got \subseteq Messages /\ lost \subseteq Alerts
  BY DEF Init
<1> QED
  BY <1>4, <1>5, <1>6, <1>7, <1>8, <1>9, TypeParts DEF RestTyped

\* A step of a running cycle.
LEMMA CycleStepTyped ==
  ASSUME TypeOK, JobsWellFormed, NEW j \in Jobs,
         Begin(j) \/ Step(j) \/ FormatError(j) \/ StoreError(j)
  PROVE  TypeOK' /\ JobsWellFormed'
<1> USE DEF settings
<1>1. RestTyped
  BY TypeParts
<1>2. Held(j) \subseteq Alerts
  BY HeldTyped
<1>3. CASE Begin(j)
  <2>1. jobs' \in [Jobs -> Job] /\ JobsWellFormed'
    BY <1>3, BeginMoves DEF MovesTo
  <2>2. RestTyped'
    BY <1>1, <1>3 DEF Begin, RestTyped, SettingsTyped
  <2> QED
    BY <2>1, <2>2, TypePartsNext
<1>4. CASE Post(j)
  <2>1. jobs' \in [Jobs -> Job] /\ JobsWellFormed'
    BY <1>4, PostMoves DEF MovesTo
  <2>2. RestTyped'
    BY <1>1, <1>4 DEF Post, RestTyped, SettingsTyped
  <2> QED
    BY <2>1, <2>2, TypePartsNext
<1>5. CASE Receive(j)
  <2>1. jobs' \in [Jobs -> Job] /\ JobsWellFormed'
    BY <1>5, ReceiveMoves DEF MovesTo
  <2>2. Head(InHand(j)) \in Messages
    BY <1>5, Hand DEF Receive, JobsWellFormed, WellFormed
  <2>3. RestTyped'
    BY <1>1, <1>5, <2>2 DEF Receive, RestTyped, SettingsTyped
  <2> QED
    BY <2>1, <2>3, TypePartsNext
<1>6. CASE RetrySucceeds(j)
  <2>1. jobs' \in [Jobs -> Job] /\ JobsWellFormed' /\ jobs[j].todo # <<>>
    BY <1>6, TicketMoves DEF RetrySucceeds, MovesTo
  <2>2. Head(InHand(j)) \in Messages
    BY <1>6, <2>1, Hand DEF RetrySucceeds
  <2>3. table' \in [Messages -> Webhooks!Entry]
    BY <1>1, <1>6, <2>2, DeleteEffect DEF RetrySucceeds, RestTyped
  <2>4. RestTyped'
    BY <1>1, <1>6, <2>3 DEF RetrySucceeds, RestTyped, SettingsTyped
  <2> QED
    BY <2>1, <2>4, TypePartsNext
<1>7. CASE RetryFails(j)
  <2>1. jobs' \in [Jobs -> Job] /\ JobsWellFormed' /\ jobs[j].todo # <<>>
    BY <1>7, TicketMoves DEF RetryFails, MovesTo
  <2>2. Head(InHand(j)) \in Messages /\ Head(jobs[j].todo).attempts \in Nat
    BY <1>7, <2>1, Hand DEF RetryFails
  <2>3. MaxRetriesOf[jobs[j].cfg] \in Nat
    BY JobParts, Constants
  <2>4. table' \in [Messages -> Webhooks!Entry]
    BY <1>1, <1>7, <2>2, <2>3, FailedRetryEffect DEF RetryFails, RestTyped
  <2>5. RestTyped'
    BY <1>1, <1>7, <2>4 DEF RetryFails, RestTyped, SettingsTyped
  <2> QED
    BY <2>1, <2>5, TypePartsNext
<1>8. CASE CollectAll(j)
  <2>1. jobs' \in [Jobs -> Job] /\ JobsWellFormed'
    BY <1>8, CollectAllMoves DEF MovesTo
  <2>2. RestTyped'
    BY <1>1, <1>8 DEF CollectAll, RestTyped, SettingsTyped
  <2> QED
    BY <2>1, <2>2, TypePartsNext
<1>9. CASE Collected(j)
  <2>1. jobs' \in [Jobs -> Job] /\ JobsWellFormed'
    BY <1>9, CollectedMoves DEF MovesTo
  <2>2. RestTyped'
    BY <1>1, <1>9 DEF Collected, RestTyped, SettingsTyped
  <2> QED
    BY <2>1, <2>2, TypePartsNext
<1>10. CASE Evaluate(j)
  <2>1. PICK k \in 0 .. EventsPerCall :
          /\ Commit(j, k)
          /\ jobs' = [jobs EXCEPT ![j].nodes = Tail(@),
                                  ![j].events = EventsOf(Head(jobs[j].nodes), k)]
          /\ UNCHANGED <<table, isCollecting, settings, reports, faults, got, lost>>
    BY <1>10, Zenon DEF Evaluate
  <2>2. jobs' \in [Jobs -> Job] /\ JobsWellFormed'
    BY <2>1, EvaluateMoves DEF MovesTo
  <2>3. made' \in [Nodes -> 0 .. MaxEvents]
    BY <2>1, CommitEffect
  <2>4. RestTyped'
    BY <1>1, <2>1, <2>3 DEF RestTyped, SettingsTyped
  <2> QED
    BY <2>2, <2>4, TypePartsNext
<1>11. CASE EventSent(j)
  <2>1. jobs' \in [Jobs -> Job] /\ JobsWellFormed'
    BY <1>11, EventMoves DEF EventSent, MovesTo
  <2>2. RestTyped'
    BY <1>1, <1>11 DEF EventSent, RestTyped, SettingsTyped
  <2> QED
    BY <2>1, <2>2, TypePartsNext
<1>12. CASE EventFails(j)
  <2>1. jobs' \in [Jobs -> Job] /\ JobsWellFormed' /\ jobs[j].events # <<>>
    BY <1>12, EventMoves DEF EventFails, MovesTo
  <2>2. Head(InHand(j)) \in Messages
    BY <1>12, <2>1, Hand DEF EventFails
  <2>3. table' \in [Messages -> Webhooks!Entry]
    BY <1>1, <1>12, <2>2, EnqueueEffect DEF EventFails, RestTyped
  <2>4. RestTyped'
    BY <1>1, <1>12, <2>3 DEF EventFails, RestTyped, SettingsTyped
  <2> QED
    BY <2>1, <2>4, TypePartsNext
<1>13. CASE CleanUp(j)
  <2>1. jobs' \in [Jobs -> Job] /\ JobsWellFormed'
    BY <1>13, ReleaseMoves DEF CleanUp, MovesTo
  <2>2. RestTyped'
    BY <1>1, <1>13 DEF CleanUp, Release, RestTyped, SettingsTyped
  <2> QED
    BY <2>1, <2>2, TypePartsNext
<1>14. CASE FormatError(j)
  <2>1. jobs' \in [Jobs -> Job] /\ JobsWellFormed'
    BY <1>14, ReleaseMoves DEF FormatError, MovesTo
  <2>2. RestTyped'
    BY <1>1, <1>2, <1>14 DEF FormatError, Release, RestTyped, SettingsTyped
  <2> QED
    BY <2>1, <2>2, TypePartsNext
<1>15. CASE StoreError(j)
  <2>1. jobs' \in [Jobs -> Job] /\ JobsWellFormed'
    BY <1>15, ReleaseMoves DEF StoreError, MovesTo
  <2>2. faults' \in 0 .. MaxFaults /\ isCollecting' \in BOOLEAN
    <3>1. faults < MaxFaults /\ faults' = faults + 1 /\ isCollecting' = FALSE
      BY <1>15, Zenon DEF StoreError, Release
    <3>2. faults \in 0 .. MaxFaults
      BY <1>1 DEF RestTyped
    <3>3. faults' \in 0 .. MaxFaults
      BY <3>1, <3>2, Constants
    <3> QED
      BY <3>1, <3>3, Zenon
  <2>3. made' \in [Nodes -> 0 .. MaxEvents] /\ lost' \subseteq Alerts
    <3>1. CASE lost' = lost \cup Held(j) /\ UNCHANGED made
      BY <1>1, <1>2, <3>1 DEF RestTyped
    <3>2. CASE \E k \in 1 .. EventsPerCall :
                 /\ Commit(j, k)
                 /\ lost' = lost \cup
                      {<<Head(jobs[j].nodes), made[Head(jobs[j].nodes)] + i>> : i \in 1 .. k}
      <4> DEFINE n == Head(jobs[j].nodes)
      <4>1. PICK k \in 1 .. EventsPerCall :
              Commit(j, k) /\ lost' = lost \cup {<<n, made[n] + i>> : i \in 1 .. k}
        BY <3>2
      <4>2. k \in 0 .. EventsPerCall
        BY Constants
      <4> HIDE DEF n
      <4>3. /\ made' \in [Nodes -> 0 .. MaxEvents]
            /\ n \in Nodes /\ made[n] \in 0 .. MaxEvents /\ k \in Nat
            /\ made[n] + k \in 0 .. MaxEvents
        BY <4>1, <4>2, CommitEffect DEF n
      <4>4. \A i \in 1 .. k : made[n] + i \in 1 .. MaxEvents
        BY <4>3, Constants
      <4>5. \A i \in 1 .. k : <<n, made[n] + i>> \in Alerts
        BY <4>3, <4>4 DEF Alerts
      <4> QED
        BY <1>1, <4>1, <4>3, <4>5 DEF RestTyped
    <3> QED
      BY <1>15, <3>1, <3>2 DEF StoreError
  <2>4. RestTyped'
    BY <1>1, <1>15, <2>2, <2>3 DEF StoreError, RestTyped, SettingsTyped
  <2> QED
    BY <2>1, <2>4, TypePartsNext
<1> QED
  BY <1>3, <1>4, <1>5, <1>6, <1>7, <1>8, <1>9, <1>10, <1>11, <1>12, <1>13, <1>14, <1>15 DEF Step

\* The rest of the process.
LEMMA OtherStepTyped ==
  ASSUME TypeOK, JobsWellFormed,
         \/ Crash \/ EditFile \/ ReloadConfig \/ Tick \/ UNCHANGED vars
         \/ \E r \in Reports : ReportPost(r) \/ ReportReceive(r) \/ ReportSent(r) \/ ReportFails(r)
  PROVE  TypeOK' /\ JobsWellFormed'
<1> USE DEF settings
<1>1. RestTyped /\ jobs \in [Jobs -> Job]
  BY TypeParts
<1>2. CASE Crash
  <2>1. jobs' \in [Jobs -> Job] /\ JobsWellFormed'
    BY <1>2, CrashMoves
  <2>2. lost' \subseteq Alerts
    BY <1>1, <1>2, HeldTyped DEF Crash, RestTyped
  <2>3. reports' \in [Reports -> {"new", "sent", "received", "done"}]
    BY <1>2 DEF Crash
  <2>4. faults' \in 0 .. MaxFaults
    BY <1>1, <1>2, Constants DEF Crash, RestTyped
  <2>5. RestTyped'
    BY <1>1, <1>2, <2>2, <2>3, <2>4 DEF Crash, RestTyped, SettingsTyped
  <2> QED
    BY <2>1, <2>5, TypePartsNext
<1>3. CASE EditFile
  BY <1>1, <1>3, TypePartsNext DEF EditFile, RestTyped, SettingsTyped, JobsWellFormed
<1>4. CASE ReloadConfig
  BY <1>1, <1>4, TypePartsNext DEF ReloadConfig, RestTyped, SettingsTyped, JobsWellFormed
<1>5. CASE Tick
  <2>1. table' \in [Messages -> Webhooks!Entry]
    BY <1>1, <1>5, OlderEffect DEF Tick, RestTyped
  <2> QED
    BY <1>1, <1>5, <2>1, TypePartsNext DEF Tick, RestTyped, SettingsTyped, JobsWellFormed
<1>6. CASE UNCHANGED vars
  BY <1>1, <1>6, TypePartsNext DEF vars, RestTyped, SettingsTyped, JobsWellFormed
<1>7. ASSUME NEW r \in Reports,
             ReportPost(r) \/ ReportReceive(r) \/ ReportSent(r) \/ ReportFails(r)
      PROVE  TypeOK' /\ JobsWellFormed'
  <2>1. r \in Messages
    BY DEF Messages
  <2>2. UNCHANGED <<jobs, made, isCollecting, file, holder, started, faults, lost>>
    BY <1>7 DEF ReportPost, ReportReceive, ReportSent, ReportFails
  <2>3. reports' \in [Reports -> {"new", "sent", "received", "done"}]
    BY <1>1, <1>7 DEF ReportPost, ReportReceive, ReportSent, ReportFails, RestTyped
  <2>4. got' \subseteq Messages
    BY <1>1, <1>7, <2>1 DEF ReportPost, ReportReceive, ReportSent, ReportFails, RestTyped
  <2>5. table' \in [Messages -> Webhooks!Entry]
    BY <1>1, <1>7, <2>1, EnqueueEffect
       DEF ReportPost, ReportReceive, ReportSent, ReportFails, RestTyped
  <2>6. RestTyped'
    BY <1>1, <2>2, <2>3, <2>4, <2>5 DEF RestTyped, SettingsTyped
  <2> QED
    BY <1>1, <2>2, <2>6, TypePartsNext DEF JobsWellFormed
<1> QED
  BY <1>2, <1>3, <1>4, <1>5, <1>6, <1>7

\* Every variable keeps its type, and what a coroutine holds fits the place
\* in the cycle where it is.
THEOREM TypesKept == Spec => [](TypeOK /\ JobsWellFormed)
<1>1. TypeOK /\ JobsWellFormed /\ [Next]_vars => (TypeOK /\ JobsWellFormed)'
  BY CycleStepTyped, OtherStepTyped DEF Next
<1> QED
  BY <1>1, InitTyped, PTL DEF Spec

-----------------------------------------------------------------------------
(* The lock. *)

\* The steps that leave the coroutine in its cycle.
GoesOn(j) ==
  \/ Post(j) \/ Receive(j) \/ RetrySucceeds(j) \/ RetryFails(j) \/ CollectAll(j)
  \/ Collected(j) \/ Evaluate(j) \/ EventSent(j) \/ EventFails(j)

\* The steps that end it.
Ends(j) == CleanUp(j) \/ FormatError(j) \/ StoreError(j)

\* The steps of the rest of the process that no coroutine takes part in.
Outside ==
  \/ EditFile \/ ReloadConfig \/ Tick \/ UNCHANGED vars
  \/ \E r \in Reports : ReportPost(r) \/ ReportReceive(r) \/ ReportSent(r) \/ ReportFails(r)

\* Each step is of a coroutine, which begins, goes on or ends, a crash, or outside.
LEMMA StepKinds ==
  [Next]_vars => \/ \E j \in Jobs : Begin(j) \/ GoesOn(j) \/ Ends(j)
                 \/ Crash
                 \/ Outside
BY Zenon DEF Next, Step, GoesOn, Ends, Outside

\* A coroutine that goes on stays in its cycle and keeps the lock.
LEMMA GoingOn ==
  ASSUME TypeOK, JobsWellFormed, NEW j \in Jobs, GoesOn(j)
  PROVE  /\ jobs[j].at # "idle" /\ jobs'[j].at # "idle"
         /\ \A i \in Jobs \ {j} : jobs'[i] = jobs[i]
         /\ isCollecting' = isCollecting
<1>1. CASE Post(j)
  BY <1>1, PostMoves, Hand DEF Post, MovesTo
<1>2. CASE Receive(j)
  BY <1>2, ReceiveMoves DEF Receive, MovesTo, JobsWellFormed, WellFormed
<1>3. CASE RetrySucceeds(j)
  BY <1>3, TicketMoves DEF RetrySucceeds, MovesTo
<1>4. CASE RetryFails(j)
  BY <1>4, TicketMoves DEF RetryFails, MovesTo
<1>5. CASE CollectAll(j)
  BY <1>5, CollectAllMoves DEF CollectAll, MovesTo
<1>6. CASE Collected(j)
  BY <1>6, CollectedMoves DEF Collected, MovesTo
<1>7. CASE Evaluate(j)
  <2>1. PICK k \in 0 .. EventsPerCall :
          /\ Commit(j, k)
          /\ jobs' = [jobs EXCEPT ![j].nodes = Tail(@),
                                  ![j].events = EventsOf(Head(jobs[j].nodes), k)]
          /\ isCollecting' = isCollecting
    BY <1>7, Zenon DEF Evaluate
  <2> QED
    BY <2>1, EvaluateMoves DEF Commit, MovesTo
<1>8. CASE EventSent(j)
  BY <1>8, EventMoves DEF EventSent, MovesTo
<1>9. CASE EventFails(j)
  BY <1>9, EventMoves DEF EventFails, MovesTo
<1> QED
  BY <1>1, <1>2, <1>3, <1>4, <1>5, <1>6, <1>7, <1>8, <1>9 DEF GoesOn

\* One that ends drops what it held, and the lock.
LEMMA Ending ==
  ASSUME TypeOK, JobsWellFormed, NEW j \in Jobs, Ends(j)
  PROVE  /\ jobs[j].at # "idle"
         /\ MovesTo(j, "idle", <<>>, <<>>, <<>>, "none")
         /\ isCollecting' = FALSE
<1>1. Release(j)
  BY Zenon DEF Ends, CleanUp, FormatError, StoreError
<1>2. jobs[j].at # "idle"
  BY Hand DEF Ends, CleanUp, FormatError, StoreError, Running
<1> QED
  BY <1>1, <1>2, ReleaseMoves DEF Release

\* What happens outside touches no coroutine and makes no event.
LEMMA OutsideJobs ==
  Outside => UNCHANGED <<jobs, isCollecting, made, lost>>
BY DEF Outside, EditFile, ReloadConfig, Tick, vars, ReportPost, ReportReceive, ReportSent,
       ReportFails

\* Every step keeps the lock with the one coroutine in its cycle.
LEMMA LockStep ==
  ASSUME TypeOK, JobsWellFormed, OneCycleAtATime, [Next]_vars
  PROVE  OneCycleAtATime'
<1> USE DEF OneCycleAtATime, Running
<1>1. ASSUME NEW j \in Jobs, Begin(j)
      PROVE  OneCycleAtATime'
  <2>1. jobs'[j].at = "retry" /\ \A i \in Jobs \ {j} : jobs'[i] = jobs[i]
    BY <1>1, BeginMoves DEF MovesTo
  <2>2. \A i \in Jobs : jobs[i].at = "idle"
    BY <1>1 DEF Begin
  <2>3. isCollecting' = TRUE
    BY <1>1 DEF Begin
  <2> QED
    BY <2>1, <2>2, <2>3
<1>2. ASSUME NEW j \in Jobs, GoesOn(j)
      PROVE  OneCycleAtATime'
  BY <1>2, GoingOn
<1>3. ASSUME NEW j \in Jobs, Ends(j)
      PROVE  OneCycleAtATime'
  <2>1. /\ jobs[j].at # "idle" /\ jobs'[j].at = "idle"
        /\ \A i \in Jobs \ {j} : jobs'[i] = jobs[i]
        /\ isCollecting' = FALSE
    BY <1>3, Ending DEF MovesTo
  <2>2. \A i \in Jobs : jobs'[i].at = "idle"
    BY <2>1
  <2> QED
    BY <2>1, <2>2
<1>4. CASE Crash
  <2>1. \A j \in Jobs : jobs'[j].at = "idle"
    BY <1>4, CrashMoves
  <2> QED
    BY <1>4, <2>1 DEF Crash
<1>5. CASE Outside
  BY <1>5, OutsideJobs
<1> QED
  BY <1>1, <1>2, <1>3, <1>4, <1>5, StepKinds

\* While a coroutine is in its cycle the others hold nothing.
LEMMA OthersIdle ==
  ASSUME JobsWellFormed, OneCycleAtATime, NEW j \in Jobs, jobs[j].at # "idle"
  PROVE  \A i \in Jobs \ {j} : /\ jobs[i].at = "idle" /\ jobs[i].todo = <<>>
                               /\ jobs[i].events = <<>> /\ jobs[i].push = "none"
BY DEF JobsWellFormed, WellFormed, OneCycleAtATime, Running

\* _is_collecting is taken exactly while one coroutine is in the cycle.
THEOREM LockKeepsCyclesApart == Spec => []OneCycleAtATime
<1>1. Init => OneCycleAtATime
  BY DEF Init, OneCycleAtATime, Running, Idle
<1>2. (TypeOK /\ JobsWellFormed) /\ OneCycleAtATime /\ [Next]_vars => OneCycleAtATime'
  BY LockStep
<1> QED
  BY <1>1, <1>2, TypesKept, PTL DEF Spec

-----------------------------------------------------------------------------
(* The snapshot of the table. *)

\* These tickets are what the table says, and each is of a message of its own.
Current(t, todo) ==
  \A i \in DOMAIN todo : /\ Webhooks!IsPending(t, todo[i].id)
                         /\ t[todo[i].id].attempts = todo[i].attempts

Differ(todo) == \A i, k \in DOMAIN todo : todo[i].id = todo[k].id => i = k

\* The invariant of the snapshots, coroutine by coroutine,
LEMMA SnapshotParts ==
  /\ SnapshotIsCurrent <=> \A j \in Jobs : Current(table, jobs[j].todo)
  /\ TicketsDiffer <=> \A j \in Jobs : Differ(jobs[j].todo)
BY DEF SnapshotIsCurrent, TicketsDiffer, Current, Differ

\* also after a step.
LEMMA SnapshotPartsNext ==
  /\ (\A j \in Jobs : Current(table', jobs'[j].todo)) => SnapshotIsCurrent'
  /\ (\A j \in Jobs : Differ(jobs'[j].todo)) => TicketsDiffer'
BY DEF SnapshotIsCurrent, TicketsDiffer, Current, Differ

\* An empty snapshot is current.
LEMMA NothingToDo ==
  /\ Differ(<<>>)
  /\ \A t : Current(t, <<>>)
BY DEF Current, Differ

\* The places of a sequence and of its rest.
LEMMA InTail ==
  ASSUME NEW S, NEW s \in Seq(S), s # <<>>
  PROVE  /\ Tail(s) \in Seq(S)
         /\ Head(s) = s[1] /\ 1 \in DOMAIN s
         /\ \A i \in DOMAIN Tail(s) : /\ i + 1 \in DOMAIN s /\ i \in Nat /\ i + 1 # 1
                                      /\ Tail(s)[i] = s[i + 1]
         /\ \A i \in DOMAIN s : i # 1 => i - 1 \in DOMAIN Tail(s) /\ Tail(s)[i - 1] = s[i]
OBVIOUS

\* The loop goes on to the next ticket after it has changed the row of the first.
LEMMA NextTicketCurrent ==
  ASSUME NEW t, NEW after, NEW todo \in Seq(Ticket), todo # <<>>,
         Current(t, todo), Differ(todo),
         \A n \in Messages \ {Head(todo).id} : after[n] = t[n]
  PROVE  Current(after, Tail(todo)) /\ Differ(Tail(todo))
<1>1. ASSUME NEW i \in DOMAIN Tail(todo)
      PROVE  /\ Tail(todo)[i] = todo[i + 1] /\ i + 1 \in DOMAIN todo /\ i \in Nat
             /\ todo[i + 1].id \in Messages \ {Head(todo).id}
  <2>1. /\ i + 1 \in DOMAIN todo /\ i \in Nat /\ i + 1 # 1 /\ Tail(todo)[i] = todo[i + 1]
        /\ Head(todo) = todo[1] /\ 1 \in DOMAIN todo
    BY InTail
  <2>2. todo[i + 1] \in Ticket
    BY <2>1
  <2>3. todo[i + 1].id \in Messages
    BY <2>2 DEF Ticket
  <2>4. todo[i + 1].id # todo[1].id
    BY <2>1 DEF Differ
  <2> QED
    BY <2>1, <2>3, <2>4
<1>2. Current(after, Tail(todo))
  BY <1>1 DEF Current, Webhooks!IsPending
<1>3. Differ(Tail(todo))
  BY <1>1 DEF Differ
<1> QED
  BY <1>2, <1>3

\* The steps of the cycle that leave the table as it is.
LEMMA TableUntouched ==
  ASSUME TypeOK, JobsWellFormed, NEW j \in Jobs,
         \/ Post(j) \/ Receive(j) \/ CollectAll(j) \/ Collected(j) \/ Evaluate(j)
         \/ EventSent(j) \/ Ends(j)
  PROVE  /\ table' = table /\ reports' = reports
         /\ \A i \in Jobs : jobs'[i].todo = jobs[i].todo \/ jobs'[i].todo = <<>>
<1>1. CASE Post(j)
  BY <1>1, PostMoves DEF Post, MovesTo
<1>2. CASE Receive(j)
  BY <1>2, ReceiveMoves DEF Receive, MovesTo
<1>3. CASE CollectAll(j)
  BY <1>3, CollectAllMoves DEF CollectAll, MovesTo
<1>4. CASE Collected(j)
  BY <1>4, CollectedMoves DEF Collected, MovesTo
<1>5. CASE Evaluate(j)
  <2>1. PICK k \in 0 .. EventsPerCall :
          /\ Commit(j, k)
          /\ jobs' = [jobs EXCEPT ![j].nodes = Tail(@),
                                  ![j].events = EventsOf(Head(jobs[j].nodes), k)]
          /\ UNCHANGED <<table, reports>>
    BY <1>5, Zenon DEF Evaluate
  <2> QED
    BY <2>1, EvaluateMoves DEF MovesTo
<1>6. CASE EventSent(j)
  BY <1>6, EventMoves DEF EventSent, MovesTo
<1>7. CASE Ends(j)
  <2>1. \A i \in Jobs : jobs'[i].todo = jobs[i].todo \/ jobs'[i].todo = <<>>
    BY <1>7, Ending DEF MovesTo
  <2> QED
    BY <1>7, <2>1, Zenon DEF Ends, CleanUp, FormatError, StoreError
<1> QED
  BY <1>1, <1>2, <1>3, <1>4, <1>5, <1>6, <1>7

SnapshotInv == SnapshotIsCurrent /\ TicketsDiffer /\ ReportsQueuedOnce

\* A retry has changed the row of the first ticket, or deleted it.
LEMMA TicketDone ==
  ASSUME TypeOK, JobsWellFormed, OneCycleAtATime, SnapshotInv, NEW j \in Jobs,
         jobs[j].at = "retry", jobs[j].push # "none", NextTicket(j),
         NEW m, m = Head(jobs[j].todo).id,
         \A n \in Messages \ {m} : table'[n] = table[n],
         Webhooks!InTable(table', m) => Webhooks!InTable(table, m),
         reports' = reports
  PROVE  SnapshotInv'
<1>1. /\ jobs[j].todo # <<>>
      /\ jobs'[j].todo = Tail(jobs[j].todo)
      /\ \A i \in Jobs \ {j} : jobs'[i].todo = <<>>
  BY TicketMoves, OthersIdle DEF MovesTo
<1>2. jobs[j].todo \in Seq(Ticket)
  BY JobParts
<1>3. Current(table, jobs[j].todo) /\ Differ(jobs[j].todo)
  BY SnapshotParts DEF SnapshotInv
<1>4. Current(table', jobs'[j].todo) /\ Differ(jobs'[j].todo)
  BY <1>1, <1>2, <1>3, NextTicketCurrent
<1>5. \A i \in Jobs : Current(table', jobs'[i].todo) /\ Differ(jobs'[i].todo)
  BY <1>1, <1>4, NothingToDo
<1>6. ReportsQueuedOnce'
  BY DEF SnapshotInv, ReportsQueuedOnce, Messages, Webhooks!InTable
<1> QED
  BY <1>5, <1>6, SnapshotPartsNext DEF SnapshotInv

\* Every step keeps the snapshots current.
LEMMA SnapshotStep ==
  ASSUME TypeOK, JobsWellFormed, OneCycleAtATime, SnapshotInv, [Next]_vars
  PROVE  SnapshotInv'
<1>1. /\ \A i \in Jobs : Current(table, jobs[i].todo) /\ Differ(jobs[i].todo)
      /\ ReportsQueuedOnce
  BY SnapshotParts DEF SnapshotInv
<1>2. /\ table \in [Messages -> Webhooks!Entry]
      /\ reports \in [Reports -> {"new", "sent", "received", "done"}]
  BY DEF TypeOK
<1>3. Alerts \subseteq Messages /\ Reports \subseteq Messages /\ Alerts \cap Reports = {}
  BY CycleAssumption DEF Messages
<1>4. ASSUME table' = table, reports' = reports,
             \A i \in Jobs : jobs'[i].todo = jobs[i].todo \/ jobs'[i].todo = <<>>
      PROVE  SnapshotInv'
  <2>1. \A i \in Jobs : Current(table', jobs'[i].todo) /\ Differ(jobs'[i].todo)
    BY <1>1, <1>4, NothingToDo
  <2>2. ReportsQueuedOnce'
    BY <1>1, <1>4 DEF ReportsQueuedOnce, Webhooks!InTable
  <2> QED
    BY <2>1, <2>2, SnapshotPartsNext DEF SnapshotInv
<1>5. ASSUME NEW j \in Jobs, Begin(j)
      PROVE  SnapshotInv'
  <2>1. PICK todo \in Webhooks!DequeuePendingWebhooks(table) :
          MovesTo(j, "retry", todo, <<>>, <<>>, "none")
    BY <1>5, BeginMoves
  <2>2. Current(table, todo) /\ Differ(todo)
    BY <1>2, <2>1, DequeueEffect DEF Current, Differ
  <2>3. table' = table /\ reports' = reports
    BY <1>5 DEF Begin
  <2>4. \A i \in Jobs : Current(table', jobs'[i].todo) /\ Differ(jobs'[i].todo)
    BY <1>1, <2>1, <2>2, <2>3 DEF MovesTo
  <2>5. ReportsQueuedOnce'
    BY <1>1, <2>3 DEF ReportsQueuedOnce, Webhooks!InTable
  <2> QED
    BY <2>4, <2>5, SnapshotPartsNext DEF SnapshotInv
<1>6. ASSUME NEW j \in Jobs, RetrySucceeds(j)
      PROVE  SnapshotInv'
  <2> DEFINE m == Head(jobs[j].todo).id
  <2>1. jobs[j].todo # <<>>
    BY <1>6, TicketMoves DEF RetrySucceeds
  <2>2. m \in Messages /\ Head(InHand(j)) = m
    BY <1>6, <2>1, Hand DEF RetrySucceeds
  <2>3. /\ table' = Webhooks!DeleteWebhook(table, m)
        /\ jobs[j].at = "retry" /\ jobs[j].push # "none" /\ NextTicket(j)
        /\ reports' = reports
    BY <1>6, <2>2 DEF RetrySucceeds
  <2> HIDE DEF m
  <2>4. ~Webhooks!InTable(table', m) /\ \A n \in Messages \ {m} : table'[n] = table[n]
    BY <1>2, <2>2, <2>3, DeleteEffect
  <2> QED
    BY <2>3, <2>4, TicketDone DEF m
<1>7. ASSUME NEW j \in Jobs, RetryFails(j)
      PROVE  SnapshotInv'
  <2> DEFINE m == Head(jobs[j].todo).id
             attempts == Head(jobs[j].todo).attempts
             maxRetries == MaxRetriesOf[jobs[j].cfg]
  <2>1. jobs[j].todo # <<>>
    BY <1>7, TicketMoves DEF RetryFails
  <2>2. m \in Messages /\ Head(InHand(j)) = m /\ attempts \in Nat /\ maxRetries \in Nat
    BY <1>7, <2>1, Hand, JobParts, Constants DEF RetryFails
  <2>3. /\ table' = Webhooks!AfterFailedRetry(table, m, attempts, maxRetries)
        /\ jobs[j].at = "retry" /\ jobs[j].push # "none" /\ NextTicket(j)
        /\ reports' = reports
    BY <1>7, <2>2 DEF RetryFails
  <2> HIDE DEF m, attempts, maxRetries
  <2>4. /\ Webhooks!InTable(table', m) <=> Webhooks!InTable(table, m)
        /\ \A n \in Messages \ {m} : table'[n] = table[n]
    BY <1>2, <2>2, <2>3, FailedRetryEffect
  <2> QED
    BY <2>3, <2>4, TicketDone DEF m
<1>8. ASSUME NEW j \in Jobs, EventFails(j)
      PROVE  SnapshotInv'
  <2>1. /\ jobs[j].events # <<>> /\ jobs[j].todo = <<>> /\ jobs[j].at = "nodes"
        /\ MovesTo(j, "nodes", <<>>, jobs[j].nodes, Tail(jobs[j].events), "none")
    BY <1>8, EventMoves DEF EventFails
  <2>2. \A i \in Jobs : jobs'[i].todo = <<>>
    BY <2>1, OthersIdle DEF MovesTo
  <2>3. Head(InHand(j)) \in Alerts
    BY <2>1, Hand
  <2>4. \A n \in Messages \ {Head(InHand(j))} : table'[n] = table[n]
    BY <1>2, <1>3, <1>8, <2>3, EnqueueEffect DEF EventFails
  <2>5. ReportsQueuedOnce'
    BY <1>1, <1>3, <1>8, <2>3, <2>4 DEF EventFails, ReportsQueuedOnce, Webhooks!InTable
  <2>6. \A i \in Jobs : Current(table', jobs'[i].todo) /\ Differ(jobs'[i].todo)
    BY <2>2, NothingToDo
  <2> QED
    BY <2>5, <2>6, SnapshotPartsNext DEF SnapshotInv
<1>9. ASSUME NEW j \in Jobs, GoesOn(j) \/ Ends(j)
      PROVE  SnapshotInv'
  <2>1. CASE \/ Post(j) \/ Receive(j) \/ CollectAll(j) \/ Collected(j) \/ Evaluate(j)
             \/ EventSent(j) \/ Ends(j)
    BY <1>4, <2>1, TableUntouched
  <2> QED
    BY <1>6, <1>7, <1>8, <1>9, <2>1 DEF GoesOn
<1>10. CASE Crash
  <2>1. \A j \in Jobs : jobs'[j].todo = <<>>
    BY <1>10, CrashMoves
  <2>2. \A i \in Jobs : Current(table', jobs'[i].todo) /\ Differ(jobs'[i].todo)
    BY <2>1, NothingToDo
  <2>3. table' = table /\ \A r \in Reports : reports'[r] # "done" => reports[r] # "done"
    BY <1>10 DEF Crash
  <2>4. ReportsQueuedOnce'
    BY <1>1, <2>3 DEF ReportsQueuedOnce, Webhooks!InTable
  <2> QED
    BY <2>2, <2>4, SnapshotPartsNext DEF SnapshotInv
<1>11. CASE Tick
  <2>1. table' = Webhooks!Older(table) /\ reports' = reports /\ jobs' = jobs
    BY <1>11 DEF Tick
  <2>2. \A m \in Messages : /\ table'[m].status = table[m].status
                            /\ table'[m].attempts = table[m].attempts
    BY <1>2, <2>1, OlderEffect
  <2>3. ReportsQueuedOnce'
    BY <1>1, <1>3, <2>1, <2>2 DEF ReportsQueuedOnce, Webhooks!InTable
  <2>4. ASSUME NEW j \in Jobs
        PROVE  Current(table', jobs'[j].todo)
    <3>1. jobs[j].todo \in Seq(Ticket)
      BY JobParts
    <3>2. ASSUME NEW i \in DOMAIN jobs[j].todo
          PROVE  jobs[j].todo[i].id \in Messages
      <4>1. jobs[j].todo[i] \in Ticket
        BY <3>1
      <4> QED
        BY <4>1 DEF Ticket
    <3> QED
      BY <1>1, <2>1, <2>2, <3>2 DEF Current, Webhooks!IsPending
  <2>5. \A j \in Jobs : Differ(jobs'[j].todo)
    BY <1>1, <2>1
  <2> QED
    BY <2>3, <2>4, <2>5, SnapshotPartsNext DEF SnapshotInv
<1>12. ASSUME NEW r \in Reports, ReportFails(r)
       PROVE  SnapshotInv'
  <2>1. /\ table' = Webhooks!EnqueueWebhook(table, r) /\ jobs' = jobs
        /\ reports' = [reports EXCEPT ![r] = "done"] /\ reports[r] # "done"
    BY <1>12 DEF ReportFails
  <2>2. ~Webhooks!InTable(table, r) /\ r \in Messages
    BY <1>1, <1>3, <2>1 DEF ReportsQueuedOnce
  <2>3. \A n \in Messages \ {r} : table'[n] = table[n]
    BY <1>2, <2>1, <2>2, EnqueueEffect
  <2>4. ReportsQueuedOnce'
    BY <1>1, <1>2, <1>3, <2>1, <2>3 DEF ReportsQueuedOnce, Webhooks!InTable
  <2>5. ASSUME NEW j \in Jobs
        PROVE  Current(table', jobs'[j].todo)
    <3>1. jobs[j].todo \in Seq(Ticket)
      BY JobParts
    <3>2. ASSUME NEW i \in DOMAIN jobs[j].todo
          PROVE  jobs[j].todo[i].id \in Messages \ {r}
      <4>1. jobs[j].todo[i] \in Ticket
        BY <3>1
      <4>2. Webhooks!IsPending(table, jobs[j].todo[i].id)
        BY <1>1 DEF Current
      <4> QED
        BY <2>2, <4>1, <4>2 DEF Ticket, Webhooks!IsPending, Webhooks!InTable
    <3> QED
      BY <1>1, <2>1, <2>3, <3>2 DEF Current, Webhooks!IsPending
  <2>6. \A j \in Jobs : Differ(jobs'[j].todo)
    BY <1>1, <2>1
  <2> QED
    BY <2>4, <2>5, <2>6, SnapshotPartsNext DEF SnapshotInv
<1>13. ASSUME NEW r \in Reports, ReportPost(r) \/ ReportReceive(r) \/ ReportSent(r)
       PROVE  SnapshotInv'
  <2>1. /\ table' = table /\ jobs' = jobs
        /\ \A q \in Reports : reports'[q] # "done" => reports[q] # "done"
    BY <1>2, <1>13 DEF ReportPost, ReportReceive, ReportSent
  <2>2. ReportsQueuedOnce'
    BY <1>1, <2>1 DEF ReportsQueuedOnce, Webhooks!InTable
  <2>3. \A i \in Jobs : Current(table', jobs'[i].todo) /\ Differ(jobs'[i].todo)
    BY <1>1, <2>1
  <2> QED
    BY <2>2, <2>3, SnapshotPartsNext DEF SnapshotInv
<1>14. CASE EditFile \/ ReloadConfig \/ UNCHANGED vars
  BY <1>4, <1>14 DEF EditFile, ReloadConfig, vars
<1> QED
  BY <1>5, <1>9, <1>10, <1>11, <1>12, <1>13, <1>14, StepKinds DEF Outside

\* What the proofs about the snapshots keep is kept.
LEMMA SnapshotInvariant == Spec => []SnapshotInv
<1>1. Init => SnapshotInv
  <2> SUFFICES ASSUME Init PROVE SnapshotInv
    OBVIOUS
  <2>1. \A j \in Jobs : jobs[j].todo = <<>>
    BY DEF Init, Idle
  <2>2. \A j \in Jobs : Current(table, jobs[j].todo) /\ Differ(jobs[j].todo)
    BY <2>1, NothingToDo
  <2>3. ReportsQueuedOnce
    BY DEF Init, ReportsQueuedOnce, Messages, Webhooks!InTable, Webhooks!NoEntry
  <2> QED
    BY <2>2, <2>3, SnapshotParts DEF SnapshotInv
<1>2. (TypeOK /\ JobsWellFormed) /\ OneCycleAtATime /\ SnapshotInv /\ [Next]_vars => SnapshotInv'
  BY SnapshotStep
<1> QED
  BY <1>1, <1>2, TypesKept, LockKeepsCyclesApart, PTL DEF Spec

\* The rows the retry loop has read stay as it has read them until it comes to
\* them, whatever the dashboard enqueues meanwhile.
THEOREM SnapshotStaysCurrent == Spec => []SnapshotIsCurrent
<1>1. SnapshotInv => SnapshotIsCurrent
  BY DEF SnapshotInv
<1> QED
  BY <1>1, SnapshotInvariant, PTL

-----------------------------------------------------------------------------
(* What a step does to the alerts: six kinds of steps, as far as alerts go.   *)

SameEvents == \A i \in Jobs : jobs'[i].events = jobs[i].events

\* No alert moves; reports may.
Quiet ==
  /\ SameEvents
  /\ made' = made /\ lost' = lost
  /\ \A a \in Alerts : /\ a \in got' <=> a \in got
                       /\ Webhooks!InTable(table', a) <=> Webhooks!InTable(table, a)

\* A message reaches the receiver.
Arrival(j) ==
  LET m == Head(InHand(j)) IN
  /\ SameEvents
  /\ made' = made /\ lost' = lost /\ table' = table
  /\ got' = got \cup {m}
  /\ \/ jobs[j].at = "retry" /\ Webhooks!InTable(table, m)
     \/ jobs[j].at = "nodes" /\ jobs[j].events # <<>> /\ m = Head(jobs[j].events)

\* A row is deleted because its message has been received.
Departure ==
  /\ SameEvents
  /\ made' = made /\ lost' = lost /\ got' = got
  /\ \A a \in Alerts : /\ Webhooks!InTable(table', a) => Webhooks!InTable(table, a)
                       /\ Webhooks!InTable(table, a) => Webhooks!InTable(table', a) \/ a \in got

\* The alert of a node makes its next k changes.
Evaluation(j, n, k) ==
  /\ lost' = lost /\ got' = got /\ table' = table
  /\ made[n] \in Nat /\ k \in Nat /\ made'[n] = made[n] + k
  /\ \A o \in Nodes \ {n} : made'[o] = made[o]
  /\ jobs[j].events = <<>>
  /\ DOMAIN jobs'[j].events = 1 .. k
  /\ \A i \in 1 .. k : jobs'[j].events[i] = <<n, made[n] + i>>
  /\ \A i \in Jobs \ {j} : jobs'[i].events = jobs[i].events

\* The loop over the events goes on: the first is with the receiver or queued.
NextOne(j) ==
  LET a == Head(jobs[j].events) IN
  /\ made' = made /\ lost' = lost /\ got' = got
  /\ jobs[j].events # <<>>
  /\ a \in got \/ Webhooks!InTable(table', a)
  /\ \A b \in Alerts \ {a} : Webhooks!InTable(table', b) <=> Webhooks!InTable(table, b)
  /\ Webhooks!InTable(table, a) => Webhooks!InTable(table', a)
  /\ jobs'[j].events = Tail(jobs[j].events)
  /\ \A i \in Jobs \ {j} : jobs'[i].events = jobs[i].events

\* Cycles end by force.
Loss ==
  /\ got' = got /\ table' = table
  /\ \A i \in Jobs : \/ jobs'[i].events = jobs[i].events
                     \/ jobs'[i].events = <<>> /\ Held(i) \subseteq lost'
  /\ lost \subseteq lost'
  /\ \A n \in Nodes : /\ made'[n] \in Nat /\ made[n] <= made'[n]
                      /\ \A k \in Nat : made[n] < k /\ k <= made'[n] => <<n, k>> \in lost'

\* The event whose turn it is is one of those in hand.
LEMMA HeadHeld ==
  ASSUME TypeOK, NEW j \in Jobs
  PROVE  /\ Held(j) \subseteq Alerts
         /\ jobs[j].events = <<>> => Held(j) = {}
         /\ jobs[j].events # <<>> =>
              Head(jobs[j].events) \in Held(j) /\ Head(jobs[j].events) \in Alerts
<1>1. jobs[j].events \in Seq(Alerts)
  BY JobParts
<1>2. jobs[j].events # <<>> =>
        /\ 1 \in DOMAIN jobs[j].events
        /\ Head(jobs[j].events) = jobs[j].events[1]
        /\ Head(jobs[j].events) \in Alerts
  BY <1>1, InTail
<1>3. jobs[j].events = <<>> => DOMAIN jobs[j].events = {}
  OBVIOUS
<1> QED
  BY <1>2, <1>3, HeldTyped DEF Held

\* The retry of a message is a step of its kind.
LEMMA RetryKinds ==
  ASSUME TypeOK, JobsWellFormed, OneCycleAtATime, ReceivedIsKnown, NEW j \in Jobs
  PROVE  /\ RetrySucceeds(j) => Departure
         /\ RetryFails(j) => Quiet
<1>1. table \in [Messages -> Webhooks!Entry] /\ Alerts \subseteq Messages
  BY DEF TypeOK, Messages
<1>2. ASSUME RetrySucceeds(j)
      PROVE  Departure
  <2> DEFINE m == Head(jobs[j].todo).id
  <2>1. /\ jobs[j].todo # <<>> /\ jobs[j].events = <<>>
        /\ MovesTo(j, "retry", Tail(jobs[j].todo), <<>>, <<>>, "none")
    BY <1>2, TicketMoves DEF RetrySucceeds
  <2>2. m \in Messages /\ Head(InHand(j)) = m
    BY <1>2, <2>1, Hand DEF RetrySucceeds
  <2>3. /\ table' = Webhooks!DeleteWebhook(table, m)
        /\ made' = made /\ lost' = lost /\ got' = got
        /\ m \in got
    BY <1>2, <2>2 DEF RetrySucceeds, ReceivedIsKnown
  <2>4. SameEvents
    BY <2>1 DEF SameEvents, MovesTo
  <2> HIDE DEF m
  <2>5. ~Webhooks!InTable(table', m) /\ \A n \in Messages \ {m} : table'[n] = table[n]
    BY <1>1, <2>2, <2>3, DeleteEffect
  <2> QED
    BY <1>1, <2>3, <2>4, <2>5 DEF Departure, Webhooks!InTable
<1>3. ASSUME RetryFails(j)
      PROVE  Quiet
  <2> DEFINE m == Head(jobs[j].todo).id
             attempts == Head(jobs[j].todo).attempts
             maxRetries == MaxRetriesOf[jobs[j].cfg]
  <2>1. /\ jobs[j].todo # <<>> /\ jobs[j].events = <<>>
        /\ MovesTo(j, "retry", Tail(jobs[j].todo), <<>>, <<>>, "none")
    BY <1>3, TicketMoves DEF RetryFails
  <2>2. m \in Messages /\ Head(InHand(j)) = m /\ attempts \in Nat /\ maxRetries \in Nat
    BY <1>3, <2>1, Hand, JobParts, Constants DEF RetryFails
  <2>3. /\ table' = Webhooks!AfterFailedRetry(table, m, attempts, maxRetries)
        /\ made' = made /\ lost' = lost /\ got' = got
    BY <1>3, <2>2 DEF RetryFails
  <2>4. SameEvents
    BY <2>1 DEF SameEvents, MovesTo
  <2> HIDE DEF m, attempts, maxRetries
  <2>5. /\ Webhooks!InTable(table', m) <=> Webhooks!InTable(table, m)
        /\ \A n \in Messages \ {m} : table'[n] = table[n]
    BY <1>1, <2>2, <2>3, FailedRetryEffect
  <2> QED
    BY <1>1, <2>3, <2>4, <2>5 DEF Quiet, Webhooks!InTable
<1> QED
  BY <1>2, <1>3

\* So are the steps with the events of a node.
LEMMA EventKinds ==
  ASSUME TypeOK, JobsWellFormed, OneCycleAtATime, ReceivedIsKnown, NEW j \in Jobs
  PROVE  /\ EventSent(j) \/ EventFails(j) => NextOne(j)
         /\ Evaluate(j) => \E n \in Nodes, k \in Nat : Evaluation(j, n, k)
<1>1. table \in [Messages -> Webhooks!Entry] /\ Alerts \subseteq Messages
  BY DEF TypeOK, Messages
<1>2. ASSUME EventSent(j)
      PROVE  NextOne(j)
  <2>1. /\ jobs[j].events # <<>>
        /\ MovesTo(j, "nodes", <<>>, jobs[j].nodes, Tail(jobs[j].events), "none")
    BY <1>2, EventMoves DEF EventSent
  <2>2. Head(jobs[j].events) \in got
    BY <1>2 DEF EventSent, ReceivedIsKnown
  <2>3. made' = made /\ lost' = lost /\ got' = got /\ table' = table
    BY <1>2 DEF EventSent
  <2>4. \A b : Webhooks!InTable(table', b) <=> Webhooks!InTable(table, b)
    BY <2>3
  <2>5. /\ jobs'[j].events = Tail(jobs[j].events)
        /\ \A i \in Jobs \ {j} : jobs'[i].events = jobs[i].events
    BY <2>1 DEF MovesTo
  <2> QED
    BY <2>1, <2>2, <2>3, <2>4, <2>5, Zenon DEF NextOne
<1>3. ASSUME EventFails(j)
      PROVE  NextOne(j)
  <2> DEFINE a == Head(jobs[j].events)
  <2>1. /\ jobs[j].events # <<>> /\ jobs[j].at = "nodes"
        /\ MovesTo(j, "nodes", <<>>, jobs[j].nodes, Tail(jobs[j].events), "none")
    BY <1>3, EventMoves DEF EventFails
  <2>2. a \in Messages /\ Head(InHand(j)) = a
    BY <2>1, Hand
  <2>3. table' = Webhooks!EnqueueWebhook(table, a) /\ made' = made /\ lost' = lost /\ got' = got
    BY <1>3, <2>2 DEF EventFails
  <2> HIDE DEF a
  <2>4. Webhooks!InTable(table', a) /\ \A n \in Messages \ {a} : table'[n] = table[n]
    BY <1>1, <2>2, <2>3, EnqueueEffect
  <2>5. /\ Webhooks!InTable(table', a)
        /\ \A b \in Alerts \ {a} : Webhooks!InTable(table', b) <=> Webhooks!InTable(table, b)
    BY <1>1, <2>4 DEF Webhooks!InTable
  <2>6. /\ jobs'[j].events = Tail(jobs[j].events)
        /\ \A i \in Jobs \ {j} : jobs'[i].events = jobs[i].events
    BY <2>1 DEF MovesTo
  <2> QED
    BY <2>1, <2>3, <2>5, <2>6, Zenon DEF NextOne, a
<1>4. ASSUME Evaluate(j)
      PROVE  \E n \in Nodes, k \in Nat : Evaluation(j, n, k)
  <2>1. PICK k \in 0 .. EventsPerCall :
          /\ Commit(j, k)
          /\ jobs' = [jobs EXCEPT ![j].nodes = Tail(@),
                                  ![j].events = EventsOf(Head(jobs[j].nodes), k)]
          /\ table' = table /\ got' = got /\ lost' = lost
    BY <1>4, Zenon DEF Evaluate
  <2> DEFINE n == Head(jobs[j].nodes)
  <2>2. MovesTo(j, "nodes", <<>>, Tail(jobs[j].nodes), EventsOf(n, k), "none")
    BY <2>1, EvaluateMoves
  <2>3. jobs[j].events = <<>>
    BY <2>1, Zenon DEF Commit
  <2> HIDE DEF n
  <2>4. /\ n \in Nodes /\ made[n] \in Nat /\ k \in Nat
        /\ made'[n] = made[n] + k
        /\ \A o \in Nodes \ {n} : made'[o] = made[o]
        /\ DOMAIN EventsOf(n, k) = 1 .. k
        /\ \A i \in 1 .. k : EventsOf(n, k)[i] = <<n, made[n] + i>>
    <3>1. Commit(j, k) /\ n = Head(jobs[j].nodes)
      BY <2>1 DEF n
    <3>2. /\ n \in Nodes /\ made[n] \in 0 .. MaxEvents /\ k \in Nat
          /\ made'[n] = made[n] + k
          /\ \A o \in Nodes \ {n} : made'[o] = made[o]
      BY <3>1, CommitEffect
    <3>3. /\ DOMAIN EventsOf(n, k) = 1 .. k
          /\ \A i \in 1 .. k : EventsOf(n, k)[i] = <<n, made[n] + i>>
      BY DEF EventsOf
    <3> QED
      BY <3>2, <3>3, Constants
  <2>5. /\ jobs'[j].events = EventsOf(n, k)
        /\ \A i \in Jobs \ {j} : jobs'[i].events = jobs[i].events
    BY <2>2 DEF MovesTo
  <2>6. Evaluation(j, n, k)
    BY <2>1, <2>3, <2>4, <2>5, Zenon DEF Evaluation
  <2> QED
    BY <2>4, <2>6
<1> QED
  BY <1>2, <1>3, <1>4

\* An error or a crash loses what was held, and what was being made.
LEMMA LossKinds ==
  ASSUME TypeOK, JobsWellFormed
  PROVE  /\ \A j \in Jobs : FormatError(j) \/ StoreError(j) => Loss
         /\ Crash => Loss
<1>1. made \in [Nodes -> 0 .. MaxEvents]
  BY DEF TypeOK
<1>2. \A n \in Nodes : made[n] \in Nat
  BY <1>1, Constants
<1>3. ASSUME NEW j \in Jobs, FormatError(j) \/ StoreError(j)
      PROVE  Loss
  <2>1. MovesTo(j, "idle", <<>>, <<>>, <<>>, "none")
    BY <1>3, Ending DEF Ends
  <2>2. got' = got /\ table' = table
    BY <1>3 DEF FormatError, StoreError
  <2>3. CASE lost' = lost \cup Held(j) /\ UNCHANGED made
    BY <1>2, <2>1, <2>2, <2>3 DEF Loss, MovesTo
  <2>4. CASE \E k \in 1 .. EventsPerCall :
               /\ Commit(j, k)
               /\ lost' = lost \cup
                    {<<Head(jobs[j].nodes), made[Head(jobs[j].nodes)] + i>> : i \in 1 .. k}
    <3> DEFINE n == Head(jobs[j].nodes)
    <3>1. PICK k \in 1 .. EventsPerCall :
            Commit(j, k) /\ lost' = lost \cup {<<n, made[n] + i>> : i \in 1 .. k}
      BY <2>4
    <3>2. k \in 0 .. EventsPerCall
      BY Constants
    <3>3. Held(j) = {}
      BY <3>1, HeadHeld DEF Commit
    <3> HIDE DEF n
    <3>4. /\ n \in Nodes /\ made[n] \in Nat /\ k \in Nat
          /\ made'[n] = made[n] + k
          /\ \A o \in Nodes \ {n} : made'[o] = made[o]
      BY <3>1, <3>2, CommitEffect DEF n
    <3>5. ASSUME NEW o \in Nodes
          PROVE  /\ made'[o] \in Nat /\ made[o] <= made'[o]
                 /\ \A l \in Nat : made[o] < l /\ l <= made'[o] => <<o, l>> \in lost'
      <4>1. CASE o # n
        BY <1>2, <3>4, <4>1
      <4>2. CASE o = n
        <5>1. ASSUME NEW l \in Nat, made[n] < l, l <= made'[n]
              PROVE  <<n, l>> \in lost'
          <6>1. l - made[n] \in 1 .. k /\ made[n] + (l - made[n]) = l
            BY <3>4, <5>1
          <6> QED
            BY <3>1, <6>1
        <5> QED
          BY <3>4, <4>2, <5>1
      <4> QED
        BY <4>1, <4>2
    <3> QED
      BY <2>1, <2>2, <3>1, <3>3, <3>5 DEF Loss, MovesTo
  <2> QED
    BY <1>3, <2>3, <2>4, Zenon DEF FormatError, StoreError
<1>4. ASSUME Crash
      PROVE  Loss
  <2>1. \A i \in Jobs : jobs'[i].events = <<>>
    BY <1>4, CrashMoves
  <2>2. /\ lost' = lost \cup UNION {Held(i) : i \in Jobs}
        /\ got' = got /\ table' = table /\ made' = made
    BY <1>4 DEF Crash
  <2> QED
    BY <1>2, <2>1, <2>2 DEF Loss
<1> QED
  BY <1>3, <1>4

\* The steps of the dashboard and of the settings move no alert.
LEMMA OutsideQuiet ==
  ASSUME TypeOK, Outside
  PROVE  Quiet
<1>1. table \in [Messages -> Webhooks!Entry] /\ Alerts \subseteq Messages
      /\ Reports \subseteq Messages /\ Alerts \cap Reports = {}
  BY CycleAssumption DEF TypeOK, Messages
<1>2. SameEvents /\ made' = made /\ lost' = lost
  BY OutsideJobs DEF SameEvents
<1>3. CASE EditFile \/ ReloadConfig \/ UNCHANGED vars
  BY <1>2, <1>3 DEF EditFile, ReloadConfig, vars, Quiet
<1>4. CASE Tick
  <2>1. \A m \in Messages : table'[m].status = table[m].status
    BY <1>1, <1>4, OlderEffect DEF Tick
  <2> QED
    BY <1>1, <1>2, <1>4, <2>1 DEF Tick, Quiet, Webhooks!InTable
<1>5. ASSUME NEW r \in Reports, ReportPost(r) \/ ReportReceive(r) \/ ReportSent(r)
      PROVE  Quiet
  <2>1. table' = table /\ (got' = got \/ got' = got \cup {r})
    BY <1>5 DEF ReportPost, ReportReceive, ReportSent
  <2> QED
    BY <1>1, <1>2, <2>1 DEF Quiet
<1>6. ASSUME NEW r \in Reports, ReportFails(r)
      PROVE  Quiet
  <2>1. table' = Webhooks!EnqueueWebhook(table, r) /\ got' = got
    BY <1>6 DEF ReportFails
  <2>2. \A n \in Messages \ {r} : table'[n] = table[n]
    BY <1>1, <2>1, EnqueueEffect
  <2> QED
    BY <1>1, <1>2, <2>1, <2>2 DEF Quiet, Webhooks!InTable
<1> QED
  BY <1>3, <1>4, <1>5, <1>6 DEF Outside

\* A message arrives that is queued or in hand.
LEMMA ArrivalKind ==
  ASSUME TypeOK, JobsWellFormed, SnapshotIsCurrent, NEW j \in Jobs, Receive(j)
  PROVE  Arrival(j)
<1> DEFINE m == Head(InHand(j))
<1>1. MovesTo(j, jobs[j].at, jobs[j].todo, jobs[j].nodes, jobs[j].events, "received")
  BY ReceiveMoves
<1>2. SameEvents
  BY <1>1 DEF SameEvents, MovesTo
<1>3. made' = made /\ lost' = lost /\ table' = table /\ got' = got \cup {m}
  BY DEF Receive
<1>4. CASE jobs[j].at = "retry" /\ jobs[j].todo # <<>>
  <2>1. m = Head(jobs[j].todo).id
    BY <1>4, Hand
  <2>2. Head(jobs[j].todo) = jobs[j].todo[1] /\ 1 \in DOMAIN jobs[j].todo
    BY <1>4, InTail, JobParts
  <2>3. Webhooks!IsPending(table, m)
    BY <2>1, <2>2 DEF SnapshotIsCurrent
  <2> QED
    BY <1>2, <1>3, <1>4, <2>3 DEF Arrival, Webhooks!InTable, Webhooks!IsPending
<1>5. CASE jobs[j].at = "nodes" /\ jobs[j].events # <<>>
  <2>1. m = Head(jobs[j].events)
    BY <1>5, Hand
  <2> QED
    BY <1>2, <1>3, <1>5, <2>1 DEF Arrival
<1> QED
  BY <1>4, <1>5 DEF Receive, JobsWellFormed, WellFormed

\* The steps that neither bring an alert nor take one away.
LEMMA QuietKinds ==
  ASSUME TypeOK, JobsWellFormed, NEW j \in Jobs,
         Begin(j) \/ Post(j) \/ CollectAll(j) \/ Collected(j) \/ CleanUp(j)
  PROVE  Quiet
<1>1. made' = made /\ lost' = lost /\ got' = got /\ table' = table
  BY DEF Begin, Post, CollectAll, Collected, CleanUp
<1>2. SameEvents
  <2>1. CASE Begin(j)
    BY <2>1, BeginMoves DEF Begin, Running, JobsWellFormed, WellFormed, SameEvents, MovesTo
  <2>2. CASE Post(j)
    BY <2>2, PostMoves DEF SameEvents, MovesTo
  <2>3. CASE CollectAll(j)
    BY <2>3, CollectAllMoves DEF CollectAll, JobsWellFormed, WellFormed, SameEvents, MovesTo
  <2>4. CASE Collected(j)
    BY <2>4, CollectedMoves DEF SameEvents, MovesTo
  <2>5. CASE CleanUp(j)
    BY <2>5, ReleaseMoves DEF CleanUp, SameEvents, MovesTo
  <2> QED
    BY <2>1, <2>2, <2>3, <2>4, <2>5
<1> QED
  BY <1>1, <1>2 DEF Quiet

\* Every step is of one of the six kinds.
LEMMA AlertKinds ==
  ASSUME TypeOK, JobsWellFormed, OneCycleAtATime, SnapshotIsCurrent, ReceivedIsKnown,
         [Next]_vars
  PROVE  \/ Quiet \/ Departure \/ Loss
         \/ \E j \in Jobs : Arrival(j)
         \/ \E j \in Jobs : NextOne(j)
         \/ \E j \in Jobs, n \in Nodes, k \in Nat : Evaluation(j, n, k)
<1>1. ASSUME NEW j \in Jobs, Begin(j) \/ GoesOn(j) \/ Ends(j)
      PROVE  \/ Quiet \/ Departure \/ Loss \/ Arrival(j) \/ NextOne(j)
             \/ \E n \in Nodes, k \in Nat : Evaluation(j, n, k)
  BY <1>1, QuietKinds, ArrivalKind, RetryKinds, EventKinds, LossKinds DEF GoesOn, Ends
<1> QED
  BY <1>1, StepKinds, OutsideQuiet, LossKinds

-----------------------------------------------------------------------------
(* No alert is forgotten. *)

\* Every step keeps the noted pushes with the receiver.
LEMMA ReceivedStep ==
  ASSUME TypeOK, JobsWellFormed, OneCycleAtATime, ReceivedIsKnown, [Next]_vars
  PROVE  ReceivedIsKnown'
<1>1. ASSUME \A i \in Jobs : jobs'[i].push # "received"
      PROVE  ReceivedIsKnown'
  BY <1>1 DEF ReceivedIsKnown
<1>2. ASSUME NEW j \in Jobs, Begin(j)
      PROVE  ReceivedIsKnown'
  <2>1. \A i \in Jobs : jobs[i].push = "none"
    BY <1>2 DEF Begin, OneCycleAtATime, Running, JobsWellFormed, WellFormed
  <2> QED
    BY <1>1, <1>2, <2>1, BeginMoves DEF MovesTo
<1>3. ASSUME NEW j \in Jobs, Receive(j)
      PROVE  ReceivedIsKnown'
  <2>1. MovesTo(j, jobs[j].at, jobs[j].todo, jobs[j].nodes, jobs[j].events, "received")
    BY <1>3, ReceiveMoves
  <2>2. \/ jobs[j].at = "retry" /\ jobs[j].todo # <<>>
        \/ jobs[j].at = "nodes" /\ jobs[j].events # <<>>
    BY <1>3 DEF Receive, JobsWellFormed, WellFormed
  <2>3. /\ jobs[j].at = "retry" => Head(jobs[j].todo).id = Head(InHand(j))
        /\ jobs[j].at = "nodes" => Head(jobs[j].events) = Head(InHand(j))
    BY <2>2, Hand
  <2>4. \A i \in Jobs \ {j} : jobs'[i].push = "none"
    BY <2>1, <2>2, OthersIdle DEF MovesTo
  <2>5. got' = got \cup {Head(InHand(j))}
    BY <1>3 DEF Receive
  <2> QED
    BY <2>1, <2>3, <2>4, <2>5 DEF MovesTo, ReceivedIsKnown
<1>4. ASSUME NEW j \in Jobs, GoesOn(j), ~Receive(j)
      PROVE  ReceivedIsKnown'
  <2>1. jobs'[j].push # "received"
    <3>1. CASE Evaluate(j)
      <4>1. PICK k \in 0 .. EventsPerCall :
              /\ Commit(j, k)
              /\ jobs' = [jobs EXCEPT ![j].nodes = Tail(@),
                                      ![j].events = EventsOf(Head(jobs[j].nodes), k)]
        BY <3>1, Zenon DEF Evaluate
      <4> QED
        BY <4>1, EvaluateMoves DEF MovesTo
    <3>2. CASE Post(j)
      BY <3>2, PostMoves DEF MovesTo
    <3>3. CASE RetrySucceeds(j) \/ RetryFails(j)
      BY <3>3, TicketMoves DEF RetrySucceeds, RetryFails, MovesTo
    <3>4. CASE CollectAll(j)
      BY <3>4, CollectAllMoves DEF MovesTo
    <3>5. CASE Collected(j)
      BY <3>5, CollectedMoves DEF MovesTo
    <3>6. CASE EventSent(j) \/ EventFails(j)
      BY <3>6, EventMoves DEF EventSent, EventFails, MovesTo
    <3> QED
      BY <1>4, <3>1, <3>2, <3>3, <3>4, <3>5, <3>6 DEF GoesOn
  <2>2. \A i \in Jobs \ {j} : jobs'[i].push = "none"
    BY <1>4, GoingOn, OthersIdle
  <2> QED
    BY <1>1, <2>1, <2>2
<1>5. ASSUME NEW j \in Jobs, Ends(j)
      PROVE  ReceivedIsKnown'
  <2>1. jobs'[j].push = "none" /\ \A i \in Jobs \ {j} : jobs'[i].push = "none"
    BY <1>5, Ending, OthersIdle DEF MovesTo
  <2> QED
    BY <1>1, <2>1
<1>6. CASE Crash
  BY <1>1, <1>6, CrashMoves
<1>7. CASE Outside
  <2>1. jobs' = jobs /\ got \subseteq got'
    BY <1>7 DEF Outside, EditFile, ReloadConfig, Tick, vars, ReportPost, ReportReceive,
                ReportSent, ReportFails
  <2> QED
    BY <2>1 DEF ReceivedIsKnown
<1> QED
  BY <1>2, <1>3, <1>4, <1>5, <1>6, <1>7, StepKinds

\* Nothing happens to this alert unseen.
Settled(a) ==
  \/ a \in got \cup lost
  \/ Webhooks!InTable(table, a)
  \/ \E j \in Jobs : a \in Held(j)

CycleInv ==
  /\ TypeOK /\ JobsWellFormed
  /\ OneCycleAtATime
  /\ SnapshotIsCurrent
  /\ ReceivedIsKnown

\* What is held after the loop over the events has gone on.
LEMMA HeldAfterNext ==
  ASSUME TypeOK, NEW j \in Jobs, NextOne(j)
  PROVE  /\ Held(j)' \subseteq Held(j)
         /\ Held(j) \subseteq Held(j)' \cup {Head(jobs[j].events)}
         /\ \A i \in Jobs \ {j} : Held(i)' = Held(i)
<1>1. /\ jobs'[j].events = Tail(jobs[j].events) /\ jobs[j].events # <<>>
      /\ \A i \in Jobs \ {j} : jobs'[i].events = jobs[i].events
  BY DEF NextOne
<1>2. jobs[j].events \in Seq(Alerts)
  BY JobParts
<1>3. /\ \A i \in DOMAIN Tail(jobs[j].events) :
           /\ i + 1 \in DOMAIN jobs[j].events
           /\ Tail(jobs[j].events)[i] = jobs[j].events[i + 1]
      /\ \A i \in DOMAIN jobs[j].events :
           i # 1 => /\ i - 1 \in DOMAIN Tail(jobs[j].events)
                    /\ Tail(jobs[j].events)[i - 1] = jobs[j].events[i]
      /\ Head(jobs[j].events) = jobs[j].events[1]
  BY <1>1, <1>2, InTail
<1>4. ASSUME NEW a \in Held(j)'
      PROVE  a \in Held(j)
  <2>1. PICK i \in DOMAIN Tail(jobs[j].events) : a = Tail(jobs[j].events)[i]
    BY <1>1 DEF Held
  <2>2. i + 1 \in DOMAIN jobs[j].events /\ a = jobs[j].events[i + 1]
    BY <1>3, <2>1
  <2> QED
    BY <2>2, Zenon DEF Held
<1>5. ASSUME NEW a \in Held(j), a # Head(jobs[j].events)
      PROVE  a \in Held(j)'
  <2>1. PICK i \in DOMAIN jobs[j].events : a = jobs[j].events[i]
    BY DEF Held
  <2>2. i - 1 \in DOMAIN Tail(jobs[j].events) /\ a = Tail(jobs[j].events)[i - 1]
    BY <1>3, <1>5, <2>1
  <2>3. i - 1 \in DOMAIN jobs'[j].events /\ a = jobs'[j].events[i - 1]
    BY <1>1, <2>2
  <2> QED
    BY <2>3, Zenon DEF Held
<1>6. \A i \in Jobs \ {j} : Held(i)' = Held(i)
  BY <1>1 DEF Held
<1> QED
  BY <1>4, <1>5, <1>6

\* What is held after a call of evaluate.
LEMMA HeldAfterEvaluation ==
  ASSUME NEW j \in Jobs, NEW n \in Nodes, NEW k \in Nat, Evaluation(j, n, k)
  PROVE  /\ Held(j) = {}
         /\ Held(j)' = {<<n, made[n] + i>> : i \in 1 .. k}
         /\ \A i \in Jobs \ {j} : Held(i)' = Held(i)
<1>1. DOMAIN jobs[j].events = {}
  BY DEF Evaluation
<1>2. /\ DOMAIN jobs'[j].events = 1 .. k
      /\ \A i \in 1 .. k : jobs'[j].events[i] = <<n, made[n] + i>>
      /\ \A i \in Jobs \ {j} : jobs'[i].events = jobs[i].events
  BY DEF Evaluation
<1>3. Held(j) = {}
  BY <1>1 DEF Held
<1>4. Held(j)' = {<<n, made[n] + i>> : i \in 1 .. k}
  BY <1>2 DEF Held
<1>5. \A i \in Jobs \ {j} : Held(i)' = Held(i)
  BY <1>2 DEF Held
<1> QED
  BY <1>3, <1>4, <1>5

\* The alerts in hand are those in the coroutines' events.
LEMMA SameHeld ==
  ASSUME SameEvents
  PROVE  \A j \in Jobs : Held(j)' = Held(j)
BY DEF SameEvents, Held

\* An alert that is settled stays so.
LEMMA StaysSettled ==
  ASSUME CycleInv, [Next]_vars, NEW a \in Alerts, Settled(a)
  PROVE  Settled(a)'
<1> USE DEF CycleInv
<1>1. CASE Quiet
  BY <1>1, SameHeld DEF Quiet, Settled
<1>2. CASE Departure
  BY <1>2, SameHeld DEF Departure, Settled
<1>3. CASE Loss
  <2>1. \A j \in Jobs : a \in Held(j) => a \in Held(j)' \/ a \in lost'
    BY <1>3 DEF Loss, Held
  <2> QED
    BY <1>3, <2>1 DEF Loss, Settled
<1>4. ASSUME NEW j \in Jobs, Arrival(j)
      PROVE  Settled(a)'
  BY <1>4, SameHeld DEF Arrival, Settled
<1>5. ASSUME NEW j \in Jobs, NextOne(j)
      PROVE  Settled(a)'
  <2>1. a = Head(jobs[j].events) => a \in got' \/ Webhooks!InTable(table', a)
    BY <1>5 DEF NextOne
  <2>2. Webhooks!InTable(table, a) => Webhooks!InTable(table', a)
    BY <1>5, HeadHeld DEF NextOne
  <2>3. got' = got /\ lost' = lost
    BY <1>5 DEF NextOne
  <2>4. \A i \in Jobs : a \in Held(i) => a \in Held(i)' \/ a = Head(jobs[j].events)
    BY <1>5, HeldAfterNext
  <2> QED
    BY <2>1, <2>2, <2>3, <2>4 DEF Settled
<1>6. ASSUME NEW j \in Jobs, NEW n \in Nodes, NEW k \in Nat, Evaluation(j, n, k)
      PROVE  Settled(a)'
  <2>1. \A i \in Jobs : a \in Held(i) => a \in Held(i)'
    BY <1>6, HeldAfterEvaluation
  <2> QED
    BY <1>6, <2>1 DEF Evaluation, Settled
<1> QED
  BY <1>1, <1>2, <1>3, <1>4, <1>5, <1>6, AlertKinds

\* A change of an alert is settled from the step that makes it.
LEMMA MadeIsSettled ==
  ASSUME CycleInv, [Next]_vars, NEW n \in Nodes, NEW k \in Nat,
         made[n] < k, k <= made'[n]
  PROVE  Settled(<<n, k>>)'
<1> USE DEF CycleInv
<1>1. made[n] \in Nat
  BY Constants DEF TypeOK
<1>2. CASE made' = made
  BY <1>1, <1>2
<1>3. CASE Loss
  BY <1>3 DEF Loss, Settled
<1>4. ASSUME NEW j \in Jobs, NEW o \in Nodes, NEW l \in Nat, Evaluation(j, o, l)
      PROVE  Settled(<<n, k>>)'
  <2>1. o = n /\ k <= made[n] + l
    BY <1>1, <1>4 DEF Evaluation
  <2>2. k - made[n] \in 1 .. l /\ made[n] + (k - made[n]) = k
    BY <1>1, <2>1
  <2>3. <<n, k>> \in {<<o, made[o] + i>> : i \in 1 .. l}
    BY <2>1, <2>2
  <2>4. <<n, k>> \in Held(j)'
    BY <1>4, <2>3, HeldAfterEvaluation
  <2> QED
    BY <2>4 DEF Settled
<1> QED
  BY <1>2, <1>3, <1>4, AlertKinds DEF Quiet, Departure, Arrival, NextOne

\* The invariants that the proofs about the alerts rest on.
LEMMA CycleInvariant == Spec => []CycleInv
<1>1. Init => ReceivedIsKnown
  BY DEF Init, Idle, ReceivedIsKnown
<1>2. TypeOK /\ JobsWellFormed /\ OneCycleAtATime /\ ReceivedIsKnown /\ [Next]_vars
        => ReceivedIsKnown'
  BY ReceivedStep
<1>3. TypeOK /\ JobsWellFormed /\ OneCycleAtATime /\ SnapshotIsCurrent /\ ReceivedIsKnown
        => CycleInv
  BY DEF CycleInv
<1> QED
  BY <1>1, <1>2, <1>3, TypesKept, LockKeepsCyclesApart, SnapshotStaysCurrent, PTL DEF Spec

\* An alert whose change of state was committed is with the receiver, in the
\* table, in hand, or was in the hands of a cycle that ended by force.
THEOREM NoAlertIsForgotten == Spec => []NoAlertForgotten
<1>1. Init => NoAlertForgotten
  BY DEF Init, NoAlertForgotten
<1>2. CycleInv /\ NoAlertForgotten /\ [Next]_vars => NoAlertForgotten'
  <2> SUFFICES ASSUME CycleInv, NoAlertForgotten, [Next]_vars, NEW n \in Nodes,
                      NEW k \in 1 .. made'[n]
               PROVE  Settled(<<n, k>>)'
    BY DEF NoAlertForgotten, Settled
  <2>1. made[n] \in 0 .. MaxEvents
    BY DEF CycleInv, TypeOK
  <2>2. CASE k <= made[n]
    <3>1. k \in 1 .. made[n] /\ <<n, k>> \in Alerts
      BY <2>1, <2>2, Constants DEF Alerts
    <3>2. Settled(<<n, k>>)
      BY <3>1 DEF NoAlertForgotten, Settled
    <3> QED
      BY <3>1, <3>2, StaysSettled
  <2>3. CASE made[n] < k
    BY <2>3, MadeIsSettled
  <2> QED
    BY <2>1, <2>2, <2>3, Constants
<1> QED
  BY <1>1, <1>2, CycleInvariant, PTL DEF Spec

-----------------------------------------------------------------------------
(* The order in which the receiver learns of the alerts. *)

OrderInv == OnlyMadeAlerts /\ EventsInOrder /\ HeldIsLatest

\* The counters of the alerts only grow.
LEMMA MadeGrows ==
  ASSUME CycleInv, [Next]_vars, NEW n \in Nodes
  PROVE  made[n] \in 0 .. MaxEvents /\ made'[n] \in Nat /\ made[n] <= made'[n]
<1>1. made[n] \in 0 .. MaxEvents /\ made[n] \in Nat
  BY Constants DEF CycleInv, TypeOK
<1>2. CASE made' = made
  BY <1>1, <1>2
<1>3. CASE Loss
  BY <1>1, <1>3 DEF Loss
<1>4. ASSUME NEW j \in Jobs, NEW o \in Nodes, NEW l \in Nat, Evaluation(j, o, l)
      PROVE  made'[n] \in Nat /\ made[n] <= made'[n]
  BY <1>1, <1>4 DEF Evaluation
<1> QED
  BY <1>1, <1>2, <1>3, <1>4, AlertKinds DEF CycleInv, Quiet, Departure, Arrival, NextOne

\* Only evaluate brings up an alert that was nowhere before.
LEMMA NothingFromNowhere ==
  ASSUME CycleInv, [Next]_vars, NEW n \in Nodes, NEW k \in 1 .. MaxEvents, k > made'[n],
         <<n, k>> \notin got, ~Webhooks!InTable(table, <<n, k>>),
         \A i \in Jobs : <<n, k>> \notin Held(i)
  PROVE  /\ <<n, k>> \notin got' /\ ~Webhooks!InTable(table', <<n, k>>)
         /\ \A i \in Jobs : <<n, k>> \notin Held(i)'
<1> DEFINE a == <<n, k>>
<1> USE DEF CycleInv
<1>1. a \in Alerts /\ k \in Nat
  BY Constants DEF Alerts
<1>2. a \notin got /\ ~Webhooks!InTable(table, a) /\ \A i \in Jobs : a \notin Held(i)
  OBVIOUS
<1> HIDE DEF a
<1>3. CASE Quiet
  BY <1>1, <1>2, <1>3, SameHeld DEF Quiet, a
<1>4. CASE Departure
  BY <1>1, <1>2, <1>4, SameHeld DEF Departure, a
<1>5. CASE Loss
  <2>1. \A i \in Jobs : a \notin Held(i)'
    BY <1>2, <1>5 DEF Loss, Held
  <2> QED
    BY <1>2, <1>5, <2>1 DEF Loss, a
<1>6. ASSUME NEW j \in Jobs, Arrival(j)
      PROVE  /\ a \notin got' /\ ~Webhooks!InTable(table', a)
             /\ \A i \in Jobs : a \notin Held(i)'
  <2>1. a # Head(InHand(j))
    BY <1>2, <1>6, HeadHeld DEF Arrival
  <2>2. got' = got \cup {Head(InHand(j))} /\ table' = table /\ SameEvents
    BY <1>6 DEF Arrival
  <2> QED
    BY <1>2, <2>1, <2>2, SameHeld
<1>7. ASSUME NEW j \in Jobs, NextOne(j)
      PROVE  /\ a \notin got' /\ ~Webhooks!InTable(table', a)
             /\ \A i \in Jobs : a \notin Held(i)'
  <2>1. a # Head(jobs[j].events)
    BY <1>2, <1>7, HeadHeld DEF NextOne
  <2>2. ~Webhooks!InTable(table', a) /\ got' = got
    BY <1>1, <1>2, <1>7, <2>1 DEF NextOne
  <2> QED
    BY <1>2, <1>7, <2>2, HeldAfterNext
<1>8. ASSUME NEW j \in Jobs, NEW o \in Nodes, NEW l \in Nat, Evaluation(j, o, l)
      PROVE  /\ a \notin got' /\ ~Webhooks!InTable(table', a)
             /\ \A i \in Jobs : a \notin Held(i)'
  <2>1. got' = got /\ table' = table
    BY <1>8 DEF Evaluation
  <2>2. a \notin {<<o, made[o] + i>> : i \in 1 .. l}
    <3> SUFFICES ASSUME NEW i \in 1 .. l, a = <<o, made[o] + i>>
                 PROVE  FALSE
      OBVIOUS
    <3>1. o = n /\ k = made[o] + i
      BY DEF a
    <3>2. made[n] \in Nat /\ made'[n] = made[n] + l
      BY <1>8, <3>1 DEF Evaluation
    <3> QED
      BY <1>1, <3>1, <3>2
  <2> QED
    BY <1>2, <1>8, <2>1, <2>2, HeldAfterEvaluation
<1> QED
  BY <1>3, <1>4, <1>5, <1>6, <1>7, <1>8, AlertKinds DEF a

\* Nothing is held, queued or received before it is made.
LEMMA OnlyMadeStep ==
  ASSUME CycleInv, OnlyMadeAlerts, [Next]_vars
  PROVE  OnlyMadeAlerts'
<1> SUFFICES ASSUME NEW n \in Nodes, NEW k \in 1 .. MaxEvents, k > made'[n]
             PROVE  /\ <<n, k>> \notin got' /\ ~Webhooks!InTable(table', <<n, k>>)
                    /\ \A i \in Jobs : <<n, k>> \notin Held(i)'
  BY DEF OnlyMadeAlerts
<1>1. k > made[n]
  BY MadeGrows, Constants
<1> QED
  BY <1>1, NothingFromNowhere DEF OnlyMadeAlerts

\* The events of one coroutine stand in their order.
Ordered(events) ==
  \A i, k \in DOMAIN events :
    i < k /\ events[i][1] = events[k][1] => events[i][2] < events[k][2]

\* The events in hand stay in their order.
LEMMA OrderedStep ==
  ASSUME CycleInv, EventsInOrder, [Next]_vars
  PROVE  EventsInOrder'
<1> USE DEF CycleInv
<1>1. \A j \in Jobs : Ordered(jobs[j].events)
  BY DEF EventsInOrder, Ordered
<1>2. ASSUME \A j \in Jobs : Ordered(jobs'[j].events)
      PROVE  EventsInOrder'
  BY <1>2 DEF EventsInOrder, Ordered
<1>3. Ordered(<<>>)
  BY DEF Ordered
<1>4. CASE SameEvents
  BY <1>1, <1>2, <1>4 DEF SameEvents
<1>5. CASE Loss
  BY <1>1, <1>2, <1>3, <1>5 DEF Loss
<1>6. ASSUME NEW j \in Jobs, NextOne(j)
      PROVE  EventsInOrder'
  <2>1. /\ jobs'[j].events = Tail(jobs[j].events) /\ jobs[j].events # <<>>
        /\ \A i \in Jobs \ {j} : jobs'[i].events = jobs[i].events
    BY <1>6 DEF NextOne
  <2>2. jobs[j].events \in Seq(Alerts)
    BY JobParts
  <2>3. \A i \in DOMAIN Tail(jobs[j].events) :
          /\ i + 1 \in DOMAIN jobs[j].events /\ i \in Nat
          /\ Tail(jobs[j].events)[i] = jobs[j].events[i + 1]
    BY <2>1, <2>2, InTail
  <2>4. Ordered(Tail(jobs[j].events))
    BY <1>1, <2>3 DEF Ordered
  <2> QED
    BY <1>1, <1>2, <2>1, <2>4
<1>7. ASSUME NEW j \in Jobs, NEW n \in Nodes, NEW k \in Nat, Evaluation(j, n, k)
      PROVE  EventsInOrder'
  <2>1. /\ DOMAIN jobs'[j].events = 1 .. k /\ made[n] \in Nat
        /\ \A i \in 1 .. k : jobs'[j].events[i] = <<n, made[n] + i>>
        /\ \A i \in Jobs \ {j} : jobs'[i].events = jobs[i].events
    BY <1>7 DEF Evaluation
  <2>2. Ordered(jobs'[j].events)
    BY <2>1 DEF Ordered
  <2> QED
    BY <1>1, <1>2, <2>1, <2>2
<1> QED
  BY <1>4, <1>5, <1>6, <1>7, AlertKinds DEF Quiet, Departure, Arrival

\* No alert arrives while an earlier one of its node is in hand.
LEMMA LatestStep ==
  ASSUME CycleInv, OrderInv, [Next]_vars
  PROVE  HeldIsLatest'
<1> USE DEF CycleInv
<1> SUFFICES ASSUME NEW j \in Jobs, NEW n \in Nodes, NEW k \in 1 .. MaxEvents,
                    NEW l \in 1 .. MaxEvents, <<n, k>> \in Held(j)', k < l
             PROVE  <<n, l>> \notin got'
  BY DEF HeldIsLatest
<1> DEFINE a == <<n, k>>
           b == <<n, l>>
<1>1. a \in Alerts /\ b \in Alerts /\ k \in Nat /\ l \in Nat
  BY Constants DEF Alerts
<1>2. a \in Held(j) => b \notin got
  BY DEF OrderInv, HeldIsLatest
<1>3. a \in Held(j)'
  OBVIOUS
<1> HIDE DEF a, b
<1>4. CASE Quiet
  BY <1>1, <1>2, <1>3, <1>4, SameHeld DEF Quiet, b
<1>5. CASE Departure
  BY <1>2, <1>3, <1>5, SameHeld DEF Departure, b
<1>6. CASE Loss
  <2>1. a \in Held(j)
    BY <1>3, <1>6 DEF Loss, Held
  <2> QED
    BY <1>2, <1>6, <2>1 DEF Loss, b
<1>7. ASSUME NEW i \in Jobs, Arrival(i)
      PROVE  b \notin got'
  <2>1. a \in Held(j) /\ jobs[j].events # <<>>
    BY <1>3, <1>7, SameHeld, HeadHeld DEF Arrival
  <2>2. jobs[j].at = "nodes"
    BY <2>1 DEF JobsWellFormed, WellFormed
  <2>3. i = j
    BY <1>7, <2>1, OthersIdle DEF Arrival
  <2>4. got' = got \cup {Head(jobs[j].events)}
    BY <1>7, <2>2, <2>3 DEF Arrival
  <2>5. b # Head(jobs[j].events)
    <3>1. PICK p \in DOMAIN jobs[j].events : a = jobs[j].events[p]
      BY <2>1 DEF Held
    <3>2. jobs[j].events \in Seq(Alerts)
      BY JobParts
    <3>3. /\ 1 \in DOMAIN jobs[j].events /\ Head(jobs[j].events) = jobs[j].events[1]
          /\ p = 1 \/ 1 < p
      BY <2>1, <3>2
    <3>4. Ordered(jobs[j].events)
      BY DEF OrderInv, EventsInOrder, Ordered
    <3>5. a[1] = n /\ a[2] = k /\ b[1] = n /\ b[2] = l
      BY DEF a, b
    <3> QED
      BY <1>1, <3>1, <3>3, <3>4, <3>5 DEF Ordered
  <2> QED
    BY <1>2, <2>1, <2>4, <2>5
<1>8. ASSUME NEW i \in Jobs, NextOne(i)
      PROVE  b \notin got'
  <2>1. a \in Held(j)
    BY <1>3, <1>8, HeldAfterNext
  <2> QED
    BY <1>2, <1>8, <2>1 DEF NextOne
<1>9. ASSUME NEW i \in Jobs, NEW o \in Nodes, NEW m \in Nat, Evaluation(i, o, m)
      PROVE  b \notin got'
  <2>1. got' = got
    BY <1>9 DEF Evaluation
  <2>2. CASE a \in Held(j)
    BY <1>2, <2>1, <2>2
  <2>3. CASE a \notin Held(j)
    <3>1. a \in {<<o, made[o] + p>> : p \in 1 .. m}
      BY <1>3, <1>9, <2>3, HeldAfterEvaluation
    <3>2. PICK p \in 1 .. m : n = o /\ k = made[o] + p
      BY <3>1 DEF a
    <3>3. made[n] \in Nat
      BY Constants DEF TypeOK
    <3>4. l > made[n]
      BY <1>1, <3>2, <3>3
    <3> QED
      BY <2>1, <3>4 DEF OrderInv, OnlyMadeAlerts, b
  <2> QED
    BY <2>2, <2>3
<1> QED
  BY <1>4, <1>5, <1>6, <1>7, <1>8, <1>9, AlertKinds DEF b

\* The invariants that the order of the alerts rests on.
LEMMA OrderInvariant == Spec => []OrderInv
<1>1. Init => OrderInv
  <2> SUFFICES ASSUME Init PROVE OrderInv
    OBVIOUS
  <2>1. \A j \in Jobs : jobs[j].events = <<>>
    BY DEF Init, Idle
  <2>2. \A j \in Jobs : Held(j) = {}
    BY <2>1 DEF Held
  <2>3. got = {} /\ \A m \in Messages : ~Webhooks!InTable(table, m)
    BY DEF Init, Webhooks!InTable, Webhooks!NoEntry
  <2>4. OnlyMadeAlerts
    BY <2>2, <2>3 DEF OnlyMadeAlerts, Messages, Alerts
  <2> QED
    BY <2>1, <2>2, <2>4 DEF OrderInv, EventsInOrder, HeldIsLatest
<1>2. CycleInv /\ OrderInv /\ [Next]_vars => OrderInv'
  BY OnlyMadeStep, OrderedStep, LatestStep DEF OrderInv
<1> QED
  BY <1>1, <1>2, CycleInvariant, PTL DEF Spec

\* The receiver learns of a node's changes in their order, save those whose
\* push failed and those a cycle lost.
THEOREM OnlyRetriesOvertake == Spec => []OvertakenOnlyByRetry
<1>1. CycleInv /\ OrderInv /\ NoAlertForgotten => OvertakenOnlyByRetry
  <2> SUFFICES ASSUME CycleInv, OrderInv, NoAlertForgotten, NEW n \in Nodes,
                      NEW k \in 1 .. MaxEvents, NEW l \in 1 .. MaxEvents,
                      k < l, <<n, l>> \in got, <<n, k>> \notin got
               PROVE  Webhooks!InTable(table, <<n, k>>) \/ <<n, k>> \in lost
    BY DEF OvertakenOnlyByRetry
  <2>1. made[n] \in Nat /\ k \in Nat /\ l \in Nat /\ k >= 1
    BY Constants DEF CycleInv, TypeOK
  <2>2. ~(l > made[n])
    BY DEF OrderInv, OnlyMadeAlerts
  <2>3. k \in 1 .. made[n]
    BY <2>1, <2>2
  <2>4. \A j \in Jobs : <<n, k>> \notin Held(j)
    BY DEF OrderInv, HeldIsLatest
  <2> QED
    BY <2>3, <2>4 DEF NoAlertForgotten
<1> QED
  BY <1>1, CycleInvariant, OrderInvariant, NoAlertIsForgotten, PTL

-----------------------------------------------------------------------------
(* The whole cycle keeps the promise of the outbox.                          *)

\* The refinement mapping: what a message is owed by the state of its row, and
\* whether the receiver has it.
DebtOf(status) ==
  CASE status = "absent"  -> "settled"
    [] status = "pending" -> "owed"
    [] status = "dead"    -> "dead"

Debt == [m \in Messages |-> DebtOf(table[m].status)]

Known == [m \in Messages |-> m \in got]

CycleOutbox == INSTANCE Outbox WITH Ids <- Messages, debt <- Debt, got <- Known

\* No step queues an alert that stays in hand, and none takes a queued one up.
LEMMA NotQueuedStep ==
  ASSUME CycleInv, CycleInv', OnlyMadeAlerts, EventsInOrder, HeldIsNotQueued, [Next]_vars
  PROVE  HeldIsNotQueued'
<1> SUFFICES ASSUME NEW i \in Jobs, NEW a \in Held(i)'
             PROVE  ~Webhooks!InTable(table', a)
  BY DEF HeldIsNotQueued
<1> USE DEF CycleInv
<1>1. a \in Held(i) => a \in Alerts /\ ~Webhooks!InTable(table, a)
  BY HeadHeld DEF HeldIsNotQueued
<1>2. CASE Quiet
  BY <1>1, <1>2, SameHeld DEF Quiet
<1>3. CASE Departure
  BY <1>1, <1>3, SameHeld DEF Departure
<1>4. CASE Loss
  <2>1. a \in Held(i)
    BY <1>4 DEF Loss, Held
  <2> QED
    BY <1>1, <1>4, <2>1 DEF Loss
<1>5. ASSUME NEW j \in Jobs, Arrival(j)
      PROVE  ~Webhooks!InTable(table', a)
  BY <1>1, <1>5, SameHeld DEF Arrival
<1>6. ASSUME NEW j \in Jobs, NextOne(j)
      PROVE  ~Webhooks!InTable(table', a)
  <2>1. a \in Held(i)
    BY <1>6, HeldAfterNext
  <2>2. a # Head(jobs[j].events)
    <3>1. jobs[j].events # <<>> /\ jobs'[j].events = Tail(jobs[j].events)
      BY <1>6 DEF NextOne
    <3>2. jobs[j].at = "nodes"
      BY <3>1 DEF JobsWellFormed, WellFormed
    <3>3. i = j
      BY <2>1, <3>2, OthersIdle, HeadHeld
    <3>4. PICK p \in DOMAIN Tail(jobs[j].events) : a = Tail(jobs[j].events)[p]
      BY <3>1, <3>3 DEF Held
    <3>5. jobs[j].events \in Seq(Alerts)
      BY JobParts
    <3>6. /\ p \in Nat /\ p + 1 # 1 /\ p + 1 \in DOMAIN jobs[j].events
          /\ a = jobs[j].events[p + 1]
          /\ 1 \in DOMAIN jobs[j].events /\ Head(jobs[j].events) = jobs[j].events[1]
      BY <3>1, <3>4, <3>5, InTail
    <3>7. 1 < p + 1
      BY <3>6
    <3>8. a \in Alerts
      BY <1>1, <2>1
    <3>9. a[2] \in 1 .. MaxEvents
      BY <3>8 DEF Alerts
    <3> QED
      BY <3>6, <3>7, <3>9, Constants DEF EventsInOrder
  <2>3. Webhooks!InTable(table', a) <=> Webhooks!InTable(table, a)
    BY <1>1, <1>6, <2>1, <2>2 DEF NextOne
  <2> QED
    BY <1>1, <2>1, <2>3
<1>7. ASSUME NEW j \in Jobs, NEW n \in Nodes, NEW k \in Nat, Evaluation(j, n, k)
      PROVE  ~Webhooks!InTable(table', a)
  <2>1. table' = table
    BY <1>7 DEF Evaluation
  <2>2. CASE a \in Held(i)
    BY <1>1, <2>1, <2>2
  <2>3. CASE a \notin Held(i)
    <3>1. a \in {<<n, made[n] + l>> : l \in 1 .. k}
      BY <1>7, <2>3, HeldAfterEvaluation
    <3>2. PICK l \in 1 .. k : a = <<n, made[n] + l>>
      BY <3>1
    <3>3. made[n] \in Nat /\ made'[n] = made[n] + k /\ made'[n] \in 0 .. MaxEvents
      BY <1>7 DEF Evaluation, TypeOK
    <3>4. made[n] + l \in 1 .. MaxEvents /\ made[n] + l > made[n]
      BY <3>2, <3>3, Constants
    <3> QED
      BY <2>1, <3>2, <3>4 DEF OnlyMadeAlerts
  <2> QED
    BY <2>2, <2>3
<1> QED
  BY <1>2, <1>3, <1>4, <1>5, <1>6, <1>7, AlertKinds

\* What a message is owed, by the state of its row.
LEMMA DebtOfRow ==
  ASSUME TypeOK, NEW m \in Messages
  PROVE  /\ Debt[m] = "settled" <=> ~Webhooks!InTable(table, m)
         /\ Debt[m] = "owed" <=> Webhooks!IsPending(table, m)
         /\ Debt[m] = "dead" <=> table[m].status = "dead"
<1>1. table[m].status \in {"absent", "pending", "dead"}
  BY DEF TypeOK, Webhooks!Entry
<1> QED
  BY <1>1 DEF Debt, DebtOf, Webhooks!InTable, Webhooks!IsPending

\* A step that leaves every status alone leaves every debt alone.
LEMMA SameDebt ==
  ASSUME \A m \in Messages : table'[m].status = table[m].status
  PROVE  Debt' = Debt
BY DEF Debt

\* A step that changes the row of one message changes its debt only.
LEMMA OneDebt ==
  ASSUME NEW m \in Messages, \A n \in Messages \ {m} : table'[n] = table[n]
  PROVE  Debt' = [Debt EXCEPT ![m] = DebtOf(table'[m].status)]
BY DEF Debt

\* The receiver knows one message more.
LEMMA OneKnown ==
  ASSUME NEW m \in Messages, got' = got \cup {m}
  PROVE  Known' = [Known EXCEPT ![m] = TRUE]
<1>1. Known \in [Messages -> BOOLEAN] /\ Known' \in [Messages -> BOOLEAN]
  BY DEF Known
<1>2. \A n \in Messages : Known[n] <=> n \in got
  BY DEF Known
<1>3. \A n \in Messages : Known'[n] <=> n \in got'
  BY DEF Known
<1>4. \A n \in Messages : Known'[n] = [Known EXCEPT ![m] = TRUE][n]
  BY <1>1, <1>2, <1>3
<1> QED
  BY <1>1, <1>4

\* What goes on between the retries and outside them is nothing to the outbox.
LEMMA NothingOwed ==
  ASSUME UNCHANGED <<table, got>>
  PROVE  UNCHANGED CycleOutbox!outboxVars
BY DEF CycleOutbox!outboxVars, Debt, Known

\* A push that is received is that of a message not given up: of a row that is
\* pending or of an alert in hand.
LEMMA ReceiveDelivers ==
  ASSUME CycleInv, HeldIsNotQueued, NEW j \in Jobs, Receive(j)
  PROVE  \E m \in Messages : CycleOutbox!Receive(m)
<1> USE DEF CycleInv
<1> DEFINE m == Head(InHand(j))
<1>1. table' = table /\ got' = got \cup {m}
  BY DEF Receive
<1>2. m \in Messages /\ table[m].status # "dead"
  <2>1. CASE jobs[j].at = "retry" /\ jobs[j].todo # <<>>
    <3>1. m = Head(jobs[j].todo).id /\ m \in Messages
      BY <2>1, Hand
    <3>2. Head(jobs[j].todo) = jobs[j].todo[1] /\ 1 \in DOMAIN jobs[j].todo
      BY <2>1, InTail, JobParts
    <3>3. Webhooks!IsPending(table, m)
      BY <3>1, <3>2 DEF SnapshotIsCurrent
    <3> QED
      BY <3>1, <3>3 DEF Webhooks!IsPending
  <2>2. CASE jobs[j].at = "nodes" /\ jobs[j].events # <<>>
    <3>1. m = Head(jobs[j].events) /\ m \in Messages
      BY <2>2, Hand
    <3>2. ~Webhooks!InTable(table, m)
      BY <2>2, <3>1, HeadHeld DEF HeldIsNotQueued
    <3> QED
      BY <3>1, <3>2 DEF Webhooks!InTable
  <2> QED
    BY <2>1, <2>2 DEF Receive, JobsWellFormed, WellFormed
<1> HIDE DEF m
<1>3. Debt' = Debt /\ Debt[m] # "dead"
  BY <1>1, <1>2, SameDebt, DebtOfRow
<1> QED
  BY <1>1, <1>2, <1>3, OneKnown DEF CycleOutbox!Receive

\* A retry that succeeds settles what was owed.
LEMMA RetrySettles ==
  ASSUME CycleInv, NEW j \in Jobs, RetrySucceeds(j)
  PROVE  \E m \in Messages : CycleOutbox!Settle(m)
<1> USE DEF CycleInv
<1> DEFINE m == Head(jobs[j].todo).id
<1>1. jobs[j].todo # <<>> /\ jobs[j].at = "retry"
  BY TicketMoves DEF RetrySucceeds
<1>2. m \in Messages /\ Head(InHand(j)) = m
  BY <1>1, Hand
<1>3. table' = Webhooks!DeleteWebhook(table, m) /\ got' = got /\ m \in got
  BY <1>1, <1>2 DEF RetrySucceeds, ReceivedIsKnown
<1>4. Webhooks!IsPending(table, m)
  <2>1. Head(jobs[j].todo) = jobs[j].todo[1] /\ 1 \in DOMAIN jobs[j].todo
    BY <1>1, InTail, JobParts
  <2> QED
    BY <2>1 DEF SnapshotIsCurrent
<1>5. table \in [Messages -> Webhooks!Entry]
  BY DEF TypeOK
<1> HIDE DEF m
<1>6. table'[m].status = "absent" /\ \A n \in Messages \ {m} : table'[n] = table[n]
  BY <1>2, <1>3, <1>5, DeleteEffect DEF Webhooks!InTable
<1>7. Debt' = [Debt EXCEPT ![m] = "settled"]
  BY <1>2, <1>6, OneDebt DEF DebtOf
<1>8. Debt[m] = "owed"
  BY <1>2, <1>4, DebtOfRow
<1>9. Known[m] /\ Known' = Known
  BY <1>2, <1>3 DEF Known
<1> QED
  BY <1>2, <1>7, <1>8, <1>9 DEF CycleOutbox!Settle

\* One that fails gives the message up, or leaves it owed.
LEMMA RetryGivesUp ==
  ASSUME CycleInv, NEW j \in Jobs, RetryFails(j)
  PROVE  \/ \E m \in Messages : CycleOutbox!GiveUp(m)
         \/ UNCHANGED CycleOutbox!outboxVars
<1> USE DEF CycleInv
<1> DEFINE m == Head(jobs[j].todo).id
           attempts == Head(jobs[j].todo).attempts
           maxRetries == MaxRetriesOf[jobs[j].cfg]
<1>1. jobs[j].todo # <<>> /\ jobs[j].at = "retry"
  BY TicketMoves DEF RetryFails
<1>2. m \in Messages /\ Head(InHand(j)) = m /\ attempts \in Nat /\ maxRetries \in Nat
  BY <1>1, Hand, JobParts, Constants
<1>3. table' = Webhooks!AfterFailedRetry(table, m, attempts, maxRetries) /\ got' = got
  BY <1>2 DEF RetryFails
<1>4. Webhooks!IsPending(table, m)
  <2>1. Head(jobs[j].todo) = jobs[j].todo[1] /\ 1 \in DOMAIN jobs[j].todo
    BY <1>1, InTail, JobParts
  <2> QED
    BY <2>1 DEF SnapshotIsCurrent
<1>5. table \in [Messages -> Webhooks!Entry]
  BY DEF TypeOK
<1> HIDE DEF m, attempts, maxRetries
<1>6. /\ table'[m].status = table[m].status \/ table'[m].status = "dead"
      /\ \A n \in Messages \ {m} : table'[n] = table[n]
  BY <1>2, <1>3, <1>5, FailedRetryEffect
<1>7. Known' = Known
  BY <1>3 DEF Known
<1>8. CASE table'[m].status = table[m].status
  <2>1. Debt' = Debt
    BY <1>6, <1>8, SameDebt
  <2> QED
    BY <1>7, <2>1 DEF CycleOutbox!outboxVars
<1>9. CASE table'[m].status = "dead"
  <2>1. Debt' = [Debt EXCEPT ![m] = "dead"]
    BY <1>2, <1>6, <1>9, OneDebt DEF DebtOf
  <2>2. Debt[m] = "owed"
    BY <1>2, <1>4, DebtOfRow
  <2> QED
    BY <1>2, <1>7, <2>1, <2>2 DEF CycleOutbox!GiveUp
<1> QED
  BY <1>6, <1>8, <1>9

\* A message that was not owed is accepted when it is enqueued.
LEMMA EnqueueAccepts ==
  ASSUME TypeOK, NEW m \in Messages, ~Webhooks!InTable(table, m),
         table' = Webhooks!EnqueueWebhook(table, m), got' = got
  PROVE  CycleOutbox!Accept(m)
<1>1. table'[m].status = "pending" /\ \A n \in Messages \ {m} : table'[n] = table[n]
  BY EnqueueEffect DEF TypeOK
<1>2. Debt' = [Debt EXCEPT ![m] = "owed"]
  BY <1>1, OneDebt DEF DebtOf
<1>3. Debt[m] = "settled"
  BY DebtOfRow
<1>4. Known' = [Known EXCEPT ![m] = Known[m]] /\ Known[m] \in BOOLEAN
  BY DEF Known
<1> QED
  BY <1>2, <1>3, <1>4 DEF CycleOutbox!Accept

\* So is the alert whose first push failed.
LEMMA EventAccepted ==
  ASSUME CycleInv, HeldIsNotQueued, NEW j \in Jobs, EventFails(j)
  PROVE  \E m \in Messages : CycleOutbox!Accept(m)
<1> USE DEF CycleInv
<1> DEFINE m == Head(jobs[j].events)
<1>1. jobs[j].events # <<>> /\ jobs[j].at = "nodes"
  BY EventMoves DEF EventFails
<1>2. m \in Messages /\ Head(InHand(j)) = m /\ m \in Held(j)
  BY <1>1, Hand, HeadHeld
<1>3. table' = Webhooks!EnqueueWebhook(table, m) /\ got' = got
  BY <1>2 DEF EventFails
<1>4. ~Webhooks!InTable(table, m)
  BY <1>2 DEF HeldIsNotQueued
<1> QED
  BY <1>2, <1>3, <1>4, EnqueueAccepts

\* The steps outside the cycle: the passing of time, and the reports.
LEMMA OutsideOutbox ==
  ASSUME CycleInv, ReportsQueuedOnce, Outside
  PROVE  \/ CycleOutbox!Next
         \/ UNCHANGED CycleOutbox!outboxVars
<1> USE DEF CycleInv
<1>1. Reports \subseteq Messages /\ table \in [Messages -> Webhooks!Entry]
  BY DEF Messages, TypeOK
<1>2. CASE EditFile \/ ReloadConfig \/ UNCHANGED vars
  BY <1>2, NothingOwed DEF EditFile, ReloadConfig, vars
<1>3. CASE Tick
  <2>1. \A m \in Messages : table'[m].status = table[m].status
    BY <1>1, <1>3, OlderEffect DEF Tick
  <2>2. Debt' = Debt
    BY <2>1, SameDebt
  <2>3. Known' = Known
    BY <1>3 DEF Tick, Known
  <2> QED
    BY <2>2, <2>3 DEF CycleOutbox!outboxVars
<1>4. ASSUME NEW r \in Reports, ReportPost(r) \/ ReportSent(r)
      PROVE  UNCHANGED CycleOutbox!outboxVars
  BY <1>4, NothingOwed DEF ReportPost, ReportSent
<1>5. ASSUME NEW r \in Reports, ReportReceive(r)
      PROVE  CycleOutbox!Receive(r)
  <2>1. table' = table /\ got' = got \cup {r} /\ ~Webhooks!InTable(table, r)
    BY <1>5 DEF ReportReceive, ReportsQueuedOnce
  <2>2. Debt' = Debt /\ Debt[r] # "dead"
    BY <1>1, <2>1, SameDebt, DebtOfRow
  <2> QED
    BY <1>1, <2>1, <2>2, OneKnown DEF CycleOutbox!Receive
<1>6. ASSUME NEW r \in Reports, ReportFails(r)
      PROVE  CycleOutbox!Accept(r)
  <2>1. table' = Webhooks!EnqueueWebhook(table, r) /\ got' = got /\ ~Webhooks!InTable(table, r)
    BY <1>6 DEF ReportFails, ReportsQueuedOnce
  <2> QED
    BY <1>1, <2>1, EnqueueAccepts
<1> QED
  BY <1>1, <1>2, <1>3, <1>4, <1>5, <1>6 DEF Outside, CycleOutbox!Next

\* Every step of the process is a step of the outbox or changes nothing of it.
LEMMA OutboxStep ==
  ASSUME CycleInv, SnapshotInv, HeldIsNotQueued, [Next]_vars
  PROVE  [CycleOutbox!Next]_CycleOutbox!outboxVars
<1>1. ASSUME NEW j \in Jobs, Begin(j) \/ Ends(j)
      PROVE  UNCHANGED CycleOutbox!outboxVars
  <2>1. UNCHANGED <<table, got>>
    BY <1>1, Zenon DEF Begin, Ends, CleanUp, FormatError, StoreError
  <2> QED
    BY <2>1, NothingOwed
<1>2. ASSUME NEW j \in Jobs,
             Post(j) \/ CollectAll(j) \/ Collected(j) \/ Evaluate(j) \/ EventSent(j)
      PROVE  UNCHANGED CycleOutbox!outboxVars
  <2>1. UNCHANGED <<table, got>>
    BY <1>2, Zenon DEF Post, CollectAll, Collected, Evaluate, EventSent
  <2> QED
    BY <2>1, NothingOwed
<1>3. CASE Crash
  BY <1>3, NothingOwed DEF Crash
<1>4. CASE Outside
  BY <1>4, OutsideOutbox DEF SnapshotInv
<1>5. ASSUME NEW j \in Jobs, GoesOn(j)
      PROVE  [CycleOutbox!Next]_CycleOutbox!outboxVars
  BY <1>2, <1>5, ReceiveDelivers, RetrySettles, RetryGivesUp, EventAccepted
     DEF GoesOn, CycleOutbox!Next
<1> QED
  BY <1>1, <1>3, <1>4, <1>5, StepKinds

\* The service as a whole keeps the promise of the outbox, which the retry queue
\* alone was shown to keep: whatever coroutines, reports, reloads, errors and
\* crashes do, a message that is owed is settled only when the receiver has it
\* and given up only by the retry loop, and none is owed twice.
THEOREM ImplementsOutbox == Spec => CycleOutbox!Spec
<1>1. Init => CycleOutbox!Init
  <2> SUFFICES ASSUME Init
               PROVE  Debt = [m \in Messages |-> "settled"] /\ Known = [m \in Messages |-> FALSE]
    BY DEF CycleOutbox!Init
  <2>1. Debt = [m \in Messages |-> "settled"]
    <3>1. \A m \in Messages : table[m].status = "absent"
      BY DEF Init, Webhooks!NoEntry
    <3> QED
      BY <3>1 DEF Debt, DebtOf
  <2>2. Known = [m \in Messages |-> FALSE]
    <3>1. \A m \in Messages : m \notin got
      BY DEF Init
    <3>2. Known \in [Messages -> BOOLEAN]
      BY DEF Known
    <3>3. \A m \in Messages : ~Known[m]
      BY <3>1 DEF Known
    <3>4. \A m \in Messages : Known[m] = [n \in Messages |-> FALSE][m]
      BY <3>2, <3>3
    <3> QED
      BY <3>2, <3>4
  <2> QED
    BY <2>1, <2>2
<1>2. Init => HeldIsNotQueued
  BY DEF Init, Idle, Held, HeldIsNotQueued
<1>3. CycleInv /\ CycleInv' /\ OrderInv /\ HeldIsNotQueued /\ [Next]_vars => HeldIsNotQueued'
  BY NotQueuedStep DEF OrderInv
<1>4. CycleInv /\ SnapshotInv /\ HeldIsNotQueued /\ [Next]_vars
        => [CycleOutbox!Next]_CycleOutbox!outboxVars
  BY OutboxStep
<1> QED
  BY <1>1, <1>2, <1>3, <1>4, CycleInvariant, OrderInvariant, SnapshotInvariant, PTL
     DEF Spec, CycleOutbox!Spec

=============================================================================
