--------------------------- MODULE WebhookRetryProofs ---------------------------
(* What holds of WebhookRetry for every set of messages, every limit of retries *)
(* and any number of crashes and errors.                                        *)
EXTENDS WebhookRetry, WebhookTableProofs

-----------------------------------------------------------------------------
(* The inductive invariant. *)

\* A push is under way only for the first message of the loop, and one that is
\* noted as received has reached the receiver.
PushIsForFirst ==
  loop # None /\ loop.push # "none" =>
    loop.todo # <<>> /\ (loop.push = "received" => got[First.id])

\* The push of m that the table does not know of yet.
UnderWay(m) == IF Busy /\ loop.push # "none" /\ First.id = m THEN 1 ELSE 0

\* The table counts the pushes: a row's attempts are the retries of its message,
\* short of those whose outcome a crash or an error hid, and stay below the
\* number granted for as long as the row is pending.
Counted(m) ==
  /\ IsPending(table, m) =>
       /\ table[m].attempts < RetriesGranted
       /\ 1 + table[m].attempts + UnderWay(m) <= sends[m]
       /\ sends[m] <= 1 + table[m].attempts + UnderWay(m) + faults
  /\ table[m].status = "dead" => 1 + RetriesGranted <= sends[m]
  /\ ~IsPending(table, m) => sends[m] <= 1 + RetriesGranted + faults

PushesCounted == \A m \in Ids : Counted(m)

-----------------------------------------------------------------------------
(* What the steps of the loop do to its locals. *)

\* The first ticket of a busy loop, and the rest.
LEMMA LoopShape ==
  ASSUME TypeOK, Busy
  PROVE  /\ loop \in Loop /\ loop.todo \in Seq(Ticket)
         /\ First = loop.todo[1] /\ 1 \in DOMAIN loop.todo
         /\ First \in Ticket /\ First.id \in Ids /\ First.attempts \in Nat
         /\ [todo |-> Tail(loop.todo), push |-> "none"] \in Loop
         /\ \A i \in DOMAIN Tail(loop.todo) :
              i + 1 \in DOMAIN loop.todo /\ Tail(loop.todo)[i] = loop.todo[i + 1]
<1>1. loop \in Loop
  BY DEF TypeOK, Busy
<1>2. loop.todo \in Seq(Ticket) /\ loop.todo # <<>>
  BY <1>1 DEF Loop, Busy
<1>3. First = loop.todo[1] /\ 1 \in DOMAIN loop.todo
  BY <1>2 DEF First
<1>4. First \in Ticket /\ Tail(loop.todo) \in Seq(Ticket)
  BY <1>2, HeadTailProperties DEF First
<1>5. First.id \in Ids /\ First.attempts \in Nat
  BY <1>4 DEF Ticket
<1>6. [todo |-> Tail(loop.todo), push |-> "none"] \in Loop
  BY <1>4 DEF Loop
<1>7. ASSUME NEW i \in DOMAIN Tail(loop.todo)
      PROVE  i + 1 \in DOMAIN loop.todo /\ Tail(loop.todo)[i] = loop.todo[i + 1]
  BY <1>2
<1> QED
  BY <1>1, <1>2, <1>3, <1>4, <1>5, <1>6, <1>7

\* The tickets of the loop name messages.
LEMMA TicketOfMessage ==
  ASSUME TypeOK, loop # None, NEW i \in DOMAIN loop.todo
  PROVE  loop.todo[i].id \in Ids
<1>1. loop \in Loop
  BY DEF TypeOK
<1>2. loop.todo \in Seq(Ticket)
  BY <1>1 DEF Loop
<1>3. loop.todo[i] \in Ticket
  BY <1>2
<1> QED
  BY <1>3 DEF Ticket

\* A step of a push changes nothing of the loop but the state of the push.
LEMMA PushShape ==
  ASSUME NEW l \in Loop, NEW p \in {"none", "sent", "received"}
  PROVE  /\ [l EXCEPT !.push = p] \in Loop
         /\ [l EXCEPT !.push = p].todo = l.todo
         /\ [l EXCEPT !.push = p].push = p
BY DEF Loop

\* A loop starts with the rows that dequeue_pending_webhooks gives it.
LEMMA NewLoop ==
  ASSUME TypeOK, NEW todo \in DequeuePendingWebhooks(table)
  PROVE  [todo |-> todo, push |-> "none"] \in Loop
<1>1. todo \in Seq(Ticket)
  BY DequeueEffect DEF TypeOK, Ticket
<1> QED
  BY <1>1 DEF Loop

\* What a failed retry writes, whether the row is there or not.
LEMMA FailedRetryType ==
  ASSUME NEW t \in [Ids -> Entry], NEW m \in Ids, NEW attempts \in Nat
  PROVE  AfterFailedRetry(t, m, attempts, MaxRetries) \in [Ids -> Entry]
<1>1. CASE InTable(t, m)
  BY <1>1, FailedRetryEffect, RetryAssumption
<1>2. CASE ~InTable(t, m)
  BY <1>2 DEF AfterFailedRetry, MarkWebhookDead, UpdateWebhookRetry
<1> QED
  BY <1>1, <1>2

-----------------------------------------------------------------------------

\* Every step keeps the types of the table, the loop and the histories.
LEMMA TypeStep ==
  ASSUME TypeOK, [Next]_vars
  PROVE  TypeOK'
<1> USE DEF TypeOK
<1>1. ASSUME NEW m \in Ids, Enqueue(m) PROVE TypeOK'
  BY <1>1, EnqueueEffect DEF Enqueue
<1>2. CASE Dequeue
  BY <1>2, NewLoop DEF Dequeue, historyVars
<1>3. CASE Push
  <2>1. loop' \in Loop
    BY <1>3, LoopShape, PushShape DEF Push
  <2>2. sends' \in [Ids -> Nat]
    <3>1. First.id \in Ids
      BY <1>3, LoopShape DEF Push
    <3> QED
      BY <1>3, <3>1 DEF Push
  <2> QED
    BY <1>3, <2>1, <2>2 DEF Push
<1>4. CASE Receive
  <2>1. loop' \in Loop
    BY <1>4, LoopShape, PushShape DEF Receive
  <2>2. First.id \in Ids
    BY <1>4, LoopShape DEF Receive
  <2> QED
    BY <1>4, <2>1, <2>2 DEF Receive
<1>5. CASE Succeed
  <2>1. loop' \in Loop /\ First.id \in Ids
    BY <1>5, LoopShape DEF Succeed, GoOn
  <2> QED
    BY <1>5, <2>1, DeleteEffect DEF Succeed, historyVars
<1>6. CASE Fail
  <2>1. loop' \in Loop /\ First.id \in Ids /\ First.attempts \in Nat
    BY <1>6, LoopShape DEF Fail, GoOn
  <2> QED
    BY <1>6, <2>1, FailedRetryType DEF Fail
<1>7. CASE Return
  BY <1>7 DEF Return, historyVars
<1>8. CASE Fault
  BY <1>8, RetryAssumption DEF Fault, historyVars
<1>9. CASE Tick
  BY <1>9, OlderEffect DEF Tick, historyVars
<1>10. CASE UNCHANGED vars
  BY <1>10 DEF vars, systemVars, historyVars
<1> QED
  BY <1>1, <1>2, <1>3, <1>4, <1>5, <1>6, <1>7, <1>8, <1>9, <1>10 DEF Next

\* Rows, the loop's snapshot and the histories keep their types.
THEOREM TypesKept == Spec => []TypeOK
<1>1. Init => TypeOK
  BY NewRows, RetryAssumption DEF Init, TypeOK
<1>2. TypeOK /\ [Next]_vars => TypeOK'
  BY TypeStep
<1> QED
  BY <1>1, <1>2, PTL DEF Spec
-----------------------------------------------------------------------------

\* The snapshot stays current under a step that leaves the pending rows of the
\* loop pending, with their attempts, and the messages of the loop alone.
LEMMA SnapshotKept ==
  ASSUME SnapshotIsCurrent, loop' = None \/ (loop # None /\ loop'.todo = loop.todo),
         \A i \in DOMAIN loop.todo :
           loop # None => LET m == loop.todo[i].id IN
                          /\ table'[m].status = table[m].status
                          /\ table'[m].attempts = table[m].attempts
  PROVE  SnapshotIsCurrent'
BY DEF SnapshotIsCurrent, IsPending

\* It stays current when the loop goes on to its next row, whatever becomes of
\* the row it has dealt with.
LEMMA SnapshotOfTail ==
  ASSUME TypeOK, SnapshotIsCurrent, Busy, GoOn,
         \A m \in Ids \ {First.id} : table'[m] = table[m]
  PROVE  SnapshotIsCurrent'
<1>1. loop'.todo = Tail(loop.todo) /\ loop # None
  BY DEF GoOn, Busy
<1>2. ASSUME NEW i \in DOMAIN Tail(loop.todo)
      PROVE  /\ IsPending(table', Tail(loop.todo)[i].id)
             /\ table'[Tail(loop.todo)[i].id].attempts = Tail(loop.todo)[i].attempts
             /\ \A j \in DOMAIN Tail(loop.todo) :
                  Tail(loop.todo)[j].id = Tail(loop.todo)[i].id => i = j
  <2>1. i + 1 \in DOMAIN loop.todo /\ Tail(loop.todo)[i] = loop.todo[i + 1]
    BY LoopShape
  <2>2. loop.todo \in Seq(Ticket) /\ First = loop.todo[1] /\ 1 \in DOMAIN loop.todo
    BY LoopShape
  <2>3. i \in Nat /\ i >= 1 /\ loop.todo[i + 1] \in Ticket
    BY <2>1, <2>2
  <2>4. loop.todo[i + 1].id # First.id
    BY <1>1, <2>1, <2>2, <2>3 DEF SnapshotIsCurrent
  <2>5. loop.todo[i + 1].id \in Ids
    BY <2>3 DEF Ticket
  <2>6. table'[loop.todo[i + 1].id] = table[loop.todo[i + 1].id]
    BY <2>4, <2>5
  <2>7. ASSUME NEW j \in DOMAIN Tail(loop.todo),
               Tail(loop.todo)[j].id = Tail(loop.todo)[i].id
        PROVE  i = j
    <3>1. j + 1 \in DOMAIN loop.todo /\ Tail(loop.todo)[j] = loop.todo[j + 1]
      BY LoopShape
    <3>2. i + 1 = j + 1
      BY <1>1, <2>1, <2>7, <3>1 DEF SnapshotIsCurrent
    <3>3. j \in Nat
      BY <2>2, <3>1
    <3> QED
      BY <2>3, <3>2, <3>3
  <2> QED
    BY <1>1, <2>1, <2>6, <2>7 DEF SnapshotIsCurrent, IsPending
<1> QED
  BY <1>1, <1>2 DEF SnapshotIsCurrent

\* A message that is enqueued is not among those of the loop, and the loop's
\* own writes are to the row it has dealt with.
LEMMA SnapshotStep ==
  ASSUME TypeOK, SnapshotIsCurrent, [Next]_vars
  PROVE  SnapshotIsCurrent'
<1>1. ASSUME NEW m \in Ids, Enqueue(m) PROVE SnapshotIsCurrent'
  <2>1. \A n \in Ids : n # m => table'[n] = table[n]
    BY <1>1, EnqueueEffect DEF Enqueue, TypeOK
  <2>2. ~IsPending(table, m)
    BY <1>1 DEF Enqueue, InTable, IsPending
  <2>3. ASSUME loop # None, NEW i \in DOMAIN loop.todo
        PROVE  table'[loop.todo[i].id] = table[loop.todo[i].id]
    <3>1. loop.todo[i].id # m
      BY <2>2, <2>3 DEF SnapshotIsCurrent
    <3>2. loop.todo[i].id \in Ids
      BY <2>3, TicketOfMessage
    <3> QED
      BY <2>1, <3>1, <3>2
  <2> QED
    BY <1>1, <2>3, SnapshotKept DEF Enqueue
<1>2. CASE Dequeue
  <2>1. PICK todo \in DequeuePendingWebhooks(table) : loop' = [todo |-> todo, push |-> "none"]
    BY <1>2 DEF Dequeue
  <2>2. table' = table /\ loop'.todo = todo
    BY <1>2, <2>1 DEF Dequeue
  <2>3. /\ \A i \in DOMAIN todo : /\ IsPending(table, todo[i].id)
                                  /\ table[todo[i].id].attempts = todo[i].attempts
        /\ \A i, j \in DOMAIN todo : todo[i].id = todo[j].id => i = j
    BY DequeueEffect DEF TypeOK
  <2> QED
    BY <2>2, <2>3 DEF SnapshotIsCurrent, IsPending
<1>3. CASE Push \/ Receive
  <2>1. table' = table /\ loop'.todo = loop.todo /\ loop # None
    BY <1>3, LoopShape, PushShape DEF Push, Receive, Busy
  <2> QED
    BY <2>1, SnapshotKept
<1>4. CASE Succeed
  <2>1. Busy /\ GoOn /\ First.id \in Ids
    BY <1>4, LoopShape DEF Succeed
  <2>2. \A m \in Ids \ {First.id} : table'[m] = table[m]
    BY <1>4, <2>1, DeleteEffect DEF Succeed, TypeOK
  <2> QED
    BY <2>1, <2>2, SnapshotOfTail
<1>5. CASE Fail
  <2>1. Busy /\ GoOn /\ First.id \in Ids /\ First.attempts \in Nat
    BY <1>5, LoopShape DEF Fail
  <2>2. IsPending(table, First.id)
    BY <2>1, LoopShape DEF SnapshotIsCurrent, Busy
  <2>3. \A m \in Ids \ {First.id} : table'[m] = table[m]
    BY <1>5, <2>1, <2>2, FailedRetryEffect, RetryAssumption
       DEF Fail, TypeOK, InTable, IsPending
  <2> QED
    BY <2>1, <2>3, SnapshotOfTail
<1>6. CASE Return \/ Fault
  BY <1>6 DEF Return, Fault, SnapshotIsCurrent
<1>7. CASE Tick
  <2>1. \A m \in Ids : table'[m].status = table[m].status /\ table'[m].attempts = table[m].attempts
    BY <1>7, OlderEffect DEF Tick, TypeOK
  <2>2. ASSUME loop # None, NEW i \in DOMAIN loop.todo
        PROVE  loop.todo[i].id \in Ids
    BY <2>2, TicketOfMessage
  <2> QED
    BY <1>7, <2>1, <2>2, SnapshotKept DEF Tick
<1>8. CASE UNCHANGED vars
  BY <1>8 DEF vars, systemVars, SnapshotIsCurrent, IsPending
<1> QED
  BY <1>1, <1>2, <1>3, <1>4, <1>5, <1>6, <1>7, <1>8 DEF Next

\* The rows the loop read before its first push are still what it thinks they
\* are when their turn comes, although rows are enqueued and time passes while
\* it waits for answers.
THEOREM SnapshotStaysCurrent == Spec => []SnapshotIsCurrent
<1>1. Init => SnapshotIsCurrent
  BY DEF Init, SnapshotIsCurrent
<1>2. TypeOK /\ SnapshotIsCurrent /\ [Next]_vars => SnapshotIsCurrent'
  BY SnapshotStep
<1> QED
  BY <1>1, <1>2, TypesKept, PTL DEF Spec
-----------------------------------------------------------------------------

\* The message that is pushed is owed, and its ticket tells its attempts.
LEMMA FirstIsPending ==
  ASSUME TypeOK, SnapshotIsCurrent, Busy
  PROVE  /\ First.id \in Ids /\ IsPending(table, First.id)
         /\ table[First.id].attempts = First.attempts
BY LoopShape DEF SnapshotIsCurrent, Busy

\* A retry that fails makes its row a dead letter or counts one attempt more.
LEMMA FailEffect ==
  ASSUME TypeOK, SnapshotIsCurrent, Fail
  PROVE  /\ First.id \in Ids /\ IsPending(table, First.id)
         /\ First.attempts \in Nat /\ table[First.id].attempts = First.attempts
         /\ First.attempts + 1 >= MaxRetries => table'[First.id].status = "dead"
         /\ First.attempts + 1 < MaxRetries =>
              /\ table'[First.id].status = "pending"
              /\ table'[First.id].attempts = First.attempts + 1
         /\ \A m \in Ids \ {First.id} : table'[m] = table[m]
<1>1. /\ First.id \in Ids /\ IsPending(table, First.id)
      /\ First.attempts \in Nat /\ table[First.id].attempts = First.attempts
  BY LoopShape, FirstIsPending DEF Fail
<1>2. table \in [Ids -> Entry] /\ InTable(table, First.id) /\ MaxRetries \in Nat
  BY <1>1, RetryAssumption DEF TypeOK, InTable, IsPending
<1>3. table' = AfterFailedRetry(table, First.id, First.attempts, MaxRetries)
  BY DEF Fail
<1>4. /\ First.attempts + 1 >= MaxRetries => table'[First.id].status = "dead"
      /\ First.attempts + 1 < MaxRetries =>
           /\ table'[First.id].status = table[First.id].status
           /\ table'[First.id].attempts = First.attempts + 1
      /\ \A m \in Ids \ {First.id} : table'[m] = table[m]
  BY <1>1, <1>2, <1>3, FailedRetryEffect
<1> QED
  BY <1>1, <1>4 DEF IsPending

\* A push is noted as received together with the message's arrival, and no
\* message that is enqueued meanwhile is the one that is pushed.
LEMMA PushStep ==
  ASSUME TypeOK, SnapshotIsCurrent, PushIsForFirst, [Next]_vars
  PROVE  PushIsForFirst'
<1> USE DEF PushIsForFirst
<1>1. ASSUME NEW m \in Ids, Enqueue(m) PROVE PushIsForFirst'
  <2>1. loop' = loop /\ \A n \in Ids : n # m => got'[n] = got[n]
    BY <1>1 DEF Enqueue, TypeOK
  <2>2. Busy => First.id \in Ids /\ First.id # m
    BY <1>1, FirstIsPending DEF Enqueue, InTable, IsPending
  <2> QED
    BY <2>1, <2>2 DEF Busy, First
<1>2. CASE Dequeue
  BY <1>2 DEF Dequeue
<1>3. CASE Push
  <2>1. loop'.todo # <<>> /\ loop'.push = "sent"
    BY <1>3, LoopShape, PushShape DEF Push, Busy
  <2> QED
    BY <2>1
<1>4. CASE Receive
  <2>1. loop'.todo = loop.todo /\ loop.todo # <<>> /\ First.id \in Ids
    BY <1>4, LoopShape, PushShape DEF Receive, Busy
  <2>2. got'[First.id]
    BY <1>4, <2>1 DEF Receive, TypeOK
  <2> QED
    BY <2>1, <2>2 DEF First
<1>5. CASE Succeed \/ Fail
  BY <1>5 DEF Succeed, Fail, GoOn
<1>6. CASE Return \/ Fault
  BY <1>6 DEF Return, Fault
<1>7. CASE Tick \/ UNCHANGED vars
  BY <1>7 DEF Tick, vars, systemVars, historyVars, First
<1> QED
  BY <1>1, <1>2, <1>3, <1>4, <1>5, <1>6, <1>7 DEF Next

\* Only Succeed takes a row out of the table, and only after the answer that
\* tells that the receiver has the message.
LEMMA LeavingStep ==
  ASSUME TypeOK, SnapshotIsCurrent, PushIsForFirst, OnlyReceivedMessagesLeave, [Next]_vars
  PROVE  OnlyReceivedMessagesLeave'
<1> USE DEF OnlyReceivedMessagesLeave, InTable
<1>1. ASSUME NEW m \in Ids, Enqueue(m) PROVE OnlyReceivedMessagesLeave'
  <2>1. /\ table'[m].status = "pending"
        /\ \A n \in Ids \ {m} : table'[n] = table[n]
    BY <1>1, EnqueueEffect DEF Enqueue, TypeOK
  <2>2. \A n \in Ids \ {m} : got'[n] = got[n] /\ sends'[n] = sends[n]
    BY <1>1 DEF Enqueue, TypeOK
  <2> QED
    BY <2>1, <2>2
<1>2. CASE Dequeue \/ Return \/ Fault
  BY <1>2 DEF Dequeue, Return, Fault, historyVars
<1>3. CASE Push
  <2>1. InTable(table, First.id)
    BY <1>3, FirstIsPending DEF Push, IsPending
  <2>2. \A n \in Ids : n # First.id => sends'[n] = sends[n]
    BY <1>3 DEF Push, TypeOK
  <2>3. table' = table /\ got' = got
    BY <1>3 DEF Push
  <2> QED
    BY <2>1, <2>2, <2>3
<1>4. CASE Receive
  <2>1. \A n \in Ids : got[n] => got'[n]
    BY <1>4 DEF Receive, TypeOK
  <2>2. table' = table /\ sends' = sends
    BY <1>4 DEF Receive
  <2> QED
    BY <2>1, <2>2
<1>5. CASE Succeed
  <2>1. First.id \in Ids /\ got[First.id]
    BY <1>5, LoopShape DEF Succeed, Busy, PushIsForFirst
  <2>2. \A n \in Ids \ {First.id} : table'[n] = table[n]
    BY <1>5, <2>1, DeleteEffect DEF Succeed, TypeOK
  <2>3. got' = got /\ sends' = sends
    BY <1>5 DEF Succeed, historyVars
  <2> QED
    BY <2>1, <2>2, <2>3
<1>6. CASE Fail
  <2>1. First.id \in Ids /\ First.attempts \in Nat /\ MaxRetries \in Nat
    BY <1>6, FailEffect, RetryAssumption
  <2>2. First.attempts + 1 >= MaxRetries \/ First.attempts + 1 < MaxRetries
    BY <2>1
  <2>3. /\ table'[First.id].status \in {"dead", "pending"}
        /\ \A n \in Ids \ {First.id} : table'[n] = table[n]
    BY <1>6, <2>2, FailEffect
  <2>4. got' = got /\ sends' = sends
    BY <1>6 DEF Fail
  <2> QED
    BY <2>3, <2>4
<1>7. CASE Tick
  <2>1. \A n \in Ids : table'[n].status = table[n].status
    BY <1>7, OlderEffect DEF Tick, TypeOK
  <2> QED
    BY <1>7, <2>1 DEF Tick, historyVars
<1>8. CASE UNCHANGED vars
  BY <1>8 DEF vars, systemVars, historyVars
<1> QED
  BY <1>1, <1>2, <1>3, <1>4, <1>5, <1>6, <1>7, <1>8 DEF Next

\* A message leaves the table only because the receiver has it: no crash, lost
\* answer or dead letter makes the service forget a message.
THEOREM NothingForgotten == Spec => []OnlyReceivedMessagesLeave
<1> DEFINE Inv == PushIsForFirst /\ OnlyReceivedMessagesLeave
<1>1. Init => Inv
  BY DEF Init, PushIsForFirst, OnlyReceivedMessagesLeave
<1>2. TypeOK /\ SnapshotIsCurrent /\ Inv /\ [Next]_vars => Inv'
  BY PushStep, LeavingStep
<1>3. Inv => OnlyReceivedMessagesLeave
  OBVIOUS
<1> QED
  BY <1>1, <1>2, <1>3, TypesKept, SnapshotStaysCurrent, PTL DEF Spec
-----------------------------------------------------------------------------

\* The values that are counted with.
LEMMA Counters ==
  ASSUME TypeOK, NEW m \in Ids
  PROVE  /\ RetriesGranted \in Nat /\ RetriesGranted >= 1
         /\ table[m].attempts \in Nat /\ sends[m] \in Nat /\ faults \in Nat
         /\ UnderWay(m) \in {0, 1}
<1>1. table[m] \in Entry /\ sends[m] \in Nat /\ faults \in Nat
  BY RetryAssumption DEF TypeOK
<1>2. table[m].attempts \in Nat
  BY <1>1 DEF Entry
<1>3. RetriesGranted \in Nat /\ RetriesGranted >= 1
  BY RetryAssumption DEF RetriesGranted
<1> QED
  BY <1>1, <1>2, <1>3 DEF UnderWay

\* The count of a message stays right if nothing of it changes, or if a crash
\* or an error hides the outcome of its push.
LEMMA CountKept ==
  ASSUME TypeOK, NEW m \in Ids, Counted(m),
         table'[m].status = table[m].status, table'[m].attempts = table[m].attempts,
         sends'[m] = sends[m],
         \/ faults' = faults /\ UnderWay(m)' = UnderWay(m)
         \/ faults' = faults + 1 /\ UnderWay(m)' = 0
  PROVE  Counted(m)'
BY Counters DEF Counted, IsPending

\* A retry is counted once it is sent, and moves into the attempts of the row,
\* or ends them, when its answer has come.
LEMMA CountStep ==
  ASSUME TypeOK, TypeOK', SnapshotIsCurrent, PushesCounted, [Next]_vars, NEW n \in Ids
  PROVE  Counted(n)'
<1> USE Counters
<1>1. Counted(n)
  BY DEF PushesCounted
<1>2. ASSUME NEW m \in Ids, Enqueue(m) PROVE Counted(n)'
  <2>1. loop' = loop /\ faults' = faults /\ UnderWay(n)' = UnderWay(n)
    BY <1>2 DEF Enqueue, UnderWay, Busy, First
  <2>2. CASE n = m
    <3>1. table'[n].status = "pending" /\ table'[n].attempts = 0 /\ sends'[n] = 1
      BY <1>2, <2>2, EnqueueEffect DEF Enqueue, TypeOK
    <3>2. UnderWay(n) = 0
      BY <1>2, <2>2, FirstIsPending DEF Enqueue, InTable, IsPending, UnderWay
    <3> QED
      BY <2>1, <3>1, <3>2 DEF Counted, IsPending
  <2>3. CASE n # m
    <3>1. table'[n] = table[n] /\ sends'[n] = sends[n]
      BY <1>2, <2>3, EnqueueEffect DEF Enqueue, TypeOK
    <3> QED
      BY <1>1, <2>1, <3>1, CountKept
  <2> QED
    BY <2>2, <2>3
<1>3. CASE Dequeue \/ Return
  <2>1. UnderWay(n) = 0 /\ UnderWay(n)' = 0
    BY <1>3 DEF Dequeue, Return, UnderWay, Busy
  <2> QED
    BY <1>1, <1>3, <2>1, CountKept DEF Dequeue, Return, historyVars
<1>4. CASE Push
  <2>1. loop' # None /\ loop'.todo = loop.todo /\ loop'.push = "sent" /\ First.id \in Ids
    BY <1>4, LoopShape, PushShape, RetryAssumption DEF Push, Busy
  <2>2. First' = First /\ Busy' /\ faults' = faults /\ table' = table
    BY <1>4, <2>1 DEF Push, Busy, First
  <2>3. CASE n = First.id
    <3>1. UnderWay(n) = 0 /\ UnderWay(n)' = 1
      BY <1>4, <2>1, <2>2, <2>3 DEF Push, UnderWay
    <3>2. sends'[n] = sends[n] + 1
      BY <1>4, <2>3 DEF Push, TypeOK
    <3>3. IsPending(table, n)
      BY <1>4, <2>3, FirstIsPending DEF Push
    <3> QED
      BY <1>1, <2>2, <3>1, <3>2, <3>3 DEF Counted, IsPending
  <2>4. CASE n # First.id
    <3>1. UnderWay(n)' = UnderWay(n)
      BY <2>2, <2>4 DEF UnderWay
    <3>2. sends'[n] = sends[n]
      BY <1>4, <2>4 DEF Push, TypeOK
    <3> QED
      BY <1>1, <2>2, <3>1, <3>2, CountKept
  <2> QED
    BY <2>3, <2>4
<1>5. CASE Receive
  <2>1. loop' # None /\ loop'.todo = loop.todo /\ loop'.push = "received"
    BY <1>5, LoopShape, PushShape, RetryAssumption DEF Receive, Busy
  <2>2. UnderWay(n)' = UnderWay(n)
    BY <1>5, <2>1 DEF Receive, UnderWay, Busy, First
  <2> QED
    BY <1>1, <1>5, <2>2, CountKept DEF Receive
<1>6. CASE Succeed
  <2>1. UnderWay(n)' = 0 /\ faults' = faults /\ sends' = sends
    BY <1>6 DEF Succeed, GoOn, UnderWay, historyVars
  <2>2. First.id \in Ids /\ IsPending(table, First.id)
    BY <1>6, FirstIsPending DEF Succeed
  <2>3. CASE n = First.id
    <3>1. table'[n].status = "absent"
      BY <1>6, <2>2, <2>3, DeleteEffect DEF Succeed, TypeOK
    <3> QED
      BY <1>1, <2>1, <2>2, <2>3, <3>1 DEF Counted, IsPending
  <2>4. CASE n # First.id
    <3>1. table'[n] = table[n]
      BY <1>6, <2>2, <2>4, DeleteEffect DEF Succeed, TypeOK
    <3>2. UnderWay(n) = 0
      BY <2>4 DEF UnderWay
    <3> QED
      BY <1>1, <2>1, <3>1, <3>2, CountKept
  <2> QED
    BY <2>3, <2>4
<1>7. CASE Fail
  <2>1. UnderWay(n)' = 0 /\ faults' = faults /\ sends' = sends
    BY <1>7 DEF Fail, GoOn, UnderWay
  <2>2. CASE n = First.id
    <3>1. IsPending(table, n) /\ UnderWay(n) = 1 /\ table[n].attempts = First.attempts
      BY <1>7, <2>2, FailEffect DEF Fail, UnderWay
    <3>2. /\ First.attempts < RetriesGranted
          /\ 2 + First.attempts <= sends[n]
          /\ sends[n] <= 2 + First.attempts + faults
      BY <1>1, <3>1 DEF Counted
    <3>3. MaxRetries \in Nat /\ First.attempts \in Nat
      BY <1>7, FailEffect, RetryAssumption
    <3>4. CASE First.attempts + 1 >= MaxRetries
      <4>1. First.attempts + 1 = RetriesGranted
        BY <3>2, <3>3, <3>4 DEF RetriesGranted
      <4>2. table'[n].status = "dead"
        BY <1>7, <2>2, <3>4, FailEffect
      <4> QED
        BY <2>1, <3>2, <3>3, <4>1, <4>2 DEF Counted, IsPending
    <3>5. CASE First.attempts + 1 < MaxRetries
      <4>1. First.attempts + 1 < RetriesGranted
        BY <3>3, <3>5 DEF RetriesGranted
      <4>2. table'[n].status = "pending" /\ table'[n].attempts = First.attempts + 1
        BY <1>7, <2>2, <3>5, FailEffect
      <4> QED
        BY <2>1, <3>2, <3>3, <4>1, <4>2 DEF Counted, IsPending
    <3> QED
      BY <3>3, <3>4, <3>5
  <2>3. CASE n # First.id
    <3>1. table'[n] = table[n]
      BY <1>7, <2>3, FailEffect
    <3>2. UnderWay(n) = 0
      BY <2>3 DEF UnderWay
    <3> QED
      BY <1>1, <2>1, <3>1, <3>2, CountKept
  <2> QED
    BY <2>2, <2>3
<1>8. CASE Fault
  <2>1. UnderWay(n)' = 0
    BY <1>8 DEF Fault, UnderWay, Busy
  <2> QED
    BY <1>1, <1>8, <2>1, CountKept DEF Fault, historyVars
<1>9. CASE Tick
  <2>1. table'[n].status = table[n].status /\ table'[n].attempts = table[n].attempts
    BY <1>9, OlderEffect DEF Tick, TypeOK
  <2>2. UnderWay(n)' = UnderWay(n)
    BY <1>9 DEF Tick, UnderWay, Busy, First
  <2> QED
    BY <1>1, <1>9, <2>1, <2>2, CountKept DEF Tick, historyVars
<1>10. CASE UNCHANGED vars
  <2>1. UnderWay(n)' = UnderWay(n)
    BY <1>10 DEF vars, systemVars, UnderWay, Busy, First
  <2> QED
    BY <1>1, <1>10, <2>1, CountKept DEF vars, systemVars, historyVars
<1> QED
  BY <1>2, <1>3, <1>4, <1>5, <1>6, <1>7, <1>8, <1>9, <1>10 DEF Next

\* The pushes stay counted.
LEMMA CountInvariant == Spec => []PushesCounted
<1>1. Init => PushesCounted
  <2> SUFFICES ASSUME Init, NEW m \in Ids PROVE Counted(m)
    BY DEF PushesCounted
  <2>1. table[m].status = "absent" /\ sends[m] = 0 /\ faults = 0
    BY DEF Init, NoEntry
  <2>2. RetriesGranted \in Nat
    BY RetryAssumption DEF RetriesGranted
  <2> QED
    BY <2>1, <2>2 DEF Counted, IsPending
<1>2. TypeOK /\ TypeOK' /\ SnapshotIsCurrent /\ PushesCounted /\ [Next]_vars => PushesCounted'
  <2> SUFFICES ASSUME TypeOK, TypeOK', SnapshotIsCurrent, PushesCounted, [Next]_vars,
                      NEW m \in Ids
               PROVE  Counted(m)'
    BY DEF PushesCounted
  <2> QED
    BY CountStep
<1> QED
  BY <1>1, <1>2, TypesKept, SnapshotStaysCurrent, PTL DEF Spec

\* The webhook is not flooded: whatever is lost or crashes, a message is pushed
\* once and then retried at most max_retries times (once if that is 0), and one
\* time more for every crash or error that hid an outcome.
THEOREM NoFlood == Spec => []PushesBounded
<1>1. TypeOK /\ PushesCounted => PushesBounded
  <2> SUFFICES ASSUME TypeOK, PushesCounted, NEW m \in Ids
               PROVE  sends[m] <= 1 + RetriesGranted + faults
    BY DEF PushesBounded
  <2>1. Counted(m)
    BY DEF PushesCounted
  <2> QED
    BY <2>1, Counters DEF Counted
<1> QED
  BY <1>1, CountInvariant, TypesKept, PTL

\* A message becomes a dead letter only after its full number of retries.
THEOREM NoEarlyDeadLetter == Spec => []DeadLettersWereRetried
<1>1. TypeOK /\ PushesCounted => DeadLettersWereRetried
  <2> SUFFICES ASSUME TypeOK, PushesCounted, NEW m \in Ids, table[m].status = "dead"
               PROVE  sends[m] >= 1 + RetriesGranted
    BY DEF DeadLettersWereRetried
  <2>1. Counted(m)
    BY DEF PushesCounted
  <2> QED
    BY <2>1, Counters DEF Counted
<1> QED
  BY <1>1, CountInvariant, TypesKept, PTL
-----------------------------------------------------------------------------
(* The texts of the times of the rows. *)

\* sqlite's comparison of texts decides which rows are due, and in which order,
\* as the times do, at every instant (dequeue_pending_webhooks).
THEOREM TextsTellTheTime == Spec => []TextOrderIsTimeOrder
PROOF
<1>1. TypeOK => TextOrderIsTimeOrder
  <2> SUFFICES ASSUME TypeOK, NEW now \in Instants, NEW m \in Ids, IsPending(table, m)
               PROVE  /\ m \in Due(table) <=> IsDue(At(now + table[m].wait), At(now))
                      /\ \A n \in Ids : IsPending(table, n) =>
                           (table[m].wait < table[n].wait
                              <=> IsBefore(At(now + table[m].wait), At(now + table[n].wait)))
    BY DEF TextOrderIsTimeOrder
  <2>1. now \in Int
    BY RetryAssumption
  <2>2. \A n \in Ids : table[n].wait \in Int
    BY DEF TypeOK, Entry
  <2>3. \A x, y \in Int : /\ IsDue(At(x), At(y)) <=> x <= y
                          /\ IsBefore(At(x), At(y)) <=> ~(y <= x)
    BY AtIs, AtInOrder, DueInTime, BeforeInTime
  <2>4. m \in Due(table) <=> IsDue(At(now + table[m].wait), At(now))
    <3>1. IsDue(At(now + table[m].wait), At(now)) <=> now + table[m].wait <= now
      BY <2>1, <2>2, <2>3
    <3> QED
      BY <2>1, <2>2, <3>1 DEF Due
  <2>5. ASSUME NEW n \in Ids
        PROVE  table[m].wait < table[n].wait
                 <=> IsBefore(At(now + table[m].wait), At(now + table[n].wait))
    <3>1. IsBefore(At(now + table[m].wait), At(now + table[n].wait))
            <=> ~(now + table[n].wait <= now + table[m].wait)
      BY <2>1, <2>2, <2>3
    <3> QED
      BY <2>1, <2>2, <3>1
  <2> QED
    BY <2>4, <2>5
<1> QED
  BY <1>1, TypesKept, PTL

-----------------------------------------------------------------------------
(* The table implements the outbox. *)

\* What a message is owed by the state of its row.
LEMMA DebtOfRow ==
  ASSUME TypeOK, NEW m \in Ids
  PROVE  /\ Debt[m] = "settled" <=> table[m].status = "absent"
         /\ Debt[m] = "owed" <=> table[m].status = "pending"
         /\ Debt[m] = "dead" <=> table[m].status = "dead"
<1>1. table[m].status \in {"absent", "pending", "dead"}
  BY DEF TypeOK, Entry
<1> QED
  BY <1>1 DEF Debt

\* A step that leaves every status alone leaves every debt alone.
LEMMA SameDebt ==
  ASSUME \A m \in Ids : table'[m].status = table[m].status
  PROVE  Debt' = Debt
<1> DEFINE Of(status) == CASE status = "absent"  -> "settled"
                            [] status = "pending" -> "owed"
                            [] status = "dead"    -> "dead"
<1>1. Debt = [n \in Ids |-> Of(table[n].status)]
  BY DEF Debt
<1>2. Debt' = [n \in Ids |-> Of(table'[n].status)]
  BY DEF Debt
<1> HIDE DEF Of
<1> QED
  BY <1>1, <1>2

\* A step that changes the row of one message changes its debt only.
LEMMA OneDebt ==
  ASSUME NEW m \in Ids, \A n \in Ids \ {m} : table'[n] = table[n]
  PROVE  Debt' = [Debt EXCEPT ![m] = Debt'[m]]
<1> DEFINE Of(status) == CASE status = "absent"  -> "settled"
                            [] status = "pending" -> "owed"
                            [] status = "dead"    -> "dead"
<1>1. Debt = [n \in Ids |-> Of(table[n].status)]
  BY DEF Debt
<1>2. Debt' = [n \in Ids |-> Of(table'[n].status)]
  BY DEF Debt
<1> HIDE DEF Of
<1> QED
  BY <1>1, <1>2

\* Every step of the service is a step of the outbox or changes nothing of it.
LEMMA OutboxStep ==
  ASSUME TypeOK, SnapshotIsCurrent, PushIsForFirst, [Next]_vars
  PROVE  [OutboxOfTable!Next]_OutboxOfTable!outboxVars
<1> USE DEF OutboxOfTable!Next, OutboxOfTable!outboxVars
<1>1. ASSUME NEW m \in Ids, Enqueue(m) PROVE OutboxOfTable!Accept(m)
  <2>1. /\ table'[m].status = "pending" /\ table[m].status = "absent"
        /\ \A n \in Ids \ {m} : table'[n] = table[n]
    BY <1>1, EnqueueEffect DEF Enqueue, TypeOK, InTable
  <2>2. Debt[m] = "settled"
    BY <2>1, DebtOfRow
  <2>3. Debt'[m] = "owed"
    BY <2>1 DEF Debt
  <2>4. Debt' = [Debt EXCEPT ![m] = "owed"]
    BY <2>1, <2>3, OneDebt
  <2> QED
    BY <1>1, <2>2, <2>4 DEF OutboxOfTable!Accept, Enqueue
<1>2. CASE Dequeue \/ Push \/ Return \/ Fault
  BY <1>2, SameDebt DEF Dequeue, Push, Return, Fault, historyVars
<1>3. CASE Receive
  <2>1. First.id \in Ids /\ Debt[First.id] # "dead"
    BY <1>3, FirstIsPending, DebtOfRow DEF Receive, IsPending
  <2>2. Debt' = Debt
    BY <1>3, SameDebt DEF Receive
  <2> QED
    BY <1>3, <2>1, <2>2 DEF Receive, OutboxOfTable!Receive
<1>4. CASE Succeed
  <2>1. First.id \in Ids /\ IsPending(table, First.id) /\ got[First.id]
    BY <1>4, FirstIsPending DEF Succeed, Busy, PushIsForFirst
  <2>2. /\ table'[First.id].status = "absent"
        /\ \A n \in Ids \ {First.id} : table'[n] = table[n]
    BY <1>4, <2>1, DeleteEffect DEF Succeed, TypeOK
  <2>3. Debt[First.id] = "owed"
    BY <2>1, DebtOfRow DEF IsPending
  <2>4. Debt'[First.id] = "settled"
    BY <2>1, <2>2 DEF Debt
  <2>5. Debt' = [Debt EXCEPT ![First.id] = "settled"]
    BY <2>1, <2>2, <2>4, OneDebt
  <2>6. got' = got
    BY <1>4 DEF Succeed, historyVars
  <2> QED
    BY <2>1, <2>3, <2>5, <2>6 DEF OutboxOfTable!Settle
<1>5. CASE Fail
  <2>1. /\ First.id \in Ids /\ IsPending(table, First.id) /\ First.attempts \in Nat
        /\ \A n \in Ids \ {First.id} : table'[n] = table[n]
    BY <1>5, FailEffect
  <2>2. got' = got
    BY <1>5 DEF Fail
  <2>3. CASE First.attempts + 1 >= MaxRetries
    <3>1. table'[First.id].status = "dead"
      BY <1>5, <2>3, FailEffect
    <3>2. Debt[First.id] = "owed"
      BY <2>1, DebtOfRow DEF IsPending
    <3>3. Debt'[First.id] = "dead"
      BY <2>1, <3>1 DEF Debt
    <3>4. Debt' = [Debt EXCEPT ![First.id] = "dead"]
      BY <2>1, <3>3, OneDebt
    <3> QED
      BY <2>1, <2>2, <3>2, <3>4 DEF OutboxOfTable!GiveUp
  <2>4. CASE First.attempts + 1 < MaxRetries
    <3>1. table'[First.id].status = table[First.id].status
      BY <1>5, <2>1, <2>4, FailEffect DEF IsPending
    <3>2. Debt' = Debt
      BY <2>1, <3>1, SameDebt
    <3> QED
      BY <2>2, <3>2
  <2> QED
    BY <2>1, <2>3, <2>4, RetryAssumption
<1>6. CASE Tick
  <2>1. \A m \in Ids : table'[m].status = table[m].status
    BY <1>6, OlderEffect DEF Tick, TypeOK
  <2> QED
    BY <1>6, <2>1, SameDebt DEF Tick, historyVars
<1>7. CASE UNCHANGED vars
  BY <1>7, SameDebt DEF vars, systemVars, historyVars
<1> QED
  BY <1>1, <1>2, <1>3, <1>4, <1>5, <1>6, <1>7 DEF Next

\* The retry queue implements the outbox: an owed message is settled only when
\* it was received, and is given up only by the retry count.
THEOREM ImplementsOutbox == Spec => OutboxSpec
<1>1. Init => OutboxOfTable!Init
  BY DEF Init, OutboxOfTable!Init, Debt, NoEntry
<1>2. Init => PushIsForFirst
  BY DEF Init, PushIsForFirst
<1>3. TypeOK /\ SnapshotIsCurrent /\ PushIsForFirst /\ [Next]_vars => PushIsForFirst'
  BY PushStep
<1>4. TypeOK /\ SnapshotIsCurrent /\ PushIsForFirst /\ [Next]_vars
        => [OutboxOfTable!Next]_OutboxOfTable!outboxVars
  BY OutboxStep
<1> QED
  BY <1>1, <1>2, <1>3, <1>4, TypesKept, SnapshotStaysCurrent, PTL
     DEF Spec, OutboxSpec, OutboxOfTable!Spec

=============================================================================
