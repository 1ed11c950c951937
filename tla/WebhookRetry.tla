----------------------------- MODULE WebhookRetry -----------------------------
(***************************************************************************)
(* The retry of failed pushes: SqliteStore.enqueue_webhook, called by the   *)
(* inspection cycle and by POST /api/report, and _retry_pending_webhooks,   *)
(* with which every cycle begins.                                           *)
(*                                                                          *)
(* The loop reads up to DequeueLimit due rows, then sends them one by one.  *)
(* While it waits for the webhook's answer other coroutines run, so rows    *)
(* may be enqueued under it; between an answer and the write that follows   *)
(* it only a crash or an sqlite error can come.  The answer of a push that  *)
(* the receiver took may get lost (the client's time-out), so the loop may  *)
(* see a failure for a message that was received.                           *)
(***************************************************************************)
EXTENDS WebhookTable, Timestamps

CONSTANTS
  None,           \* no loop is running
  MaxRetries,     \* notifications.max_retries
  MaxFaults,      \* bound: crashes and sqlite errors in the loop
  Instants        \* microseconds at which TextOrderIsTimeOrder compares times

Ticket == [id : Ids, attempts : Nat]

Loop == [todo : Seq(Ticket), push : {"none", "sent", "received"}]

ASSUME RetryAssumption ==
  /\ MaxRetries \in Nat
  /\ MaxFaults \in Nat
  /\ None \notin Loop
  /\ Instants \subseteq Int

VARIABLES
  table,          \* pending_webhooks
  loop,           \* the running _retry_pending_webhooks: what is left, and the
                  \* state of the push of its first message
  faults,         \* crashes and errors so far
  (* History, read by no action. *)
  got,            \* the receiver has the message
  sends           \* pushes of the message, the first one included

systemVars == <<table, loop, faults>>
historyVars == <<got, sends>>
vars == <<systemVars, historyVars>>

\* Rows, the loop's snapshot and the histories keep their types.
TypeOK ==
  /\ table \in [Ids -> Entry]
  /\ loop \in Loop \cup {None}
  /\ faults \in 0 .. MaxFaults
  /\ got \in [Ids -> BOOLEAN]
  /\ sends \in [Ids -> Nat]

Init ==
  /\ table = [m \in Ids |-> NoEntry]
  /\ loop = None
  /\ faults = 0
  /\ got = [m \in Ids |-> FALSE]
  /\ sends = [m \in Ids |-> 0]

-----------------------------------------------------------------------------

\* The first push of a new message was answered with a failure.
Enqueue(m) ==
  /\ ~InTable(table, m)
  /\ table' = EnqueueWebhook(table, m)
  /\ \E b \in BOOLEAN : got' = [got EXCEPT ![m] = b]
  /\ sends' = [sends EXCEPT ![m] = 1]
  /\ UNCHANGED <<loop, faults>>

Dequeue ==
  /\ loop = None
  /\ \E todo \in DequeuePendingWebhooks(table) :
       loop' = [todo |-> todo, push |-> "none"]
  /\ UNCHANGED <<table, faults, historyVars>>

Busy == loop # None /\ loop.todo # <<>>

First == Head(loop.todo)

Push ==
  /\ Busy
  /\ loop.push = "none"
  /\ loop' = [loop EXCEPT !.push = "sent"]
  /\ sends' = [sends EXCEPT ![First.id] = @ + 1]
  /\ UNCHANGED <<table, faults, got>>

Receive ==
  /\ Busy
  /\ loop.push = "sent"
  /\ loop' = [loop EXCEPT !.push = "received"]
  /\ got' = [got EXCEPT ![First.id] = TRUE]
  /\ UNCHANGED <<table, faults, sends>>

GoOn == loop' = [todo |-> Tail(loop.todo), push |-> "none"]

Succeed ==
  /\ Busy
  /\ loop.push = "received"
  /\ table' = DeleteWebhook(table, First.id)
  /\ GoOn
  /\ UNCHANGED <<faults, historyVars>>

Fail ==
  /\ Busy
  /\ loop.push # "none"
  /\ table' = AfterFailedRetry(table, First.id, First.attempts, MaxRetries)
  /\ GoOn
  /\ UNCHANGED <<faults, got, sends>>

Return ==
  /\ loop # None
  /\ loop.todo = <<>>
  /\ loop' = None
  /\ UNCHANGED <<table, faults, historyVars>>

\* A crash and restart, or an sqlite error of the write after the answer.
Fault ==
  /\ loop # None
  /\ faults < MaxFaults
  /\ loop' = None
  /\ faults' = faults + 1
  /\ UNCHANGED <<table, historyVars>>

Tick ==
  /\ table' = Older(table)
  /\ UNCHANGED <<loop, faults, historyVars>>

Answer == Succeed \/ Fail

Next ==
  \/ \E m \in Ids : Enqueue(m)
  \/ Dequeue
  \/ Push
  \/ Receive
  \/ Succeed
  \/ Fail
  \/ Return
  \/ Fault
  \/ Tick

Spec == Init /\ [][Next]_vars

\* Time passes, the interval job starts again and again, and each of its steps
\* ends: a push is answered or its time-out of 10 s ends it.
Fairness ==
  /\ WF_vars(Tick)
  /\ WF_vars(Dequeue)
  /\ WF_vars(Push)
  /\ WF_vars(Answer)
  /\ WF_vars(Return)

FairSpec == Spec /\ Fairness

-----------------------------------------------------------------------------
(* Properties. *)

\* The rows the loop read before its first push are still what it thinks they
\* are when their turn comes, although rows were enqueued and time passed
\* while it waited for answers: still pending, with the attempts it read.
SnapshotIsCurrent ==
  loop # None =>
    \A i \in DOMAIN loop.todo :
      LET t == loop.todo[i] IN
      /\ IsPending(table, t.id)
      /\ table[t.id].attempts = t.attempts
      /\ \A j \in DOMAIN loop.todo : loop.todo[j].id = t.id => i = j

\* A message leaves the table only because the receiver has it: no crash, lost
\* answer or dead letter makes the service forget a message.
OnlyReceivedMessagesLeave ==
  \A m \in Ids : sends[m] > 0 /\ ~InTable(table, m) => got[m]

RetriesGranted == IF MaxRetries = 0 THEN 1 ELSE MaxRetries

\* The webhook is not flooded: whatever is lost or crashes, a message is pushed
\* once and then retried at most max_retries times (once if that is 0), and
\* one time more for every crash or error that hid an outcome.
PushesBounded == \A m \in Ids : sends[m] <= 1 + RetriesGranted + faults

\* A message becomes a dead letter only after its full number of retries.
DeadLettersWereRetried ==
  \A m \in Ids : table[m].status = "dead" => sends[m] >= 1 + RetriesGranted

\* The time that a row waits, and the order of two rows, are what sqlite sees in
\* the texts of next_retry_at and of now, also where one of them falls on a full
\* second and has no fraction.  (A unit of time is a microsecond here.)
TextOrderIsTimeOrder ==
  \A now \in Instants, m \in Ids :
    LET next(i) == At(now + table[i].wait) IN
    IsPending(table, m) =>
      /\ m \in Due(table) <=> IsDue(next(m), At(now))
      /\ \A n \in Ids : IsPending(table, n) =>
           (table[m].wait < table[n].wait <=> IsBefore(next(m), next(n)))

\* The table implements the outbox: an owed message is settled only when it was
\* received, is given up only by the retry count, and is not owed for ever.
Debt == [m \in Ids |-> CASE table[m].status = "absent"  -> "settled"
                         [] table[m].status = "pending" -> "owed"
                         [] table[m].status = "dead"    -> "dead"]

OutboxOfTable == INSTANCE Outbox WITH debt <- Debt

OutboxSpec == OutboxOfTable!Spec

\* Every row settles: a pending row is delivered or becomes a dead letter, also
\* while other messages keep coming (ORDER BY next_retry_at LIMIT is fair).
EveryRowSettles == OutboxOfTable!Discharged

=============================================================================
