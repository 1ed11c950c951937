----------------------------- MODULE WebhookTable -----------------------------
(***************************************************************************)
(* The pending_webhooks table of inspector/store.py and what                *)
(* _retry_pending_webhooks of inspector/scheduler.py does to a row whose    *)
(* message could not be sent again.                                         *)
(*                                                                          *)
(* A row is named by its message.  next_retry_at is kept as the time that   *)
(* is left until then, wait: zero or less once the row is due.              *)
(***************************************************************************)
EXTENDS Integers, Sequences, FiniteSets

CONSTANTS
  Ids,            \* the messages
  DequeueLimit,   \* limit of dequeue_pending_webhooks
  EnqueueDelay,   \* the 60 s after which enqueue_webhook lets a row be retried
  RetryInterval   \* notifications.retry_interval_seconds

ASSUME TableAssumption ==
  /\ DequeueLimit \in Nat \ {0}
  /\ EnqueueDelay \in Nat
  /\ RetryInterval \in Nat
  /\ IsFiniteSet(Ids)

\* A row that is not in the table is one whose status is absent.
Entry == [status : {"absent", "pending", "dead"}, attempts : Nat, wait : Int]

NoEntry == [status |-> "absent", attempts |-> 0, wait |-> 0]

InTable(table, m) == table[m].status # "absent"
IsPending(table, m) == table[m].status = "pending"

-----------------------------------------------------------------------------
(* Variants with a bug a change of this code might bring in; no action uses   *)
(* them, the mutation runs put each in the place of its original.             *)

DeleteWebhookSoftly(table, m) == [table EXCEPT ![m].status = "sent"]

MarkWebhookDeadByDeleting(table, m) == [table EXCEPT ![m] = NoEntry]

DueWhateverStatus(table) == {m \in Ids : InTable(table, m) /\ table[m].wait <= 0}

-----------------------------------------------------------------------------

EnqueueWebhook(table, m) ==
  [table EXCEPT ![m] = [status |-> "pending", attempts |-> 0, wait |-> EnqueueDelay]]

DeleteWebhook(table, m) == [table EXCEPT ![m] = NoEntry]

\* The two UPDATEs change nothing when the row is gone.
MarkWebhookDead(table, m) ==
  IF InTable(table, m) THEN [table EXCEPT ![m].status = "dead"] ELSE table

UpdateWebhookRetry(table, m, attempts, wait) ==
  IF InTable(table, m)
  THEN [table EXCEPT ![m].attempts = attempts, ![m].wait = wait]
  ELSE table

-----------------------------------------------------------------------------

Due(table) == {m \in Ids : IsPending(table, m) /\ table[m].wait <= 0}

\* Variants with a bug: the order or the limit of the retries is wrong.
DequeueInAnyOrder(table) ==
  LET size == IF Cardinality(Due(table)) < DequeueLimit
              THEN Cardinality(Due(table)) ELSE DequeueLimit
  IN {[i \in 1 .. size |-> [id |-> s[i], attempts |-> table[s[i]].attempts]] :
        s \in {t \in [1 .. size -> Due(table)] :
                 \A i, j \in 1 .. size : t[i] = t[j] => i = j}}

OneRetryTooMany(table, m, attempts, maxRetries) ==
  IF attempts >= maxRetries THEN MarkWebhookDead(table, m)
  ELSE UpdateWebhookRetry(table, m, attempts + 1, RetryInterval)

OneRetryTooFew(table, m, attempts, maxRetries) ==
  IF attempts + 2 >= maxRetries THEN MarkWebhookDead(table, m)
  ELSE UpdateWebhookRetry(table, m, attempts + 1, RetryInterval)

\* The results SELECT .. ORDER BY next_retry_at LIMIT may give: the rows that
\* have been due the longest, with the attempts they have now.
DequeuePendingWebhooks(table) ==
  LET due  == Due(table)
      size == IF Cardinality(due) < DequeueLimit THEN Cardinality(due) ELSE DequeueLimit
      Oldest(s) == /\ \A i, j \in 1 .. size : i < j => /\ s[i] # s[j]
                                                       /\ table[s[i]].wait <= table[s[j]].wait
                   /\ \A i \in 1 .. size, m \in due :
                        (\A j \in 1 .. size : s[j] # m) => table[s[i]].wait <= table[m].wait
  IN {[i \in 1 .. size |-> [id |-> s[i], attempts |-> table[s[i]].attempts]] :
        s \in {t \in [1 .. size -> due] : Oldest(t)}}

\* A row read with these attempts could not be sent again: give up, or wait.
AfterFailedRetry(table, m, attempts, maxRetries) ==
  IF attempts + 1 >= maxRetries
  THEN MarkWebhookDead(table, m)
  ELSE UpdateWebhookRetry(table, m, attempts + 1, RetryInterval)

\* One unit of time passes.  Rows that were due already stay before the ones
\* that become due now: they keep their order, not how long they are overdue.
Older(table) ==
  LET NotBefore(m) == {n \in Due(table) : table[n].wait >= table[m].wait} IN
  [m \in Ids |->
     CASE ~IsPending(table, m) -> table[m]
       [] m \in Due(table)     -> [table[m] EXCEPT !.wait = -Cardinality(NotBefore(m))]
       [] OTHER                -> [table[m] EXCEPT !.wait = @ - 1]]

=============================================================================
