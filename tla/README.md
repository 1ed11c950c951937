# Formal models of the GPU node inspector

This directory holds TLA+ models of the inspection service in `inspector/` and
`main.py`, the TLC runs that check them, and proofs that TLAPS checks.  Paths
below are relative to the root of the repository.  All source line numbers are
in `PROJECT.json` (`map`, `hazards`, `findings`).

## 1. The system

One Python process, one asyncio event loop, one SQLite file.

| Part | State it keeps | Operations | Talks to |
|---|---|---|---|
| **Alerter** (`inspector/alerter.py`) | none of its own: one row per (node, rule) in `alert_states` (`state`, `breach_cycles`, `triggered_at`) | `evaluate`, `_check_rule` | store; called by the cycle |
| **Store** (`inspector/store.py`) | tables `alert_states`, `pending_webhooks`, `node_status`, `metrics`; one connection with an implicit transaction | one coroutine per statement, each under `_lock` and ended by `commit` | everyone |
| **Inspection cycle** (`inspector/scheduler.py`) | `_is_collecting`; locals of `run_inspection_cycle` and `_retry_pending_webhooks` | retry pending pushes, collect, evaluate node by node, push events, clean up | all parts; started by APScheduler's interval job |
| **Notifier** (`inspector/notifier.py`) | URL and format of the start | `send`: format, then one POST with a time-out of 10 s | webhook server |
| **Collector** (`inspector/collector.py`) | settings of the start | `collect_all`: one SSH session per node, 13 commands each; every exception becomes "unreachable" | nodes |
| **Dashboard** (`inspector/dashboard.py`) | token of the start; locals of a request | pages and JSON from the store; `POST /api/report` pushes and enqueues on failure; robot callback pushes, never enqueues | store, notifier |
| **Service** (`main.py`, `inspector/config.py`) | `SettingsHolder`; the settings the parts were created with | start, SIGHUP reload, shutdown | creates all parts |
| **Parsers** (`inspector/metrics.py`) | none | text of the commands to metrics | collector |

### What makes it hard

* **Interleaving.** The store's `_lock` is never held across a real suspension
  (nothing is awaited inside its bodies), so it is always free and a store call
  does not suspend.  A coroutine gives way only in `notifier.send` and in the SSH
  calls.  There, reports of the dashboard, reloads and other cycles run.
* **Crashes and exceptions.** Every statement is committed on its own, so a crash,
  or an exception that ends the cycle, can fall between any two commits, and
  between a push and the commit that records it.
* **Unreliable delivery.** The client's time-out turns a push the server took
  into a failure; the receiver may get a message more than once.
* **Shared rows.** The key of `alert_states` is (node, rule), so all GPUs of a node
  move one row within one call of `evaluate`.
* **Time.** Retries wait; the order of due rows decides who is served under
  `LIMIT 10`.  SQLite compares the times as texts.
* **The end of the process.** A graceful stop (`scripts/update.sh` makes one) waits for the
  requests and not for the cycle, and closes the store under it.
* **Several readers of one text.** The parsers, the formatter of a message and the
  summary each read a node's outputs in their own way.

### What correctness means, part by part

* Alerter: rows are consistent; what was reported and what is recorded agree;
  reports of an alert alternate; alerts are debounced and none is missed.
* Retry queue: nothing leaves the table unreceived; pushes are bounded; dead
  letters had all their retries; every row settles; the loop's snapshot stays valid.
* Cycle: one at a time; the lock is always given back; no committed alert is
  forgotten; nothing is overtaken without a trace; the monitoring goes on.
* Service: the store outlives those who use it; a stop costs at most what a cycle holds;
  the service comes back; an alert that the running settings watch ends once its reading is good,
  if cycles are completed.
* Collector: a collection ends in time however many nodes are slow; what is recorded
  of a node in `node_status` and in `metrics` agrees, also after errors and restarts.
* Dashboard: answers are true; the robot understands the documented forms, unless a name holds
  an earlier keyword; no report poisons the queue.
* Parsers and formatter: what a message shows is what the rules judge.

## 2. The modules

| Module | Models | State and actions |
|---|---|---|
| `AlertRules` | pure part of the alerter: the checks of `evaluate` in their order, `_is_breach`, one `_check_rule` on one row, the upsert | operators only |
| `AlertLifecycle` | abstract: what readers of notifications are promised | `raised`, `cleared` counts; `Trigger`, `Recover` |
| `Alerter` | `evaluate` over `alert_states`, one check per step | `alertStates` is the table, `eval` the running call with its local list of events; `Evaluate`, `Check`, `SkipCheck`, `Return`, `Abort` (an sqlite error through `evaluate`, or a crash) |
| `AlerterProofs` | proofs about `Alerter` | |
| `WebhookTable` | the statements on `pending_webhooks`, and what follows a failed retry | operators only |
| `Outbox` | abstract: what the queue promises for a message whose push failed | `debt`, `got`; `Accept`, `Receive`, `Settle`, `GiveUp` |
| `WebhookRetry` | `enqueue_webhook` and `_retry_pending_webhooks` | `table`, `loop` (snapshot and the push in flight); `Enqueue`, `Dequeue`, `Push`, `Receive`, `Succeed`, `Fail`, `Return`, `Fault`, `Tick` |
| `InspectionCycle` | `run_inspection_cycle` composed with the abstract alerter, `WebhookTable`, settings and `POST /api/report` | `jobs` (coroutines), `isCollecting`, `made` (parity is the persisted state of an alert), `file`/`holder`/`started` (settings on disk, in the holder, in the parts), `reports` |
| `Collector` | `collect_all` with one session per node, and the loop that records the results | `sessions` (coroutines of the gather, with the time each has waited), `elapsed`, `results` (`metrics_list`), `db` and `disk` (`node_status` and `metrics` as the connection reads them and as committed); `Begin`, `Connected`, `Answered`, `Finished`, `Fails`, `Tick`, `Gathered`, `WriteNodeStatus`, `WriteMetrics`, `CleanupMetrics`, `StatusError`, `MetricsError`, `OtherCommit`, `Crash` |
| `CollectorProofs`, `CollectorHistoryProofs` | proofs about `Collector`: time, and the two tables | |
| `Timestamps` | `isoformat()` in UTC and the comparison of texts in `dequeue_pending_webhooks` and `cleanup_metrics` | operators only |
| `WebhookTableProofs` | lemmas about `WebhookTable` that both users of the table cite, and the proofs about `Timestamps` | |
| `WebhookRetryProofs`, `InspectionCycleProofs`, `DashboardProofs` | proofs about `WebhookRetry`, `InspectionCycle`, `Dashboard` | |
| `RobotText` | how `wps_callback` reads a text: the robot's name, keywords, the node | operators only |
| `NodeOutputs` | `parse_nvidia_smi`, `_parse_df`, `_build_summary`, and which lines `_format_single_node` shows or fails on | operators only |
| `Dashboard` | `POST /api/report`, the robot's callback and the token, beside a cycle that writes statuses and retries; uses `RobotText` and `NodeOutputs` | `requests` (a request's locals and the state of its push), `status` (`node_status`), `queue` and `saved` (reports in `pending_webhooks` as the connection reads them and as committed), `notifier` (type of the running one); `RefuseReport`, `ReportCannotBeShown`, `PushReport`, `CallbackWithoutText`, `CallbackSendsNothing`, `PushCallback`, `Receive`, `Sent`, `ReportFails`, `CallbackFails`, `EnqueueError`, `Record`, `Retry`, `RetryError`, `OtherCommit`, `Crash` |
| `Service` | `main()` with its checks, `reload_config`, graceful stop, crash and restart, around cycles and requests | `phase` (down, up, closing while the server waits for requests, closed after `store.close()`), `file`, `host`, `started`/`holder` (settings), `rows` (triggered alerts), `left` (alerts the cycle has yet to look at), `events` (a committed change in the hands of the cycle), `told` (what was received or queued), `requests`; `Start`, `Reload`, `Stop`, `CloseStore`, `Exit`, `Crash`, `Ask`, `Answered`, `BeginCycle`, `Evaluate`, `Pushed`, `EndCycle`, `Fail`, and the world: `EditFile`, `ChangeHost`, `ChangeReading` |
| `ServiceProofs` | proofs about `Service` | |
| `MCAlerter`, `MCWebhookRetry`, `MCInspectionCycle`, `MCCollector`, `MCDashboard`, `MCService` | values of the constants for TLC | |

`Alerter` implements `AlertLifecycle` (checked, and proved), and `InspectionCycle`
uses a call of `evaluate` only as what `AlertLifecycle` says of it: for a node's alert,
triggers and recoveries in turn.  The k-th event of a node is the message
`<<node, k>>`; odd k are triggers.

Abstractions:

* Readings, thresholds: integers or None; the memory percentage is compared by
  cross-multiplication, so float rounding at the exact threshold is left out.
* Payloads are names.  `enqueue_webhook`'s JSON round trip keeps what `send` uses.
* `next_retry_at` is the time that is left (`wait`).  `Tick` moves all rows; rows
  that are overdue keep their order and not how long they are overdue, which is
  all that `ORDER BY next_retry_at` can see.  So the state is finite with no bound on time.
* A crash and the exception of a store call are separate actions in
  `InspectionCycle`; in `Alerter` and `WebhookRetry` they have the same effect
  and are one (`Abort`, `Fault`).  After an answer and before the write that follows
  only these can come, so answer and write are one step.
* APScheduler runs at most one instance of the job (its default); the model lets
  two coroutines try, which is what the lock is there for.
* `InspectionCycle` takes a collection as one wait that ends; `Collector` shows that it
  does.  The writes of `node_status` and `metrics` are in `Collector`; in
  `InspectionCycle` they are only places where the store may raise.
* In `Collector`, `round` stands for the timestamp of a collection, a part (`gpu`, `system`,
  `network`) for the rows of its category, and time passes only while a session waits:
  the loop's pushes and the retries before it come on top of `elapsed`.  Closing a
  connection takes no time.  Of the outputs only "were there GPUs" is kept.  That no wait is longer
  than its time-out is an assumption about asyncssh: that `timeout` covers all of `run`, the opening of
  the channel included, and `connect_timeout` all of `connect`.
* `db` and `disk`, and in `Dashboard` `queue` and `saved`, model sqlite3's implicit transaction: no
  method rolls back, so what a failed one leaves behind becomes durable with the next commit of
  anyone, or is lost when the process dies.  `Collector` and `Dashboard` model it where it shows: in
  batches of rows and in the answers to callers.  In `Alerter`, `WebhookRetry`, `InspectionCycle` and
  `Service` a statement that raises leaves nothing behind.
* Whether `parse_system` could read its numbers (`flatten_metrics` leaves the part out if not) is left
  open until the batch is written: nothing else depends on it.
* Node names are assumed different; the configuration does not check it.
* `RobotText`: a text is a sequence of words, a word a sequence of pieces (keywords, `@`, what
  is between them), so that a keyword inside a longer word can be told.  The Chinese
  keywords are transcribed.  Lower case only; white space inside a name is left out.
* `NodeOutputs`: lines are sequences of fields, a field is its number or None.  The lines of
  `free`, `top`, `uptime` and `ping` are left out: `_format_single_node` shows them when they
  have enough fields, and guards what could raise (numbers of `top` are taken as well formed).
* `Dashboard` has one request at a time in its run: requests share only `node_status`, which
  they read, and the table, in which each has its own row.  `notifier = "none"` is
  `create_app` without a notifier, as `tests/test_dashboard.py` calls it; `main` never does.
* `Service` has one alert per node (the rows of one call are in `Alerter`), takes a push and
  the enqueue after its failure as one step (`WebhookRetry`, `InspectionCycle` take them
  apart), and leaves the debounce out (`Alerter`).  `host` is one bit for the keys'
  mode and the webhook's URL.  uvicorn is not in this repository: it is modelled by what `main`
  relies on, that `serve` returns when its requests are answered.  Since 0.29 it then
  raises the signal again, which for SIGTERM ends the process before the `finally` block of
  `main`; `requirements.txt` allows both, and so does `Exit`.

## 3. The runs

| Run | Question | Bounds |
|---|---|---|
| `alerter` | Is the state machine of a rule right, in any order of readings, when a node has one GPU and when two GPUs share its rows? Type, `RowsConsistent`, `StandingIsRecorded`, `ReportMatchesTable`, refinement of `AlertLifecycle`; and, for the node with one GPU, `OneGpuDebounced`, `OneGpuBreachStands` | 2 nodes (1 and 2 GPUs), all rules, samples with each reading None, at the limit or above, and memory total 0, `stability_cycles` 2, 3 evaluations of both nodes together: breach, breach, recovery is the longest story of a row, and nodes do not share rows |
| `gpus_count_as_cycles`, `cool_gpu_hides_hot_gpu` | divergences, section 6 | |
| `webhook_retry` | Is the retry queue safe and live, and is the text order of the times theirs? | 3 messages over a limit of 2 (so one is always left behind), `max_retries` 2, delays of 1, 1 fault; the times of the texts are a full second (no fraction is written) and the microsecond after it; messages may come again after they left, without end |
| `cycle_safety` | Does the composition keep its promises under every interleaving? | 2 coroutines, 1 node with a trigger and a recovery (both in one call, or in two), 1 report, 2 versions of the settings with 1 and 2 retries, the second with a notifier that cannot format the first alert, 1 crash or store error |
| `cycle_liveness` | Do cycles end, is every node visited again and again, does every alert settle? | 2 coroutines, 2 nodes with one event each, 2 retries, 1 fault |
| `cycle_unformattable` | divergence, section 6 | |
| `collector` | Does a collection end in time, and do the two tables agree? | 2 nodes, 3 commands (one with no effect on the result, `nvidia-smi`, and the last one), connect time-out 1, command time-out 2, 2 rounds, 1 error or crash |
| `slow_node_skips_round` | divergence, section 6 | the defaults, in units of 10 s: 13 commands, 1, 3 and 30 |
| `dashboard` | Are answers true, texts understood, and messages what the rules judge? | 1 request over 2 nodes (one with a keyword in its name), 9 texts (no address, address only, a keyword, two keywords in a word, known and unknown nodes, a robot with a keyword in its name), 4 outputs (2 GPUs, one without a reading, a line with 8 fields, no driver and a broken `df` line), 3 notifiers, 3 tokens in header and query, 2 crashes or store errors (a failed commit, then the crash that undoes it) |
| `robot_misreads_names` | divergence, section 6 | one keyword before either name, `wps`, no fault |
| `service` | What do starts, reloads, stops and crashes cost, and does the service recover? | 2 alerts, 3 contents of the file (all rules, one switched off, broken) and no file, 2 requests, 4 changes (a reading that goes bad and good again takes 2, and leaves 2 for the file or the host), 2 stops or crashes |

`CHECK_DEADLOCK FALSE` is set for the runs of `Alerter` and `Collector`, which `MaxCycles`
and `MaxRounds` end, and for `service`, where a broken file that nobody repairs keeps the
service down.

One fault is enough to see each commit fall on either side of it (`dashboard` has two, for what a
failed commit left open and a crash then undoes or a later commit keeps); faults are
independent (a restart keeps only the tables) and `PushesBounded` counts them.

### The properties

* `RowsConsistent`: `state` and `breach_cycles` always agree.
* `StandingIsRecorded`: a row is triggered exactly while one more trigger than
  recovery was made.  Together with `NoAlertForgotten` it shows what a crash costs: the
  report may be lost, the record is not, and so the report is not made again.
* `OneGpuDebounced`, `OneGpuBreachStands`: debounce in both directions, of the alerts of nodes with at
  most one GPU.  `TriggeredByDistinctCycles` and `SustainedBreachStands` say it of all alerts, and the
  code does not keep it (section 6).
* `ReportMatchesTable`: the last event a call holds for a rule agrees with the row.
* `SnapshotIsCurrent`: rows read before an await are still what the loop thinks.
* `OnlyReceivedMessagesLeave`, `PushesBounded`, `DeadLettersWereRetried`: at-least-once
  delivery with a bounded number of pushes, exactly one extra per fault.
* `OutboxSpec`, `EveryRowSettles`: the table implements the abstract outbox.  The
  liveness part is what `ORDER BY next_retry_at` is for: taking due rows in any
  order starves one (this is its mutant).
* `OneCycleAtATime`, `LockIsReleased`, `MonitoringGoesOn`, `EveryAlertSettles`.
* `NoAlertForgotten`: each committed alert is received, in the table, in a running
  cycle's hands, or was in the hands of a cycle that ended by force.
* `OvertakenOnlyByRetry`: if a later event of a node was received and an earlier one
  was not, the earlier one is in the table or lost.
* `TextOrderIsTimeOrder`: a row is due, and comes before another, in the texts exactly when it is
  in time, around a full second whose text has no fraction.

* `CollectionBounded`, `CollectionEnds`: connect time-out plus one command time-out per
  command, the maximum over the nodes and not the sum, and it is always reached.
* `NodesInOrder`: statuses of the last round are those of a prefix of the configuration,
  whoever answered first and wherever the cycle stopped.
* `HistoryMatchesStatus`: no row of `metrics` is of a later round than its node's status,
  or of a round in which the status says unreachable.
* `HalfBatchesRaised`: a batch is half there only if its write raised an error.  The rows of the
  network are the last of each batch, so a batch without them is half there.

* `AnswersTellTheTruth`: "sent" was received; "queued" is in the table, and committed, until it is
  received; a refusal, or a 500 before the push began, left nothing anywhere.  A 500 after the
  push began promises nothing (section 6).
* `PlainFormsUnderstood`: a keyword alone is about all nodes, a keyword and a name about that node,
  unless the name holds a keyword that stands earlier in the list of the code.  Without that
  condition it is `DocumentedFormsUnderstood`, which `robot_misreads_names` refutes.
* `QueuedCanBeFormatted`: outputs the formatter fails on never get into the table of the notifier
  that failed.
* `MessageShowsWhatIsJudged`: a message that can be formatted shows the GPUs and the disk usage
  that the parsers found; the summary's average is within the readings if all GPUs
  have one.
* `StoreServesRequests`, `ReceiverAgreesWithTable`, `AlertsEnd`, `ServiceComesBack`: section 1.
  `AlertsEnd` says that if cycles are completed again and again, no alert that the *running*
  settings watch stands for ever on a good reading.  It promises nothing of cycles that never reach
  their end (`cycle_unformattable`), nor of alerts that nobody watches any more (section 6).

### Fairness

Weak fairness of `Tick` (time passes), of starting a cycle (the interval job fires again
and again), and of the steps of a running one: each push ends by its answer or the
10 s time-out of the client, each SSH call by its own, and code between two awaits just
runs.  Nothing is assumed of the outcome of a push: it may fail every time.
`Collector` assumes only that time passes, that time-outs fire and that the gather
returns when all sessions are done; a session need not get any answer.
`Service` assumes that systemd starts what can be started (`Restart=always`), that requests are
answered, and that a server that has returned goes on to close the store and to exit.  It assumes
nothing of cycles: each may fail, for ever, and `AlertsEnd` has the completed ones as its
premise.  Edits, stops and crashes have no fairness.
Faults are bounded, since a service that crashes in every cycle promises nothing.

## 4. The proofs

Every theorem is of the form `Spec => []Inv` (or `Spec => AbstractSpec`) and holds for all values of
the constants that the module's named assumption allows: any number of nodes, messages,
requests, coroutines, rounds, errors and crashes, and all settings.  The bounds of the runs
(`MaxFaults`, `MaxRounds`, `MaxEvents`, ...) are constants like the others: any number.

The assumptions say what the constants are (types, an order of the nodes without
repetition), that the marker `None` is not one of the values it stands beside, and in
`InspectionCycle` that `DequeueLimit` is not 0 (the cycle asks for 10 rows) and that the names of
reports are finite in number (a table has finitely many rows; reports that left may be made
again in `WebhookRetry`, so the number there says nothing about the life of the service).
`Dashboard` assumes of the outputs that the first percentage in a line of `df -h /` is its fifth
word (`DfColumns`), as the columns of that command have it; `WebhookRetry` assumes of `Instants` only
that they are integers.

No theorem has a hypothesis of its own.  Where the code keeps a promise only for some alerts or
texts, the property says for which (`OneGpuAlerts`, `Unmistakable`), and a run shows that it fails
for the others.

### Alerter (`AlerterProofs`)

* `TypeCorrect`, `RowsAreConsistent`, `StandingRecorded`, `ImplementsLifecycle`: `TypeOK`,
  `RowsConsistent`, `StandingIsRecorded` and the refinement of `AlertLifecycle`.  Only `Check` writes the
  table and the counters (`OnlyCheckWrites`), and its effect on one alert is one application of
  `StateAfter`, `CyclesAfter`, `Triggers` and `Recovers` (`CheckEffect`).  With `TypeOK` each
  invariant is inductive as it stands.  The refinement needs `StandingIsRecorded`: a row that
  is not triggered has as many recoveries as triggers, which is the guard of
  `AlertLifecycle!Trigger`.
* `ReportsMatchTable`: `ReportMatchesTable`, for any number of GPUs on one row.
* `SustainedBreachIsCaught` and `DebounceCountsCycles`: `OneGpuBreachStands` and `OneGpuDebounced`, for the
  alerts of nodes with at most one GPU (`OneGpuAlerts`), whatever the nodes beside them have.
  The runs `cool_gpu_hides_hot_gpu` and `gpus_count_as_cycles` refute both for a node with two.  A
  call is about a sample that the node can have (`GpusFit`), so no two of its checks are about the
  same rule (`OneCheckPerRule`).  The invariants speak of the middle of a call:
  `StreakCounted` (the row has counted the streak, and one cycle more once its check in the
  running call was made) and `HotCounted` (the row has counted no cycle twice, since while
  its check is to come the running cycle is not among those counted).

### Webhook queue (`WebhookTableProofs`, `WebhookRetryProofs`)

* `DueInTime`, `BeforeInTime`: for all times in UTC the comparison of the texts is the comparison of
  the times.  The first place where two texts differ decides (`FirstDifference`), and it is the
  second, the character after it (`+` before `.`), or the fraction.
* `TypesKept`, `SnapshotStaysCurrent`: `TypeOK`, `SnapshotIsCurrent`.  A snapshot is a sorted sequence of
  different pending rows; only the loop changes a row that is there.
* `NothingForgotten`: `OnlyReceivedMessagesLeave`.  `PushIsForFirst` adds that an answer that is in is one
  to the message whose row `Succeed` deletes.
* `NoFlood`, `NoEarlyDeadLetter`: `PushesBounded`, `DeadLettersWereRetried`.  Neither is inductive: they speak of
  pushes, which no action looks at.  `PushesCounted` relates them to the table: a pending row's
  attempts are its retries, short of those whose outcome a fault hid, plus the one in
  flight (`UnderWay`), and stay below the number granted.
* `ImplementsOutbox`: `OutboxSpec`, the safety part; that nothing is owed for ever is left to TLC.
* `TextsTellTheTime`: `TextOrderIsTimeOrder`, for any set of instants.  A time is the second, counted
  from any day, and the microsecond (`AtIs`, `AtInOrder`: dividing by a million keeps the order); the
  rest is `DueInTime`.

### Inspection cycle (`InspectionCycleProofs`)

* `TypesKept`: `TypeOK`, and `JobsWellFormed`: what a coroutine holds (rows to retry, nodes, events, a
  push) fits the place in `run_inspection_cycle` where it waits.  All later proofs use it:
  each action moves one coroutine to a place with known locals (`MovesTo`).
* `LockKeepsCyclesApart`: `OneCycleAtATime`.  Every step begins a cycle, goes on in it, ends it, is a
  crash or is outside (`StepKinds`); beginning needs the lock to be free and each way to end,
  with an error or without, releases it.
* `SnapshotStaysCurrent`: `SnapshotIsCurrent`, with `TicketsDiffer` (no row is read twice) and
  `ReportsQueuedOnce`: what the dashboard enqueues meanwhile is not in the table yet, so not in
  the snapshot.
* `NoAlertIsForgotten`: `NoAlertForgotten`.  The invariants above and `ReceivedIsKnown` (an answer that is in means
  that the receiver has the message) make it inductive.  Each step is one of six kinds for
  the alerts (`AlertKinds`): none moves, an evaluation makes some, one arrives, the loop goes on
  to the next one (the last is received or queued), a row of one that arrived is deleted, or
  cycles end by force and lose what they hold.
* `OnlyRetriesOvertake`: `OvertakenOnlyByRetry`, from `OrderInv`: nothing is held, queued or received that
  was not made, events in hand stand in their order, and while one is in hand the receiver
  has no later one of its node.
* `ImplementsOutbox`: the whole cycle, with its coroutines, its reloads, the reports and the crashes,
  implements `Outbox` too.  A message is settled, owed or dead as its row is absent, pending or
  dead (`DebtOf`), so a row is deleted only when the receiver has its message and marked dead only
  while it is owed.  The steps that push an alert for the first time receive a message that is
  settled; for these the proof needs `HeldIsNotQueued`: no alert in a cycle's hands is in the table,
  so a failed push adds a row and overwrites none.  This ties the retry phase of
  `InspectionCycle` to `WebhookRetry`: both are the same abstract queue, and what its reader may rely
  on does not depend on the cycle around the loop.  It is a theorem only; no run checks it.

### Collector (`CollectorProofs`, `CollectorHistoryProofs`)

* `CollectionInTime`: `CollectionBounded`.  The bound is not inductive: at the
  moment a command begins nothing in it says how much of the time is used.  `TimeInv` adds
  the account of each waiting session: `elapsed` is at most the limits of its earlier
  waits (`Before`) plus the time of the current one, which is below its limit.  A tick
  needs a session that still waits, and its account bounds everyone's time.
* `StatusesStayInOrder`, `HistoryAndStatusAgree`: `NodesInOrder`, `HistoryMatchesStatus`.
  `HistoryInv` relates each view of the database to what is left of the results: they are a
  suffix of the configuration, the statuses before them are of this round and the
  others are older (`Written`), and results that are not reachable have no GPUs.  Each
  statement keeps a view sound (`NextStatus`, `RowsChange`); a commit makes both views equal,
  an error changes only `db`, and a crash goes back to `disk`, which is sound too.
* `TypesKept`: `TypeOK`, from `HistoryInv` and the bounds of the counters (`CountersInv`).
* `BatchesStayWhole`: `HalfBatchesRaised`.  In both views a batch that is not counted as broken has its
  last part (`BatchesInv`): the insert of a whole batch adds it if the node is reachable and, since
  `HistoryInv` says that there are no GPUs then, adds nothing if it is not; a clean-up decides by node
  and round, so never inside a batch.

### Dashboard (`DashboardProofs`)

`TypesKept` (`TypeOK`), `TheAnswerIsTrue` (`AnswersTellTheTruth`), `RobotUnderstands` (`PlainFormsUnderstood`),
`NothingPoisonsTheQueue` (`QueuedCanBeFormatted`), for any number of requests at a time, where the run has
one.  `Inv` says of each request that what it has done fits the place where it is
(`Progress`): a push is only under way for a payload its notifier could format, and one that is
received is with the receiver; and that a copy in either view of the table is of a request that was
answered "queued" or 500 and can be formatted, one at the receiver of a request that was not refused
(`CopiesAccounted`).  A failed commit breaks neither: it adds a copy of such a request to the open
transaction, and takes none from the committed table.  Each action is one of four kinds of turns of
one request (answered at once, starts its push, received, ends with a code).
Of `RobotText` the proof shows what it makes of the documented forms: the keyword found is the one
that was written, since no earlier one is in the text (`KeywordFound`), what follows it is the name
(`AfterKeyword`), and that name is matched by one node only.

`ReadersAgree` (`MessageShowsWhatIsJudged`), for outputs of any number of lines and fields.  What is found
and what is shown are sets of line numbers, and where no line has 8 fields the two sets are equal
(`SameGpus`); the percentage of `df` is in a line that is shown (`SameDisk`); the average is between the
lowest and the highest reading (`AverageAllowed`).  The last is about a sum over a set, which
`MapThenSumSet` defines by a recursive function.  Of such a function only its equation is
known, and only if some function satisfies it: `SumExists` shows that by induction on the size of the
set, `MeanIsBetween` the bounds in the same way.  The induction itself (`Induction`) is stated for
sets of numbers, not for predicates, and follows from `<` being well founded on the naturals.

### Service (`ServiceProofs`)

`TypesKept` (`TypeOK`, and with it that the running settings are always ones `load_config` accepted),
`RequestsHaveAStore` (`StoreServesRequests`) and `ReceiverAgrees` (`ReceiverAgreesWithTable`).  Each is inductive: a
request comes only while the server is up, and the store is closed only when none is left;
a change enters the table and the hands of the cycle in one step and leaves them for the
receiver, the queue or the lost ones.

### Left to TLC

* Liveness under fairness: `EveryRowSettles`, `LockIsReleased`, `MonitoringGoesOn`, `EveryAlertSettles`,
  `CollectionEnds`, `AlertsEnd`, `ServiceComesBack`.  Fairness speaks of `ENABLED`, which the provers
  do not handle.  `CollectionInTime` is the safety half of `CollectionEnds`.

Every invariant and every safety property of an action that a passing run checks is proved.

## 5. Not modelled

* The wording and layout of messages and pages, and the lines of `free`, `top`, `uptime` and
  `ping` in them; `_parse_free`, `_parse_cpu` and `parse_ping`, whose results no rule judges.
* The pages and queries of the dashboard that only read; `/health`; the verification of the
  callback's URL.  They change no state.
* SSH itself, uvicorn and APScheduler beyond what the code relies on; a second SIGINT,
  after which uvicorn drops its requests.
* `_send_periodic_report`, which nothing calls; install scripts and the page template.

## 6. Where code and documents disagree

With a run each:

* `gpus_count_as_cycles`: two hot GPUs trigger in one cycle with `stability_cycles: 2`.
* `cool_gpu_hides_hot_gpu`: a cool GPU after a hot one resets the shared row in every
  cycle; the alert never stands.
* `cycle_unformattable`: a queued message that the notifier cannot format (after a change
  of `notifications.type` and a restart) ends every cycle before it collects anything.
* `slow_node_skips_round`: with the defaults one node that answers each command just in
  time keeps the collection running for up to 400 s, past the interval of 300 s; the
  round that is due is skipped for all nodes.

* `robot_misreads_names`: "hello machine-02" is cut at the `hi` inside the name, which the code looks for
  before `hello`; the robot answers that there is no node "ne-02".

Seen while modelling, without a run:

* Breaches before and after an unreachable cycle add up: `evaluate` returns early and leaves
  the counters as they are.  The README says "连续 N 个周期".
* A reload reaches `max_retries`, `retry_interval_seconds` and `retain_days` only; every other
  part keeps the settings of the start, while the design says that the next collection uses the
  new ones.  The unit has no `ExecReload`, and the design's logrotate uses `systemctl reload`.
* An alert whose rule is switched off, or whose node is removed, stays in `/api/alerts` (the
  "active" alerts) for ever.
* "@机器人 巡检报告" is answered with "节点未找到": the first keyword is 巡检 and 报告 is taken for a
  node.  README.md:493 says that a message with a keyword triggers a report.
* A callback whose body is no object, or whose content is no text, is answered with 500; the
  comment at dashboard.py:212 says that WPS needs `{"result":"ok"}`.
* A push of the callback that fails is neither reported nor queued.
* A GPU line of 8 fields is left out by the parser and makes `_format_single_node` raise.  One such
  line of one node silences the messages about all nodes (notifier.py:94-97): the report gets
  500, the robot says nothing, as long as the node answers so.
* A report that is answered with 500 may be sent all the same: if the push fails and then the commit
  of `enqueue_webhook` (store.py:161-165), the row stays in the open transaction, where the next
  retry finds it and the next commit of anyone makes it durable.
* The heading of `df` is shown as a disk ("Use%").
* `_parse_df` takes the first percentage of a line, the message the fifth word: they differ when
  the name of the file system has a `%` after a digit.
* The average temperature of the summary counts a GPU without a reading as 0.
* A stop or restart during a push loses that alert, although its row is committed, so it is
  not made again.
* `triggered_at` is written in every triggered cycle; the design's table calls it the
  time of the first trigger.
* Retries wait a constant `retry_interval_seconds`; the README promises exponential
  backoff.  The first retry waits 60 s whatever is configured.
* With `max_retries: 0` one retry is still made.
* `attempts` starts at 0; the design says 1.
* `NodeMetrics.error`, with the messages of failed commands, is written and never read.
  A failed `ping` is not in it.
* F4 of the design (a report every 5 minutes) is not done; a comment in the cycle says so.

## 7. Plan

1. *(done)* Alerter, retry queue, cycle, collector with the tables it fills, dashboard, robot,
   parsers as far as rules judge them, and the life of the service.
2. *(done)* Proofs of all safety properties the passing runs check, of both abstract
   specifications, and that the cycle implements `Outbox` as the retry queue does.
3. Open: that a session of `Collector` is what `InspectionCycle` takes as one wait, and that the rows
   of `Service` are those of `Alerter` (each uses the other's promise as an abstraction).
