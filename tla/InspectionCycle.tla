---------------------------- MODULE InspectionCycle ----------------------------
(***************************************************************************)
(* run_inspection_cycle of inspector/scheduler.py together with everything   *)
(* it shares state with: the alerter, the pending_webhooks table, the        *)
(* settings that SIGHUP reloads, and POST /api/report of the dashboard.      *)
(*                                                                           *)
(* All of it runs on one event loop.  A coroutine gives way to the others    *)
(* only while it waits for the webhook's answer or for the nodes' SSH        *)
(* output; what it does between two such waits is one step, except that a    *)
(* crash, or an exception of the store, can end it after any commit.  Jobs   *)
(* are the coroutines of the interval job; the lock _is_collecting is what   *)
(* keeps them apart.                                                         *)
(*                                                                           *)
(* The alerter is used through AlertLifecycle, which Alerter implements: a   *)
(* call of evaluate reports, for the node's alert, a trigger and a recovery  *)
(* in turn.  The k-th event of a node is the message <<node, k>>.            *)
(***************************************************************************)
EXTENDS Integers, Sequences, FiniteSets

CONSTANTS
  NodeOrder,      \* the configured nodes, in the order of the configuration
  Jobs,           \* coroutines that may run the cycle
  Reports,        \* reports asked for through POST /api/report
  Versions,       \* bound: versions of config.yaml, in the order of the edits
  MaxRetriesOf,   \* notifications.max_retries in each version
  UnformattableBy,\* messages the notifier of each version cannot format
  DequeueLimit,
  EnqueueDelay,
  RetryInterval,
  MaxEvents,      \* bound: events per node
  EventsPerCall,  \* bound: events of one call of evaluate
  MaxFaults       \* bound: crashes and errors of the store

Nodes == {NodeOrder[i] : i \in DOMAIN NodeOrder}

Alerts == Nodes \X (1 .. MaxEvents)

Messages == Alerts \cup Reports

Webhooks == INSTANCE WebhookTable WITH Ids <- Messages

ASSUME CycleAssumption ==
  /\ NodeOrder \in Seq(Nodes)
  /\ \A i, j \in DOMAIN NodeOrder : NodeOrder[i] = NodeOrder[j] => i = j
  /\ Alerts \cap Reports = {}
  /\ UnformattableBy \in [Versions -> SUBSET Messages]
  /\ 1 \in Versions /\ Versions \subseteq Nat
  /\ MaxRetriesOf \in [Versions -> Nat]
  /\ IsFiniteSet(Reports)
  /\ DequeueLimit \in Nat \ {0}
  /\ {EnqueueDelay, RetryInterval, MaxEvents, EventsPerCall, MaxFaults} \subseteq Nat

VARIABLES
  table,          \* pending_webhooks; survives a crash
  made,           \* per node, the events its alert has made: the persisted
                  \* state of the alert is triggered iff this is odd
  jobs,           \* the coroutines
  isCollecting,   \* _is_collecting
  file,           \* config.yaml
  holder,         \* the settings in the SettingsHolder
  started,        \* the settings the collector, the alerter and the notifier
                  \* were created with
  reports,        \* the requests of the dashboard
  faults,
  (* History, read by no action. *)
  got,            \* messages the receiver has
  lost            \* alerts a coroutine held when it ended by force

settings == <<file, holder, started>>
vars == <<table, made, jobs, isCollecting, settings, reports, faults, got, lost>>

Ticket == [id : Messages, attempts : Nat]

Pushing == {"none", "sent", "received"}

\* todo, nodes and events are what is left of the three loops of the cycle;
\* push is the state of the push of the first message of todo or events.
Job == [at : {"idle", "retry", "collect", "nodes"}, cfg : Versions, todo : Seq(Ticket),
        nodes : Seq(Nodes), events : Seq(Alerts), push : Pushing]

Idle(cfg) == [at |-> "idle", cfg |-> cfg, todo |-> <<>>, nodes |-> <<>>,
              events |-> <<>>, push |-> "none"]

\* The table, the alerts' counters, every coroutine's locals and the requests
\* keep their types.
TypeOK ==
  /\ table \in [Messages -> Webhooks!Entry]
  /\ made \in [Nodes -> 0 .. MaxEvents]
  /\ jobs \in [Jobs -> Job]
  /\ isCollecting \in BOOLEAN
  /\ {file, holder, started} \subseteq Versions
  /\ reports \in [Reports -> {"new", "sent", "received", "done"}]
  /\ faults \in 0 .. MaxFaults
  /\ got \subseteq Messages
  /\ lost \subseteq Alerts

Init ==
  /\ table = [m \in Messages |-> Webhooks!NoEntry]
  /\ made = [n \in Nodes |-> 0]
  /\ file = 1
  /\ holder = file
  /\ started = file
  /\ jobs = [j \in Jobs |-> Idle(file)]
  /\ isCollecting = FALSE
  /\ reports = [r \in Reports |-> "new"]
  /\ faults = 0
  /\ got = {}
  /\ lost = {}

-----------------------------------------------------------------------------
(* The cycle. *)

Running(j) == jobs[j].at # "idle"

\* Variants with a bug, each put in the place of its original by a mutation run.
BeginWithoutLock(j) ==
  /\ ~Running(j)
  /\ isCollecting' = TRUE
  /\ \E todo \in Webhooks!DequeuePendingWebhooks(table) :
       jobs' = [jobs EXCEPT ![j] = [Idle(holder) EXCEPT !.at = "retry", !.todo = todo]]
  /\ UNCHANGED <<table, made, settings, reports, faults, got, lost>>

EventsOfCountedFromZero(n, k) == [i \in 1 .. k |-> <<n, made[n] + i - 1>>]

EventsOfReversed(n, k) == [i \in 1 .. k |-> <<n, made[n] + k + 1 - i>>]

EventFailsSilently(j) ==
  /\ jobs[j].at = "nodes"
  /\ jobs[j].push # "none"
  /\ jobs' = [jobs EXCEPT ![j].events = Tail(@), ![j].push = "none"]
  /\ UNCHANGED <<table, made, isCollecting, settings, reports, faults, got, lost>>

\* An except block that returns before the lock is given back.
ReleaseForgotten(j) ==
  /\ jobs' = [jobs EXCEPT ![j] = Idle(@.cfg)]
  /\ UNCHANGED isCollecting

CollectAllHangs(j) ==
  /\ jobs[j].at = "retry"
  /\ jobs[j].todo = <<>>
  /\ UNCHANGED vars

-----------------------------------------------------------------------------

\* The interval job fires; a job that finds the lock taken does nothing.
Begin(j) ==
  /\ ~Running(j)
  /\ ~isCollecting
  /\ isCollecting' = TRUE
  /\ \E todo \in Webhooks!DequeuePendingWebhooks(table) :
       jobs' = [jobs EXCEPT ![j] = [Idle(holder) EXCEPT !.at = "retry", !.todo = todo]]
  /\ UNCHANGED <<table, made, settings, reports, faults, got, lost>>

\* The messages the coroutine still has to push, the one to push now first.
InHand(j) ==
  IF jobs[j].at = "retry" THEN [i \in DOMAIN jobs[j].todo |-> jobs[j].todo[i].id]
  ELSE jobs[j].events

\* The notifier is the one the process was started with; its formatter raises
\* on some messages, and it is outside the try block of send.
FormatRaises(m) == m \in UnformattableBy[started]

Post(j) ==
  /\ InHand(j) # <<>>
  /\ jobs[j].push = "none"
  /\ ~FormatRaises(Head(InHand(j)))
  /\ jobs' = [jobs EXCEPT ![j].push = "sent"]
  /\ UNCHANGED <<table, made, isCollecting, settings, reports, faults, got, lost>>

Receive(j) ==
  /\ jobs[j].push = "sent"
  /\ jobs' = [jobs EXCEPT ![j].push = "received"]
  /\ got' = got \cup {Head(InHand(j))}
  /\ UNCHANGED <<table, made, isCollecting, settings, reports, faults, lost>>

\* The loop of _retry_pending_webhooks goes on to its next row.
NextTicket(j) == jobs' = [jobs EXCEPT ![j].todo = Tail(@), ![j].push = "none"]

RetrySucceeds(j) ==
  /\ jobs[j].at = "retry"
  /\ jobs[j].push = "received"
  /\ table' = Webhooks!DeleteWebhook(table, Head(InHand(j)))
  /\ NextTicket(j)
  /\ UNCHANGED <<made, isCollecting, settings, reports, faults, got, lost>>

RetryFails(j) ==
  /\ jobs[j].at = "retry"
  /\ jobs[j].push # "none"
  /\ table' = Webhooks!AfterFailedRetry(table, Head(InHand(j)), Head(jobs[j].todo).attempts,
                                        MaxRetriesOf[jobs[j].cfg])
  /\ NextTicket(j)
  /\ UNCHANGED <<made, isCollecting, settings, reports, faults, got, lost>>

CollectAll(j) ==
  /\ jobs[j].at = "retry"
  /\ jobs[j].todo = <<>>
  /\ jobs' = [jobs EXCEPT ![j].at = "collect"]
  /\ UNCHANGED <<table, made, isCollecting, settings, reports, faults, got, lost>>

\* The gather returns one result per node, in the order of the configuration.
Collected(j) ==
  /\ jobs[j].at = "collect"
  /\ jobs' = [jobs EXCEPT ![j].at = "nodes", ![j].nodes = NodeOrder]
  /\ UNCHANGED <<table, made, isCollecting, settings, reports, faults, got, lost>>

EventsOf(n, k) == [i \in 1 .. k |-> <<n, made[n] + i>>]

\* evaluate commits the next k changes of the alert of the first node.
Commit(j, k) ==
  /\ jobs[j].at = "nodes"
  /\ jobs[j].events = <<>>
  /\ jobs[j].nodes # <<>>
  /\ LET n == Head(jobs[j].nodes) IN
     /\ made[n] + k <= MaxEvents
     /\ made' = [made EXCEPT ![n] = @ + k]

Evaluate(j) ==
  \E k \in 0 .. EventsPerCall :
    /\ Commit(j, k)
    /\ jobs' = [jobs EXCEPT ![j].nodes = Tail(@),
                            ![j].events = EventsOf(Head(jobs[j].nodes), k)]
    /\ UNCHANGED <<table, isCollecting, settings, reports, faults, got, lost>>

NextEvent(j) == jobs' = [jobs EXCEPT ![j].events = Tail(@), ![j].push = "none"]

EventSent(j) ==
  /\ jobs[j].at = "nodes"
  /\ jobs[j].push = "received"
  /\ NextEvent(j)
  /\ UNCHANGED <<table, made, isCollecting, settings, reports, faults, got, lost>>

EventFails(j) ==
  /\ jobs[j].at = "nodes"
  /\ jobs[j].push # "none"
  /\ table' = Webhooks!EnqueueWebhook(table, Head(InHand(j)))
  /\ NextEvent(j)
  /\ UNCHANGED <<made, isCollecting, settings, reports, faults, got, lost>>

\* The finally block.
Release(j) ==
  /\ isCollecting' = FALSE
  /\ jobs' = [jobs EXCEPT ![j] = Idle(@.cfg)]

CleanUp(j) ==
  /\ jobs[j].at = "nodes"
  /\ jobs[j].nodes = <<>>
  /\ jobs[j].events = <<>>
  /\ Release(j)
  /\ UNCHANGED <<table, made, settings, reports, faults, got, lost>>

\* The alerts that job j has made and not yet pushed or enqueued.
Held(j) == {jobs[j].events[i] : i \in DOMAIN jobs[j].events}

\* An exception: it ends the cycle, and with it everything the cycle held.
FormatError(j) ==
  /\ InHand(j) # <<>>
  /\ jobs[j].push = "none"
  /\ FormatRaises(Head(InHand(j)))
  /\ Release(j)
  /\ lost' = lost \cup Held(j)
  /\ UNCHANGED <<table, made, settings, reports, faults, got>>

StoreError(j) ==
  /\ Running(j)
  /\ jobs[j].at # "collect"
  /\ faults < MaxFaults
  /\ faults' = faults + 1
  /\ Release(j)
  /\ \/ lost' = lost \cup Held(j) /\ UNCHANGED made
     \/ \E k \in 1 .. EventsPerCall :   \* evaluate raises after k changes
          /\ Commit(j, k)
          /\ lost' = lost \cup {<<Head(jobs[j].nodes), made[Head(jobs[j].nodes)] + i>> : i \in 1 .. k}
  /\ UNCHANGED <<table, settings, reports, got>>

-----------------------------------------------------------------------------
(* The rest of the process. *)

\* systemd starts the service again; the module-level lock starts as False.
Crash ==
  /\ faults < MaxFaults
  /\ faults' = faults + 1
  /\ jobs' = [j \in Jobs |-> Idle(file)]
  /\ isCollecting' = FALSE
  /\ holder' = file
  /\ started' = file
  /\ reports' = [r \in Reports |-> IF reports[r] = "new" THEN "new" ELSE "done"]
  /\ lost' = lost \cup UNION {Held(j) : j \in Jobs}
  /\ UNCHANGED <<table, made, file, got>>

EditFile ==
  /\ file + 1 \in Versions
  /\ file' = file + 1
  /\ UNCHANGED <<table, made, jobs, isCollecting, holder, started, reports, faults, got, lost>>

\* SIGHUP: only the settings holder is given the new settings.
ReloadConfig ==
  /\ holder # file
  /\ holder' = file
  /\ UNCHANGED <<table, made, jobs, isCollecting, file, started, reports, faults, got, lost>>

ReportPost(r) ==
  /\ reports[r] = "new"
  /\ reports' = [reports EXCEPT ![r] = IF FormatRaises(r) THEN "done" ELSE "sent"]
  /\ UNCHANGED <<table, made, jobs, isCollecting, settings, faults, got, lost>>

ReportReceive(r) ==
  /\ reports[r] = "sent"
  /\ reports' = [reports EXCEPT ![r] = "received"]
  /\ got' = got \cup {r}
  /\ UNCHANGED <<table, made, jobs, isCollecting, settings, faults, lost>>

ReportSent(r) ==
  /\ reports[r] = "received"
  /\ reports' = [reports EXCEPT ![r] = "done"]
  /\ UNCHANGED <<table, made, jobs, isCollecting, settings, faults, got, lost>>

ReportFails(r) ==
  /\ reports[r] \in {"sent", "received"}
  /\ reports' = [reports EXCEPT ![r] = "done"]
  /\ table' = Webhooks!EnqueueWebhook(table, r)
  /\ UNCHANGED <<made, jobs, isCollecting, settings, faults, got, lost>>

Tick ==
  /\ table' = Webhooks!Older(table)
  /\ UNCHANGED <<made, jobs, isCollecting, settings, reports, faults, got, lost>>

\* A step of a running cycle that is not an error.
Step(j) ==
  \/ Post(j)
  \/ Receive(j)
  \/ RetrySucceeds(j)
  \/ RetryFails(j)
  \/ CollectAll(j)
  \/ Collected(j)
  \/ Evaluate(j)
  \/ EventSent(j)
  \/ EventFails(j)
  \/ CleanUp(j)

Next ==
  \/ \E j \in Jobs : Begin(j) \/ Step(j) \/ FormatError(j) \/ StoreError(j)
  \/ Crash
  \/ EditFile
  \/ ReloadConfig
  \/ \E r \in Reports : ReportPost(r) \/ ReportReceive(r) \/ ReportSent(r) \/ ReportFails(r)
  \/ Tick

Spec == Init /\ [][Next]_vars

\* Time passes and the interval job fires; a push and an SSH collection end,
\* at the latest when their time-outs do, and the code after them runs.
Fairness ==
  /\ WF_vars(Tick)
  /\ WF_vars(\E j \in Jobs : Begin(j))
  /\ \A j \in Jobs : WF_vars(Step(j)) /\ WF_vars(FormatError(j))

FairSpec == Spec /\ Fairness

-----------------------------------------------------------------------------
(* Properties. *)

\* The lock keeps the cycles apart and is never left behind: it is taken
\* exactly while one coroutine is in the cycle, however the last cycle ended.
OneCycleAtATime ==
  /\ isCollecting <=> \E j \in Jobs : Running(j)
  /\ \A i, j \in Jobs : Running(i) /\ Running(j) => i = j

\* What the retry loop read from the table before its first push still holds
\* when it comes to a row, although reports are enqueued and the settings are
\* reloaded while it waits.
SnapshotIsCurrent ==
  \A j \in Jobs :
    \A i \in DOMAIN jobs[j].todo :
      LET t == jobs[j].todo[i] IN
      Webhooks!IsPending(table, t.id) /\ table[t.id].attempts = t.attempts

\* No alert is forgotten: an alert whose change of state was committed is with
\* the receiver, in the table, still held by a running cycle, or was held by a
\* cycle that an exception or a crash ended.
NoAlertForgotten ==
  \A n \in Nodes : \A k \in 1 .. made[n] :
    \/ <<n, k>> \in got \cup lost
    \/ Webhooks!InTable(table, <<n, k>>)
    \/ \E j \in Jobs : <<n, k>> \in Held(j)

\* The receiver learns of a node's changes in their order, save those whose
\* push failed: a change that a later one overtook is in the table or lost.
OvertakenOnlyByRetry ==
  \A n \in Nodes : \A k, l \in 1 .. MaxEvents :
    k < l /\ <<n, l>> \in got /\ <<n, k>> \notin got =>
      Webhooks!InTable(table, <<n, k>>) \/ <<n, k>> \in lost

\* Every cycle ends and gives the lock back.
LockIsReleased == isCollecting ~> ~isCollecting

\* The monitoring never stops: every node's turn comes again and again,
\* wherever in the configuration it stands.
MonitoringGoesOn ==
  \A n \in Nodes :
    []<>(\E j \in Jobs : jobs[j].nodes # <<>> /\ Head(jobs[j].nodes) = n)

\* Every alert that is made reaches the receiver, or a person finds it as a
\* dead letter, unless the cycle that held it ended by force.
EveryAlertSettles ==
  \A a \in Alerts :
    made[a[1]] >= a[2] ~> a \in got \cup lost \/ table[a].status = "dead"

=============================================================================
