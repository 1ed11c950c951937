------------------------------- MODULE Collector -------------------------------
(***************************************************************************)
(* Collector.collect_all of inspector/collector.py, and the part of          *)
(* run_inspection_cycle that records what it returns in the tables           *)
(* node_status and metrics.                                                  *)
(*                                                                           *)
(* One session per node runs in a gather: it connects, runs the commands one *)
(* by one, each under its own time-out, and turns every exception into an    *)
(* unreachable node.  Time passes in whole units, and only while a session   *)
(* waits: the code between two waits takes none.                             *)
(*                                                                           *)
(* The database is seen through one connection.  db is what that connection  *)
(* reads, disk is what a restart finds: a statement changes db, a commit     *)
(* makes disk equal to db, and a statement that fails half way, or a commit  *)
(* that fails, leaves the transaction open for the next commit of anyone.    *)
(***************************************************************************)
EXTENDS Integers, Sequences

CONSTANTS
  NodeOrder,        \* the configured nodes, in the order of the configuration
  Commands,         \* the commands of a session, in their order
  ConnectTimeout,   \* ssh.connect_timeout
  CommandTimeout,   \* ssh.command_timeout
  Interval,         \* schedule.interval_minutes, in the same unit
  MaxRounds,        \* bound: rounds
  MaxFaults         \* bound: errors of the database and crashes

Nodes == {NodeOrder[i] : i \in DOMAIN NodeOrder}

ASSUME CollectorAssumption ==
  /\ NodeOrder \in Seq(Nodes)
  /\ \A i, j \in DOMAIN NodeOrder : NodeOrder[i] = NodeOrder[j] => i = j
  /\ Commands \in Seq(STRING) /\ Commands # <<>>
  /\ {ConnectTimeout, CommandTimeout, Interval, MaxRounds, MaxFaults} \subseteq Nat

VARIABLES
  phase,      \* where the inspection cycle is
  round,      \* the clock of the timestamps: the number of the last round
  elapsed,    \* time since collect_all began
  sessions,   \* the coroutines of the gather
  results,    \* metrics_list, what is left of it
  db, disk,
  faults,
  broken      \* history: batches whose write raised, as <<node, round>>

vars == <<phase, round, elapsed, sessions, results, db, disk, faults, broken>>

Session == [at : {"connecting", "running", "done"}, step : 1 .. Len(Commands),
            spent : Nat, gpus : BOOLEAN, reachable : BOOLEAN]

\* round is the timestamp, taken when collect_node begins; gpus says whether
\* parse_nvidia_smi found any.
NodeMetrics == [node : Nodes, round : Nat, reachable : BOOLEAN, gpus : BOOLEAN]

Part == {"gpu", "system", "network"}

Row == [node : Nodes, round : Nat, part : Part]

Database == [status : [Nodes -> [round : Nat, reachable : BOOLEAN]], rows : SUBSET Row]

\* The coroutines, the results and both views of the database keep their types.
TypeOK ==
  /\ phase \in {"idle", "collect", "status", "metrics"}
  /\ round \in 0 .. MaxRounds
  /\ elapsed \in Nat
  /\ sessions \in [Nodes -> Session]
  /\ results \in Seq(NodeMetrics)
  /\ db \in Database
  /\ disk \in Database
  /\ faults \in 0 .. MaxFaults
  /\ broken \subseteq Nodes \X (1 .. MaxRounds)

Unreachable == [at |-> "done", step |-> 1, spent |-> 0, gpus |-> FALSE, reachable |-> FALSE]

Connecting == [Unreachable EXCEPT !.at = "connecting"]

Init ==
  /\ phase = "idle"
  /\ round = 0
  /\ elapsed = 0
  /\ sessions = [n \in Nodes |-> Unreachable]
  /\ results = <<>>
  /\ db = [status |-> [n \in Nodes |-> [round |-> 0, reachable |-> FALSE]], rows |-> {}]
  /\ disk = db
  /\ faults = 0
  /\ broken = {}

-----------------------------------------------------------------------------
(* collect_all *)

cycle == <<phase, results>>
tables == <<db, disk, broken>>

\* The round begins; a node whose key file is missing or has the wrong mode
\* is unreachable at once.
Begin ==
  /\ phase = "idle"
  /\ round < MaxRounds
  /\ round' = round + 1
  /\ phase' = "collect"
  /\ elapsed' = 0
  /\ \E noKey \in SUBSET Nodes :
       sessions' = [n \in Nodes |-> IF n \in noKey THEN Unreachable ELSE Connecting]
  /\ UNCHANGED <<results, tables, faults>>

Waiting(n) == phase = "collect" /\ sessions[n].at # "done"

Becomes(n, s) ==
  /\ sessions' = [sessions EXCEPT ![n] = s]
  /\ UNCHANGED <<cycle, round, elapsed, tables, faults>>

\* Variants with a bug, each put in the place of its original by a mutation run.
FailsKeepingGpus(n) ==
  /\ Waiting(n)
  /\ Becomes(n, [sessions[n] EXCEPT !.at = "done"])

FailsAndReconnects(n) ==
  /\ Waiting(n)
  /\ Becomes(n, Connecting)

TimesOutOnlyConnecting(n) ==
  /\ sessions[n].at = "connecting"
  /\ sessions[n].spent = ConnectTimeout
  /\ Waiting(n)
  /\ Becomes(n, Unreachable)

AnsweredOneTooMany(n) ==
  /\ Waiting(n)
  /\ sessions[n].at = "running"
  /\ Becomes(n, [sessions[n] EXCEPT !.step = @ + 1, !.spent = 0])

GatheredAsCompleted ==
  /\ phase = "collect"
  /\ \A n \in Nodes : ~Waiting(n)
  /\ phase' = "status"
  /\ \E order \in {f \in [DOMAIN NodeOrder -> Nodes] : \A n \in Nodes : \E i \in DOMAIN f : f[i] = n} :
       results' = [i \in DOMAIN NodeOrder |->
                     [node |-> order[i], round |-> round,
                      reachable |-> sessions[order[i]].reachable, gpus |-> sessions[order[i]].gpus]]
  /\ UNCHANGED <<round, elapsed, sessions, tables, faults>>

-----------------------------------------------------------------------------

Connected(n) ==
  /\ Waiting(n)
  /\ sessions[n].at = "connecting"
  /\ Becomes(n, [sessions[n] EXCEPT !.at = "running", !.spent = 0])

\* The output of nvidia-smi may hold GPUs or none; no other output decides.
GpusAfter(n) ==
  IF Commands[sessions[n].step] = "gpu" THEN BOOLEAN ELSE {sessions[n].gpus}

\* The result of a command is in, whatever its exit status.
Answered(n) ==
  /\ Waiting(n)
  /\ sessions[n].at = "running"
  /\ sessions[n].step < Len(Commands)
  /\ \E gpus \in GpusAfter(n) :
       Becomes(n, [sessions[n] EXCEPT !.step = @ + 1, !.spent = 0, !.gpus = gpus])

\* So is the result of the last one: the outputs are parsed.
Finished(n) ==
  /\ Waiting(n)
  /\ sessions[n].at = "running"
  /\ sessions[n].step = Len(Commands)
  /\ \E gpus \in GpusAfter(n) :
       Becomes(n, [sessions[n] EXCEPT !.at = "done", !.gpus = gpus, !.reachable = TRUE])

\* connect or run raises, because of a time-out or for another reason.
Fails(n) ==
  /\ Waiting(n)
  /\ Becomes(n, Unreachable)

Limit(n) == IF sessions[n].at = "connecting" THEN ConnectTimeout ELSE CommandTimeout

TimesOut(n) ==
  /\ sessions[n].spent = Limit(n)
  /\ Fails(n)

\* A unit of time goes by for all who wait; none waits longer than its limit:
\* that asyncssh's timeout covers the whole of run, the opening of the channel
\* included, and connect_timeout the whole of connect, is taken from its use here.
Tick ==
  /\ \E n \in Nodes : Waiting(n)
  /\ \A n \in Nodes : Waiting(n) => sessions[n].spent < Limit(n)
  /\ elapsed' = elapsed + 1
  /\ sessions' = [n \in Nodes |->
                    IF Waiting(n) THEN [sessions[n] EXCEPT !.spent = @ + 1] ELSE sessions[n]]
  /\ UNCHANGED <<cycle, round, tables, faults>>

\* The gather returns the results in the order of the configuration.
Gathered ==
  /\ phase = "collect"
  /\ \A n \in Nodes : ~Waiting(n)
  /\ phase' = "status"
  /\ results' = [i \in DOMAIN NodeOrder |->
                   [node |-> NodeOrder[i], round |-> round,
                    reachable |-> sessions[NodeOrder[i]].reachable,
                    gpus |-> sessions[NodeOrder[i]].gpus]]
  /\ UNCHANGED <<round, elapsed, sessions, tables, faults>>

-----------------------------------------------------------------------------
(* The loop over the results. *)

Current == Head(results)

UpsertStatus(d, m) ==
  [d EXCEPT !.status[m.node] = [round |-> m.round, reachable |-> m.reachable]]

\* The batches a result may give, each as its parts in the order of their rows.
\* A node that is not reachable has neither a SystemMetric nor a NetworkMetric,
\* and parse_system finds nothing if a number cannot be read.
SystemPart(m) == IF m.reachable THEN {<<>>, <<"system">>} ELSE {<<>>}

FlattenMetrics(m) ==
  {(IF m.gpus THEN <<"gpu">> ELSE <<>>) \o system \o (IF m.reachable THEN <<"network">> ELSE <<>>) :
     system \in SystemPart(m)}

RowOf(m, part) == [node |-> m.node, round |-> m.round, part |-> part]

\* The inserts of the first k parts of the batch.
InsertMetrics(d, m, batch, k) ==
  [d EXCEPT !.rows = @ \cup {RowOf(m, batch[i]) : i \in 1 .. k}]

\* Statements done, and committed.
Commits(d) == db' = d /\ disk' = d

\* A variant with a bug: write_metrics skips records it cannot insert.
WriteMetricsSkipping ==
  /\ phase = "metrics"
  /\ \E batch \in FlattenMetrics(Current) :
       \E k \in 0 .. Len(batch) : Commits(InsertMetrics(db, Current, batch, k))
  /\ phase' = "status"
  /\ results' = Tail(results)
  /\ UNCHANGED <<round, elapsed, sessions, faults, broken>>

-----------------------------------------------------------------------------

WriteNodeStatus ==
  /\ phase = "status"
  /\ results # <<>>
  /\ Commits(UpsertStatus(db, Current))
  /\ phase' = "metrics"
  /\ UNCHANGED <<round, elapsed, sessions, results, faults, broken>>

\* After it the node is evaluated, which InspectionCycle models.
WriteMetrics ==
  /\ phase = "metrics"
  /\ \E batch \in FlattenMetrics(Current) :
       Commits(InsertMetrics(db, Current, batch, Len(batch)))
  /\ phase' = "status"
  /\ results' = Tail(results)
  /\ UNCHANGED <<round, elapsed, sessions, faults, broken>>

\* Rows older than the retention time go; the ones of this round are younger.
CleanupMetrics ==
  /\ phase = "status"
  /\ results = <<>>
  /\ \E cutoff \in [Nodes -> 1 .. round] :
       Commits([db EXCEPT !.rows = {r \in @ : r.round >= cutoff[r.node]}])
  /\ phase' = "idle"
  /\ UNCHANGED <<round, elapsed, sessions, results, faults, broken>>

\* An error of the database ends the cycle; nothing rolls back.
CycleFails ==
  /\ faults < MaxFaults
  /\ faults' = faults + 1
  /\ phase' = "idle"
  /\ results' = <<>>
  /\ UNCHANGED <<round, elapsed, sessions, disk>>

StatusError ==
  /\ phase = "status"
  /\ results # <<>>
  /\ db' \in {db, UpsertStatus(db, Current)}
  /\ CycleFails
  /\ UNCHANGED broken

MetricsError ==
  /\ phase = "metrics"
  /\ \E batch \in FlattenMetrics(Current) :
       \E k \in 0 .. Len(batch) : db' = InsertMetrics(db, Current, batch, k)
  /\ broken' = broken \cup {<<Current.node, Current.round>>}
  /\ CycleFails

\* Any other statement of the service, such as the enqueue of a report.
OtherCommit ==
  /\ db # disk
  /\ disk' = db
  /\ UNCHANGED <<cycle, round, elapsed, sessions, db, faults, broken>>

\* The process dies and starts again: what was not committed is gone.
Crash ==
  /\ faults < MaxFaults
  /\ faults' = faults + 1
  /\ phase' = "idle"
  /\ results' = <<>>
  /\ db' = disk
  /\ UNCHANGED <<round, elapsed, sessions, disk, broken>>

SessionStep(n) == Connected(n) \/ Answered(n) \/ Finished(n) \/ Fails(n)

Next ==
  \/ Begin
  \/ \E n \in Nodes : SessionStep(n)
  \/ Tick
  \/ Gathered
  \/ WriteNodeStatus
  \/ WriteMetrics
  \/ CleanupMetrics
  \/ StatusError
  \/ MetricsError
  \/ OtherCommit
  \/ Crash

Spec == Init /\ [][Next]_vars

\* Time passes, time-outs fire, and the gather returns; a session that is not
\* timed out need not get any answer.
FairSpec ==
  /\ Spec
  /\ WF_vars(Tick)
  /\ WF_vars(Gathered)
  /\ \A n \in Nodes : WF_vars(TimesOut(n))

-----------------------------------------------------------------------------
(* Properties. *)

\* A collection takes no longer than the slowest possible session, however
\* many nodes there are: their waits run side by side and each is limited.
CollectionBounded ==
  phase = "collect" => elapsed <= ConnectTimeout + Len(Commands) * CommandTimeout

\* A collection ends although some nodes never answer.
CollectionEnds == phase = "collect" ~> phase # "collect"

\* What the service reads, and what it finds after a restart.
Views == {db, disk}

\* The statuses are always those of a prefix of the last round that recorded
\* anything: no node's status is newer than that of a node before it.
NodesInOrder ==
  \A d \in Views : \A i, j \in DOMAIN NodeOrder :
    i <= j => d.status[NodeOrder[i]].round >= d.status[NodeOrder[j]].round

\* The history never knows more than the status: a row is of no later round
\* than its node's status, and a round that found the node unreachable has
\* left no row, not even after an error, a late commit or a restart.
HistoryMatchesStatus ==
  \A d \in Views : \A r \in d.rows :
    LET status == d.status[r.node] IN
    /\ r.round <= status.round
    /\ r.round = status.round => status.reachable

\* The history of a node and a round is whole, or its write raised an error: the
\* rows of the network, the last ones of a batch, are there if any are.
HalfBatchesRaised ==
  \A d \in Views : \A r \in d.rows :
    \/ <<r.node, r.round>> \in broken
    \/ [r EXCEPT !.part = "network"] \in d.rows

\* Every interval the nodes are collected: the collection is over when the
\* interval job fires again.  (README and design: every 5 minutes.)
EveryRoundCollects == phase = "collect" => elapsed < Interval

=============================================================================
