------------------------------- MODULE Dashboard -------------------------------
(***************************************************************************)
(* The requests of inspector/dashboard.py that send something: POST           *)
(* /api/report and the robot's callback, beside a cycle that rewrites         *)
(* node_status and retries the pushes that were queued.                       *)
(*                                                                           *)
(* A request runs without giving way up to its push, and again from the end   *)
(* of the push to its answer; during the push everything else goes on.  What  *)
(* was read from node_status before the push is what is pushed, and what is   *)
(* queued if the push fails.  The notifier formats before it pushes, outside  *)
(* the try block of send, so a formatter that raises ends the request: with   *)
(* a 500 for the report, with nothing but a line in the log for the robot.    *)
(*                                                                           *)
(* The table of the queued reports is seen through one connection: queue is   *)
(* what that connection reads, saved is what a restart finds.  An insert      *)
(* whose commit fails stays in the open transaction, where a retry finds it   *)
(* and the next commit of anyone makes it durable.                            *)
(***************************************************************************)
EXTENDS NodeOutputs, FiniteSets

CONSTANTS
  Nodes,
  NameOf,         \* the name of a node as it is written, as one word
  Raws,           \* the outputs a reachable node may have
  Requests,
  Contents,       \* the texts a member of the group may write to the robot
  Notifiers,      \* the notifiers a start of the service may create
  ExpectedToken,  \* DASHBOARD_TOKEN
  Tokens,         \* the tokens a caller may send; "" is no token
  MaxFaults       \* bound: crashes and errors of the store

Robot == INSTANCE RobotText

ASSUME DashboardAssumption ==
  /\ Raws \subseteq Raw
  /\ Contents \subseteq Seq(Seq(STRING))
  /\ Notifiers \subseteq {"none", "generic", "wps"} /\ Notifiers # {}
  /\ MaxFaults \in Nat
  /\ NameOf \in [Nodes -> Seq(STRING)]
  /\ \A m, n \in Nodes : NameOf[m] = NameOf[n] => m = n

\* The fifth word of a line of df -h is the first that is a percentage, if one is.
ASSUME DfColumns ==
  \A raw \in Raws :
    Len(raw.df) >= 2 /\ Percentages(raw.df[2]) # {} =>
      5 \in Percentages(raw.df[2]) /\ \A i \in Percentages(raw.df[2]) : 5 <= i

VARIABLES
  status,         \* node_status, by node
  notifier,       \* the type of the notifier the service was started with
  requests,
  queue,          \* the reports in pending_webhooks
  saved,          \* those of them that are committed
  faults,
  got             \* history: what the receiver has of which request

table == <<queue, saved>>

vars == <<status, notifier, requests, table, faults, got>>

Unknown == [recorded |-> FALSE]
Unreachable == [recorded |-> TRUE, reachable |-> FALSE]
Reachable(raw) == [recorded |-> TRUE, reachable |-> TRUE, raw |-> raw]

Status == {Unreachable} \cup {Reachable(raw) : raw \in Raws}

\* list_node_status
Recorded == {n \in Nodes : status[n].recorded}

\* The nodes a message shows with their statuses, or that there is no such node.
Payload == [found : BOOLEAN, of : UNION {[S -> Status] : S \in SUBSET Nodes}]

Of(S) == [found |-> TRUE, of |-> [n \in S |-> status[n]]]
NotFound == [found |-> FALSE, of |-> <<>>]

Answers == {"", "ok", "401", "503", "404", "500", "sent", "queued"}

Kinds == {"report", "callback"}

\* read is the local all_statuses, pushed says whether the push was begun.
NewRequest == [at |-> "new", kind |-> "report", body |-> <<>>, read |-> {},
               payload |-> NotFound, by |-> "none", pushed |-> FALSE, answer |-> ""]

Copy == [request : Requests, payload : Payload, by : Notifiers]

CopyOf(q) == [request |-> q, payload |-> requests[q].payload, by |-> requests[q].by]

\* Requests, statuses, queued reports and the receiver's messages keep their types.
TypeOK ==
  /\ status \in [Nodes -> Status \cup {Unknown}]
  /\ notifier \in Notifiers
  /\ faults \in 0 .. MaxFaults
  /\ queue \subseteq Copy
  /\ saved \subseteq Copy
  /\ got \subseteq Copy
  /\ \A q \in Requests :
       LET r == requests[q] IN
       /\ r.at \in {"new", "pushing", "received", "done"}
       /\ r.kind \in Kinds
       /\ r.read \subseteq Nodes
       /\ r.payload \in Payload
       /\ r.by \in Notifiers \cup {"none"}
       /\ r.pushed \in BOOLEAN
       /\ r.answer \in Answers

Init ==
  /\ status = [n \in Nodes |-> Unknown]
  /\ notifier \in Notifiers
  /\ requests = [q \in Requests |-> NewRequest]
  /\ queue = {}
  /\ saved = {}
  /\ faults = 0
  /\ got = {}

-----------------------------------------------------------------------------

\* verify_token: the query parameter counts only without the header.
Accepts(header, query) ==
  \/ ExpectedToken = ""
  \/ (IF header # "" THEN header ELSE query) = ExpectedToken

\* Only the WPS notifier looks into the outputs of reachable nodes.
FormatRaises(payload) ==
  /\ notifier = "wps"
  /\ \E n \in DOMAIN payload.of : payload.of[n].reachable /\ ReportRaises(payload.of[n].raw)

Set(q, r) == requests' = [requests EXCEPT ![q] = r]

Answer(q, r, code) == Set(q, [r EXCEPT !.at = "done", !.answer = code])

\* The request's local state once node_status was read.
Asked(q, kind, body, payload) ==
  [requests[q] EXCEPT !.kind = kind, !.body = body, !.read = Recorded,
                      !.payload = payload, !.by = notifier]

Begin(q, r) == Set(q, [r EXCEPT !.at = "pushing", !.pushed = TRUE])

-----------------------------------------------------------------------------
(* POST /api/report, up to the push. *)

Report(q) == Asked(q, "report", <<>>, Of(Recorded))

\* The early returns, in their order, each with the answer it gives.
ReportRefusal(header, query) ==
  CASE ~Accepts(header, query)      -> "401"
    [] notifier = "none"            -> "503"
    [] Recorded = {}                -> "404"
    [] OTHER                        -> ""

RefuseReport(q) ==
  /\ requests[q].at = "new"
  /\ \E header, query \in Tokens :
       /\ ReportRefusal(header, query) # ""
       /\ Answer(q, requests[q], ReportRefusal(header, query))
  /\ UNCHANGED <<status, notifier, table, faults, got>>

ReportAdmitted(q) ==
  /\ requests[q].at = "new"
  /\ \E header, query \in Tokens : ReportRefusal(header, query) = ""

ReportCannotBeShownButIsQueued(q) ==
  /\ ReportAdmitted(q)
  /\ FormatRaises(Of(Recorded))
  /\ Answer(q, Report(q), "queued")
  /\ queue' = queue \cup {[request |-> q, payload |-> Of(Recorded), by |-> notifier]}
  /\ saved' = queue'
  /\ UNCHANGED <<status, notifier, faults, got>>

ReportCannotBeShown(q) ==
  /\ ReportAdmitted(q)
  /\ FormatRaises(Of(Recorded))
  /\ Answer(q, Report(q), "500")
  /\ UNCHANGED <<status, notifier, table, faults, got>>

PushReport(q) ==
  /\ ReportAdmitted(q)
  /\ ~FormatRaises(Of(Recorded))
  /\ Begin(q, Report(q))
  /\ UNCHANGED <<status, notifier, table, faults, got>>

-----------------------------------------------------------------------------
(* The robot's callback, up to the push. *)

\* The payload for a text: all nodes, the one it names, or a hint.
PayloadFor(body) ==
  LET target == Robot!TargetOf(body)
      named  == {n \in Recorded : target = <<NameOf[n]>>}
  IN CASE target = <<>>                     -> Of(Recorded)
       [] target # <<>> /\ named # {}       -> Of(named)
       [] target # <<>> /\ named = {}       -> NotFound

Callback(q, body) == Asked(q, "callback", body, PayloadFor(body))

\* Nothing is sent for all nodes as long as there are none.
CallbackSends(body) ==
  /\ Robot!AsksForReport(body)
  /\ notifier # "none"
  /\ Robot!TargetOf(body) = <<>> => Recorded # {}

\* A body that is no JSON is answered with ok; one without a text raises.
CallbackWithoutText(q) ==
  /\ requests[q].at = "new"
  /\ \E code \in {"ok", "500"} : Answer(q, [requests[q] EXCEPT !.kind = "callback"], code)
  /\ UNCHANGED <<status, notifier, table, faults, got>>

\* Nothing to send, or the formatter raised and the exception was logged.
CallbackSendsNothing(q, body) ==
  /\ requests[q].at = "new"
  /\ CallbackSends(body) => FormatRaises(PayloadFor(body))
  /\ Answer(q, Callback(q, body), "ok")
  /\ UNCHANGED <<status, notifier, table, faults, got>>

PushCallback(q, body) ==
  /\ requests[q].at = "new"
  /\ CallbackSends(body)
  /\ ~FormatRaises(PayloadFor(body))
  /\ Begin(q, Callback(q, body))
  /\ UNCHANGED <<status, notifier, table, faults, got>>

-----------------------------------------------------------------------------
(* The push and what follows it. *)

Receive(q) ==
  /\ requests[q].at = "pushing"
  /\ Set(q, [requests[q] EXCEPT !.at = "received"])
  /\ got' = got \cup {CopyOf(q)}
  /\ UNCHANGED <<status, notifier, table, faults>>

Sent(q) ==
  /\ requests[q].at = "received"
  /\ Answer(q, requests[q], IF requests[q].kind = "report" THEN "sent" ELSE "ok")
  /\ UNCHANGED <<status, notifier, table, faults, got>>

\* Variants with a bug: a failed push is queued without a commit, or reported
\* under another name.
ReportFailsWithoutCommit(q) ==
  /\ requests[q].at \in {"pushing", "received"}
  /\ requests[q].kind = "report"
  /\ queue' = queue \cup {CopyOf(q)}
  /\ Answer(q, requests[q], "queued")
  /\ UNCHANGED <<status, notifier, saved, faults, got>>

ReportFailsWithNewAnswer(q) ==
  /\ requests[q].at \in {"pushing", "received"}
  /\ requests[q].kind = "report"
  /\ Answer(q, requests[q], "502")
  /\ UNCHANGED <<status, notifier, table, faults, got>>

\* A time-out, an error of the connection, or a status of 400 or more.
ReportFails(q) ==
  /\ requests[q].at \in {"pushing", "received"}
  /\ requests[q].kind = "report"
  /\ queue' = queue \cup {CopyOf(q)}
  /\ saved' = queue'
  /\ Answer(q, requests[q], "queued")
  /\ UNCHANGED <<status, notifier, faults, got>>

\* wps_callback does not look at the result of send.
CallbackFails(q) ==
  /\ requests[q].at \in {"pushing", "received"}
  /\ requests[q].kind = "callback"
  /\ Answer(q, requests[q], "ok")
  /\ UNCHANGED <<status, notifier, table, faults, got>>

\* enqueue_webhook raises after the push failed: before its insert, or when it
\* commits, and nothing rolls the insert back.
EnqueueError(q) ==
  /\ requests[q].at \in {"pushing", "received"}
  /\ requests[q].kind = "report"
  /\ faults < MaxFaults
  /\ faults' = faults + 1
  /\ Answer(q, requests[q], "500")
  /\ queue' \in {queue, queue \cup {CopyOf(q)}}
  /\ UNCHANGED <<status, notifier, saved, got>>

-----------------------------------------------------------------------------
(* The rest of the process. *)

\* write_node_status: a node that was collected replaces its row.  (Collector
\* models a write that fails.)
Record(n) ==
  /\ \E s \in Status : status' = [status EXCEPT ![n] = s]
  /\ saved' = queue
  /\ UNCHANGED <<notifier, requests, queue, faults, got>>

\* A push of the cycle's retry loop arrives.  The row is deleted, or it stays
\* because the answer is lost.
Retried(copy) ==
  /\ copy \in queue
  /\ notifier # "none"
  /\ ~FormatRaises(copy.payload)
  /\ got' = got \cup {copy}
  /\ queue' \in {queue, queue \ {copy}}
  /\ UNCHANGED <<status, notifier, requests>>

\* delete_webhook, update_webhook_retry and mark_webhook_dead commit,
Retry(copy) ==
  /\ Retried(copy)
  /\ saved' = queue'
  /\ UNCHANGED faults

\* or raise.
RetryError(copy) ==
  /\ faults < MaxFaults
  /\ faults' = faults + 1
  /\ Retried(copy)
  /\ UNCHANGED saved

\* Any other statement of the cycle that commits, such as the write of an alert.
OtherCommit ==
  /\ saved # queue
  /\ saved' = queue
  /\ UNCHANGED <<status, notifier, requests, queue, faults, got>>

\* The process dies and comes back, perhaps with another notifications.type;
\* what was not committed is gone.
Crash ==
  /\ faults < MaxFaults
  /\ faults' = faults + 1
  /\ notifier' \in Notifiers
  /\ requests' = [q \in Requests |->
                    IF requests[q].at \in {"pushing", "received"}
                    THEN [requests[q] EXCEPT !.at = "done"] ELSE requests[q]]
  /\ queue' = saved
  /\ UNCHANGED <<status, saved, got>>

Next ==
  \/ \E q \in Requests :
       \/ RefuseReport(q) \/ ReportCannotBeShown(q) \/ PushReport(q)
       \/ CallbackWithoutText(q)
       \/ \E body \in Contents : CallbackSendsNothing(q, body) \/ PushCallback(q, body)
       \/ Receive(q) \/ Sent(q) \/ ReportFails(q) \/ CallbackFails(q) \/ EnqueueError(q)
  \/ \E n \in Nodes : Record(n)
  \/ \E copy \in queue : Retry(copy) \/ RetryError(copy)
  \/ OtherCommit
  \/ Crash

Spec == Init /\ [][Next]_vars

-----------------------------------------------------------------------------
(* Properties. *)

\* Whoever has something of q: the connection, the disk or the receiver.
Copies(q) == {copy \in queue \cup saved \cup got : copy.request = q}

\* The answer of POST /api/report is true whatever happens meanwhile, errors of
\* the store and crashes included: a sent report is with the receiver; a queued
\* one is committed, and stays so, until the receiver has it; one that was
\* refused, or failed before its push began, has left no trace anywhere.  A 500
\* after the push began promises nothing: the report may be with the receiver,
\* or in a transaction that the next commit makes durable.
AnswersTellTheTruth ==
  \A q \in Requests :
    LET r == requests[q] IN
    /\ r.answer = "sent" => CopyOf(q) \in got
    /\ r.answer = "queued" => CopyOf(q) \in (queue \cap saved) \cup got
    /\ r.answer \in {"401", "503", "404"} => Copies(q) = {}
    /\ r.answer = "500" /\ ~r.pushed => Copies(q) = {}

\* What a question is about is what the robot answers: all nodes there are, or
\* the one node it names, if there is one of that name.
AllAnswered(r) == r.payload.found /\ DOMAIN r.payload.of = r.read

NodeAnswered(r, n) ==
  /\ r.payload.found <=> n \in r.read
  /\ DOMAIN r.payload.of = r.read \cap {n}

\* A keyword alone is about all nodes there are.  A keyword and a name are about
\* that node, unless the name holds a keyword that the code looks for before it.
PlainFormsUnderstood ==
  \A q \in Requests :
    LET r == requests[q] IN
    r.kind = "callback" /\ r.by # "none" =>
      /\ Robot!AsksForAll(r.body) => AllAnswered(r)
      /\ \A n \in Nodes :
           Robot!AsksForNode(r.body, NameOf[n]) /\ Robot!Unmistakable(r.body) =>
             NodeAnswered(r, n)

\* The words after the keyword name the node, whatever keyword of the list and
\* whatever name they are (the comment in wps_callback; the list in README).
DocumentedFormsUnderstood ==
  \A q \in Requests :
    LET r == requests[q] IN
    r.kind = "callback" /\ r.by # "none" =>
      \A n \in Nodes : Robot!AsksForNode(r.body, NameOf[n]) => NodeAnswered(r, n)

\* No report poisons the retries of the service that queued it: whatever is in
\* the table, or comes back to it with a restart, can be formatted by the
\* notifier that tried it first.
QueuedCanBeFormatted ==
  \A copy \in queue \cup saved : copy.by = notifier => ~FormatRaises(copy.payload)

\* Three readers of the same outputs agree: a message that can be formatted shows
\* the GPUs and the disk usage that the parsers found and the rules judge, and the
\* average in the dashboard's summary is one that the readings allow if there is
\* one for every GPU.
MessageShowsWhatIsJudged ==
  \A n \in Recorded :
    status[n].reachable =>
      LET raw     == status[n].raw
          gpus    == ParseNvidiaSmi(raw.gpu)
          summary == Summary(gpus)
      IN
      /\ ~ReportRaises(raw) => ShownGpus(raw.gpu) = DOMAIN gpus
      /\ ParseDf(raw.df) # None =>
           \E i \in ShownDisks(raw.df) : raw.df[i][5].value = ParseDf(raw.df)
      /\ DOMAIN gpus # {} /\ (\A i \in DOMAIN gpus : gpus[i].temp # None) =>
           /\ \E i \in DOMAIN gpus : gpus[i].temp * summary.over >= summary.total
           /\ \E i \in DOMAIN gpus : gpus[i].temp * summary.over <= summary.total

=============================================================================
