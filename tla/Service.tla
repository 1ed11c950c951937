-------------------------------- MODULE Service --------------------------------
(***************************************************************************)
(* The life of the service: main() of main.py with its checks at the start,   *)
(* the reload on SIGHUP, and the way it stops, around the parts that the      *)
(* other modules look into.  A cycle is an evaluation of the rules that the   *)
(* running settings watch and the pushes of what changed; a request is        *)
(* something the web server waits for before it ends.                         *)
(*                                                                           *)
(* A stop begins with the web server (uvicorn handles the signal): it takes   *)
(* no more requests and returns when the ones it has are answered, while      *)
(* cycles go on.  Then the finally block of main closes the store at once,    *)
(* also under a cycle that waits for the answer to a push.  Such a cycle is   *)
(* cancelled when the loop ends, or wakes up before that and fails on its     *)
(* next statement.  (Since 0.29 uvicorn raises the signal again when it ends, *)
(* and SIGTERM ends the process before that block: Exit allows both.)         *)
(* systemd starts the service again after every end.                          *)
(***************************************************************************)
EXTENDS Integers, FiniteSets

CONSTANTS
  Alerts,         \* alerts, of different nodes: a node and a rule each
  Versions,       \* contents of config.yaml
  Valid,          \* those that load_config accepts
  Watched,        \* for each of these the alerts it watches
  NoFile,         \* no config.yaml
  MaxRequests,    \* bound: requests the web server has at one time
  MaxChanges,     \* bound: edits, changes of the host and of the readings
  MaxEnds         \* bound: stops and crashes

ASSUME ServiceAssumption ==
  /\ Valid \subseteq Versions /\ Valid # {} /\ NoFile \notin Versions
  /\ Watched \in [Valid -> SUBSET Alerts]
  /\ {MaxRequests, MaxChanges, MaxEnds} \subseteq Nat

VARIABLES
  file,           \* config.yaml
  host,           \* the SSH keys are there with mode 0600, the webhook's URL is set
  bad,            \* the alerts whose checks find a reading that breaks its threshold
  phase,          \* of the process
  started,        \* the settings the parts were created with
  holder,         \* the settings in the SettingsHolder
  inCycle,        \* a cycle is running
  left,           \* the alerts it has still to evaluate
  events,         \* the alert whose change the cycle has committed and not pushed
  requests,       \* how many requests are being answered
  rows,           \* alert_states: the alerts that are triggered
  told,           \* the alerts that stand in what was received or is queued
  changes, ends,
  lost            \* history: alerts whose last change ended with its cycle

cycle == <<inCycle, left>>
process == <<phase, started, holder, cycle, events, requests>>
world == <<file, host, bad, changes>>
vars == <<process, world, rows, told, ends, lost>>

Files == Versions \cup {NoFile}

\* up, closing (the server waits for its requests), closed (the store is closed).
Phases == {"down", "up", "closing", "closed"}

\* Every variable has its type.
TypeOK ==
  /\ file \in Files
  /\ host \in BOOLEAN
  /\ bad \subseteq Alerts
  /\ phase \in Phases
  /\ started \in Valid
  /\ holder \in Valid
  /\ inCycle \in BOOLEAN
  /\ left \subseteq Alerts
  /\ events \subseteq Alerts
  /\ requests \in 0 .. MaxRequests
  /\ rows \subseteq Alerts
  /\ told \subseteq Alerts
  /\ changes \in 0 .. MaxChanges
  /\ ends \in 0 .. MaxEnds
  /\ lost \subseteq Alerts

Init ==
  /\ file \in Valid
  /\ host = TRUE
  /\ bad = {}
  /\ phase = "down"
  /\ started = file
  /\ holder = file
  /\ inCycle = FALSE
  /\ left = {}
  /\ events = {}
  /\ requests = 0
  /\ rows = {}
  /\ told = {}
  /\ changes = 0
  /\ ends = 0
  /\ lost = {}

-----------------------------------------------------------------------------
(* The world around the service. *)

Change ==
  /\ changes < MaxChanges
  /\ changes' = changes + 1
  /\ UNCHANGED <<process, rows, told, ends, lost>>

EditFile ==
  /\ \E f \in Files \ {file} : file' = f
  /\ Change
  /\ UNCHANGED <<host, bad>>

ChangeHost ==
  /\ host' = ~host
  /\ Change
  /\ UNCHANGED <<file, bad>>

ChangeReading ==
  /\ \E a \in Alerts : bad' = IF a \in bad THEN bad \ {a} ELSE bad \cup {a}
  /\ Change
  /\ UNCHANGED <<file, host>>

-----------------------------------------------------------------------------
(* What the actions are made of. *)

Running == phase \in {"up", "closing"}

\* load_config: the file is there and its content is one of Settings.
Loads == file \in Valid

\* The start also needs the keys of all nodes and the webhook's URL.
CanStart == Loads /\ host

\* The receiver, or the queue, gets the last change of each alert in S.
Tell(S) == (told \ S) \cup (S \cap rows)

Differs(a) == a \in bad <=> a \notin rows

\* The cycle ends by force with what it holds; a push it waits for may have
\* been received.
CycleDies ==
  /\ inCycle' = FALSE
  /\ left' = {}
  /\ events' = {}
  /\ lost' = lost \cup events
  /\ told' \in {told, Tell(events)}

-----------------------------------------------------------------------------
(* Variants with a bug, each put in the place of its original by a mutation   *)
(* run.                                                                       *)

ReloadUnchecked ==
  /\ Running
  /\ holder' = file
  /\ UNCHANGED <<phase, started, cycle, events, requests, world, rows, told, ends, lost>>

\* The finally block of main does not wait for the web server.
CloseStoreAtOnce ==
  /\ phase = "closing"
  /\ phase' = "closed"
  /\ UNCHANGED <<started, holder, cycle, events, requests, world, rows, told, ends, lost>>

\* The store is closed between two cycles only.
CloseStoreWhenIdle ==
  /\ phase = "closing"
  /\ requests = 0
  /\ ~inCycle
  /\ phase' = "closed"
  /\ UNCHANGED <<started, holder, cycle, events, requests, world, rows, told, ends, lost>>

\* A push that fails is not queued.
PushedWithoutQueue ==
  /\ Running
  /\ events # {}
  /\ events' = {}
  /\ told' \in {told, Tell(events)}
  /\ UNCHANGED <<phase, started, holder, cycle, requests, world, rows, ends, lost>>

\* Only what breaks its threshold is looked at.
EvaluateBreachesOnly(a) ==
  /\ Running /\ a \in left /\ events = {}
  /\ left' = left \ {a}
  /\ IF a \in Watched[started] /\ a \in bad \ rows
       THEN rows' = rows \cup {a} /\ events' = {a}
       ELSE UNCHANGED <<rows, events>>
  /\ UNCHANGED <<phase, started, holder, inCycle, requests, world, told, ends, lost>>

-----------------------------------------------------------------------------
(* The process. *)

\* Otherwise load_config, _validate_ssh_keys or create_notifier raises or exits,
\* and systemd tries again.
Start ==
  /\ phase = "down"
  /\ CanStart
  /\ phase' = "up"
  /\ started' = file
  /\ holder' = file
  /\ UNCHANGED <<cycle, events, requests, world, rows, told, ends, lost>>

\* SIGHUP: a file that cannot be loaded leaves the settings as they are.
Reload ==
  /\ Running
  /\ Loads
  /\ holder' = file
  /\ UNCHANGED <<phase, started, cycle, events, requests, world, rows, told, ends, lost>>

Stop ==
  /\ phase = "up"
  /\ ends < MaxEnds
  /\ ends' = ends + 1
  /\ phase' = "closing"
  /\ UNCHANGED <<started, holder, cycle, events, requests, world, rows, told, lost>>

\* The server has returned: the scheduler is shut down and the store closed.
CloseStore ==
  /\ phase = "closing"
  /\ requests = 0
  /\ phase' = "closed"
  /\ UNCHANGED <<started, holder, cycle, events, requests, world, rows, told, ends, lost>>

Gone ==
  /\ phase' = "down"
  /\ requests' = 0
  /\ CycleDies
  /\ UNCHANGED <<started, holder, world, rows>>

Exit ==
  /\ phase = "closed" \/ (phase = "closing" /\ requests = 0)
  /\ Gone
  /\ UNCHANGED ends

Crash ==
  /\ phase # "down"
  /\ ends < MaxEnds
  /\ ends' = ends + 1
  /\ Gone

-----------------------------------------------------------------------------
(* Requests and cycles. *)

Ask ==
  /\ phase = "up"
  /\ requests < MaxRequests
  /\ requests' = requests + 1
  /\ UNCHANGED <<phase, started, holder, cycle, events, world, rows, told, ends, lost>>

Answered ==
  /\ requests > 0
  /\ requests' = requests - 1
  /\ UNCHANGED <<phase, started, holder, cycle, events, world, rows, told, ends, lost>>

BeginCycle ==
  /\ Running
  /\ ~inCycle
  /\ inCycle' = TRUE
  /\ left' = Alerts
  /\ UNCHANGED <<phase, started, holder, events, requests, world, rows, told, ends, lost>>

\* A cycle comes to every node once.  The row changes if the alerter's settings
\* watch the alert; the event is pushed before the next node is evaluated.
Evaluate(a) ==
  /\ Running /\ a \in left /\ events = {}
  /\ left' = left \ {a}
  /\ IF a \in Watched[started] /\ Differs(a)
       THEN /\ rows' = IF a \in bad THEN rows \cup {a} ELSE rows \ {a}
            /\ events' = {a}
       ELSE UNCHANGED <<rows, events>>
  /\ UNCHANGED <<phase, started, holder, inCycle, requests, world, told, ends, lost>>

\* The event was pushed, or queued after the push failed.
Pushed ==
  /\ Running
  /\ events # {}
  /\ events' = {}
  /\ told' = Tell(events)
  /\ lost' = lost \ events
  /\ UNCHANGED <<phase, started, holder, cycle, requests, world, rows, ends>>

EndCycle ==
  /\ Running /\ inCycle /\ events = {} /\ left = {}
  /\ inCycle' = FALSE
  /\ UNCHANGED <<phase, started, holder, left, events, requests, world, rows, told, ends, lost>>

\* An exception ends the cycle and is logged: the store was closed under it, or
\* it raised.
Fail ==
  /\ inCycle
  /\ CycleDies
  /\ UNCHANGED <<phase, started, holder, requests, world, rows, ends>>

Next ==
  \/ EditFile \/ ChangeHost \/ ChangeReading
  \/ Start \/ Reload \/ Stop \/ CloseStore \/ Exit \/ Crash
  \/ Ask \/ Answered
  \/ BeginCycle
  \/ \E a \in Alerts : Evaluate(a)
  \/ Pushed \/ EndCycle \/ Fail

Spec == Init /\ [][Next]_vars

\* systemd starts the service whenever it can be started, requests are answered,
\* and main goes on to its end once the web server has returned.  Nothing is
\* assumed of the cycles: an exception may end every one of them.
Fairness ==
  /\ WF_vars(Start)
  /\ WF_vars(CloseStore)
  /\ WF_vars(phase = "closed" /\ Exit)
  /\ WF_vars(Answered)

FairSpec == Spec /\ Fairness

-----------------------------------------------------------------------------
(* Properties. *)

\* The store is never closed under a request that the web server still answers
\* (the finally block of main comes after server.serve has returned).
StoreServesRequests == requests > 0 => Running

\* What a stop, a restart or an exception costs: what the receiver has been told
\* of an alert, the queue included, is what the table says of it, unless its
\* change is in the hands of the running cycle or was in those of a cycle that
\* ended by force.
ReceiverAgreesWithTable ==
  \A a \in Alerts :
    \/ a \in told <=> a \in rows
    \/ a \in events
    \/ a \in lost

\* If cycles come to their end again and again, no alert stands for ever whose
\* check finds a good reading and whose rule the running settings watch, although
\* stops, crashes, exceptions and restarts with other settings cut other cycles
\* short.  (That cycles end is no promise of the code: a queued message that the
\* notifier cannot format ends every one before its first evaluation.  The check
\* of a rule that is switched off returns before it could end an alert.)
AlertsEnd ==
  []<><<EndCycle>>_vars =>
    \A a \in Alerts : []<>~(a \in rows \ bad /\ a \in Watched[started])

\* After every stop, crash and broken file the service runs again, as soon as the
\* file and the host stay in order: a graceful stop waits for nothing that might
\* not end.
ServiceComesBack == <>[]CanStart => []<>(phase = "up")

=============================================================================
