---------------------------- MODULE AlertPipeline ----------------------------
(***************************************************************************)
(* From a broadcast block to a Slack message: watch_events reads the       *)
(* events of every block and queues alerts, SlackAlerter::run posts them,  *)
(* and main ends the process when any task returns.                        *)
(*                                                                         *)
(* The other tasks of the join set share the alert queue and may return;   *)
(* their own modules say when.                                             *)
(***************************************************************************)
EXTENDS EventAlerts, AlertFormat, BroadcastChannel

CONSTANTS
  Blocks,             \* blocks that are broadcast
  BlockEvents,        \* the event sequences a block may have
  TokenDecimals,      \* FormatConfig::token_decimals
  MaxDecimals,        \* bound: token decimals for which amounts are checked
  OtherTasks,         \* the other tasks of the join set: listener, stall and slots,
                      \* and updater, uptime and network, which act alike here
  MaxBatch,           \* bound: blocks in one BlocksExt
  MaxMessages,        \* bound: BlocksExt broadcast
  MaxStatusAlerts,    \* bound: alerts of the stall and slot monitors
  MaxFaults           \* bound: requests that fail

ASSUME PipelineConstants ==
  /\ BlockEvents \subseteq Seq(Event)
  /\ {"listener", "stall", "slots"} \subseteq OtherTasks
  /\ {"events", "slack"} \cap OtherTasks = {}
  /\ MaxDecimals \in Nat /\ TokenDecimals \in 0..MaxDecimals
  /\ MaxBatch \in Nat \ {0} /\ MaxMessages \in Nat
  /\ MaxStatusAlerts \in Nat /\ MaxFaults \in Nat

VARIABLES
  events,      \* chain: the events of each block
  stream,      \* BlocksStream of watch_events
  todo,        \* watch_events: blocks of the message in hand not yet read
  queue,       \* the unbounded alert channel
  session,     \* SlackAlerter::run: "auth", "recv" or "posting"
  posted,      \* Slack: the alerts it shows, in order
  finished,    \* tasks that returned, with their result
  running,     \* main has not returned
  faults,      \* failures so far
  broadcast,   \* history: blocks broadcast, in order
  messages,    \* history: BlocksExt broadcast
  statuses,    \* history: alerts of the monitors
  read,        \* history: blocks whose events were read, in order
  dropped      \* history: alerts whose post failed, in order

vars == <<events, stream, todo, queue, session, posted, finished, running,
          faults, broadcast, messages, statuses, read, dropped>>

taskVars == <<stream, todo, queue, session, posted>>
historyVars == <<broadcast, messages, statuses, read, dropped>>

\* An alert of the stall or the slot monitor.
Status == [alert |-> "TimekeeperStall", last_slot |-> 1, duration |-> 1]

Finished(t) == \E f \in finished : f.task = t

Fault == faults < MaxFaults /\ faults' = faults + 1

\* A task that is polled: the process runs and the task has not returned.
Live(t) == running /\ ~ Finished(t)

Returns(t, result) == finished' = finished \cup {[task |-> t, result |-> result]}

-----------------------------------------------------------------------------
(* The other tasks.                                                        *)

Broadcast(blocks) ==
  /\ Live("listener")
  /\ messages < MaxMessages
  /\ stream' = Send(stream, blocks)
  /\ broadcast' = broadcast \o blocks
  /\ messages' = messages + 1
  /\ UNCHANGED <<events, todo, queue, session, posted, finished, running, faults,
                 statuses, read, dropped>>

StatusAlert ==
  /\ Live("stall") \/ Live("slots")
  /\ statuses < MaxStatusAlerts
  /\ queue' = Append(queue, Status)
  /\ statuses' = statuses + 1
  /\ UNCHANGED <<events, stream, todo, session, posted, finished, running, faults,
                 broadcast, messages, read, dropped>>

OtherTaskReturns(t) ==
  /\ Live(t)
  /\ Fault
  /\ Returns(t, "error")
  /\ UNCHANGED <<events, taskVars, running, historyVars>>

-----------------------------------------------------------------------------
(* watch_events                                                            *)

WatchRecv ==
  /\ Live("events")
  /\ todo = << >>
  /\ Ready(stream)
  /\ ~ stream.lagged
  /\ todo' = Head(stream.queue)
  /\ stream' = Taken(stream)
  /\ UNCHANGED <<events, queue, session, posted, finished, running, faults,
                 historyVars>>

WatchLagged ==
  /\ Live("events")
  /\ todo = << >>
  /\ stream.lagged
  /\ Returns("events", "lagged")
  /\ UNCHANGED <<events, taskVars, running, faults, historyVars>>

\* Mutant: one block of the message is checked.
ReadEventsOfFirst ==
  /\ Live("events")
  /\ todo # << >>
  /\ queue' = queue \o BlockAlerts(events[Head(todo)])
  /\ read' = Append(read, Head(todo))
  /\ todo' = << >>
  /\ UNCHANGED <<events, stream, session, posted, finished, running, faults,
                 broadcast, messages, statuses, dropped>>

\* The events of the next block arrive and are decoded.  Nothing is awaited
\* between that and queueing its alerts.
ReadEvents ==
  /\ Live("events")
  /\ todo # << >>
  /\ queue' = queue \o BlockAlerts(events[Head(todo)])
  /\ read' = Append(read, Head(todo))
  /\ todo' = Tail(todo)
  /\ UNCHANGED <<events, stream, session, posted, finished, running, faults,
                 broadcast, messages, statuses, dropped>>

\* The request fails (the node has pruned the block, or is gone), or one of the
\* events does not decode.
ReadFails ==
  /\ Live("events")
  /\ todo # << >>
  /\ Fault
  /\ \E result \in {"error", "decode"} : Returns("events", result)
  /\ UNCHANGED <<events, taskVars, running, historyVars>>

-----------------------------------------------------------------------------
(* SlackAlerter::run                                                       *)

AuthTest ==
  /\ Live("slack")
  /\ session = "auth"
  /\ session' = "recv"
  /\ UNCHANGED <<events, stream, todo, queue, posted, finished, running, faults,
                 historyVars>>

AuthFails ==
  /\ Live("slack")
  /\ session = "auth"
  /\ Fault
  /\ Returns("slack", "error")
  /\ UNCHANGED <<events, taskVars, running, historyVars>>

CanFormat(alert) == ~ FormatPanics(FormatAlert(alert, TokenDecimals))

\* The next alert is received and formatted.
RecvAlert ==
  /\ Live("slack")
  /\ session = "recv"
  /\ queue # << >>
  /\ CanFormat(Head(queue))
  /\ session' = "posting"
  /\ UNCHANGED <<events, stream, todo, queue, posted, finished, running, faults,
                 historyVars>>

\* format_alert panics: the task ends, and the alert is lost with it.
FormatFails ==
  /\ Live("slack")
  /\ session = "recv"
  /\ queue # << >>
  /\ ~ CanFormat(Head(queue))
  /\ Returns("slack", "panic")
  /\ UNCHANGED <<events, taskVars, running, faults, historyVars>>

Posted == posted' = Append(posted, Head(queue)) /\ UNCHANGED <<faults, dropped>>

\* The post fails after its retries; it is logged.
PostFails == Fault /\ dropped' = Append(dropped, Head(queue)) /\ UNCHANGED posted

\* Mutant: a failed post ends the loop.
ChatPostMessageReturns ==
  /\ Live("slack")
  /\ session = "posting"
  /\ session' = "recv"
  /\ queue' = Tail(queue)
  /\ \/ Posted /\ UNCHANGED finished
     \/ PostFails /\ Returns("slack", "error")
  /\ UNCHANGED <<events, stream, todo, running, broadcast, messages, statuses, read>>

\* Mutant: an alert whose post failed is queued again, behind the others.
ChatPostMessageRequeues ==
  /\ Live("slack")
  /\ session = "posting"
  /\ session' = "recv"
  /\ \/ Posted /\ queue' = Tail(queue)
     \/ /\ Fault /\ queue' = Append(Tail(queue), Head(queue))
        /\ UNCHANGED <<posted, dropped>>
  /\ UNCHANGED <<events, stream, todo, finished, running, broadcast, messages,
                 statuses, read>>

\* The alert in hand, kept at the head of queue until now, is posted or dropped.
ChatPostMessage ==
  /\ Live("slack")
  /\ session = "posting"
  /\ session' = "recv"
  /\ queue' = Tail(queue)
  /\ Posted \/ PostFails
  /\ UNCHANGED <<events, stream, todo, finished, running, broadcast, messages,
                 statuses, read>>

-----------------------------------------------------------------------------
(* main                                                                    *)

\* join_next: the first task to return ends the process, and the tasks with it.
JoinNext ==
  /\ running
  /\ finished # {}
  /\ running' = FALSE
  /\ UNCHANGED <<events, taskVars, finished, faults, historyVars>>

\* The receivers exist before the listener is spawned.
Init ==
  /\ events \in [Blocks -> BlockEvents]
  /\ stream = Resubscribe
  /\ todo = << >>
  /\ queue = << >>
  /\ session = "auth"
  /\ posted = << >>
  /\ finished = {}
  /\ running = TRUE
  /\ faults = 0
  /\ broadcast = << >>
  /\ messages = 0
  /\ statuses = 0
  /\ read = << >>
  /\ dropped = << >>

Batches == UNION {[1..n -> Blocks] : n \in 1..MaxBatch}

Watch == WatchRecv \/ WatchLagged \/ ReadEvents
Slack == AuthTest \/ RecvAlert \/ FormatFails \/ ChatPostMessage

Next ==
  \/ Watch \/ ReadFails
  \/ Slack \/ AuthFails
  \/ JoinNext
  \/ StatusAlert
  \/ \E blocks \in Batches : Broadcast(blocks)
  \/ \E t \in OtherTasks : OtherTaskReturns(t)

\* Every task is polled when it can go on, and requests are answered.
Fairness == WF_vars(Watch) /\ WF_vars(Slack) /\ WF_vars(JoinNext)

Spec == Init /\ [][Next]_vars /\ Fairness

-----------------------------------------------------------------------------
(* Properties.                                                             *)

\* A transfer names its known account; the other events name none.
EventAlert ==
  [alert : {"Event"}, event : Event, direction : {"Sender", "Receiver"},
   account : Range(AccountMappedName)]
    \cup [alert : {"Event"}, event : Event, direction : {"None"}, account : {"none"}]

QueuedAlert == EventAlert \cup {Status}

Results == {"error", "lagged", "decode", "panic"}
Tasks == OtherTasks \cup {"events", "slack"}

\* Every variable holds what the tasks may hold; an alert about a transfer names an
\* account of the configuration.
TypeOK ==
  /\ events \in [Blocks -> BlockEvents]
  /\ stream \in Receivers(Seq(Blocks))
  /\ todo \in Seq(Blocks)
  /\ queue \in Seq(QueuedAlert)
  /\ posted \in Seq(QueuedAlert) /\ dropped \in Seq(QueuedAlert)
  /\ session \in {"auth", "recv", "posting"} /\ (session = "posting" => queue # << >>)
  /\ finished \subseteq [task : Tasks, result : Results]
  /\ running \in BOOLEAN
  /\ faults \in 0..MaxFaults
  /\ broadcast \in Seq(Blocks) /\ read \in Seq(Blocks)
  /\ messages \in 0..MaxMessages /\ statuses \in 0..MaxStatusAlerts

EventAlertsIn(alerts) == SelectSeq(alerts, LAMBDA a : a # Status)

AlertsOf(blocks) ==
  FlattenSeq([i \in DOMAIN blocks |-> BlockAlerts(events[blocks[i]])])

\* s is t with some elements left out: the first i elements of t hold, in their
\* order, the first found[i] of s.
IsSubsequence(s, t) ==
  LET found[i \in 0..Len(t)] ==
        IF i = 0 THEN 0
        ELSE LET n == found[i - 1]
             IN  IF n < Len(s) /\ s[n + 1] = t[i] THEN n + 1 ELSE n
  IN  found[Len(t)] = Len(s)

\* The event alerts shown are those of the blocks, in block order, but for the
\* dropped ones.
ShownOf(shown, blocks) ==
  LET alerts == EventAlertsIn(shown)
      made   == AlertsOf(blocks)
  IN  /\ Len(alerts) + Len(EventAlertsIn(dropped)) = Len(made)
      /\ IsSubsequence(alerts, made)

\* What Slack shows, and then what is queued, are the event alerts of the blocks
\* read so far, each once and in block order, whatever the monitors queue in
\* between; only an alert whose own post failed is missing, so that a failed post
\* costs no other alert and none is repeated.
AlertsInOrder == ShownOf(posted \o queue, read)

\* Unless the channel overran, the watcher has read or still holds every block
\* broadcast, in order, those of a message it is in the middle of included.
NoBlockSkipped ==
  ~ stream.lagged => read \o todo \o FlattenSeq(stream.queue) = broadcast

Reportable(e) ==
  \/ e.kind \in Range(AlertedKinds)
  \/ e.kind \in Range(TransferKinds) /\ {e.from, e.to} \cap KnownAccounts # {}

\* Every event of an alerted kind and every transfer that names a known account
\* makes exactly one alert, a transfer between two known accounts included.
OneAlertPerEvent ==
  \A b \in Blocks :
    LET alerts == BlockAlerts(events[b])
        own(e) == {j \in DOMAIN alerts : alerts[j].event = e}
    IN  \A i \in DOMAIN events[b] :
          Cardinality(own(events[b][i])) = IF Reportable(events[b][i]) THEN 1 ELSE 0

\* The amount of every alert that is queued is stated exactly, or is
\* beyond what a Decimal holds, for any decimals of the token: see Exact.
AmountExact ==
  \A i \in DOMAIN queue : queue[i].alert = "Event" =>
    \A decimals \in 0..MaxDecimals : Exact(queue[i].event.amount, decimals)

\* Why Slack may never see an alert: another task returned, there is no session with
\* Slack, or an amount cannot be formatted.  A failed post is no such reason.
Stopped ==
  \E f \in finished : f.task # "slack" \/ session = "auth" \/ f.result = "panic"

\* Once the listener stops broadcasting, Slack shows the alerts of every block
\* broadcast except those whose own post failed, unless the alerter stopped for
\* another reason: a post that SlackAlerter::run gives up neither ends it nor holds
\* up the alerts behind it.
AlertsDelivered == <>[](Stopped \/ ShownOf(posted, broadcast))

\* README: "Basic error handling: logs warnings on transient decode/metadata
\* mismatches and continues."  An event that does not decode ends watch_events,
\* and with it the process.
DecodeErrorsTolerated == \A f \in finished : f.result # "decode"

=============================================================================
