----------------------------- MODULE Supervisor -----------------------------
(***************************************************************************)
(* main: the start-up requests in order, each of which may end the         *)
(* process, the tasks it spawns one after the other while those already    *)
(* spawned run, and the wait for the first task to return.                 *)
(*                                                                         *)
(* The tasks are modelled in modules of their own; here they broadcast,    *)
(* push the uptime status and return.  The surroundings of the process     *)
(* (files, options, properties of the chain) do not change while it runs.  *)
(***************************************************************************)
EXTENDS Naturals, Sequences, SequencesExt

CONSTANTS
  Modes,        \* permissions a secret file may have: user, group, others
  MaxSent,      \* bound: messages broadcast on one channel
  MaxFaults     \* bound: requests that fail, and tasks that return

ASSUME SupervisorConstants ==
  /\ Modes \subseteq (0..7) \X (0..7) \X (0..7)
  /\ MaxSent \in Nat /\ MaxFaults \in Nat

Properties == {"ss58Format", "tokenSymbol", "tokenDecimals"}

\* What the process finds: the chain's properties and whether it has a block 0, the
\* network configuration, the secret file, and the options of the uptime pushes.
Environment ==
  [properties : SUBSET Properties, genesis : BOOLEAN,
   networks : {"no file", "malformed", "unlisted", "listed"}, addresses_valid : BOOLEAN,
   secret_file : BOOLEAN, mode : Modes, secret_empty : BOOLEAN,
   uptimekuma : {"no url", "zero interval", "set"}]

VARIABLES
  env,          \* the surroundings
  main,         \* the step main is at
  spawned,      \* tasks of the join set
  finished,     \* tasks that returned, with their result
  exit,         \* what main returned, or "none"
  mapped,       \* watch_events: account_mapped_name is done
  uptime,       \* push_uptime_status: "start", "tick" or "sending"
  faults,       \* failures so far
  sent,         \* messages broadcast on each channel
  missed        \* history: messages broadcast before a task had its receiver

vars == <<env, main, spawned, finished, exit, mapped, uptime, faults, sent, missed>>

taskVars == <<spawned, finished, mapped, uptime, sent, missed>>

\* The error conversions.
From ==
  [subxt |-> "Subxt", join |-> "Join", reqwest |-> "Reqwest", rpc |-> "Rpc",
   codec |-> "Scale", recv |-> "BroadRecvErr", io |-> "Io", toml |-> "Toml",
   slack |-> "Slack"]

Fault == faults < MaxFaults /\ faults' = faults + 1

Live(t) ==
  /\ main # "done"
  /\ t \in spawned
  /\ \A f \in finished : f.task # t

Returns(t, result) == finished' = finished \cup {[task |-> t, result |-> result]}

-----------------------------------------------------------------------------
(* Start-up.                                                               *)

Goto(step) == main' = step /\ UNCHANGED <<env, exit, faults, taskVars>>

\* An early return, or a panic: the join set is dropped, and the tasks with it.
Exit(result) == main' = "done" /\ exit' = result /\ UNCHANGED <<env, taskVars>>

Abort(result) == Exit(result) /\ UNCHANGED faults

RequestFails(results) == Fault /\ \E r \in results : Exit(r)

NewFromUrl ==
  /\ main = "connect"
  /\ Goto("details") \/ RequestFails({From.rpc, From.subxt})

\* The block hash is unwrapped before the properties are looked at.
NetworkDetails ==
  /\ main = "details"
  /\ \/ RequestFails({From.rpc})
     \/ ~ env.genesis /\ Abort("panic")
     \/ env.genesis /\ env.properties # Properties /\ Abort("Config")
     \/ env.genesis /\ env.properties = Properties /\ Goto("networks")

LoadNetworksConfig ==
  /\ main = "networks"
  /\ \/ env.networks = "no file" /\ Abort(From.io)
     \/ env.networks = "malformed" /\ Abort(From.toml)
     \/ env.networks = "unlisted" /\ Abort("Config")
     \/ env.networks = "listed" /\ Goto("network")

NewNetwork ==
  /\ main = "network"
  /\ Goto("updater") \/ RequestFails({From.io})

SpawnUpdater ==
  /\ main = "updater"
  /\ spawned' = spawned \cup {"updater"}
  /\ main' = "slack"
  /\ UNCHANGED <<env, finished, exit, mapped, uptime, faults, sent, missed>>

PrivateMode(mode) == mode \in {<<4, 0, 0>>, <<6, 0, 0>>}

\* SlackSecret::new
NewSlackAlerter ==
  /\ main = "slack"
  /\ \/ ~ env.secret_file /\ Abort(From.io)
     \/ env.secret_file /\ ~ PrivateMode(env.mode) /\ Abort("panic")
     \/ /\ env.secret_file /\ PrivateMode(env.mode)
        /\ \/ RequestFails({From.io})
           \/ env.secret_empty /\ Abort("Config")
           \/ ~ env.secret_empty /\ Goto("spawn")

\* Mutant: the listener is spawned before the tasks that receive from it.
SpawnOrderListenerFirst ==
  SelectSeq(<<"uptime", "listener", "stall", "events", "slots", "slack", "network">>,
            LAMBDA t : t = "uptime" => env.uptimekuma # "no url")

SpawnOrder ==
  SelectSeq(<<"uptime", "stall", "events", "slots", "slack", "listener", "network">>,
            LAMBDA t : t = "uptime" => env.uptimekuma # "no url")

\* The channels, with their sender and their receivers.
Sender == [blocks |-> "listener", slots |-> "network"]
ReceivesFrom == [stall |-> "blocks", events |-> "blocks", slots |-> "slots"]

\* The next task is spawned; its receiver, if it has one, starts at the tail of the
\* channel.  The runtime has several threads: a task may run at once.
Spawn ==
  /\ main = "spawn"
  /\ \E i \in DOMAIN SpawnOrder :
       LET t == SpawnOrder[i]
       IN  /\ t \notin spawned
           /\ \A j \in 1..(i - 1) : SpawnOrder[j] \in spawned
           /\ spawned' = spawned \cup {t}
           /\ missed' = IF t \in DOMAIN ReceivesFrom
                          THEN [missed EXCEPT ![t] = sent[ReceivesFrom[t]]] ELSE missed
           /\ main' = IF i = Len(SpawnOrder) THEN "join" ELSE "spawn"
  /\ UNCHANGED <<env, finished, exit, mapped, uptime, faults, sent>>

\* Mutant: main waits for every task.
JoinNextAll ==
  /\ main = "join"
  /\ \A t \in spawned : \E f \in finished : f.task = t
  /\ \E f \in finished : Abort(IF f.result = "panic" THEN From.join ELSE f.result)

\* Mutant: only the join error is looked at.
JoinNextOuter ==
  /\ main = "join"
  /\ \E f \in finished : Abort(IF f.result = "panic" THEN From.join ELSE "Ok")

\* The first task to return ends the process with its result, "Ok" included.
JoinNext ==
  /\ main = "join"
  /\ \E f \in finished : Abort(IF f.result = "panic" THEN From.join ELSE f.result)

-----------------------------------------------------------------------------
(* The tasks.                                                              *)

\* The updater (external) may also return without an error; the network never does.
TaskResults ==
  [updater  |-> {From.subxt, "Ok"},
   stall    |-> {From.recv},
   events   |-> {From.recv, From.subxt},
   slots    |-> {From.recv},
   slack    |-> {From.io, From.slack, "panic"},
   listener |-> {From.rpc, From.subxt, "MissingBlock"}]

TaskReturns(t, result) ==
  /\ Live(t)
  /\ t = "events" => mapped
  /\ Fault
  /\ Returns(t, result)
  /\ UNCHANGED <<env, main, spawned, exit, mapped, uptime, sent, missed>>

\* Mutant: an address that is not valid is skipped.
AccountMappedNameSkips ==
  /\ Live("events") /\ ~ mapped
  /\ mapped' = TRUE
  /\ UNCHANGED <<env, main, spawned, finished, exit, uptime, faults, sent, missed>>

\* watch_events starts with its accounts, and panics on an address that is not valid.
AccountMappedName ==
  /\ Live("events") /\ ~ mapped
  /\ IF env.addresses_valid
       THEN mapped' = TRUE /\ UNCHANGED finished
       ELSE Returns("events", "panic") /\ UNCHANGED mapped
  /\ UNCHANGED <<env, main, spawned, exit, uptime, faults, sent, missed>>

\* The interval panics on a period of zero, the client when it cannot be built.
PushUptimeStart ==
  /\ Live("uptime") /\ uptime = "start"
  /\ \/ /\ env.uptimekuma # "zero interval"
        /\ uptime' = "tick" /\ UNCHANGED <<finished, faults>>
     \/ /\ Returns("uptime", "panic")
        /\ IF env.uptimekuma = "zero interval" THEN UNCHANGED faults ELSE Fault
        /\ UNCHANGED uptime
  /\ UNCHANGED <<env, main, spawned, exit, mapped, sent, missed>>

UptimeTick ==
  /\ Live("uptime") /\ uptime = "tick"
  /\ uptime' = "sending"
  /\ UNCHANGED <<env, main, spawned, finished, exit, mapped, faults, sent, missed>>

\* An answer other than success is only logged; a request that fails ends the task.
PushUptimeStatus ==
  /\ Live("uptime") /\ uptime = "sending"
  /\ uptime' = "tick"
  /\ \/ UNCHANGED <<finished, faults>>
     \/ Fault /\ Returns("uptime", From.reqwest)
  /\ UNCHANGED <<env, main, spawned, exit, mapped, sent, missed>>

SendOn(channel) ==
  /\ Live(Sender[channel])
  /\ sent[channel] < MaxSent
  /\ sent' = [sent EXCEPT ![channel] = sent[channel] + 1]
  /\ UNCHANGED <<env, main, spawned, finished, exit, mapped, uptime, faults, missed>>

-----------------------------------------------------------------------------

Init ==
  /\ env \in Environment
  /\ main = "connect"
  /\ spawned = {}
  /\ finished = {}
  /\ exit = "none"
  /\ mapped = FALSE
  /\ uptime = "start"
  /\ faults = 0
  /\ sent = [c \in DOMAIN Sender |-> 0]
  /\ missed = [t \in DOMAIN ReceivesFrom |-> 0]

Main ==
  \/ NewFromUrl \/ NetworkDetails \/ LoadNetworksConfig \/ NewNetwork
  \/ SpawnUpdater \/ NewSlackAlerter \/ Spawn \/ JoinNext

Next ==
  \/ Main
  \/ AccountMappedName
  \/ PushUptimeStart \/ UptimeTick \/ PushUptimeStatus
  \/ \E t \in DOMAIN TaskResults : \E r \in TaskResults[t] : TaskReturns(t, r)
  \/ \E c \in DOMAIN Sender : SendOn(c)

\* Requests are answered or time out, and tasks are polled.
Fairness == WF_vars(Main) /\ WF_vars(AccountMappedName) /\ WF_vars(PushUptimeStart)

Spec == Init /\ [][Next]_vars /\ Fairness

-----------------------------------------------------------------------------
(* Properties.                                                             *)

\* No task misses a block or a slot that was broadcast before its receiver existed,
\* although the tasks already spawned run while main spawns the next: main takes
\* every receiver before it spawns the listener and the network.
NoBroadcastMissed == \A t \in DOMAIN missed : missed[t] = 0

\* A process that cannot work with the chain's properties, its network configuration,
\* its secret file or its uptime interval ends, whichever start-up step or task finds
\* out: account_mapped_name and push_uptime_status panic in tasks of their own.
BadConfigFatal ==
  \/ /\ env.genesis /\ env.properties = Properties
     /\ env.networks = "listed" /\ env.addresses_valid
     /\ env.secret_file /\ PrivateMode(env.mode) /\ ~ env.secret_empty
     /\ env.uptimekuma # "zero interval"
  \/ <>(main = "done")

\* A task that returns, even while main is still starting, ends the process and with
\* it the uptime pushes: no monitor is dead while the status stays "up".
FailureEndsProcess == finished # {} ~> main = "done"

\* No error, of a start-up step or of a task, and no panic is turned into a successful
\* exit, although a task's result is nested in that of its join.  A task that returns
\* Ok(()) does end the process as a success, which the comment above join_next ("if
\* exits, it is a failure") does not allow for: only the updater's result can be one.
FailureReported == exit = "Ok" => \E f \in finished : f.result = "Ok"

=============================================================================
