---------------------------- MODULE CheckedBlocks ----------------------------
(***************************************************************************)
(* The block listener composed with one receiver of its broadcast: the     *)
(* block loop of watch_events, which reads the events of every block of a  *)
(* message, one await per block, while the listener goes on.               *)
(***************************************************************************)
EXTENDS BlockListener, AlertFormat, BroadcastChannel

VARIABLES
  stream,       \* BlocksStream of watch_events
  todo,         \* blocks of the message in hand whose events are not read yet
  checked,      \* history: blocks whose events were read, in order
  watching,     \* watch_events has not returned
  before,       \* history: the best block of the first load and its ancestors
  retractions   \* history: blocks retracted by the messages, in order

watchVars == <<stream, todo, checked, watching>>
systemVars == <<vars, watchVars, before, retractions>>

-----------------------------------------------------------------------------
(* The listener's steps, with what its broadcast does to the receiver.     *)

\* Mutant: the message is sent only if it carries no re-org.
SendBlocksExtSkips ==
  /\ stream' = IF sent'.maybe_reorg_data = NoReorg THEN Send(stream, sent') ELSE stream
  /\ retractions' = retractions \o sent'.maybe_reorg_data.retracted

\* Mutant: a message is sent again when its re-org is known.
SendBlocksExtTwice ==
  /\ stream' = IF sent'.maybe_reorg_data = NoReorg THEN Send(stream, sent')
               ELSE Send(Send(stream, [sent' EXCEPT !.maybe_reorg_data = NoReorg]), sent')
  /\ retractions' = retractions \o sent'.maybe_reorg_data.retracted

\* sink.send(BlocksExt)
SendBlocksExt ==
  /\ stream' = Send(stream, sent')
  /\ retractions' = retractions \o sent'.maybe_reorg_data.retracted

PublishAndSend ==
  /\ Publish
  /\ SendBlocksExt
  /\ UNCHANGED <<todo, checked, watching, before>>

FirstLoadDone ==
  /\ LoadDone
  /\ before' = IF session = 0 THEN Ancestry(block) ELSE before
  /\ UNCHANGED <<watchVars, retractions>>

ListenerStep ==
  \/ SubscribeAll \/ LoadRecv \/ LoadCanonical
  \/ \E n \in LoadNumbers : LoadHeader(n)
  \/ Recv \/ CheckCanonical \/ FetchMissing \/ NothingEnacted \/ NoHash

OtherStep == (Node \/ ListenerStep \/ Fail) /\ UNCHANGED <<watchVars, before, retractions>>

-----------------------------------------------------------------------------
(* watch_events                                                            *)

WatchRecv ==
  /\ watching
  /\ todo = << >>
  /\ Ready(stream) /\ ~ stream.lagged
  /\ todo' = Head(stream.queue).blocks
  /\ stream' = Taken(stream)
  /\ UNCHANGED <<vars, checked, watching, before, retractions>>

\* Mutant: the blocks of a message are read from the newest down.
ReadEventsDown ==
  /\ watching
  /\ todo # << >>
  /\ checked' = Append(checked, Last(todo))
  /\ todo' = Front(todo)
  /\ UNCHANGED <<vars, stream, watching, before, retractions>>

\* The events of the next block arrive.
ReadEvents ==
  /\ watching
  /\ todo # << >>
  /\ checked' = Append(checked, Head(todo))
  /\ todo' = Tail(todo)
  /\ UNCHANGED <<vars, stream, watching, before, retractions>>

\* recv returns Lagged, or the request for the events fails: the task returns.
WatchReturns ==
  /\ watching
  /\ \/ todo = << >> /\ stream.lagged /\ UNCHANGED faults
     \/ todo # << >> /\ Fault
  /\ watching' = FALSE
  /\ UNCHANGED <<nodeVars, sub, phase, block, loaded, header_metadata,
                 current_best_block, sent, session, notified, announced, error,
                 stream, todo, checked, before, retractions>>

-----------------------------------------------------------------------------

SystemInit ==
  /\ Init
  /\ stream = Resubscribe
  /\ todo = << >>
  /\ checked = << >>
  /\ watching = TRUE
  /\ before = {}
  /\ retractions = << >>

Watch == WatchRecv \/ ReadEvents

SystemNext == PublishAndSend \/ FirstLoadDone \/ OtherStep \/ Watch \/ WatchReturns

\* The listener and the watcher are polled when they can go on.
SystemFairness ==
  /\ WF_systemVars(PublishAndSend \/ FirstLoadDone)
  /\ WF_systemVars(ListenerStep /\ UNCHANGED <<watchVars, before, retractions>>)
  /\ WF_systemVars(Open /\ UNCHANGED <<watchVars, before, retractions>>)
  /\ WF_systemVars(Watch)

SystemSpec == SystemInit /\ [][SystemNext]_systemVars /\ SystemFairness

-----------------------------------------------------------------------------
(* Properties.                                                             *)

Count(b, s) == Cardinality({i \in DOMAIN s : s[i] = b})

\* The blocks handed to the receiver: checked, in hand and queued.
Received == checked \o todo \o FlattenSeq([i \in DOMAIN stream.queue |->
                                             stream.queue[i].blocks])

\* 1 if the condition holds.
One(condition) == IF condition THEN 1 ELSE 0

\* Until a reconnection or an overrun, a block is handed to the event checks once
\* for every time it joined the best chain, and again only after a message told
\* that it was retracted: a chain that goes to another fork and back repeats
\* exactly the blocks it took back.
OncePerEnactment ==
  session = 1 /\ ~ stream.lagged =>
    \A b \in imported :
      Count(b, Received) + One(b \in before)
        = Count(b, retractions) + One(b \in Ancestry(current_best_block))

\* The parent of a block is checked before the block, or preceded the start
\* (README: "Some alerts check against the parent block"), re-orgs included.
ParentsFirst ==
  session = 1 =>
    \A i \in DOMAIN checked :
      Parent(checked[i]) \in before \cup {checked[j] : j \in 1..(i - 1)}

\* The re-org alert the stall monitor makes of a message adds up once it is formatted,
\* whatever forks the node went through: see AddsUp.
ReorgAddsUp ==
  sent.maybe_reorg_data # NoReorg => AddsUp(FormatAlert(ChainReorg(sent), 0))

\* Once the node stops importing, every block of its best chain has been checked
\* or preceded the start, unless a task returned, the listener reconnected or the
\* node never notified its best block.
BestChainChecked ==
  <>[](\/ phase = "returned" \/ ~ watching \/ stream.lagged
       \/ session # 1
       \/ best \notin notified
       \/ Ancestry(best) \subseteq before \cup ToSet(checked))

=============================================================================
