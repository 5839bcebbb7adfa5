# subspace-chain-alerts: TLA+ models, checks and proofs

The alerter (`alerter/src`) follows a Subspace node over RPC and the timekeeper
over libp2p, and posts alerts to Slack. It is one process of tokio tasks that
share channels. What is hard to test in it is time and order: the node re-orgs
while the listener awaits answers, timers race messages, gossip loses and
repeats slots, channels overrun, and the first task that returns ends the
process. This directory models those tasks, checks them with TLC on small
instances, and proves the main results with TLAPS for all values of the
constants.

## The system and its parts

| part | code | module |
|---|---|---|
| block listener | `subspace.rs` `listen_for_all_blocks`, `listen_for_blocks`, `load_header_metadata_cache`, `recursive_tree_route` | `BlockListener` |
| header cache | `subspace.rs` `HeadersMetadataCache` | `HeaderCache` |
| tree route (external, `sp_blockchain`) | its uses in `subspace.rs` | `BlockTree` |
| the broadcast message and its re-org alert | `subspace.rs` `BlocksExt`, `stall_and_reorg.rs` | `BlocksMessage` |
| what the broadcast promises | the uses of `BlocksExt` | `ChainFollower` |
| listener and event watcher together | `subspace.rs`, `events.rs` | `CheckedBlocks` |
| broadcast channels (external, tokio) | `subspace.rs`, `p2p_network.rs` | `BroadcastChannel` |
| stall and re-org monitor | `stall_and_reorg.rs` | `StallMonitor` |
| slot monitor | `slots.rs` | `SlotMonitor` |
| what stall and recovery alerts promise | the alerts of both monitors | `StallReports` |
| peer roles, connections, discovery | `p2p_network.rs` | `PeerNetwork` |
| which events become alerts | `events.rs`, `event_types.rs` | `EventAlerts` |
| the message of an alert | `md_format.rs` | `AlertFormat` |
| event watcher, Slack alerter, join set | `events.rs`, `slack.rs`, `main.rs` | `AlertPipeline` |
| start-up, spawning, exit; uptime pusher, secret, errors | `main.rs`, `uptime.rs`, `slack.rs`, `error.rs`, `subspace.rs` `new_from_url`, `network_details` | `Supervisor` |

How they interact: the node notifies imported blocks; the listener decides which
are on the best chain, and broadcasts a `BlocksExt` per new best block; the
stall monitor and the event watcher each receive every broadcast; the network
broadcasts slots to the slot monitor; the three send alerts through one
unbounded queue to the Slack alerter; `main` waits for the first task to return
and then ends the process.

`PROJECT.json` lists every component, the source lines each definition models,
and the hazards that the properties are aimed at.

## How the modules correspond to the code

Every `await` ends a step: what the code reads in an answer is read in the
step that models it, and the node, the timekeeper, the peers and the other tasks
may move between any two steps. Code between two awaits is one step.

**BlockTree.** A hash commits to the whole path from genesis, so a block *is*
that path: a sequence of choices. Number, parent and ancestors are its length
and its prefixes. `TreeRoute` is `sp_blockchain::tree_route`; `FirstOnRoute` is
the header its walk would ask for first.

**HeaderCache.** `block_header_data` (a set, since a hash determines its
header) and `block_number_hashes` (number to hashes). `RemoveHeaderUntil` stops
at the first missing number, as the `while let` of `remove_header_until` does.

**BlockListener.** `phase` is the await the listener is at. `subscribe`,
`head_first`, `stream_first`: opening the subscription, which delivers the head
and from then on imports; the node may read the head before or after it starts
to forward imports, so imports may be skipped or repeated. Later imports too are
notified in any order or not at all, as the repository's README says of them. `load`,
`load_canonical`, `load_headers`: `load_header_metadata_cache`, with up to
`FetchWindow` (`buffered(30)`) requests in flight. `recv`, `canonical`, `route`:
`listen_for_blocks`. Error paths keep the distinction the code makes: an RPC
error while listening starts over with the cache kept; anything else, and any
error while loading, returns. History variables: `session` counts cache loads,
`notified` what the node put in the stream, `announced` what was broadcast or
preceded the start.

**ChainFollower.** The abstract specification of the broadcast: each message
continues from the previous best block along parent links or names the common
block, the retracted branch up to the previous best block, and the enacted
branch. The tip moves without a message only when a cache load sets it.

**CheckedBlocks.** `BlockListener`, with every `Publish` also sent into a
`BroadcastChannel` whose receiver is the block loop of `watch_events`: one await
per block, while the listener goes on. `before`, `retractions` and `checked` are
history.

**StallMonitor, SlotMonitor.** Time is counted in ticks, and a task is polled at
most `MaxDelay` ticks after it could go on. `tokio::time::timeout` polls the
channel before the timer, so `Timeout` needs an empty channel. A `None` timeout
is 0, which is why `StallThreshold` is assumed positive. Slots carry the time of
their arrival (`PoTInfo::at`). `silence`, `open_stall` and `notified_at` are
history.

**StallReports.** The abstract specification of the stall and recovery alerts:
a stall grows in whole timeouts, a recovery repeats the last duration and closes
it, and only while the monitor cannot yet name a block or slot may a recovery
come without a stall. Both monitors implement it (`ReportsConsistent`), each with
its own refinement mapping. Its `report` is the alert of the last step.

**PeerNetwork.** The swarm's connections, dials, routing table and pending
`ProtocolOpen` events are the environment; the two protocols are treated alike by
`handle_event` and are one set here. A bootnode address names its peer or does
not (`extract_peer_id`); `run` dials all of them and adds the first kind to the
routing table. The periodic query dials the peers of the table that are not
connected.

**AlertFormat.** A message is its heading and the facts it states.
`FormatBalance` keeps the widths: `10u128.pow` overflows (overflow checks are on
in the release profile), and `Decimal::from` panics above its mantissa; the
quotient is the exact decimal without trailing zeros. The pipeline formats the
event alerts and `CheckedBlocks` the re-org alerts. The status messages copy the
fields of their alert and convert nothing; the timekeeper's stall stands for them.

**EventAlerts, AlertPipeline.** A block's events are a sequence of kinds with
the accounts and amounts they name; `AccountMappedName` is the map of the
configured accounts, in which a later entry replaces an earlier one;
`BlockAlerts` is the list `watch_events` builds for a block. The pipeline has the
watcher's receiver and batch, the alert queue, the Slack task, which formats and
posts and panics on an amount it cannot format, and the join set. `posted` is what
Slack shows; an alert whose post failed after its retries is only logged by the
code, and the history variable `dropped` keeps it apart. The monitors' alerts are one representative, `Status`, and the remaining tasks may return whenever a
request of theirs fails.

**Supervisor.** `main` is the step `main` is at; each start-up step is one action
with all its early returns. The runtime has several threads, so the tasks spawned
so far run between two spawns. `env` is everything the process finds (files,
options, properties of the chain) and does not change. `From` is the table of
`error.rs`. Here the tasks only broadcast, push the uptime status and return;
their own modules say what else they do. The uptime pusher is modelled whole: its
interval panics on a period of zero, its client when it cannot be built, and a
push that fails ends the task.

Definitions commented `Mutant:` are deliberate errors. They are used by no
specification; `PROJECT.json` names, for each checked property, a definition and
the mutant of it that breaks the property.

## Runs

`tlc -config <cfg> <module>`. CHECK_DEADLOCK is off where the bounds end the
behaviours (no imports, broadcasts or time left) or the task returned.

| cfg | checks | shows |
|---|---|---|
| MCBlockListener | TypeOK, CacheIndexed, FirstSessionComplete, NoAncestorLeft, FollowsChain, CatchesUp | the listener, with one failure anywhere |
| MCCheckedBlocks | OncePerEnactment, ParentsFirst, ReorgAddsUp, BestChainChecked | listener and watcher: each block is checked once per enactment, after its parent, and the best chain completely; the re-org messages add up |
| MCStallMonitor | TypeOK, StallIsReal, RecoveryMatchesStall, SilenceIsReported, ReportsConsistent | stalls, recoveries, late polls, lag |
| MCSlotMonitor | TypeOK, WindowInOrder, WindowTimeComplete, StallMeansQuiet, StallIsReal, SilenceReportedInTime, AverageNotOverstated, ReportsConsistent | repeated, reordered and lost slots |
| MCPeerNetwork | RolesDisjoint, CountedPeersConnected, Rejoins | every order of swarm events; connections come back |
| MCAlertPipeline | TypeOK, AlertsInOrder, NoBlockSkipped, OneAlertPerEvent, AmountExact, AlertsDelivered | from broadcast to what Slack shows, with the amounts stated: failed posts cost no other alert |
| MCSupervisor | NoBroadcastMissed, FailureReported, BadConfigFatal, FailureEndsProcess | every configuration defect, and failures during start-up |

Five more runs end in a counterexample: what a document or a comment says of the
program is not what the code does.

| cfg | property | the disagreement |
|---|---|---|
| MCUncheckedBlocks | AllBlocksChecked | README: all blocks of a best fork are checked. Those between the old best block and the first canonical block of a new subscription are not. |
| MCLowerReorg | SurvivesReorgs | README: the chain may re-org to a lower height. A block above the new best height, still in the stream, makes the listener return `MissingBlock`. |
| MCStreamFailure | Reconnects | Comment: reinitiate if disconnected. A stream that ends or fails is not an `Rpc` error and ends the listener; so does an RPC error while the new session loads its cache. |
| MCOverstatedStall | NoSlotsInLast | Message: "No slots in last {}". A timeout before the first slot is counted into the first stall after it. |
| MCDecodeError | DecodeErrorsTolerated | README: decode mismatches are logged and skipped. They end the process. |

Smaller disagreements are in the models and have no run of their own:

- The comment in `main` says that a task that exits is a failure. `update??` looks
  at errors only, so a task that returns `Ok(())` ends the process as a success.
  The result type of the external metadata updater allows that; no other task
  returns `Ok(())`. `FailureReported` therefore says only that no error and no
  panic becomes a success.
- `ChainStall` is sent again at every threshold of one stall, and `AvgSlowSlots`
  with every slot while the average stays slow, although the README lists both
  among the alerts sent only when the status changes.
- The first load fetches `CACHE_HEADER_DEPTH + 1` headers, as its range includes
  both ends.
- The README speaks of checking "unchecked blocks" of the new best fork. The
  code keeps no record of what was checked: a block that leaves the best chain
  and comes back is broadcast, checked and alerted again, once per enactment
  (`OncePerEnactment`). The README tolerates duplicate alerts elsewhere.

### Bounds

- *Listener*: depth 2 (for 100), 2 requests in flight (for 30), genesis as best
  block at the start, 4 imports, 1 failure. Four imports build every tree in which
  two forks of two blocks compete, one overtakes the other by two, or a chain of
  four outruns the depth; the eviction then removes several numbers at once, and a
  load that starts after two imports spans more numbers than its window. The
  stream-failure run has 2 failures, so that the second can hit the reload.
- *Stall monitor*: threshold 3, durations up to 10, so the sum saturates at the
  fourth timeout; channel of 2, so that lag happens; re-orgs of up to 2 blocks at
  threshold 2.
- *Slot monitor*: window of 3 (for 600) and 4 slots, so the window is full and
  replaced once; 8 ticks at timeout 2, so stalls repeat, before and after the
  first slot.
- *Listener and watcher*: depth 1, 3 imports, 1 failure, channel of 2. Three
  imports go from one fork to another and, with a failure or an overrun, show
  both ends of a gap.
- *Peers*: 2 peers, 2 connections each, 3 in all; one bootnode address names its
  peer and one does not.
- *Pipeline*: 2 blocks with 2 event lists that cover all transfer cases, the
  reordering of alerts and an amount too large to format; one account configured
  twice; batches of 2, channel of 1, 1 failure. Balances up to 1023 and mantissas
  up to 127 (for 2^128 - 1 and 2^96 - 1) and up to 4 decimals, so that an amount
  is whole, has a fraction, or makes each of the three conversions panic.
- *Supervisor*: every combination of defects, five file modes, 2 failures, 1
  message per channel.

`channel(100)` holds 128 messages, as tokio rounds the capacity up; the models
only assume a positive capacity.

### Fairness

- *Listener*: weak fairness of the listener's steps and of the subscription's
  first item: tokio polls a ready task and the node answers. The node need not
  import, and no failure is forced.
- *Stall monitor*: weak fairness of the poll and of time.
- *Listener and watcher*: the listener's, and weak fairness of the watcher.
- *Peers*: weak fairness of the discovery tick, an interval; strong fairness of a
  dial that succeeds, as an assumption on the network: dials do not fail for ever.
- *Pipeline*: weak fairness of the watcher, the Slack task and `join_next`.
- *Supervisor*: weak fairness of `main`'s steps and of the start of the event
  watcher and of the uptime pusher: requests are answered or time out, and a
  spawned task is polled.
  `SilenceReportedInTime` needs none: it is a bound on the clock.

`CatchesUp` excuses a best block whose notification was skipped, by the stream or
because the node read the head, imported, and only then forwarded imports: the
listener learns of that block only with the next one that is notified. The node's
best block changes only when a block is imported, and becomes that block.

## Proofs

`tlapm` on the four `*Proofs` modules checks everything below, for every value of
the constants that satisfies the named assumptions (`ListenerConstants`,
`StallConstants`, `CapacityAssumption`, `PeerConstants`).

**BlockTreeProofs** is about paths and routes: an ancestor's parent is the
ancestor one below; `CommonNumber` exists and is the least height at which two
blocks part (by well-foundedness of `<` on the naturals); below it the ancestors
agree; the branch above it ends at the block; the ancestors of `from` and the
enacted blocks cover the ancestry of `to`; `Reverse` is its own inverse.

**BlockListenerProofs** proves

- `TypeCorrect`: `Spec => []TypeOK`;
- `CacheStaysIndexed`: `Spec => []CacheIndexed`;
- `FirstSessionMissesNothing`: `Spec => []FirstSessionComplete`;
- `ListenerFollowsChain`: `Spec => FollowsChain`, the refinement of
  `ChainFollower` by `tip <- current_best_block, message <- sent`.

The inductive invariant `Inv` adds two facts to the three invariants: the set of
imported blocks is finite (an import numbers its block by counting its
siblings), and the listener listens only after a load, so a broadcast has a
session. `FirstSessionComplete` is inductive because a broadcast adds exactly the
enacted blocks (`RouteCovers`). For the refinement a broadcast is a `Follow` step
(`RouteFits`, by cases on whether anything is retracted), the end of a load is a
`Start` step and everything else stutters.

**StallMonitorProofs** proves `TypeCorrect`, `StallsAreReal` and
`RecoveriesMatch`. The invariant says that the duration counted so far, plus the
running timer, is at most the true silence (or saturated) while nothing is
queued, and that the open stall known to a reader is the counted one once a block
was named.

**PeerNetworkProofs** proves `OneRolePerPeer` and `CountsAreCurrent`. Together
with the type invariant the two properties are inductive as they stand.

Only model-checked: liveness (`CatchesUp`, `BestChainChecked`,
`SilenceIsReported`, `Rejoins`, `AlertsDelivered`, `BadConfigFatal`,
`FailureEndsProcess`), which the prover does not handle, `NoAncestorLeft`, the
refinement of `StallReports`, the slot monitor, the composition of listener and
watcher, the formatting, the pipeline and the supervisor.

## Not modelled

Wording and markdown of the messages; the parsing of the command line, whose
values are the constants of the modules; the narrowing of `ss58Format` to 16 and
`tokenDecimals` to 8 bits; changes of the files while the process starts; the
zeroizing of the secret; how Kademlia routes a query, and the set-up of the
swarm; the runtime metadata updater, except that it may return; pruning and
finality on the node; logging. `BlockExt::read_storage`, `timestamp`, `slot` and
`extrinsics` are used nowhere in the program.

Headers left in the cache below a gap after a reconnection, and late fork headers
below the depth, are modelled, but no property bounds them: the code leaves them
there and nothing documents a limit.

## Plan

In this order, for what is left:

1. Proofs for `SlotMonitor` (`WindowInOrder`, `StallMeansQuiet`, `StallIsReal`),
   for `Supervisor` (`NoBroadcastMissed`, `FailureReported`) and for `AlertPipeline`
   (`NoBlockSkipped`, `AlertsInOrder`).
2. `ReportsConsistent` of the stall monitor for every threshold: its invariant is
   the one of `RecoveriesMatch`.
3. The slot notification inside `PeerNetwork`'s event loop, composed with
   `SlotMonitor`.
4. `NoAncestorLeft` for all trees: it needs an invariant on which numbers of the
   cache are contiguous below the best block.
