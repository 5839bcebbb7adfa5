---------------------------- MODULE StallMonitor ----------------------------
(***************************************************************************)
(* watch_chain_stall_and_reorg: wait for broadcast blocks with a timeout;  *)
(* report a stall when it expires, a recovery when a block follows, and    *)
(* deep re-orgs.                                                           *)
(*                                                                         *)
(* Time is counted in ticks.  The task is polled at most MaxDelay ticks    *)
(* after it could go on, and tokio's timeout polls recv before the timer,  *)
(* so a block that is there wins over an expired timer.                    *)
(***************************************************************************)
EXTENDS BroadcastChannel

CONSTANTS
  Blocks,               \* the blocks that may be best
  NoBlock,              \* the None of maybe_last_best_block
  StallThreshold,       \* config.non_block_import_threshold
  ReorgDepthThreshold,  \* config.reorg_depth_threshold
  MaxDuration,          \* Duration::MAX; silence is counted up to it
  MaxDepth,             \* bound: blocks a re-org retracts
  MaxDelay              \* bound: ticks between being runnable and being polled

ASSUME StallConstants ==
  /\ NoBlock \notin Blocks
  /\ StallThreshold \in Nat \ {0} /\ ReorgDepthThreshold \in Nat
  /\ MaxDuration \in Nat /\ StallThreshold <= MaxDuration
  /\ MaxDepth \in Nat /\ MaxDelay \in Nat

VARIABLES
  stream,                 \* BlocksStream
  timer,                  \* ticks since this recv began
  late,                   \* ticks since the task could go on
  timeout_fired,          \* NoTimeout, or the duration last reported
  maybe_last_best_block,
  alerts,                 \* the alerts sent by the last step
  returned,               \* the task returned an error
  silence,                \* history: ticks since a block was last broadcast
  open_stall              \* history: duration of the last ChainStall alert
                          \* that no ChainRecovery has followed

vars == <<stream, timer, late, timeout_fired, maybe_last_best_block, alerts,
          returned, silence, open_stall>>

NoTimeout == 0

\* A BlocksExt: its last block, and how many blocks it retracts.
BlocksExt == [best : Blocks, retracted : 0..MaxDepth]

Alert ==
  [kind : {"ChainStall", "ChainRecovery"}, block : Blocks, duration : Nat]
    \cup [kind : {"Reorg"}, block : Blocks, depth : Nat]

\* Mutant: the sum is not clamped.
PlainAdd(a, b) == a + b

SaturatingAdd(a, b) == IF a + b <= MaxDuration THEN a + b ELSE MaxDuration

\* Mutant: the first timeout already counts twice.
NonImportDurationTwice(t) ==
  SaturatingAdd(SaturatingAdd(t, StallThreshold), StallThreshold)

\* Mutant: unwrap_or_default() for the first timeout.
NonImportDurationZero(t) ==
  IF t = NoTimeout THEN 0 ELSE SaturatingAdd(t, StallThreshold)

NonImportDuration(t) == SaturatingAdd(t, StallThreshold)

\* The open stall a reader of the alerts knows of; a step that sends a stall or a
\* recovery sends it first.
OpenStallAfter(sent) ==
  IF sent = << >> THEN open_stall
  ELSE IF sent[1].kind = "ChainStall" THEN sent[1].duration
  ELSE IF sent[1].kind = "ChainRecovery" THEN NoTimeout
  ELSE open_stall

SendAlerts(sent) == alerts' = sent /\ open_stall' = OpenStallAfter(sent)

\* The task waits again: a new recv, and a new timeout.
Await == timer' = 0 /\ late' = 0

-----------------------------------------------------------------------------
(* The environment: the listener broadcasts, time passes.                  *)

Broadcast(m) ==
  /\ ~ returned
  /\ ~ stream.lagged
  /\ stream' = Send(stream, m)
  /\ silence' = 0
  /\ SendAlerts(<< >>)
  /\ UNCHANGED <<timer, late, timeout_fired, maybe_last_best_block, returned>>

Runnable == Ready(stream) \/ timer >= StallThreshold

Tick ==
  /\ ~ returned
  /\ Runnable => late < MaxDelay
  /\ timer' = timer + 1
  /\ late' = IF Runnable THEN late + 1 ELSE 0
  /\ silence' = SaturatingAdd(silence, 1)
  /\ SendAlerts(<< >>)
  /\ UNCHANGED <<stream, timeout_fired, maybe_last_best_block, returned>>

-----------------------------------------------------------------------------
(* The task.                                                               *)

\* Mutant: the recovery counts one more threshold.
RecoveryAlertsLong(m) ==
  IF timeout_fired = NoTimeout THEN << >>
  ELSE <<[kind |-> "ChainRecovery", block |-> m.best,
          duration |-> NonImportDuration(timeout_fired)]>>

RecoveryAlerts(m) ==
  IF timeout_fired = NoTimeout THEN << >>
  ELSE <<[kind |-> "ChainRecovery", block |-> m.best, duration |-> timeout_fired]>>

\* There is re-org data only if a block is retracted.
ReorgAlerts(m) ==
  IF m.retracted > 0 /\ m.retracted >= ReorgDepthThreshold
    THEN <<[kind |-> "Reorg", block |-> m.best, depth |-> m.retracted]>>
    ELSE << >>

\* Mutant: the timeout is read but not taken.
RecvKeepsTimeout ==
  LET m == Head(stream.queue)
  IN  /\ ~ returned
      /\ Ready(stream)
      /\ ~ stream.lagged
      /\ stream' = Taken(stream)
      /\ maybe_last_best_block' = m.best
      /\ SendAlerts(RecoveryAlerts(m) \o ReorgAlerts(m))
      /\ Await
      /\ UNCHANGED <<timeout_fired, returned, silence>>

Recv ==
  LET m == Head(stream.queue)
  IN  /\ ~ returned
      /\ Ready(stream)
      /\ ~ stream.lagged
      /\ stream' = Taken(stream)
      /\ timeout_fired' = NoTimeout
      /\ maybe_last_best_block' = m.best
      /\ SendAlerts(RecoveryAlerts(m) \o ReorgAlerts(m))
      /\ Await
      /\ UNCHANGED <<returned, silence>>

RecvLagged ==
  /\ ~ returned
  /\ stream.lagged
  /\ returned' = TRUE
  /\ SendAlerts(<< >>)
  /\ UNCHANGED <<stream, timer, late, timeout_fired, maybe_last_best_block, silence>>

\* Without a last block there is nothing to name, and no alert.
StallAlerts(duration) ==
  IF maybe_last_best_block = NoBlock THEN << >>
  ELSE <<[kind |-> "ChainStall", block |-> maybe_last_best_block, duration |-> duration]>>

Timeout ==
  LET duration == NonImportDuration(timeout_fired)
  IN  /\ ~ returned
      /\ ~ Ready(stream)
      /\ timer >= StallThreshold
      /\ timeout_fired' = duration
      /\ SendAlerts(StallAlerts(duration))
      /\ Await
      /\ UNCHANGED <<stream, maybe_last_best_block, returned, silence>>

-----------------------------------------------------------------------------

Init ==
  /\ stream = Resubscribe
  /\ timer = 0
  /\ late = 0
  /\ timeout_fired = NoTimeout
  /\ maybe_last_best_block = NoBlock
  /\ alerts = << >>
  /\ returned = FALSE
  /\ silence = 0
  /\ open_stall = NoTimeout

Poll == Recv \/ RecvLagged \/ Timeout

Next == Poll \/ Tick \/ \E m \in BlocksExt : Broadcast(m)

\* Time passes and a runnable task is polled; nobody has to broadcast.
Spec == Init /\ [][Next]_vars /\ WF_vars(Poll) /\ WF_vars(Tick)

-----------------------------------------------------------------------------
(* Properties.                                                             *)

\* Every variable holds what the task may hold; durations are at most
\* Duration::MAX, and every alert names a block.
TypeOK ==
  /\ stream \in Receivers(BlocksExt)
  /\ timer \in Nat /\ late \in Nat
  /\ timeout_fired \in 0..MaxDuration
  /\ maybe_last_best_block \in Blocks \cup {NoBlock}
  /\ alerts \in Seq(Alert)
  /\ returned \in BOOLEAN
  /\ silence \in 0..MaxDuration
  /\ open_stall \in 0..MaxDuration

\* A ChainStall alert never overstates: no block was broadcast for as long as it
\* says, although the count is kept by adding thresholds and each poll may be
\* late, and although blocks and expired timers race.
StallIsReal ==
  \A i \in DOMAIN alerts :
    alerts[i].kind = "ChainStall" => alerts[i].duration <= silence

\* A ChainRecovery alert answers the last ChainStall alert and repeats its
\* duration; only the first block ever received may be reported as a recovery
\* with no stall before it.
RecoveryMatchesStall ==
  [][\A i \in DOMAIN alerts' :
       alerts'[i].kind = "ChainRecovery" =>
         \/ alerts'[i].duration = open_stall
         \/ maybe_last_best_block = NoBlock]_vars

\* The report a step makes on the chain.
StallReport(sent) ==
  IF sent # << >> /\ sent[1].kind = "ChainStall"
    THEN [kind |-> "stall", duration |-> sent[1].duration]
  ELSE IF sent # << >> /\ sent[1].kind = "ChainRecovery"
    THEN [kind |-> "recovery", duration |-> sent[1].duration]
  ELSE [kind |-> "none", duration |-> 0]

\* What a reader of the chain's alerts is promised: see StallReports.
Reports == INSTANCE StallReports
  WITH Timeout <- StallThreshold, Longest <- MaxDuration, open <- open_stall,
       fresh <- maybe_last_best_block = NoBlock, report <- StallReport(alerts)

\* The ChainStall and ChainRecovery alerts tell a consistent story: a stall only
\* grows until it ends, a recovery repeats the last duration that was reported,
\* and after the first block every recovery answers a stall.
ReportsConsistent == Reports!Spec

\* If blocks were seen and then stop, the last word is in the end a ChainStall.
SilenceIsReported ==
  <>(maybe_last_best_block # NoBlock) /\ <>[](~ Ready(stream)) => <>[](open_stall > 0)

=============================================================================
