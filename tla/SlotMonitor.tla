----------------------------- MODULE SlotMonitor -----------------------------
(***************************************************************************)
(* monitor_slots: follow the proof-of-time slots gossiped by the peers,    *)
(* slot by slot, and report slow slots, a slow average, and a timekeeper   *)
(* that has stalled or recovered.                                          *)
(*                                                                         *)
(* The network stamps a notification when it arrives, so slot times do not *)
(* depend on when the task is polled; the timeout does.  Every peer        *)
(* gossips, so slots are repeated, reordered and lost on the way.          *)
(***************************************************************************)
EXTENDS BroadcastChannel, SequencesExt

CONSTANTS
  SlotTimeout,       \* slot_timeout
  PerSlotThreshold,  \* config.per_slot_threshold
  AvgSlotThreshold,  \* config.avg_slot_threshold
  WindowSize,        \* the bound of the BoundedVec
  MaxSlot,           \* bound: slots the timekeeper produces
  MaxTime,           \* bound: ticks
  MaxDelay           \* bound: ticks between being runnable and being polled

ASSUME SlotConstants ==
  /\ SlotTimeout \in Nat \ {0} /\ WindowSize \in Nat \ {0, 1}
  /\ PerSlotThreshold \in Nat /\ AvgSlotThreshold \in Nat
  /\ MaxSlot \in Nat /\ MaxTime \in Nat /\ MaxDelay \in Nat

VARIABLES
  clock,          \* ticks since the start
  produced,       \* the last slot the timekeeper produced
  slot_stream,    \* PoTStream
  timer,          \* ticks since this recv began
  late,           \* ticks since the task could go on
  timeout_fired,  \* NoTimeout, or the duration last reported
  last_instant,
  slots,          \* the BoundedVec of SlotDetails
  alerts,         \* the alerts sent by the last step
  returned,       \* the task returned an error
  notified_at,    \* history: when the last notification arrived
  open_stall      \* history: duration of the last TimekeeperStall alert that no
                  \* TimekeeperRecovery has followed

vars == <<clock, produced, slot_stream, timer, late, timeout_fired,
          last_instant, slots, alerts, returned, notified_at, open_stall>>

NoTimeout == 0

PoTInfo == [at : Nat, slot : Nat]
SlotDetails == [slot : Nat, duration : Nat]

Alert ==
  [kind : {"TimekeeperStall", "TimekeeperRecovery"}, slot : Nat, duration : Nat]
    \cup [kind : {"SlowSlot", "AvgSlowSlots"}, slot : Nat, slot_time : Nat]

\* BoundedVec::force_push (external): a full vector loses its last element.
ForcePush(s, e) ==
  Append(IF Len(s) < WindowSize THEN s ELSE SubSeq(s, 1, WindowSize - 1), e)

TotalTime(s) == FoldSeq(LAMBDA d, total : total + d.duration, 0, s)

AvgSlotTime(s) == TotalTime(s) \div Len(s)

\* The report a step makes on the timekeeper; it is sent first.
StallReport(sent) ==
  IF sent # << >> /\ sent[1].kind = "TimekeeperStall"
    THEN [kind |-> "stall", duration |-> sent[1].duration]
  ELSE IF sent # << >> /\ sent[1].kind = "TimekeeperRecovery"
    THEN [kind |-> "recovery", duration |-> sent[1].duration]
  ELSE [kind |-> "none", duration |-> 0]

SendAlerts(sent) ==
  /\ alerts' = sent
  /\ open_stall' = CASE StallReport(sent).kind = "stall"    -> StallReport(sent).duration
                     [] StallReport(sent).kind = "recovery" -> NoTimeout
                     [] StallReport(sent).kind = "none"     -> open_stall

-----------------------------------------------------------------------------
(* The environment.                                                        *)

Produce ==
  /\ produced < MaxSlot
  /\ produced' = produced + 1
  /\ SendAlerts(<< >>)
  /\ UNCHANGED <<clock, slot_stream, timer, late, timeout_fired, last_instant,
                 slots, returned, notified_at>>

\* A peer gossips some slot produced so far.
Notification(slot) ==
  /\ slot \in 1..produced
  /\ ~ slot_stream.lagged
  /\ slot_stream' = Send(slot_stream, [at |-> clock, slot |-> slot])
  /\ notified_at' = clock
  /\ SendAlerts(<< >>)
  /\ UNCHANGED <<clock, produced, timer, late, timeout_fired, last_instant,
                 slots, returned>>

Runnable == Ready(slot_stream) \/ timer >= SlotTimeout

Tick ==
  /\ clock < MaxTime
  /\ ~ returned
  /\ Runnable => late < MaxDelay
  /\ clock' = clock + 1
  /\ timer' = timer + 1
  /\ late' = IF Runnable THEN late + 1 ELSE 0
  /\ SendAlerts(<< >>)
  /\ UNCHANGED <<produced, slot_stream, timeout_fired, last_instant, slots,
                 returned, notified_at>>

-----------------------------------------------------------------------------
(* The task.                                                               *)

Await == timer' = 0 /\ late' = 0

\* Mutant: one timeout runs across receipts.
ReceiveKeepsTimer ==
  /\ ~ returned
  /\ Ready(slot_stream)
  /\ ~ slot_stream.lagged
  /\ slot_stream' = Taken(slot_stream)
  /\ UNCHANGED <<clock, produced, timer, late, returned, notified_at>>

Receive ==
  /\ ~ returned
  /\ Ready(slot_stream)
  /\ ~ slot_stream.lagged
  /\ slot_stream' = Taken(slot_stream)
  /\ Await
  /\ UNCHANGED <<clock, produced, returned, notified_at>>

Info == Head(slot_stream.queue)

\* duration_since the last accepted slot, or the start; it is never negative.
Elapsed == IF Info.at > last_instant THEN Info.at - last_instant ELSE 0

\* Mutant: the vector is not bounded.
AcceptUnbounded ==
  /\ slots' = Append(slots, [slot |-> Info.slot, duration |-> Elapsed])
  /\ last_instant' = Info.at

\* Mutant: the slot time always runs from the start.
AcceptKeepsInstant ==
  /\ slots' = ForcePush(slots, [slot |-> Info.slot, duration |-> Elapsed])
  /\ UNCHANGED last_instant

Accept ==
  /\ slots' = ForcePush(slots, [slot |-> Info.slot, duration |-> Elapsed])
  /\ last_instant' = Info.at

\* The first slot starts the window; a timeout that fired before it is kept.
RecvFirst ==
  /\ Receive
  /\ slots = << >>
  /\ Accept
  /\ SendAlerts(<< >>)
  /\ UNCHANGED timeout_fired

\* Mutant: any later slot extends the chain.
ExtendsLater(slot) == slot > Last(slots).slot

Extends(slot) == slot = Last(slots).slot + 1

\* Mutant: an ignored slot restarts the slot time.
RecvIgnoredRestarts ==
  /\ Receive
  /\ slots # << >>
  /\ ~ Extends(Info.slot)
  /\ last_instant' = Info.at
  /\ SendAlerts(<< >>)
  /\ UNCHANGED <<timeout_fired, slots>>

RecvIgnored ==
  /\ Receive
  /\ slots # << >>
  /\ ~ Extends(Info.slot)
  /\ SendAlerts(<< >>)
  /\ UNCHANGED <<timeout_fired, last_instant, slots>>

RecoveryAlerts ==
  IF timeout_fired = NoTimeout THEN << >>
  ELSE <<[kind |-> "TimekeeperRecovery", slot |-> Info.slot,
          duration |-> timeout_fired]>>

SlowSlotAlerts ==
  IF Elapsed > PerSlotThreshold
    THEN <<[kind |-> "SlowSlot", slot |-> Info.slot, slot_time |-> Elapsed]>>
    ELSE << >>

AvgSlowSlotsAlerts(s) ==
  IF Len(s) = WindowSize /\ AvgSlotTime(s) > AvgSlotThreshold
    THEN <<[kind |-> "AvgSlowSlots", slot |-> Info.slot, slot_time |-> AvgSlotTime(s)]>>
    ELSE << >>

\* Mutant: the timeout is read but not taken.
RecvNextKeepsTimeout ==
  /\ Receive
  /\ slots # << >>
  /\ Extends(Info.slot)
  /\ Accept
  /\ SendAlerts(RecoveryAlerts \o SlowSlotAlerts \o AvgSlowSlotsAlerts(slots'))
  /\ UNCHANGED timeout_fired

RecvNext ==
  /\ Receive
  /\ slots # << >>
  /\ Extends(Info.slot)
  /\ Accept
  /\ timeout_fired' = NoTimeout
  /\ SendAlerts(RecoveryAlerts \o SlowSlotAlerts \o AvgSlowSlotsAlerts(slots'))

RecvLagged ==
  /\ ~ returned
  /\ slot_stream.lagged
  /\ returned' = TRUE
  /\ SendAlerts(<< >>)
  /\ UNCHANGED <<clock, produced, slot_stream, timer, late, timeout_fired,
                 last_instant, slots, notified_at>>

\* Mutant: a stall is reported only once it has lasted two timeouts.
StallAlertsLate(duration) ==
  IF slots = << >> \/ duration = SlotTimeout THEN << >>
  ELSE <<[kind |-> "TimekeeperStall", slot |-> Last(slots).slot,
          duration |-> duration]>>

\* Without a slot yet there is nothing to name, and no alert.
StallAlerts(duration) ==
  IF slots = << >> THEN << >>
  ELSE <<[kind |-> "TimekeeperStall", slot |-> Last(slots).slot,
          duration |-> duration]>>

\* (The sum saturates at Duration::MAX, which no run of the program reaches.)
Timeout ==
  LET duration == timeout_fired + SlotTimeout
  IN  /\ ~ returned
      /\ ~ Ready(slot_stream)
      /\ timer >= SlotTimeout
      /\ timeout_fired' = duration
      /\ SendAlerts(StallAlerts(duration))
      /\ Await
      /\ UNCHANGED <<clock, produced, slot_stream, last_instant, slots, returned,
                     notified_at>>

-----------------------------------------------------------------------------

Init ==
  /\ clock = 0
  /\ produced = 0
  /\ slot_stream = Resubscribe
  /\ timer = 0
  /\ late = 0
  /\ timeout_fired = NoTimeout
  /\ last_instant = 0
  /\ slots = << >>
  /\ alerts = << >>
  /\ returned = FALSE
  /\ notified_at = 0
  /\ open_stall = NoTimeout

Poll == RecvFirst \/ RecvIgnored \/ RecvNext \/ RecvLagged \/ Timeout

Next == Poll \/ Tick \/ Produce \/ \E slot \in 1..MaxSlot : Notification(slot)

Spec == Init /\ [][Next]_vars

-----------------------------------------------------------------------------
(* Properties.                                                             *)

\* Every variable holds what the task may hold; the window is never longer than
\* its bound, and slot times are not negative although stamps may be old.
TypeOK ==
  /\ clock \in Nat /\ produced \in Nat
  /\ slot_stream \in Receivers(PoTInfo)
  /\ timer \in Nat /\ late \in Nat
  /\ timeout_fired \in Nat
  /\ last_instant \in Nat
  /\ slots \in Seq(SlotDetails) /\ Len(slots) <= WindowSize
  /\ alerts \in Seq(Alert)
  /\ returned \in BOOLEAN
  /\ notified_at \in 0..clock
  /\ open_stall \in Nat

\* The window holds consecutive slots, however the gossip repeats, reorders or
\* drops them; only the last slot of a full window leaves a hole before it,
\* because it replaced its predecessors.
WindowInOrder ==
  \A i \in 1..(Len(slots) - 1) :
    \/ slots[i + 1].slot = slots[i].slot + 1
    \/ i + 1 = WindowSize /\ slots[i + 1].slot > slots[i].slot

\* While nothing was replaced, the slot times in the window add up to the time of
\* the last accepted slot: an ignored slot never shortens the next slot time.
\* (The sum starts with the wait for the first slot.)
WindowTimeComplete ==
  slots # << >> /\ Last(slots).slot = slots[1].slot + Len(slots) - 1 =>
    TotalTime(slots) = last_instant

\* An AvgSlowSlots alert never counts time that did not pass: the slot times it
\* averages fit into the life of the task, also once the last slot of the full window
\* has been replaced and the times no longer add up to that of the last slot.
AverageNotOverstated ==
  \A a \in ToSet(alerts) : a.kind = "AvgSlowSlots" => a.slot_time * WindowSize <= clock

StallAlertsSent == {a \in ToSet(alerts) : a.kind = "TimekeeperStall"}

\* A TimekeeperStall alert means that no slot at all arrived for slot_timeout, the
\* ignored ones included: a timekeeper whose slots arrive but do not extend the
\* window is never reported as stalled.
StallMeansQuiet ==
  StallAlertsSent # {} => clock - notified_at >= SlotTimeout

\* The time since the last accepted slot; to it the wait for the first slot is
\* added while that one is the only slot, as the first slot clears no timeout.
StallTime ==
  clock - last_instant + (IF Len(slots) = 1 THEN slots[1].duration ELSE 0)

\* A TimekeeperStall alert never overstates the stall, once two slots in a row
\* were accepted; before, by at most the wait for the first slot.
StallIsReal == \A a \in StallAlertsSent : a.duration <= StallTime

\* The longest time from the last notification to the stall alert: the queue is
\* drained, the timer runs from the last receipt, and each poll may be late.
ReportTime == SlotTimeout + (Capacity + 1) * MaxDelay

\* A timekeeper that falls silent is reported in time: once a slot is known, no
\* silence lasts longer than the timeout and the delays of the polls without an
\* open stall that the reader knows of.
SilenceReportedInTime ==
  ~ returned /\ slots # << >> /\ clock - notified_at > ReportTime => open_stall > 0

\* What a reader of the timekeeper's alerts is promised: see StallReports.
Reports == INSTANCE StallReports
  WITH Timeout <- SlotTimeout, Longest <- MaxTime + 1, open <- open_stall,
       fresh <- Len(slots) < 2, report <- StallReport(alerts)

\* The TimekeeperStall and TimekeeperRecovery alerts tell a consistent story: a
\* stall only grows until it ends, a recovery repeats the last duration that was
\* reported, and from the second slot on every recovery answers a stall.
ReportsConsistent == Reports!Spec

\* The monitor's message: "Timekeeper stalled! No slots in last {}".  If a timeout
\* fired before the first slot, the first stall after that slot counts it too.
NoSlotsInLast == \A a \in StallAlertsSent : a.duration <= clock - last_instant

=============================================================================
