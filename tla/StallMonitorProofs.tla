------------------------- MODULE StallMonitorProofs -------------------------
(***************************************************************************)
(* Proofs about StallMonitor, for every value of its constants.            *)
(*                                                                         *)
(* What an alert says is about silence, what the task adds up is           *)
(* thresholds.  The invariant that joins them holds while no block waits:  *)
(* the reported time plus the running timer never exceeds the silence.     *)
(***************************************************************************)
EXTENDS StallMonitor, SequenceTheorems, TLAPS

CountedTimeIsSilent ==
  ~ Ready(stream) => SaturatingAdd(timeout_fired, timer) <= silence

\* Once a block was received, what the task keeps is what its alerts said;
\* before, nothing was said.
OpenStallKnown ==
  open_stall = IF maybe_last_best_block = NoBlock THEN NoTimeout ELSE timeout_fired

Inv == TypeOK /\ CountedTimeIsSilent /\ OpenStallKnown /\ StallIsReal

-----------------------------------------------------------------------------

\* A sent message leaves a well-formed receiver with something to take.
LEMMA SendType ==
  ASSUME NEW M, NEW rx \in Receivers(M), NEW m \in M
  PROVE  Send(rx, m) \in Receivers(M) /\ Ready(Send(rx, m))
  BY CapacityAssumption DEF Send, Receivers, Ready

\* Taking the first message leaves a well-formed receiver.
LEMMA TakenType ==
  ASSUME NEW M, NEW rx \in Receivers(M), Ready(rx)
  PROVE  Taken(rx) \in Receivers(M) /\ Head(rx.queue) \in M
  BY DEF Taken, Receivers, Ready

\* A saturating sum is a duration, and is below the plain sum.
LEMMA SaturatingAddType ==
  ASSUME NEW a \in Nat, NEW b \in Nat
  PROVE  /\ SaturatingAdd(a, b) \in 0..MaxDuration
         /\ SaturatingAdd(a, b) <= a + b
  BY StallConstants DEF SaturatingAdd

\* The alerts a receipt may send.
LEMMA RecvAlertsType ==
  ASSUME timeout_fired \in Nat, NEW m \in BlocksExt
  PROVE  RecoveryAlerts(m) \in Seq(Alert) /\ ReorgAlerts(m) \in Seq(Alert)
<1>1. m.best \in Blocks /\ m.retracted \in Nat
  BY StallConstants DEF BlocksExt
<1>2. [kind |-> "ChainRecovery", block |-> m.best, duration |-> timeout_fired] \in Alert
  BY <1>1 DEF Alert
<1>3. [kind |-> "Reorg", block |-> m.best, depth |-> m.retracted] \in Alert
  BY <1>1 DEF Alert
<1>4. RecoveryAlerts(m) \in Seq(Alert)
  BY <1>2 DEF RecoveryAlerts
<1>5. ReorgAlerts(m) \in Seq(Alert)
  BY <1>3 DEF ReorgAlerts
<1> QED
  BY <1>4, <1>5

\* One alert and another one.
LEMMA OneAndOne ==
  ASSUME NEW S, NEW s \in Seq(S), NEW t \in Seq(S), Len(s) = 1, Len(t) = 1
  PROVE  DOMAIN (s \o t) = 1..2 /\ (s \o t)[1] = s[1] /\ (s \o t)[2] = t[1]
<1>1. s \o t \in Seq(S) /\ Len(s \o t) = 2
  BY ConcatProperties
<1>2. \A i \in 1..(1 + 1) : (s \o t)[i] = IF i <= 1 THEN s[i] ELSE t[i - 1]
  <2>1. \A i \in 1..(Len(s) + Len(t)) :
          (s \o t)[i] = IF i <= Len(s) THEN s[i] ELSE t[i - Len(s)]
    BY ConcatProperties, Zenon
  <2> QED
    BY <2>1, Zenon
<1> QED
  BY <1>1, <1>2

\* At most two alerts, one after the other.
LEMMA TwoAlerts ==
  ASSUME NEW x, NEW y, NEW A, NEW B,
         A = << >> \/ A = <<x>>, B = << >> \/ B = <<y>>
  PROVE  /\ \A i \in DOMAIN (A \o B) : (A \o B)[i] = x \/ (A \o B)[i] = y
         /\ A = << >> => A \o B = << >> \/ (A \o B)[1] = y
         /\ A = <<x>> => A \o B # << >> /\ (A \o B)[1] = x
<1>1. CASE A = << >> /\ B = << >>
  <2>1. A \o B = << >>
    BY <1>1
  <2> QED
    BY <1>1, <2>1
<1>2. CASE A = << >> /\ B = <<y>>
  <2>1. A \o B = <<y>>
    BY <1>2
  <2> QED
    BY <1>2, <2>1
<1>3. CASE A = <<x>> /\ B = << >>
  <2>1. A \o B = <<x>>
    BY <1>3
  <2> QED
    BY <1>3, <2>1
<1>4. CASE A = <<x>> /\ B = <<y>>
  <2>1. A \in Seq({x, y}) /\ B \in Seq({x, y}) /\ Len(A) = 1 /\ Len(B) = 1
    BY <1>4
  <2>2. A[1] = x /\ B[1] = y
    BY <1>4
  <2>3. DOMAIN (A \o B) = 1..2 /\ (A \o B)[1] = x /\ (A \o B)[2] = y
    BY <2>1, <2>2, OneAndOne
  <2>4. A \o B # << >> /\ A # << >>
    BY <2>1, <2>3
  <2> QED
    BY <1>4, <2>3, <2>4
<1> QED
  BY <1>1, <1>2, <1>3, <1>4

\* What a receipt sends: the recovery first, if a timeout fired, with its duration.
LEMMA RecvAlertsShape ==
  ASSUME NEW m, NEW sent, sent = RecoveryAlerts(m) \o ReorgAlerts(m)
  PROVE  /\ \A i \in DOMAIN sent :
              \/ sent[i].kind = "Reorg"
              \/ sent[i].kind = "ChainRecovery" /\ sent[i].duration = timeout_fired
         /\ timeout_fired = NoTimeout => sent = << >> \/ sent[1].kind = "Reorg"
         /\ timeout_fired # NoTimeout => sent # << >> /\ sent[1].kind = "ChainRecovery"
<1> DEFINE x == [kind |-> "ChainRecovery", block |-> m.best, duration |-> timeout_fired]
           y == [kind |-> "Reorg", block |-> m.best, depth |-> m.retracted]
<1>1. RecoveryAlerts(m) = IF timeout_fired = NoTimeout THEN << >> ELSE <<x>>
  BY DEF RecoveryAlerts
<1>2. ReorgAlerts(m) = << >> \/ ReorgAlerts(m) = <<y>>
  BY DEF ReorgAlerts
<1>3. x.kind = "ChainRecovery" /\ x.duration = timeout_fired /\ y.kind = "Reorg"
  OBVIOUS
<1> HIDE DEF x, y
<1>4. /\ \A i \in DOMAIN sent : sent[i] = x \/ sent[i] = y
      /\ RecoveryAlerts(m) = << >> => sent = << >> \/ sent[1] = y
      /\ RecoveryAlerts(m) = <<x>> => sent # << >> /\ sent[1] = x
  BY <1>1, <1>2, TwoAlerts
<1> QED
  BY <1>1, <1>3, <1>4

\* The alert a timeout may send.
LEMMA StallAlertsType ==
  ASSUME maybe_last_best_block \in Blocks \cup {NoBlock}, NEW d \in Nat
  PROVE  StallAlerts(d) \in Seq(Alert)
<1>1. CASE maybe_last_best_block = NoBlock
  BY <1>1 DEF StallAlerts
<1>2. CASE maybe_last_best_block # NoBlock
  <2>1. [kind |-> "ChainStall", block |-> maybe_last_best_block, duration |-> d] \in Alert
    BY <1>2 DEF Alert
  <2> QED
    BY <1>2, <2>1 DEF StallAlerts
<1> QED
  BY <1>1, <1>2

\* The initial state satisfies the invariant.
LEMMA InitInv == Init => Inv
<1> SUFFICES ASSUME Init PROVE Inv
  OBVIOUS
<1>1. stream \in Receivers(BlocksExt)
  BY DEF Init, Resubscribe, Receivers
<1>2. TypeOK
  <2>1. alerts \in Seq(Alert)
    BY DEF Init
  <2>2. returned \in BOOLEAN
    BY DEF Init
  <2>3. /\ timer \in Nat /\ late \in Nat
        /\ timeout_fired \in 0..MaxDuration
        /\ silence \in 0..MaxDuration
        /\ open_stall \in 0..MaxDuration
    BY StallConstants DEF Init, NoTimeout
  <2>4. maybe_last_best_block \in Blocks \cup {NoBlock}
    BY DEF Init
  <2> QED
    BY <1>1, <2>1, <2>2, <2>3, <2>4 DEF TypeOK
<1>3. CountedTimeIsSilent /\ OpenStallKnown /\ StallIsReal
  BY StallConstants
  DEF Init, CountedTimeIsSilent, OpenStallKnown, StallIsReal, NoTimeout, SaturatingAdd
<1> QED
  BY <1>2, <1>3 DEF Inv

\* A broadcast keeps the invariant: a block waits from then on.
LEMMA BroadcastInv ==
  ASSUME Inv, NEW m \in BlocksExt, Broadcast(m)
  PROVE  Inv'
<1>1. stream' \in Receivers(BlocksExt) /\ Ready(stream')
  BY SendType DEF Inv, TypeOK, Broadcast
<1>2. alerts' = << >> /\ open_stall' = open_stall
  BY DEF Broadcast, SendAlerts, OpenStallAfter
<1>3. TypeOK'
  BY <1>1, <1>2, StallConstants DEF Inv, TypeOK, Broadcast
<1>4. CountedTimeIsSilent' /\ StallIsReal'
  BY <1>1, <1>2 DEF CountedTimeIsSilent, StallIsReal, Ready
<1>5. OpenStallKnown'
  BY <1>2 DEF Inv, OpenStallKnown, Broadcast
<1> QED
  BY <1>3, <1>4, <1>5 DEF Inv

\* A tick adds to the timer and to the silence alike.
LEMMA TickInv ==
  ASSUME Inv, Tick
  PROVE  Inv'
<1>1. alerts' = << >> /\ open_stall' = open_stall
  BY DEF Tick, SendAlerts, OpenStallAfter
<1>2. TypeOK'
  BY <1>1, SaturatingAddType DEF Inv, TypeOK, Tick
<1>3. CountedTimeIsSilent'
  BY StallConstants DEF Inv, TypeOK, CountedTimeIsSilent, Tick, Ready, SaturatingAdd
<1>4. StallIsReal' /\ OpenStallKnown'
  BY <1>1 DEF Inv, OpenStallKnown, StallIsReal, Tick
<1> QED
  BY <1>2, <1>3, <1>4 DEF Inv

\* A receipt clears the timeout, and its alerts close the open stall.
LEMMA RecvInv ==
  ASSUME Inv, Recv
  PROVE  Inv'
<1> DEFINE m == Head(stream.queue)
           sent == RecoveryAlerts(m) \o ReorgAlerts(m)
<1>1. stream' \in Receivers(BlocksExt) /\ m \in BlocksExt
  BY TakenType DEF Inv, TypeOK, Recv
<1>2. RecoveryAlerts(m) \in Seq(Alert) /\ ReorgAlerts(m) \in Seq(Alert)
  BY <1>1, RecvAlertsType DEF Inv, TypeOK
<1>3. sent \in Seq(Alert) /\ alerts' = sent /\ open_stall' = OpenStallAfter(sent)
  BY <1>2 DEF Recv, SendAlerts
<1>4. StallIsReal'
  <2>1. \A i \in DOMAIN sent : sent[i].kind # "ChainStall"
    BY RecvAlertsShape
  <2> HIDE DEF sent
  <2> QED
    BY <1>3, <2>1 DEF StallIsReal
<1>5. open_stall' = NoTimeout
  <2>1. CASE timeout_fired = NoTimeout
    <3>1. sent = << >> \/ sent[1].kind = "Reorg"
      BY <2>1, RecvAlertsShape
    <3>2. open_stall' = open_stall
      <4> HIDE DEF sent
      <4> QED
        BY <3>1, <1>3 DEF OpenStallAfter
    <3> QED
      BY <2>1, <3>2 DEF Inv, OpenStallKnown
  <2>2. CASE timeout_fired # NoTimeout
    <3>1. sent # << >> /\ sent[1].kind = "ChainRecovery"
      BY <2>2, RecvAlertsShape
    <3> HIDE DEF sent
    <3> QED
      BY <3>1, <1>3 DEF OpenStallAfter
  <2> QED
    BY <2>1, <2>2
<1>6. TypeOK'
  BY <1>1, <1>3, <1>5, StallConstants
  DEF Inv, TypeOK, Recv, Await, BlocksExt, NoTimeout
<1>7. CountedTimeIsSilent'
  BY <1>6, StallConstants
  DEF TypeOK, CountedTimeIsSilent, Recv, Await, SaturatingAdd, NoTimeout
<1>8. OpenStallKnown'
  BY <1>1, <1>5, StallConstants DEF OpenStallKnown, Recv, BlocksExt
<1> QED
  BY <1>4, <1>6, <1>7, <1>8 DEF Inv

\* The Lagged error changes nothing the invariant speaks of.
LEMMA RecvLaggedInv ==
  ASSUME Inv, RecvLagged
  PROVE  Inv'
<1>1. alerts' = << >> /\ open_stall' = open_stall
  BY DEF RecvLagged, SendAlerts, OpenStallAfter
<1> QED
  BY <1>1
  DEF Inv, TypeOK, CountedTimeIsSilent, OpenStallKnown, StallIsReal, RecvLagged, Ready

\* A timeout reports what the timer adds, and only if no block waits.
LEMMA TimeoutInv ==
  ASSUME Inv, Timeout
  PROVE  Inv'
<1> DEFINE duration == NonImportDuration(timeout_fired)
<1>1. duration \in 1..MaxDuration /\ duration <= silence
  BY StallConstants
  DEF Inv, TypeOK, CountedTimeIsSilent, Timeout, NonImportDuration, SaturatingAdd
<1>2. StallAlerts(duration) \in Seq(Alert)
  BY <1>1, StallAlertsType DEF Inv, TypeOK
<1>3. alerts' = StallAlerts(duration) /\ open_stall' = OpenStallAfter(StallAlerts(duration))
  BY DEF Timeout, SendAlerts
<1>4. OpenStallKnown'
  BY <1>3 DEF Inv, OpenStallKnown, StallAlerts, OpenStallAfter, Timeout
<1>5. TypeOK'
  BY <1>1, <1>2, <1>3, <1>4 DEF Inv, TypeOK, OpenStallKnown, Timeout, Await, NoTimeout
<1>6. StallIsReal'
  BY <1>1, <1>3 DEF StallIsReal, StallAlerts, Timeout
<1>7. CountedTimeIsSilent'
  BY <1>1, StallConstants
  DEF Inv, TypeOK, CountedTimeIsSilent, Timeout, Await, SaturatingAdd
<1> QED
  BY <1>4, <1>5, <1>6, <1>7 DEF Inv

\* The invariant is inductive.
LEMMA NextInv == Inv /\ [Next]_vars => Inv'
<1> SUFFICES ASSUME Inv, [Next]_vars PROVE Inv'
  OBVIOUS
<1>1. CASE UNCHANGED vars
  BY <1>1
  DEF Inv, TypeOK, CountedTimeIsSilent, OpenStallKnown, StallIsReal, Ready, vars
<1>2. CASE Next
  BY <1>2, BroadcastInv, TickInv, RecvInv, RecvLaggedInv, TimeoutInv DEF Next, Poll
<1> QED
  BY <1>1, <1>2

\* Inv holds in every reachable state.
LEMMA Invariance == Spec => []Inv
  BY InitInv, NextInv, PTL DEF Spec

\* watch_chain_stall_and_reorg is type-correct: durations stay durations, and every
\* alert names a block.
THEOREM TypeCorrect == Spec => []TypeOK
<1>1. Inv => TypeOK
  BY DEF Inv
<1> QED
  BY <1>1, Invariance, PTL

\* A ChainStall alert never overstates how long no block was broadcast, for any
\* threshold, channel capacity and polling delay.
THEOREM StallsAreReal == Spec => []StallIsReal
<1>1. Inv => StallIsReal
  BY DEF Inv
<1> QED
  BY <1>1, Invariance, PTL

\* A ChainRecovery alert answers the open ChainStall alert and repeats its
\* duration, unless no block was received before.
THEOREM RecoveriesMatch == Spec => RecoveryMatchesStall
<1> DEFINE Match == \A i \in DOMAIN alerts' :
                      alerts'[i].kind = "ChainRecovery" =>
                        \/ alerts'[i].duration = open_stall
                        \/ maybe_last_best_block = NoBlock
<1>1. Inv /\ [Next]_vars => [Match]_vars
  <2> SUFFICES ASSUME Inv, Next PROVE Match
    OBVIOUS
  <2>1. ASSUME alerts' = << >> PROVE Match
    BY <2>1
  <2>2. CASE Recv
    <3> DEFINE m == Head(stream.queue)
    <3>1. alerts' = RecoveryAlerts(m) \o ReorgAlerts(m)
      BY <2>2 DEF Recv, SendAlerts
    <3>2. \A i \in DOMAIN alerts' :
            \/ alerts'[i].kind = "Reorg"
            \/ alerts'[i].kind = "ChainRecovery" /\ alerts'[i].duration = timeout_fired
      BY <3>1, RecvAlertsShape
    <3> QED
      BY <3>2 DEF Inv, OpenStallKnown
  <2>3. CASE Timeout
    BY <2>3 DEF Timeout, SendAlerts, StallAlerts
  <2>4. CASE RecvLagged \/ Tick \/ \E m \in BlocksExt : Broadcast(m)
    BY <2>1, <2>4 DEF RecvLagged, Tick, Broadcast, SendAlerts
  <2> QED
    BY <2>2, <2>3, <2>4 DEF Next, Poll
<1> QED
  BY <1>1, Invariance, PTL DEF Spec, RecoveryMatchesStall

=============================================================================
