-------------------------- MODULE BroadcastChannel --------------------------
(***************************************************************************)
(* A receiver of tokio::sync::broadcast (external): the messages it has    *)
(* not taken yet.  The sender never waits: when the buffer is full the     *)
(* oldest message is overwritten, and the receiver's next recv returns     *)
(* Lagged, which every task of the alerter propagates with `?`.            *)
(***************************************************************************)
EXTENDS Naturals, Sequences

CONSTANT Capacity    \* of the channel

ASSUME CapacityAssumption == Capacity \in Nat \ {0}

Resubscribe == [queue |-> << >>, lagged |-> FALSE]

Receivers(Message) == [queue : Seq(Message), lagged : BOOLEAN]

Send(rx, m) ==
  IF Len(rx.queue) < Capacity
    THEN [rx EXCEPT !.queue = Append(rx.queue, m)]
    ELSE [queue |-> Append(Tail(rx.queue), m), lagged |-> TRUE]

\* recv would not wait.
Ready(rx) == rx.queue # << >>

Taken(rx) == [rx EXCEPT !.queue = Tail(rx.queue)]

=============================================================================
