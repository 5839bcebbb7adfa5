---------------------------- MODULE StallReports ----------------------------
(***************************************************************************)
(* What a reader of the alerts is promised about stalls, of the chain or   *)
(* of the timekeeper: the reported stall grows in whole timeouts until a   *)
(* recovery, which repeats the last duration reported, ends it.  Only the  *)
(* first report of all may be a recovery that no stall preceded.           *)
(***************************************************************************)
EXTENDS Naturals

CONSTANTS
  Timeout,   \* the silence after which a stall is reported
  Longest    \* the duration at which the count stops growing

VARIABLES
  open,      \* the duration of the stall the reader knows of; 0 if there is none
  fresh,     \* too early for the reader to know of every stall
  report     \* the last step's report

NoReport == [kind |-> "none", duration |-> 0]

Init == open = 0 /\ fresh = TRUE /\ report = NoReport

Stall ==
  /\ report'.kind = "stall"
  /\ report'.duration % Timeout = 0 \/ report'.duration = Longest
  /\ report'.duration > open \/ (report'.duration = open /\ open = Longest)
  /\ open' = report'.duration
  /\ UNCHANGED fresh

Recovery ==
  /\ report'.kind = "recovery"
  /\ report'.duration = open \/ (fresh /\ open = 0)
  /\ report'.duration > 0
  /\ open' = 0
  /\ fresh' = FALSE

\* Nothing is reported; the monitor may have become able to name every stall.
Quiet ==
  /\ report' = NoReport
  /\ fresh' = fresh \/ (fresh' = FALSE /\ open = 0)
  /\ UNCHANGED open

Next == Stall \/ Recovery \/ Quiet

Spec == Init /\ [][Next]_<<open, fresh, report>>

=============================================================================
