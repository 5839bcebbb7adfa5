----------------------------- MODULE AlertFormat -----------------------------
(***************************************************************************)
(* MdFormat: the Slack message of an alert.  A message is the heading and  *)
(* the facts it states; the wording and the markdown are left out.         *)
(* An amount is converted from the chain's unit with rust_decimal, whose   *)
(* mantissa is narrower than a Balance: the conversion may panic.          *)
(***************************************************************************)
EXTENDS Naturals, Sequences, FiniteSetsExt

CONSTANTS
  MaxBalance,    \* u128::MAX
  MaxMantissa    \* Decimal::MAX, the largest mantissa: 2^96 - 1

ASSUME FormatConstants ==
  MaxMantissa \in Nat \ {0} /\ MaxBalance \in Nat /\ MaxMantissa <= MaxBalance

Panic == [mantissa |-> 0, scale |-> 0, panic |-> TRUE]

\* Decimal / Decimal (external) for a power of ten that fits: exact, and without
\* trailing zeros.
DecimalQuotient(n, decimals) ==
  LET zeros == Max({k \in 0..decimals : n % (10^k) = 0})
  IN  [mantissa |-> n \div (10^zeros), scale |-> decimals - zeros, panic |-> FALSE]

\* Mutant: the quotient of integers, which drops the fraction.
FormatBalanceInteger(balance, decimals) ==
  IF \/ 10^decimals > MaxBalance \/ 10^decimals > MaxMantissa \/ balance > MaxMantissa
    THEN Panic
    ELSE [mantissa |-> balance \div (10^decimals), scale |-> 0, panic |-> FALSE]

\* format_balance: 10u128.pow is checked for overflow, and Decimal::from panics
\* above its mantissa.
FormatBalance(balance, decimals) ==
  IF \/ 10^decimals > MaxBalance \/ 10^decimals > MaxMantissa \/ balance > MaxMantissa
    THEN Panic
    ELSE DecimalQuotient(balance, decimals)

-----------------------------------------------------------------------------

\* format_hash_and_number: the hash, linked, and the number.
FormatHashAndNumber(b) == [hash |-> b.hash, number |-> b.number]

FormatHashAndNumberList(s) == [i \in DOMAIN s |-> FormatHashAndNumber(s[i])]

FormatTransfer(a, decimals) ==
  [heading |-> "Balance transfer", direction |-> a.direction,
   transfer_type |-> a.event.kind, account |-> a.account,
   amount |-> FormatBalance(a.event.amount, decimals)]

\* Sudo and CodeUpdated state nothing but their heading; the others their data,
\* which the id of the event stands for.
FormatEvent(a, decimals) ==
  CASE a.event.kind \in {"BalanceTransfer", "BalanceDeposit", "BalanceWithdraw"} ->
         FormatTransfer(a, decimals)
    [] a.event.kind \in {"Sudo", "CodeUpdated"} -> [heading |-> a.event.kind]
    [] OTHER -> [heading |-> a.event.kind, data |-> a.event.id]

FormatReorg(r) ==
  [heading      |-> "Chain reorg",
   best_block   |-> FormatHashAndNumber(r.best_block),
   common_block |-> FormatHashAndNumber(r.common_block),
   retracted    |-> FormatHashAndNumberList(r.retracted),
   enacted      |-> FormatHashAndNumberList(r.enacted),
   reorg_depth  |-> Len(r.retracted)]

\* The status alerts state the fields they carry and convert nothing; this one stands
\* for all of them.
FormatTimekeeperStall(a) ==
  [heading |-> "Timekeeper stalled", last_slot |-> a.last_slot, duration |-> a.duration]

FormatAlert(a, decimals) ==
  CASE a.alert = "Event"           -> FormatEvent(a, decimals)
    [] a.alert = "Reorg"           -> FormatReorg(a)
    [] a.alert = "TimekeeperStall" -> FormatTimekeeperStall(a)

\* format_alert panics on an amount it cannot convert.
FormatPanics(message) == "amount" \in DOMAIN message /\ message.amount.panic

-----------------------------------------------------------------------------
(* What a message must satisfy.                                            *)

\* The amount format_balance states, scaled back by the token's decimals, is the
\* amount it was given, digit for digit and without trailing zeros; it panics for
\* no amount and no number of decimals that a Decimal can hold.
Exact(amount, decimals) ==
  LET shown == FormatBalance(amount, decimals)
  IN  \/ /\ ~ shown.panic
         /\ shown.mantissa * 10^decimals = amount * 10^shown.scale
         /\ shown.scale > 0 => shown.mantissa % 10 # 0
      \/ shown.panic /\ (amount > MaxMantissa \/ 10^decimals > MaxMantissa)

\* The message of a re-org alert adds up: from the common block the retracted list
\* climbs reorg_depth blocks, and the enacted list leads to the block below the
\* best one, number by number.
AddsUp(message) ==
  LET common == message.common_block.number
  IN  /\ message.reorg_depth > 0
      /\ \A i \in 1..message.reorg_depth : message.retracted[i].number = common + i
      /\ \A i \in DOMAIN message.enacted : message.enacted[i].number = common + i
      /\ message.best_block.number = common + Len(message.enacted) + 1

=============================================================================
