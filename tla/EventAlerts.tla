----------------------------- MODULE EventAlerts -----------------------------
(***************************************************************************)
(* The alerts watch_events makes of the events of one block.               *)
(***************************************************************************)
EXTENDS Naturals, Sequences, SequencesExt

CONSTANTS
  Accounts,         \* account ids
  AccountsConfig,   \* the accounts of the network configuration, with their names
  NoAccount         \* the None of TransferEvent::from and to

ASSUME AccountsAssumption ==
  /\ AccountsConfig \in Seq([name : STRING, address : Accounts])
  /\ NoAccount \notin Accounts

\* account_mapped_name: an address that is listed twice has its last name.
AccountMappedName ==
  [a \in {AccountsConfig[i].address : i \in DOMAIN AccountsConfig} |->
     AccountsConfig[Max({i \in DOMAIN AccountsConfig :
                           AccountsConfig[i].address = a})].name]

KnownAccounts == DOMAIN AccountMappedName

TransferKinds == <<"BalanceTransfer", "BalanceDeposit", "BalanceWithdraw">>

DomainKinds ==
  <<"DomainRuntimeUpgraded", "DomainInstantiated", "FraudProofProcessed",
    "OperatorSlashed", "OperatorOffline">>

AlertedKinds == DomainKinds \o <<"Sudo", "CodeUpdated">>

\* Kinds nobody looks for.
IgnoredKind == "Ignored"

(***************************************************************************)
(* An event: its position in the block and, for transfers, who they name   *)
(* and how much they move.                                                 *)
(***************************************************************************)
EventOf(i, kind, from, to, amount) ==
  [id |-> i, kind |-> kind, from |-> from, to |-> to, amount |-> amount]

Transfer(i, a, b, n) == EventOf(i, "BalanceTransfer", a, b, n)
Deposit(i, a, n)     == EventOf(i, "BalanceDeposit", NoAccount, a, n)
Withdraw(i, a, n)    == EventOf(i, "BalanceWithdraw", a, NoAccount, n)
Other(i, kind)       == EventOf(i, kind, NoAccount, NoAccount, 0)

Event ==
  [id : Nat, kind : Range(TransferKinds \o AlertedKinds) \cup {IgnoredKind},
   from : Accounts \cup {NoAccount}, to : Accounts \cup {NoAccount}, amount : Nat]

\* Events::find
Find(kind, events) == SelectSeq(events, LAMBDA e : e.kind = kind)

Alert(e, direction, account) ==
  [alert |-> "Event", event |-> e, direction |-> direction, account |-> account]

\* Mutant: both ends of a transfer are reported.
TransferAlertsBoth(e) ==
  (IF e.from \in KnownAccounts
     THEN <<Alert(e, "Sender", AccountMappedName[e.from])>> ELSE << >>)
  \o
  (IF e.to \in KnownAccounts
     THEN <<Alert(e, "Receiver", AccountMappedName[e.to])>> ELSE << >>)

\* Mutant: the receiver is not looked up before its name is taken.
TransferAlertsUnnamed(e) ==
  IF e.from \in KnownAccounts THEN <<Alert(e, "Sender", AccountMappedName[e.from])>>
  ELSE IF e.to # NoAccount
    THEN <<Alert(e, "Receiver",
                 IF e.to \in KnownAccounts THEN AccountMappedName[e.to] ELSE "")>>
  ELSE << >>

\* A transfer between known accounts is reported once, for the sender.
TransferAlerts(e) ==
  IF e.from \in KnownAccounts THEN <<Alert(e, "Sender", AccountMappedName[e.from])>>
  ELSE IF e.to \in KnownAccounts THEN <<Alert(e, "Receiver", AccountMappedName[e.to])>>
  ELSE << >>

\* filter_known_account_transfers
FilterKnownAccountTransfers(events) ==
  FlattenSeq([i \in DOMAIN events |-> TransferAlerts(events[i])])

\* as_events
AsEvents(events) ==
  [i \in DOMAIN events |-> Alert(events[i], "None", "none")]

\* The alerts of a block: transfers first, kind by kind.
BlockAlerts(events) ==
  FlattenSeq([k \in DOMAIN TransferKinds |->
                FilterKnownAccountTransfers(Find(TransferKinds[k], events))])
  \o
  FlattenSeq([k \in DOMAIN AlertedKinds |-> AsEvents(Find(AlertedKinds[k], events))])

=============================================================================
