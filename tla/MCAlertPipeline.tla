--------------------------- MODULE MCAlertPipeline ---------------------------
(***************************************************************************)
(* AlertPipeline with two blocks.  Accounts a1 and a2 are known, a1 under  *)
(* two names; x is not known.                                              *)
(***************************************************************************)
EXTENDS AlertPipeline

CONSTANTS a1, a2, x

MCAccountsConfig ==
  <<[name |-> "first", address |-> a1], [name |-> "second", address |-> a2],
    [name |-> "third", address |-> a1]>>

\* Three alerts, in another order than the events; three transfers, one of them
\* between known accounts and one that names no known account.  The amount of the
\* last is too large to be formatted.
MCBlockEvents ==
  {<<Other(1, IgnoredKind), Other(2, "CodeUpdated"), Withdraw(3, a1, 25),
     Deposit(4, a2, 7)>>,
   <<Transfer(1, a1, a2, 100), Deposit(2, x, 1), Transfer(3, x, a2, 500)>>}
=============================================================================
