SPECIFICATION Spec
CONSTANTS
  a1 = a1
  a2 = a2
  x = x
  Accounts = {a1, a2, x}
  AccountsConfig <- MCAccountsConfig
  NoAccount = NoAccount
  Blocks = {1, 2}
  BlockEvents <- MCBlockEvents
  MaxBalance = 1023
  MaxMantissa = 127
  MaxDecimals = 4
  TokenDecimals = 1
  Capacity = 1
  OtherTasks = {"listener", "stall", "slots"}
  MaxBatch = 2
  MaxMessages = 2
  MaxStatusAlerts = 1
  MaxFaults = 1
INVARIANT DecodeErrorsTolerated
CHECK_DEADLOCK FALSE
