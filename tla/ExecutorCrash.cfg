SPECIFICATION FairSpec
CONSTANTS
  Configs <- Scenarios
INVARIANTS
  TypeOK
  NeverStuck
  DepositsKept
  OutputsRight
  ProofsVerify
  WithdrawalsListed
  MigrationsRestore
  HostFollows
PROPERTIES
  PricesRise
  DepositsFinalized
CHECK_DEADLOCK FALSE
