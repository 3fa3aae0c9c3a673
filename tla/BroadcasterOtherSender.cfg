SPECIFICATION Spec
CONSTANTS
  m1 = m1
  m2 = m2
  o1 = o1
  base = base
  oracle = oracle
  NoMsg = NoMsg
  Accounts = {base, oracle}
  Msgs = {m1, o1}
  Saved = {m1}
  Sender <- TwoAccountsOneDeposit
  StartSeq <- OracleAt5
  Handlers = {"host"}
  Faults = {"evict"}
  MaxFaults = 1
  MaxBatch = 2
  MaxMemo = 1
  MaxErrors = 1
  MaxRetryCount = 2
INVARIANTS NoSavedMsgForgotten
CHECK_DEADLOCK FALSE
