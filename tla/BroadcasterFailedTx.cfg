SPECIFICATION Spec
CONSTANTS
  m1 = m1
  m2 = m2
  o1 = o1
  base = base
  oracle = oracle
  NoMsg = NoMsg
  Accounts = {base}
  Msgs = {m1, m2}
  Saved = {m1, m2}
  Sender <- OneAccount
  StartSeq <- BaseOnlyAt5
  Handlers = {"host"}
  Faults = {"fail"}
  MaxFaults = 1
  MaxBatch = 2
  MaxMemo = 1
  MaxErrors = 1
  MaxRetryCount = 2
INVARIANTS NoSavedMsgForgotten
CHECK_DEADLOCK FALSE
