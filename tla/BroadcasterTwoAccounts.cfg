SPECIFICATION Spec
CONSTANTS
  m1 = m1
  m2 = m2
  o1 = o1
  base = base
  oracle = oracle
  NoMsg = NoMsg
  Accounts = {base, oracle}
  Msgs = {m1, m2, o1}
  Saved = {m1, m2}
  Sender <- TwoAccounts
  StartSeq <- BaseAt5
  Handlers = {"host"}
  Faults = {"evict", "crash", "ackLost", "fail", "lag"}
  MaxFaults = 1
  MaxBatch = 2
  MaxMemo = 1
  MaxErrors = 1
  MaxRetryCount = 2
INVARIANTS SequencesAscend DBMatchesMemory
CHECK_DEADLOCK FALSE
