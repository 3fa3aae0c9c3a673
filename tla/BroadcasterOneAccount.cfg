SPECIFICATION Spec
CONSTANTS
  m1 = m1
  m2 = m2
  o1 = o1
  base = base
  oracle = oracle
  NoMsg = NoMsg
  Accounts = {base}
  Msgs = {m1, m2}
  Saved = {m1, m2}
  Sender <- OneAccount
  StartSeq <- BaseOnlyAt5
  Handlers = {"host"}
  Faults = {"evict", "crash", "ackLost", "commitFails", "lag"}
  MaxFaults = 2
  MaxBatch = 2
  MaxMemo = 1
  MaxErrors = 1
  MaxRetryCount = 2
INVARIANTS TypeOK NoSavedMsgLost SequencesAscend DBMatchesMemory
PROPERTIES ImplementsOutbox
CHECK_DEADLOCK FALSE
