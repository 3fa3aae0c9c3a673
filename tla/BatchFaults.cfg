SPECIFICATION FairSpec
CONSTANTS
  l1 = l1
  l2 = l2
  payload = payload
  s1 = s1
  s2 = s2
  s3 = s3
  Blank = Blank
  Absent = Absent
  Byte = 3
  WordLen = 2
  SumLen = 2
  Blocks <- FourBlocks
  HostChain = l1
  LastCommit <- Commits
  L1Payload = payload
  FirstInfo <- First
  NewInfos <- Celestia
  Own = "own"
  Disabled = FALSE
  BatchStartHeight = 1
  MaxChunks = 2
  MaxChunkSize = 2
  MaxSubmissionTime = 2
  SubmissionInterval = 4
  QueryMax = 2
  Genesis <- GenesisFile
  StopDuringUpdate = FALSE
  StopWhileExposed = FALSE
  MaxFaults = 2
INVARIANTS
  TypeOK
  HeaderAnnouncesChunks
  NoBlockSkipped
  BatchHoldsItsBlocks
  SavedMsgsDecode
PROPERTIES
  CatchesUp
CHECK_DEADLOCK FALSE
