SPECIFICATION FairSpec
CONSTANTS
  o1 = o1
  o2 = o2
  Option = {o1, o2}
  ConfigOf <- TwoFiles
  Chunks <- ChunkPerFile
  Window = 2
  Grace = 1
  RpcTimeout = 1
  Budget = 4
  MaxRuns = 2
  MaxRestarts = 1
  None = None
INVARIANTS OutcomeIsTrue VerifiesAfterWindow StagedWhatWeAsked
PROPERTY EveryRunReturns
CHECK_DEADLOCK FALSE
