SPECIFICATION FairSpec
CONSTANTS
  core = core
  dbg = dbg
  none = none
  nodata = nodata
  Clients = {core, dbg}
  NoClient = none
  NoData = nodata
  NumWords = 8
  Addr = {0, 4}
  Keep = 2
  Data = {0, 1, 2}
  RReady = {TRUE}
  Workload <- AllOps
INVARIANTS TypeOK AnswerReadsItsWord
PROPERTIES ImplementsAtomicRegs EveryAccessAnswered
