SPECIFICATION FairSpec
CONSTANTS
  core = core
  dbg = dbg
  none = none
  nodata = nodata
  Clients = {core, dbg}
  NoClient = none
  NoData = nodata
  IocellCount = 25
  Addr = {4, 136, 140}
  Data = {0, 13}
  RReady = {TRUE, FALSE}
  Workload <- AllOps
INVARIANTS TypeOK AnswerHasTaker
PROPERTIES ImplementsAtomicRegs EveryAccessAnswered
