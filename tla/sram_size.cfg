SPECIFICATION Spec
CONSTANTS
  core = core
  dbg = dbg
  none = none
  nodata = nodata
  Clients = {core, dbg}
  NoClient = none
  NoData = nodata
  NumWords = 4096
  Addr = {0, 4096}
  Keep = 2
  Data = {0, 1, 2}
  RReady = {TRUE}
  Workload <- WordOps
PROPERTY ImplementsAtomicRegs
