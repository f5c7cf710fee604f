SPECIFICATION FairSpec
CONSTANTS
  core = core
  dbg = dbg
  none = none
  nodata = nodata
  Clients = {core, dbg}
  NoClient = none
  NoData = nodata
  Kind = "student_ss_example"
  Addr = {0, 4, 8}
  Data = {0, 1}
  Workload <- AllOps
INVARIANTS TypeOK AnswerBelongsToAccess WaitingMeansUndecoded
PROPERTIES ImplementsAtomicRegs EveryAccessAnswered
