SPECIFICATION FairSpec
CONSTANTS
  None = None
  Addr = {0, 4, 8, 12}
  Data = {0, 1, 16, 17}
  Kind = "student_ss_example"
  Threshold = 2
  enable_masked_data = FALSE
  ApbPorts = {"producer"}
  Buses <- BenchBuses
  Ports <- BenchPorts
  Clients <- BenchPorts
  Nibbles = {0, 1, 16}
  ResetCycles = {2, 3}
  Rounds = 1
CHECK_DEADLOCK FALSE
INVARIANTS TypeOK TestsPass
PROPERTY TestsEnd
