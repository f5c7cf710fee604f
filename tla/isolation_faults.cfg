SPECIFICATION FairSpec
CONSTANTS
  core = core
  dbg = dbg
  none = none
  Clients = {core, dbg}
  NoClient = none
  Addr = {0, 1}
  Data = {0}
  Tieoffs = {}
  Configurators = {core}
  Users = {core, dbg}
  Procedures = {"ss_init", "ss_reset"}
  Workload <- Reads
PROPERTY IsolationContainsFaults
