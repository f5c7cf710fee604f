SPECIFICATION Spec
CONSTANTS
  core = core
  dbg = dbg
  none = none
  Clients = {core, dbg}
  NoClient = none
  Addr = {0, 1}
  Data = {0}
  Tieoffs = {1}
  Configurators = {core}
  Users = {core}
  Procedures = {"ss_init", "ss_init_high_speed", "ss_reset", "irq_enable", "reset_all"}
  Workload <- Reads
INVARIANT ResponseNotLost
