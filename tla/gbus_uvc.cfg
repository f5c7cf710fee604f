SPECIFICATION FairSpec
CONSTANTS
  None = None
  Buses = {"gpi", "irq_en"}
  Ports = {"gpi", "irq_en"}
  Watched = "gpi"
  Clients = {"seq_1", "seq_2", "seq_3"}
  PortOf <- UvcPortOf
  Items <- UvcItems
INVARIANTS TypeOK FailsOnlyAfterCut
PROPERTIES OwnResponse MonitorFollowsBus ItemsFinish
