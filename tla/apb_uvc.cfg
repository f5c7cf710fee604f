SPECIFICATION FairSpec
CONSTANTS
  None = None
  Addr = {0}
  Data = {0, 1}
  ApbPorts = {"producer", "consumer"}
  Ports = {"producer", "consumer"}
  Clients <- UvcClients
  PortOf <- UvcPortOf
  ItemsOf <- UvcItemsOf
  enable_masked_data = TRUE
INVARIANTS TypeOK NoSequenceError MonitorSeesTransfers
PROPERTIES ApbProtocol AnswersItsRequest ItemsFinish
