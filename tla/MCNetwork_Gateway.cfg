SPECIFICATION FairSpec
CONSTANTS
  RX = 2
  TX = 2
  Lan <- MCLan
  Askers = {"router"}
  REMOTE = "remote"
  Targets = {"host"}
  NO_IP = "0"
  BROADCAST = "all"
  Net <- MCNet
  Offers <- MCOffers
  TRIES = 1
  MAX_COMMANDS = 2
  MAX_CALLS = 1
  MAX_INBOUND = 1
PROPERTY
  GatewayForExternalOnly
CHECK_DEADLOCK FALSE
