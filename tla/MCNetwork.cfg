SPECIFICATION FairSpec
CONSTANTS
  RX = 2
  TX = 2
  Lan <- MCLan
  Askers = {"host"}
  REMOTE = "remote"
  Targets = {"router", "remote"}
  NO_IP = "0"
  BROADCAST = "all"
  Net <- MCNet
  Offers <- MCOffers
  TRIES = 1
  MAX_COMMANDS = 2
  MAX_CALLS = 1
  MAX_INBOUND = 1
INVARIANTS
  RingsSound
  RoutedByOffers
PROPERTIES
  NotDiverted
  DiscoverSucceeds
CHECK_DEADLOCK FALSE
