SPECIFICATION Spec
CONSTANTS
  Devices <- MCDevices
  Groups <- MCGroups
  SelfIPs <- MCSelfIPs
  Virtuals <- MCVirtuals
  Snats = {}
  Nats <- MCNats
  Home <- MCHome
  IPs <- MCIPs
  Bare <- MCBare
  Routes <- MCRoutes
  Cidrs <- MCCidrs
  Ranges <- MCRanges
  Tables = {"tagged"}
  SelfIpTag <- MCTag
  Contains <- MCContains
  MaxChanges = 2
INVARIANTS TypeOK TakenTwiceOnlyByName NoneMissed NextHopsDiffer
