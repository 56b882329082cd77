CONSTANTS
  Names = {"s"}
  MaxTrials = 15
  InitialWait = 2
  MaxWait = 120
  Multiplier = 2
  Patience = 1200
  ClusterPort <- MCClusterPort
  Credentials = {"unset", "unreadable", "no client_email", "key file"}
  MaxWire = 2
  MaxDirect = 2
  MaxPlays = 2
  MaxBuffers = 2
  MaxLoops = 2
  MaxQueue = 2
  Installed <- MCInstalled
  IntMax = 24
  AddendumKeys = {"k"}
  PacketValues <- MCPacketValues
  StrangePackets <- MCStrangePackets
  Scenarios <- MCScenarios
SPECIFICATION FairSpec
CHECK_DEADLOCK FALSE
INVARIANTS
  OkMeansApplied GivesUpAfterPatience SessionDelivered SourceDelivered
  ConnectedAsShown RunsAsAsked ShownIsRunOfStream
   ImagesKept
PROPERTY CommandsEnd
