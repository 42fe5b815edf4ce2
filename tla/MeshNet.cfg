SPECIFICATION FairSpec
CONSTANTS
  r = r
  a = a
  b = b
  None = None
  Nodes <- MCNodes
  Macs <- MCNodes
  LONG = 2
  Bytes <- MCBytes
  Aggregates <- MCAggregates
  Root = r
  Uplink <- MCUplink
  module_id <- MCIds
  AGGREGATE_TABLE_SIZE = 1
  MaxReadings <- MCReadings
  MaxTime = 2
  MaxMoves = 1
INVARIANTS TypeOK EveryReadingOnce FramesAsBuilt ClocksFollowServer ReadingsKeepTheirModule
PROPERTIES ReadingsGetOut ImplementsDelivery
CHECK_DEADLOCK FALSE
