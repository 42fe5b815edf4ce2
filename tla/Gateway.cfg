SPECIFICATION FairSpec
CONSTANTS
  b1 = b1
  b2 = b2
  Boards <- MCBoards
  Stranger = Stranger
  Nobody = Nobody
  TIME_TICKS = 1
  Times <- MCTimes
  MILLION = 2
  MaxWaiting = 2
  MaxCopies = 2
PROPERTIES
  ImplementsTimeService
  RootIsSynchronised
  MessagesGetOut
INVARIANTS
  TypeOK
  TicksAreReceptions
  TimeGoesToSensorSender
  RatesAreDefined
