SPECIFICATION FairSpec
CONSTANTS
  Sites <- BothSites
  MaxStops = 3
  MaxEpoch = 2
CONSTRAINT TwoWagons
INVARIANTS
  EvidenceTravels
  CaptureOrder
  AckedIsTaken
  NothingDropped
  OneArrivalPerStop
  DepartureFindsArrival
PROPERTY
  ImplementsQueue
CHECK_DEADLOCK FALSE
