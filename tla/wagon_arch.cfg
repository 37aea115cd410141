SPECIFICATION FairSpec
CONSTANTS
  Arrivals <- SomeArrivals
  Departures <- SomeDepartures
  Begin <- Starts
  HandGross = 2
  HandTare = 1
  MaxStops = 3
  MaxUpsets = 1
INVARIANTS
  OneWagonPerTrip
  WeightsOfTheTrip
PROPERTIES
  SettledWeightsStay
  StopsSettle
