SPECIFICATION FairSpec
CONSTANTS
  Goroutines = {g1, g2, g3}
  Variants = {v1}
  PoolSize = 2
  Quantities <- OneUnit
  InitialStock = 1
  InitialReserved = 1
  SeededOrders <- OneCancelled
  SeededShipments <- OneDelivered
  RestockUnits <- OneUnit
  ReleaseUnits = 1
  Faults <- AllFaults
  Nobody = Nobody
  MaxOrders = 3
  MaxShipments = 2
  MaxRestocked = 1
INVARIANTS
  NeverOversold
  StockLedger
  ShippedUnderWay
PROPERTIES
  RoundsEnd
