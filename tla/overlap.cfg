\* InnovateMR: a leased run and one that a request starts may overlap.
SPECIFICATION InventorySpec
CONSTANTS
  Keys = {k1, k2}
  Runs = {r1, r2}
  Leased = {r1}
  Paths = {TRUE}
  BatchSize = 1
  MaxClock = 2
  MaxMerging = 2
  MaxMarker = 1
PROPERTIES OnlyMissingClosed
CHECK_DEADLOCK FALSE
