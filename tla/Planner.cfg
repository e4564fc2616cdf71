SPECIFICATION BothSpec
CONSTANTS
  Layers <- MCLayers
  BytesPerTile = 6
  MaxCost = 100
  MaxRequests = 2
  TileCounts <- MCTileCounts
  ConvCounts <- MCConvCounts
  PerConvOptions <- MCPerConvOptions
  TilesPerBus = 2
  UnsignedBits = 8
INVARIANTS EstimatesExact PlansAgree FitsWithFewestCycles TilesDealtOut DealInv
PROPERTY EveryCallEnds
CHECK_DEADLOCK FALSE
