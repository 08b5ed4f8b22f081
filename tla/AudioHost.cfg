SPECIFICATION FairSpec
CONSTANTS
  Slots = 2
  RefreshEvery = 2
  MaxFrames = 5
  MaxDevices = 2
INVARIANTS SuppressedAfterLoss NoSharedReset StreamIsReported
PROPERTIES ImplementsStream RequestReturns
