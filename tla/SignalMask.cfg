CONSTANTS
  Signals <- MCSignals
  SaMask <- MCSaMask
  Ops <- MCOps
  MaxCalls = 2
  MaxEvents = 3
  MaxFrames = 2
  SliceWhileStashed = FALSE
SPECIFICATION Spec
INVARIANT CachedMaskExact
INVARIANT MaskTransparent
INVARIANT StashedNotBlocked
PROPERTY StashedDelivered
