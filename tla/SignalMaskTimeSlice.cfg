CONSTANTS
  Signals <- MCSignals
  SaMask <- MCSaMask
  Ops <- MCOps
  MaxCalls = 2
  MaxEvents = 3
  MaxFrames = 2
  SliceWhileStashed = TRUE
SPECIFICATION Spec
INVARIANT MaskTransparent
