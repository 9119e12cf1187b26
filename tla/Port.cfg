CONSTANTS
  br0 = br0
  br1 = br1
  NoBridge = NoBridge
  Bridges <- MCBridges
  Wired <- MCAllIrqs
  Firmware <- MCAm57
  Fails <- MCAllFails
SPECIFICATION Spec
CHECK_DEADLOCK FALSE
CONSTRAINT UntilStale
INVARIANTS
  HoldsWhatItNeeds
  NeverWiped
  NeverHangs
  BridgeKnown
