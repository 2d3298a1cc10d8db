CONSTANTS
  Computers = {left, right}
  BeaconInterval = 2
  PeerExpiry = 7
  ProbeInterval = 1
  MaxDelay = 1
  MaxEvents = 5
SPECIFICATION Spec
INVARIANTS OfflineForgotten FoundInTime PortCurrent
PROPERTIES PeersStay
SYMMETRY Swaps
