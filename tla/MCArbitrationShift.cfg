SPECIFICATION Spec
CONSTANTS
  n1 = n1
  n2 = n2
  n3 = n3
  Nobody = Nobody
  Broadcast = Broadcast
  Nodes <- ThreeNodes
  Address <- Addresses3
  LockCounterMax <- Max3
INVARIANT AddresseeTakes
