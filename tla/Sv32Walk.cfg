SPECIFICATION Spec
CONSTANTS
  PteCount = 2
  UintMax = 7
  Memories <- MCMemories
  Requests <- MCRequests
  Addresses <- MCAddresses
INVARIANTS
  TypeOK
  LeafGrantsAccess
PROPERTIES
  ImplementsSv32
  TwoLevelWalkDescends
  TwoLevelWalkTerminates
