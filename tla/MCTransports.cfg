SPECIFICATION Spec
CONSTANTS
  t1 = t1
  t2 = t2
  t3 = t3
  Addresses <- MCAddresses
  Names <- MCNames
  Builtin = "long-polling"
  ServerTypes <- MCTypes
  MaxTypes = 3
  MaxRegistered = 5
SYMMETRY MCSymmetry
INVARIANTS
  NegotiatesTheLastCommonType
  OfferIsKept
PROPERTIES
  OnlyTheNewestIsFreed
