SPECIFICATION Spec
CONSTANTS
  s1 = s1
  s2 = s2
  s3 = s3
  Addresses <- MCAddresses
  Channels <- MCChannels
  Patterns <- MCPatterns
  MaxAdds = 4
  MaxDepth = 2
  MaxParts = 3
SYMMETRY MCSymmetry
INVARIANTS
  TypeOK
  TableIsConsistent
  DispatchesAsSubscribed
