SPECIFICATION Spec
CONSTANTS
  i1 = i1
  i2 = i2
  h1 = h1
  h2 = h2
  NoHash = NoHash
  Items = {i1, i2}
  Hashes = {h1, h2}
SYMMETRY Symmetry
INVARIANT
  Servable
PROPERTY
  PruneReclaims
