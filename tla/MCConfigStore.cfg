SPECIFICATION Spec
CONSTANTS
  Workers = {w1, w2}
  Nobody = nobody
  Vals <- MCVals
  DefaultVal = "default"
  NormalVal <- MCNormalVal
  Hosts = {h1}
  Keys = {k1, k2}
  NoKey = nokey
  Items = {x1, x2, x3}
  ListLimit = 2
  Passwords = {p1}
  NoPassword = nopassword
  MaxRequests = 4
SYMMETRY WorkerSymmetry
INVARIANTS FileHoldsMemory TrustIsPinned
PROPERTIES HiddenStays SavesAreAtomic
