SPECIFICATION FairSizeSpec
CONSTANTS
  p1 = p1
  p2 = p2
  l1 = l1
  l2 = l2
  Docs = {1, 2}
  Procs = {p1, p2}
  Listings = {l1, l2}
  Host <- MCHost
  Chunk = 1
  MaxVersion = 1
  SizeOf <- MCSizeOf
  Faults = {}
  Patient = TRUE
INVARIANTS SizeTypeOK CurrentIsExact
PROPERTY Converges
