SPECIFICATION ReadSpec
CONSTANTS
  p1 = p1
  l1 = l1
  Docs = {1, 2}
  Procs = {p1}
  Listings = {l1}
  Host <- MCHost
  Chunk = 1
  MaxVersion = 1
  SizeOf <- MCSizeOf
  Faults = {}
  Patient = FALSE
  Floor = 4
  Ratio = 4
  Cap = 6
  Window = 1
  Appends = {1, 2, 4}
  MaxAppended = 6
INVARIANT SizeIsSafe
