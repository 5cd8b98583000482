SPECIFICATION Spec
CONSTANTS
  r1 = r1
  r2 = r2
  None = None
  Readers = {r1, r2}
  Versions = {1, 2, 3}
  Size <- MCSize
  Modified <- MCModified
  Modes = {FALSE}
  Failing = FALSE
PROPERTY BodyIsAsNewAsItsTag
