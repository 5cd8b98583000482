SPECIFICATION Spec
CONSTANTS
  u1 = u1
  u2 = u2
  u3 = u3
  w1 = w1
  w2 = w2
  d1 = d1
  d2 = d2
  f1 = f1
  f2 = f2
  Uploads = {u1, u2, u3}
  Workers = {w1, w2}
  Docs = {d1, d2}
  AnnotatedCopies = {d2}
  Files = {f1, f2}
  Length <- MCLength
  Requests <- MCTwoFiles
  MaxUpload = 1
  SpoolMax = 1
  Handlers = 2
  Faults = {"tags", "sidecar"}
  Verdicts = {"failed"}
  Clearing = FALSE
  Trashing = FALSE
INVARIANT QuotaOvershoot
SYMMETRY MCSymmetry
