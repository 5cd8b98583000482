SPECIFICATION Spec
CONSTANTS
  u1 = u1
  u2 = u2
  u3 = u3
  w1 = w1
  w2 = w2
  d1 = d1
  d2 = d2
  f1 = f1
  f2 = f2
  Uploads = {u1, u2}
  Workers = {w1, w2}
  Docs = {d1, d2}
  AnnotatedCopies = {d2}
  Files = {f1}
  Length <- MCLength
  Requests <- MCRequests
  MaxUpload = 2
  SpoolMax = 2
  Handlers = 2
  Faults = {}
  Verdicts = {"ingested", "failed"}
  Clearing = FALSE
  Trashing = FALSE
INVARIANT PendingHasProvenance
