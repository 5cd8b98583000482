SPECIFICATION FairSpec
CONSTANTS
  r1 = r1
  r2 = r2
  None = None
  Readers = {r1, r2}
  Versions = {1, 2, 3}
  Size <- MCSize
  Modified <- MCModified
  Modes = {TRUE, FALSE}
  Failing = TRUE
INVARIANTS TypeOK StreamedBodyIsAsNewAsItsTag CalmAnswerIsWhole ResumedIsOneVersion FailureIsNotServedAgain
PROPERTY StreamsAreClosed
