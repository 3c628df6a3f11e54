SPECIFICATION Spec
CONSTANTS
  Sessions = {s1, s2}
  NoSession = NoSession
INVARIANTS
  TypeOK
  CaptureOwned
  ArtifactOwnedUnlessRefused
  SingleFlight
  ExitIsClean
  CleanupExclusive
  WorkflowIsCoherentUnlessRefused
PROPERTY NoCommitAfterInvalidation
