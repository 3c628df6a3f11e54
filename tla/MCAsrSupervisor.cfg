SPECIFICATION Spec
CONSTANTS
  Transcriptions = {t1, t2}
  HealthChecks = {h1}
  Cancels = {c1}
  Releases = {r1}
  Closes = {q1}
  Bounded = {t1}
  Nobody = Nobody
INVARIANTS
  WorkIsAccountedFor
  CancelFindsItsRequest
  ReleaseIsIdle
PROPERTIES CancelConfirmed NoTextAfterCancel
