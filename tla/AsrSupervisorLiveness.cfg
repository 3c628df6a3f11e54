SPECIFICATION FairSpec
CONSTANTS
  Transcriptions = {t1, t2}
  HealthChecks = {}
  Cancels = {c1}
  Releases = {}
  Closes = {q1}
  Bounded = {t1}
  Nobody = Nobody
PROPERTIES EveryCommandIsAnswered CancelEndsTranscription
