SPECIFICATION ExitFairSpec
CONSTANTS
  Sessions = {s1}
  NoSession = NoSession
  Callers = {c1, c2}
  Attempts = {a1, a2, a3}
  NoAttempt = NoAttempt
PROPERTIES EveryQuitReturns LimitEnforced
