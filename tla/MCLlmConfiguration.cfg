SPECIFICATION Spec
CONSTANTS
  Endpoints = {e1, e2}
  App = app
  Other = other
  None = None
  Failed = Failed
  Values <- MCValues
  Legacy <- MCValues
  Default <- MCDefault
  MaxVersion = 2
  MaxKeys = 1
  MaxDamage = 2
SYMMETRY Symmetry
INVARIANTS  KeyFitsRoute
PROPERTIES SentKeyIsStored SessionIsUndisturbed KeysAreKept
