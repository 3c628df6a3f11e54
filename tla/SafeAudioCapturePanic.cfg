SPECIFICATION Spec
CONSTANTS
  Sessions = {s1}
  Nobody = Nobody
INVARIANT WriterIsRetained
