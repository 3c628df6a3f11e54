SPECIFICATION Spec
CONSTANTS
  Sessions = {s1, s2, s3}
  Nobody = Nobody
INVARIANTS FilesAreOwned UnitsAreOwned ArtifactIsSound
PROPERTIES CancelReleases
