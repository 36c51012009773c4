SPECIFICATION Spec
CONSTANTS
  ProgLen = 2
  MaxImports = 1
  MaxEdits = 1
  Images <- MCImages
  Edits <- MCEdits
INVARIANTS
  MeaningKept
  FileFaithful
PROPERTY CanonicalKept
