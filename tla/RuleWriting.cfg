SPECIFICATION Spec
CONSTANTS
  None = None
  Quoted = Quoted
  w1 = w1
  w2 = w2
  MAX_SEARCH_PAGES = 5
  MaxId <- MCMaxId
  Kinds <- MCKinds
  Writers <- MCWriters
  Bodies <- MCBodies
  Patches <- MCPatches
  Lists <- MCLists
  Contexts <- MCContexts
INVARIANTS
  StoredRuns
  StoredMeansSent
PROPERTIES
  DuplicatesNeedRace
SYMMETRY WriterSymmetry
