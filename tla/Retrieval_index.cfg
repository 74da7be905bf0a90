SPECIFICATION Spec
CONSTANTS
  ChunkSize = 5
  Overlap = 2
  Processes = {p1, p2}
  Texts <- MCTexts
  Scenarios <- MCScenarios
\* every text is cut in the end, and nobody has to search or to start
CHECK_DEADLOCK FALSE
INVARIANTS
  PhrasesKept
  Searchable
  Rebuilt
  PhraseFound
