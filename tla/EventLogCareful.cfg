SPECIFICATION CarefulSpec
CONSTANTS
  Kinds = {k1, k2}
  Handles = {h1, h2}
  NoHandle = NoHandle
  NoKind = NoKind
  MaxLines = 3
SYMMETRY Interchangeable
INVARIANTS TypeOK LogReadable MemoryIsReplay
PROPERTY ImplementsAppendOnlyLog
