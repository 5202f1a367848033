SPECIFICATION Spec
CONSTANTS
  Kinds = {k1, k2}
  Handles = {h1, h2}
  NoHandle = NoHandle
  NoKind = NoKind
  MaxLines = 3
SYMMETRY Interchangeable
INVARIANT LogReadable
