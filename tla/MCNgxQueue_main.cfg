CONSTANTS
  h1 = h1
  h2 = h2
  e1 = e1
  e2 = e2
  e3 = e3
  NULL = NULL
  Heads <- MCHeads
  Elems <- MCElems
  NgxDebug = FALSE
SYMMETRY ElemSymmetry
SPECIFICATION Spec
INVARIANT CyclesLinked
PROPERTY QueueRefinement
