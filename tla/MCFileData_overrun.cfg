CONSTANTS
  h1 = h1
  h2 = h2
  Chunk = 2
  BufChunks = 2
  Bytes = {0, 1}
  Zero = 0
  MaxEnd = 5
  Handles = {h1, h2}
  MaxRefs = 2
SYMMETRY HandleSymmetry
VIEW WithoutLast
SPECIFICATION Spec
INVARIANT InBuffer
CHECK_DEADLOCK FALSE
