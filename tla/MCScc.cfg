SPECIFICATION Spec
CONSTANTS
  N = 4
  Vertices <- MCVertices
  Graphs <- MCGraphs
INVARIANT ComponentsAreOrdered
