CONSTANTS
  root = root  f = f  w1 = w1  w2 = w2
  nil = nil  cf = cf  c1 = c1  c2 = c2
  Nodes = {root, f, w1, w2}
  Root = root
  Synthetic = {root, w1, w2}
  Inits = {}
  Sites = {nil, cf, c1, c2}
  SitesIn <- MCSitesIn
  NoNode = none
  MaxEdges = 4
SPECIFICATION SearchSpec
INVARIANTS
  EdgesAreDual
  TopologyPreserved
  SearchIsRight
PROPERTIES
  NoDuplicates
  KeepsPromise
