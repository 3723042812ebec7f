\* Two hardLinkDir calls at once: c1 into d1 and d2 (across devices, the
\* source itself dropped from its destDirs), c2 into d1; every source tree
\* of depth 2, destinations missing, empty or pre-filled, link(2)
\* following symlinks or not.
CONSTANTS
  c1 = c1
  c2 = c2
  s = s
  d1 = d1
  d2 = d2
  Names <- MCNames
  NodeModules = "node_modules"
  MaxDepth = 2
  Src = s
  DestRoots = {d1, d2}
  Callers <- TwoCallers
  DestDirs <- SharedDests
  CrossDevice <- D2CrossDevice
  SrcTrees <- AllSrcTrees
  DestTrees <- MCDestTrees
SPECIFICATION Spec
INVARIANT TypeOK
INVARIANT DestMirrorsSource
INVARIANT ThrowsOnlyOnConflict
\* both calls return
CHECK_DEADLOCK FALSE
