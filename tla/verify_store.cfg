\* One verifier on an arbitrary store while other store users re-add up to
\* two objects and corrupt one: the verdict, the evictions and the
\* side-effects pruning against the store it started from (when nobody
\* touched it), and no intact object ever deleted.
CONSTANTS
  o1 = o1
  o2 = o2
  o3 = o3
  v1 = v1
  v2 = v2
  Objects <- MCObjects
  BaseFiles <- MCBaseFiles
  SideEffectFiles <- MCSideEffectFiles
  ReadManifest = TRUE
  Verifiers <- OneVerifier
  SideEffectShapes = {"added"}
  MaxAdds = 2
  MaxCorruptions = 1
SPECIFICATION Spec
INVARIANT TypeOK
INVARIANT VerdictMatchesStore
INVARIANT CorruptObjectsEvicted
INVARIANT SideEffectsVerdict
PROPERTY NoIntactObjectEvicted
\* a verification call ends, and the adder and the corrupter are bounded
CHECK_DEADLOCK FALSE
