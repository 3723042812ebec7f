\* Side-effects entries as worker.ts writes them (the files map itself,
\* no "added" field) next to the shape the checker reads.
CONSTANTS
  o1 = o1
  o2 = o2
  o3 = o3
  v1 = v1
  v2 = v2
  Objects <- MCObjects
  BaseFiles <- MCBaseFiles
  SideEffectFiles <- MCSideEffectFiles
  ReadManifest = TRUE
  Verifiers <- OneVerifier
  SideEffectShapes = {"added", "flat"}
  MaxAdds = 0
  MaxCorruptions = 0
SPECIFICATION Spec
INVARIANT SideEffectsVerdict
CHECK_DEADLOCK FALSE
