\* Two verifiers with readManifest while package.json's object is corrupted
\* and evicted between one verifier's stat and its read.
CONSTANTS
  o1 = o1
  o2 = o2
  o3 = o3
  v1 = v1
  v2 = v2
  Objects <- MCObjects
  BaseFiles <- MCBaseFiles
  SideEffectFiles <- MCSideEffectFiles
  ReadManifest = TRUE
  Verifiers <- TwoVerifiers
  SideEffectShapes = {"added"}
  MaxAdds = 0
  MaxCorruptions = 1
SPECIFICATION Spec
INVARIANT VerifyNeverThrows
CHECK_DEADLOCK FALSE
