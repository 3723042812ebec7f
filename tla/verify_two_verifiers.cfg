\* Two verifiers sharing objects while an object is re-added.
CONSTANTS
  o1 = o1
  o2 = o2
  o3 = o3
  v1 = v1
  v2 = v2
  Objects <- MCObjects
  BaseFiles <- MCBaseFiles
  SideEffectFiles <- MCSideEffectFiles
  ReadManifest = TRUE
  Verifiers <- TwoVerifiers
  SideEffectShapes = {"added"}
  MaxAdds = 1
  MaxCorruptions = 0
SPECIFICATION Spec
PROPERTY NoIntactObjectEvicted
CHECK_DEADLOCK FALSE
