------------------------ MODULE MCPkgFilesIntegrity ------------------------
(***************************************************************************)
(* A package index with package.json on o1, two files sharing o2 (so      *)
(* verifiedFilesCache is exercised), and two side-effects entries: k1     *)
(* re-uses o2 and adds o3, k2 holds o3 only.                               *)
(***************************************************************************)
EXTENDS PkgFilesIntegrity, TLC

CONSTANTS o1, o2, o3, v1, v2

MCObjects == {o1, o2, o3}

MCBaseFiles ==
  << [name |-> "package.json", obj |-> o1],
     [name |-> "other", obj |-> o2],
     [name |-> "other", obj |-> o2] >>

MCSideEffectFiles == ("k1" :> <<o2, o3>>) @@ ("k2" :> <<o3>>)

OneVerifier == {v1}
TwoVerifiers == {v1, v2}
=============================================================================
