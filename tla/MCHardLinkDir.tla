--------------------------- MODULE MCHardLinkDir ---------------------------
EXTENDS HardLinkDir, TLC

CONSTANTS c1, c2, s, d1, d2

MCNames == {"a", "node_modules"}

\* every source tree of depth 2 over the two names (a missing src too)
AllSrcTrees ==
  {t \in [Paths -> SrcKinds] :
     WellFormed(t, "dir") /\ t[Root] \in {"none", "dir"}}

\* destinations: missing, empty, or holding a file where src may put a
\* file (EEXIST) or a directory (conflict), one level down or two
Tree(entries) ==
  [p \in Paths |-> IF p \in DOMAIN entries THEN entries[p] ELSE "none"]
MCDestTrees ==
  {Tree(<<>> :> "none"),
   Tree(<<>> :> "dir"),
   Tree((<<>> :> "dir") @@ (<<"a">> :> "file")),
   Tree((<<>> :> "dir") @@ (<<"a">> :> "dir") @@ (<<"a", "a">> :> "file"))}

OneCaller == {c1}
TwoCallers == {c1, c2}

\* one call alone, the source itself among its destinations
OneCallerDests == c1 :> <<s, d1, d2>>

\* two calls meeting in d1, the source itself among c1's destinations
SharedDests == (c1 :> <<s, d1, d2>>) @@ (c2 :> <<d1>>)

\* d2 is on another device: links there become copies
D2CrossDevice == (d1 :> FALSE) @@ (d2 :> TRUE)
=============================================================================
