--------------------------- MODULE MCHttpRegistry ---------------------------
(* A small registry for TLC: the second edition of the index adds an        *)
(* extension or moves one to another URL.                                   *)
EXTENDS HttpRegistry, TLC

CONSTANTS r1, r2, ext1, ext2, url1, url2

MCIds == {ext1, ext2}
MCUrls == {url1, url2}
MCGrowing == 0 :> (ext1 :> url1) @@ 1 :> ((ext1 :> url1) @@ (ext2 :> url2))
MCMoving == 0 :> (ext1 :> url1) @@ 1 :> (ext1 :> url2)
MCSymmetry == Permutations(Requests)
=============================================================================
