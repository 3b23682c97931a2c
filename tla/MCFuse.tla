------------------------------- MODULE MCFuse -------------------------------
(* Instances of FuseService: three names, and two or three audio files     *)
(* with keys of their own, so that the free list runs out in one of them.  *)
EXTENDS FuseService, TLC

CONSTANTS a, b, c, k1, k2, k3, f1, f2, f3, Written, Rewritten

MCPaths == {a, b, c}
MCContents == {Fresh, Written, Rewritten}

(* The order of the strings: "" first, a path's "/" before any digit.      *)
MCOrder == <<Empty, a, b, c, k1, k2, k3>>
MCKeys == {k1, k2, k3}

(* Audio files, their keys and the playlist: two files, and three.         *)
TwoFiles == {f1, f2}
TwoKeys == (f1 :> k1) @@ (f2 :> k2)
TwoPlaylist == <<f1, f2>>

ThreeFiles == {f1, f2, f3}
ThreeKeys == (f1 :> k1) @@ (f2 :> k2) @@ (f3 :> k3)
ThreePlaylist == <<f1, f2, f3>>
=============================================================================
