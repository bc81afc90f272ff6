----------------------------- MODULE MCNativeAssets -----------------------------
(***************************************************************************)
(* Two tags, the first with a release that has the asset; cargo's output   *)
(* changes twice, and two steps fail or are cut off.  The first two        *)
(* versions of cargo's output are of one length, and so are the third and  *)
(* the release.                                                            *)
(***************************************************************************)
EXTENDS NativeAssets

TwoTags == 1 .. 2
FirstPublished == {1}
ReleaseLengths == [tag \in TwoTags |-> 2]
LocalLengths == [version \in 0 .. MaxBuilt |-> IF version < 2 THEN 1 ELSE 2]
=============================================================================
