------------------------------ MODULE MCStorageDump ------------------------------
(***************************************************************************)
(* Small keys and values, the empty ones among them; cells that pass for   *)
(* lengths in range, at usize::MAX and past it.                            *)
(***************************************************************************)
EXTENDS StorageDump

SmallKeys == {<<>>, <<2, 1>>}
SmallValues == {<<>>, <<1>>, <<0, 2>>}
SomeCells == {0, 1, 3, 31, 34}
NarrowAndWide == {32, 64}
=============================================================================
