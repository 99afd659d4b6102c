--------------------------- MODULE MCChunkLifecycle ---------------------------
(* TLC instance of ChunkLifecycle: two chunks.  An anchor in the west is near *)
(* both, one in the east only near c2.  An edit turns flat land into dug and  *)
(* back, so that one lost among several shows.                                *)
EXTENDS ChunkLifecycle, TLC

CONSTANTS c1, c2, west, east, flat, dug

MCNear == west :> {c1, c2} @@ east :> {c2}
MCEdit == {flat :> dug @@ dug :> flat}
MCReach == west :> {c1} @@ east :> {c2}
=============================================================================
