---------------------- MODULE MCFreeKVCacheBlockQueue ----------------------
(* Four blocks, all of them free at the start.                             *)
EXTENDS FreeKVCacheBlockQueue

FourBlocks == 1 .. 4
InOrder == <<1, 2, 3, 4>>
=============================================================================
