---------------------------- MODULE MCPoolAlloc -----------------------------
(* A pool of seven two-byte blocks: wide enough to fragment, to fill, and  *)
(* to refuse a request that the free blocks would cover if contiguous.     *)
EXTENDS PoolAlloc

MCRequests == {0, 1, 2, 3, 6, 14, 15, 16}
=============================================================================
