-------------------------------- MODULE Pool --------------------------------
(***************************************************************************)
(* What the buffer pool of common/alloc.c promises to its callers, without *)
(* saying how free space is tracked.  A pool of PoolBlockNumber blocks is  *)
(* handed out in contiguous regions; a region covers the bytes asked for   *)
(* with no block to spare, never overlaps another live region, and is      *)
(* refused only when no gap is wide enough.                                *)
(***************************************************************************)
EXTENDS Integers

CONSTANTS
  PoolBlockNumber,   (* number of blocks of the pool                       *)
  BlockSize,         (* bytes per block                                    *)
  Requests           (* the byte counts callers ask for                    *)

VARIABLES
  regions,           (* start block of each live region -> its length      *)
  asked,             (* the byte count of the last request                 *)
  ret                (* the last pointer returned, as a block, or Null     *)

poolVars == <<regions, asked, ret>>

Null == -1

Starts == 0 .. (PoolBlockNumber - 1)

(* The exact number of blocks that n bytes occupy.                         *)
Covers(len, bytes) ==
  /\ len * BlockSize >= bytes
  /\ (len - 1) * BlockSize < bytes

(* No live region meets the len blocks from p on.                          *)
Gap(p, len) ==
  /\ p + len <= PoolBlockNumber
  /\ \A q \in DOMAIN regions : q + regions[q] <= p \/ p + len <= q

PoolInit ==
  /\ regions = [p \in {} |-> 0]
  /\ asked = Null
  /\ ret = Null

Allocate(bytes) ==
  \E p \in Starts, len \in 1 .. PoolBlockNumber :
    /\ Covers(len, bytes)
    /\ Gap(p, len)
    /\ regions' = [q \in DOMAIN regions \cup {p} |->
                     IF q = p THEN len ELSE regions[q]]
    /\ ret' = p
    /\ asked' = bytes

Refuse(bytes) ==
  /\ \A p \in Starts, len \in 1 .. PoolBlockNumber :
        Covers(len, bytes) => ~Gap(p, len)
  /\ ret' = Null
  /\ asked' = bytes
  /\ UNCHANGED regions

Release(p) ==
  /\ p \in DOMAIN regions
  /\ regions' = [q \in DOMAIN regions \ {p} |-> regions[q]]
  /\ UNCHANGED <<asked, ret>>

PoolNext ==
  \/ \E bytes \in Requests : Allocate(bytes) \/ Refuse(bytes)
  \/ \E p \in Starts : Release(p)

PoolSpec == PoolInit /\ [][PoolNext]_poolVars
=============================================================================
