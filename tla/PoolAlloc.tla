------------------------------ MODULE PoolAlloc -----------------------------
(***************************************************************************)
(* The RAM pool of common/alloc.c: POOL_BLOCK_NUMBER blocks, each with one *)
(* status byte that holds 0 when the block is free and the length of the   *)
(* allocation it belongs to otherwise, and a counter of the used blocks.   *)
(* A pointer is the index of its first block.  The calls run to completion *)
(* on the one console thread (the kernel has no time slice and the pool no *)
(* lock), so each call is one action.                                      *)
(***************************************************************************)
EXTENDS Integers, FiniteSets

CONSTANTS
  PoolBlockNumber,   (* POOL_BLOCK_NUMBER                                  *)
  BlockSize,         (* POOL_BLOCK_SIZE                                    *)
  Requests           (* byte counts given to pool_alloc_bytes              *)

U8 == 256            \* what a uint8_t counts modulo

(* alloc.c:34 asks for fewer than 256 blocks.  No caller asks for more     *)
(* bytes than 255 blocks hold (the widest is the 64 KiB of the sniffer).   *)
ASSUME PoolAssumption ==
  /\ PoolBlockNumber \in 1 .. (U8 - 1)
  /\ BlockSize \in Nat \ {0}
  /\ Requests \subseteq 0 .. (U8 - 1) * BlockSize

VARIABLES
  blocks,            (* ram_pool.blocks                                    *)
  blocks_used,       (* ram_pool.blocks_used                               *)
  held,              (* pointers returned and not yet given back           *)
  asked,             (* the byte count of the last allocation (history)    *)
  ret                (* what the last allocation returned                  *)

vars == <<blocks, blocks_used, held, asked, ret>>

Null == -1
Index == 0 .. (PoolBlockNumber - 1)

(* Fault: a division that rounds down.                                     *)
BlocksNeededFloor(bytes) == (bytes \div BlockSize) % U8

(* DIV_ROUND_UP, then the narrowing to the uint8_t parameter.              *)
BlocksNeeded(bytes) == ((bytes + BlockSize - 1) \div BlockSize) % U8

(* Fault: the inner scan stops one block short.                            *)
SpaceFoundShort(i, n) == \A j \in 0 .. (n - 2) : blocks[i + j] = 0

(* The inner scan of pool_alloc_blocks: n free blocks from i on.           *)
SpaceFound(i, n) == \A j \in 0 .. (n - 1) : blocks[i + j] = 0

Candidates(n) == {i \in 0 .. (PoolBlockNumber - n) : SpaceFound(i, n)}

-----------------------------------------------------------------------------
pool_init ==
  /\ blocks = [i \in Index |-> 0]
  /\ blocks_used = 0
  /\ held = {}
  /\ asked = Null
  /\ ret = Null

(* Fault: one block is counted whatever the length.                        *)
TakeFirstFitCountsOne(n) ==
  /\ n \in 1 .. PoolBlockNumber
  /\ \E i \in Candidates(n) :
       /\ \A k \in Candidates(n) : i <= k
       /\ blocks' = [b \in Index |-> IF b \in i .. (i + n - 1) THEN n ELSE blocks[b]]
       /\ held' = held \cup {i}
       /\ ret' = i
  /\ blocks_used' = (blocks_used + 1) % U8

(* The scan from block 0 stops at the first run of n free blocks.          *)
TakeFirstFit(n) ==
  /\ n \in 1 .. PoolBlockNumber
  /\ \E i \in Candidates(n) :
       /\ \A k \in Candidates(n) : i <= k
       /\ blocks' = [b \in Index |-> IF b \in i .. (i + n - 1) THEN n ELSE blocks[b]]
       /\ held' = held \cup {i}
       /\ ret' = i
  /\ blocks_used' = (blocks_used + n) % U8

(* Fault: the scan position is returned after a scan that found nothing.   *)
ReturnScanPosition(n) ==
  /\ n \notin 1 .. PoolBlockNumber \/ Candidates(n) = {}
  /\ ret' = PoolBlockNumber - n + 1
  /\ UNCHANGED <<blocks, blocks_used, held>>

ReturnNull(n) ==
  /\ n \notin 1 .. PoolBlockNumber \/ Candidates(n) = {}
  /\ ret' = Null
  /\ UNCHANGED <<blocks, blocks_used, held>>

pool_alloc_blocks(n) == TakeFirstFit(n) \/ ReturnNull(n)

pool_alloc_bytes(bytes) ==
  /\ pool_alloc_blocks(BlocksNeeded(bytes))
  /\ asked' = bytes

pool_free(p) ==
  IF p = Null
    THEN UNCHANGED vars
    ELSE LET num_blocks == blocks[p] IN
         /\ blocks' = [b \in Index |-> IF b \in p .. (p + num_blocks - 1) THEN 0 ELSE blocks[b]]
         /\ blocks_used' = (blocks_used - num_blocks) % U8
         /\ held' = held \ {p}
         /\ UNCHANGED <<asked, ret>>

Next ==
  \/ \E bytes \in Requests : pool_alloc_bytes(bytes)
  \/ \E p \in held \cup {Null} : pool_free(p)

Spec == pool_init /\ [][Next]_vars

-----------------------------------------------------------------------------
TypeOK ==
  /\ blocks \in [Index -> 0 .. PoolBlockNumber]
  /\ blocks_used \in 0 .. (U8 - 1)
  /\ held \subseteq Index
  /\ asked \in Requests \cup {Null}
  /\ ret \in Index \cup {Null}

Region(p) == p .. (p + blocks[p] - 1)

(* Every live pointer names a region inside the pool whose blocks all      *)
(* carry its length: pool_free, which trusts one status byte, gives back   *)
(* exactly what was taken.                                                 *)
RegionsLabelled ==
  \A p \in held :
    /\ blocks[p] > 0
    /\ p + blocks[p] <= PoolBlockNumber
    /\ \A b \in Region(p) : blocks[b] = blocks[p]

(* Two live buffers share no block, whatever the order of the frees that   *)
(* fragmented the pool.                                                    *)
RegionsDisjoint ==
  \A p, q \in held : p # q => Region(p) \cap Region(q) = {}

(* A used block belongs to a live pointer: no free leaves a tail behind.   *)
NoOrphanBlock ==
  \A b \in Index : blocks[b] # 0 => \E p \in held : b \in Region(p)

UsedBlocks == {b \in Index : blocks[b] # 0}

(* The counter shown by debug/"show memory" agrees with the status bytes,  *)
(* although it is kept by 8-bit additions and subtractions of its own.     *)
StatsExact == blocks_used = Cardinality(UsedBlocks)

(* A call never touches the bytes of a buffer that stays live across it.   *)
OthersUntouched ==
  [][\A p \in held \cap held' : \A b \in Region(p) : blocks'[b] = blocks[b]]_vars

(* The pool seen by its callers: the live pointers with their lengths.     *)
Abstract == INSTANCE Pool WITH regions <- [p \in held |-> blocks[p]]

(* alloc.c implements the pool its callers rely on.                        *)
ImplementsPool == Abstract!PoolSpec
=============================================================================
