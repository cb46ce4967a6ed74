--------------------------- MODULE PoolAllocProofs --------------------------
(***************************************************************************)
(* The pool's invariants for every number of blocks, block size and set of *)
(* requests, and the proof that alloc.c implements Pool.                   *)
(***************************************************************************)
EXTENDS PoolAlloc, FiniteSetTheorems, TLAPS

(* The conjunction is inductive: the counter and the labels need the live  *)
(* pointers to be exactly the owners of the used blocks.                   *)
IInv ==
  /\ TypeOK
  /\ RegionsLabelled
  /\ RegionsDisjoint
  /\ NoOrphanBlock
  /\ StatsExact

-----------------------------------------------------------------------------
(* Any set of blocks is finite and has at most PoolBlockNumber elements,   *)
(* so the number of used blocks fits the 8-bit counter.                    *)
LEMMA BlockSetBounded ==
  ASSUME NEW S \in SUBSET Index
  PROVE  /\ IsFiniteSet(S)
         /\ Cardinality(S) \in 0 .. PoolBlockNumber
<1>1. /\ IsFiniteSet(Index)
      /\ Cardinality(Index) = PoolBlockNumber
  BY PoolAssumption, FS_Interval DEF Index, U8
<1>2. IsFiniteSet(S) /\ Cardinality(S) <= PoolBlockNumber
  BY <1>1, FS_Subset
<1>3. Cardinality(S) \in Nat
  BY <1>2, FS_CardinalityType
<1>4. QED
  BY <1>2, <1>3, PoolAssumption DEF U8

(* Adding a disjoint run of n blocks to a finite set adds n to its size.   *)
LEMMA CardinalityOfRun ==
  ASSUME NEW S, IsFiniteSet(S), NEW i \in Int, NEW n \in Nat \ {0},
         S \cap (i .. (i + n - 1)) = {}
  PROVE  /\ IsFiniteSet(S \cup (i .. (i + n - 1)))
         /\ Cardinality(S \cup (i .. (i + n - 1))) = Cardinality(S) + n
<1> DEFINE R == i .. (i + n - 1)
<1>1. IsFiniteSet(R) /\ Cardinality(R) = n
  <2>1. i + n - 1 \in Int /\ ~(i > i + n - 1) /\ (i + n - 1) - i + 1 = n
    OBVIOUS
  <2>2. QED
    BY <2>1, FS_Interval
<1>2. Cardinality(S \cap R) = 0
  BY FS_EmptySet
<1>3. Cardinality(S) \in Nat
  BY FS_CardinalityType
<1> HIDE DEF R
<1>4. /\ IsFiniteSet(S \cup R)
      /\ Cardinality(S \cup R) = Cardinality(S) + Cardinality(R) - Cardinality(S \cap R)
  BY <1>1, FS_Union
<1>5. Cardinality(S \cup R) = Cardinality(S) + n
  BY <1>1, <1>2, <1>3, <1>4
<1>6. QED
  BY <1>4, <1>5 DEF R

(* Arithmetic of the 8-bit counter.                                         *)
LEMMA Wrap8 ==
  ASSUME NEW x \in Int
  PROVE  /\ x % U8 \in 0 .. (U8 - 1)
         /\ x \in 0 .. (U8 - 1) => x % U8 = x
BY DEF U8

LEMMA InitIInv == pool_init => IInv
<1> SUFFICES ASSUME pool_init PROVE IInv
  OBVIOUS
<1>1. TypeOK
  BY PoolAssumption DEF pool_init, TypeOK, Index, Null, U8
<1>2. RegionsLabelled /\ RegionsDisjoint /\ NoOrphanBlock
  BY DEF pool_init, RegionsLabelled, RegionsDisjoint, NoOrphanBlock
<1>3. UsedBlocks = {}
  BY DEF pool_init, UsedBlocks
<1>4. StatsExact
  BY <1>3, FS_EmptySet DEF StatsExact, pool_init
<1>5. QED
  BY <1>1, <1>2, <1>4 DEF IInv

(* What a successful first-fit allocation does, in one place.              *)
LEMMA TakeFacts ==
  ASSUME IInv, NEW n, TakeFirstFit(n)
  PROVE  \E i \in Index :
           /\ n \in 1 .. PoolBlockNumber
           /\ i + n <= PoolBlockNumber
           /\ \A b \in i .. (i + n - 1) : b \in Index /\ blocks[b] = 0
           /\ blocks' = [b \in Index |-> IF b \in i .. (i + n - 1) THEN n ELSE blocks[b]]
           /\ held' = held \cup {i}
           /\ ret' = i
           /\ blocks_used' = (blocks_used + n) % U8
           /\ i \notin held
<1>1. n \in 1 .. PoolBlockNumber
  BY DEF TakeFirstFit
<1>2. PICK i \in Candidates(n) :
        /\ blocks' = [b \in Index |-> IF b \in i .. (i + n - 1) THEN n ELSE blocks[b]]
        /\ held' = held \cup {i}
        /\ ret' = i
  BY DEF TakeFirstFit
<1>3. i \in 0 .. (PoolBlockNumber - n) /\ SpaceFound(i, n)
  BY <1>2 DEF Candidates
<1>4. i \in Index /\ i + n <= PoolBlockNumber
  BY <1>1, <1>3, PoolAssumption DEF Index, U8
<1>5. ASSUME NEW b \in i .. (i + n - 1)
      PROVE  b \in Index /\ blocks[b] = 0
  <2>1. b - i \in 0 .. (n - 1) /\ i + (b - i) = b
    BY <1>1, <1>3, PoolAssumption DEF U8
  <2>2. blocks[i + (b - i)] = 0
    BY <1>3, <2>1 DEF SpaceFound
  <2>3. QED
    BY <1>1, <1>3, <2>1, <2>2, PoolAssumption DEF Index, U8
<1>6. i \notin held
  BY <1>1, <1>4, <1>5, PoolAssumption DEF IInv, RegionsLabelled, Index, U8
<1>7. blocks_used' = (blocks_used + n) % U8
  BY DEF TakeFirstFit
<1>8. QED
  BY <1>1, <1>2, <1>4, <1>5, <1>6, <1>7

LEMMA TakeKeepsIInv ==
  ASSUME IInv, NEW n, TakeFirstFit(n), asked' \in Requests
  PROVE  IInv'
<1>1. PICK i \in Index :
        /\ n \in 1 .. PoolBlockNumber
        /\ i + n <= PoolBlockNumber
        /\ \A b \in i .. (i + n - 1) : b \in Index /\ blocks[b] = 0
        /\ blocks' = [b \in Index |-> IF b \in i .. (i + n - 1) THEN n ELSE blocks[b]]
        /\ held' = held \cup {i}
        /\ ret' = i
        /\ blocks_used' = (blocks_used + n) % U8
        /\ i \notin held
  BY TakeFacts
<1> DEFINE R == i .. (i + n - 1)
<1> USE PoolAssumption DEF U8
<1>2. /\ i \in Int /\ n \in Int /\ n > 0 /\ i >= 0
      /\ blocks'[i] = n /\ i \in R
  BY <1>1 DEF Index
<1>3. TypeOK'
  <2>1. blocks' \in [Index -> 0 .. PoolBlockNumber]
    BY <1>1 DEF IInv, TypeOK
  <2>2. blocks_used' \in 0 .. (U8 - 1)
    BY <1>1, <1>2 DEF IInv, TypeOK
  <2>3. QED
    BY <1>1, <2>1, <2>2 DEF IInv, TypeOK
<1>4. ASSUME NEW p \in held
      PROVE  /\ p \in Index /\ blocks[p] \in Int
             /\ Region(p) \cap R = {}
             /\ blocks'[p] = blocks[p]
             /\ \A b \in Region(p) : b \in Index /\ blocks'[b] = blocks[b]
  <2>1. p \in Index /\ blocks[p] \in 1 .. PoolBlockNumber /\ p + blocks[p] <= PoolBlockNumber
    BY DEF IInv, TypeOK, RegionsLabelled
  <2>2. \A b \in Region(p) : b \in Index /\ blocks[b] # 0
    BY <2>1 DEF IInv, RegionsLabelled, Region, Index
  <2>3. Region(p) \cap R = {}
    BY <1>1, <2>2
  <2>4. p \in Region(p)
    BY <2>1 DEF Region, Index
  <2>5. QED
    BY <1>1, <2>1, <2>2, <2>3, <2>4
<1>5. \A p \in held : Region(p)' = Region(p)
  BY <1>4 DEF Region
<1>6. Region(i)' = R
  BY <1>2 DEF Region
<1>7. RegionsLabelled'
  <2> SUFFICES ASSUME NEW p \in held'
               PROVE  /\ blocks'[p] > 0
                      /\ p + blocks'[p] <= PoolBlockNumber
                      /\ \A b \in Region(p)' : blocks'[b] = blocks'[p]
    BY DEF RegionsLabelled
  <2>1. CASE p = i
    BY <1>1, <1>2, <1>6, <2>1
  <2>2. CASE p \in held
    BY <1>4, <1>5, <2>2 DEF IInv, RegionsLabelled
  <2>3. QED
    BY <1>1, <2>1, <2>2
<1>8. RegionsDisjoint'
  <2> SUFFICES ASSUME NEW p \in held', NEW q \in held', p # q
               PROVE  Region(p)' \cap Region(q)' = {}
    BY DEF RegionsDisjoint
  <2>1. CASE p \in held /\ q \in held
    BY <1>5, <2>1 DEF IInv, RegionsDisjoint
  <2>2. CASE p = i /\ q \in held
    BY <1>4, <1>5, <1>6, <2>2
  <2>3. CASE p \in held /\ q = i
    BY <1>4, <1>5, <1>6, <2>3
  <2>4. QED
    BY <1>1, <2>1, <2>2, <2>3
<1>9. NoOrphanBlock'
  <2> SUFFICES ASSUME NEW b \in Index, blocks'[b] # 0
               PROVE  \E p \in held' : b \in Region(p)'
    BY DEF NoOrphanBlock
  <2>1. CASE b \in R
    BY <1>1, <1>6, <2>1
  <2>2. CASE b \notin R
    <3>1. blocks[b] # 0
      BY <1>1, <2>2
    <3>2. PICK p \in held : b \in Region(p)
      BY <3>1 DEF IInv, NoOrphanBlock
    <3>3. QED
      BY <1>1, <1>5, <3>2
  <2>3. QED
    BY <2>1, <2>2
<1>10. StatsExact'
  <2>1. UsedBlocks' = UsedBlocks \cup R
    <3>1. \A b \in Index : blocks'[b] # 0 <=> b \in R \/ blocks[b] # 0
      BY <1>1, <1>2
    <3>2. R \subseteq Index
      BY <1>1
    <3>3. QED
      BY <3>1, <3>2 DEF UsedBlocks
  <2>2. UsedBlocks \cap R = {}
    BY <1>1 DEF UsedBlocks
  <2>3. IsFiniteSet(UsedBlocks) /\ Cardinality(UsedBlocks) \in 0 .. PoolBlockNumber
    BY BlockSetBounded DEF UsedBlocks
  <2>4. Cardinality(UsedBlocks') = Cardinality(UsedBlocks) + n
    BY <1>2, <2>1, <2>2, <2>3, CardinalityOfRun
  <2>5. Cardinality(UsedBlocks') \in 0 .. PoolBlockNumber
    BY BlockSetBounded DEF UsedBlocks
  <2>6. QED
    BY <1>1, <1>2, <2>3, <2>4, <2>5 DEF IInv, StatsExact
<1>11. QED
  BY <1>3, <1>7, <1>8, <1>9, <1>10 DEF IInv

LEMMA FreeKeepsIInv ==
  ASSUME IInv, NEW p \in held, pool_free(p)
  PROVE  IInv'
<1> DEFINE n == blocks[p]
           R == p .. (p + n - 1)
<1> USE PoolAssumption DEF U8
<1>1. p \in Index /\ p \in Int /\ n \in 1 .. PoolBlockNumber /\ p + n <= PoolBlockNumber
  BY DEF IInv, TypeOK, RegionsLabelled, Index
<1>2. /\ blocks' = [b \in Index |-> IF b \in R THEN 0 ELSE blocks[b]]
      /\ blocks_used' = (blocks_used - n) % U8
      /\ held' = held \ {p}
      /\ asked' = asked
      /\ ret' = ret
  <2>1. p # Null
    BY <1>1 DEF Index, Null
  <2>2. QED
    BY <2>1 DEF pool_free
<1>3. R \subseteq Index /\ \A b \in R : blocks[b] = n
  BY <1>1 DEF IInv, RegionsLabelled, Region, Index
<1>4. ASSUME NEW q \in held'
      PROVE  /\ q \in held /\ q # p /\ q \in Index /\ blocks[q] \in 1 .. PoolBlockNumber
             /\ Region(q) \cap R = {}
             /\ blocks'[q] = blocks[q]
             /\ \A b \in Region(q) : b \in Index /\ blocks'[b] = blocks[b]
  <2>1. q \in held /\ q # p
    BY <1>2
  <2>2. q \in Index /\ blocks[q] \in 1 .. PoolBlockNumber /\ q + blocks[q] <= PoolBlockNumber
    BY <2>1 DEF IInv, TypeOK, RegionsLabelled
  <2>3. Region(q) \cap R = {}
    BY <2>1 DEF IInv, RegionsDisjoint, Region
  <2>4. \A b \in Region(q) : b \in Index
    BY <2>2 DEF Region, Index
  <2>5. q \in Region(q)
    BY <2>2 DEF Region, Index
  <2>6. QED
    BY <1>2, <2>1, <2>2, <2>3, <2>4, <2>5
<1>5. \A q \in held' : Region(q)' = Region(q)
  BY <1>4 DEF Region
<1>6. TypeOK'
  <2>1. blocks' \in [Index -> 0 .. PoolBlockNumber]
    BY <1>2 DEF IInv, TypeOK
  <2>2. blocks_used' \in 0 .. (U8 - 1)
    <3>1. blocks_used \in Int /\ blocks_used - n \in Int
      BY <1>1 DEF IInv, TypeOK
    <3>2. QED
      BY <1>2, <3>1, Wrap8
  <2>3. QED
    BY <1>2, <2>1, <2>2 DEF IInv, TypeOK
<1>7. RegionsLabelled'
  BY <1>4, <1>5 DEF IInv, RegionsLabelled
<1>8. RegionsDisjoint'
  BY <1>4, <1>5 DEF IInv, RegionsDisjoint
<1>9. NoOrphanBlock'
  <2> SUFFICES ASSUME NEW b \in Index, blocks'[b] # 0
               PROVE  \E q \in held' : b \in Region(q)'
    BY DEF NoOrphanBlock
  <2>1. b \notin R /\ blocks[b] # 0
    BY <1>2
  <2>2. PICK q \in held : b \in Region(q)
    BY <2>1 DEF IInv, NoOrphanBlock
  <2>3. q # p
    BY <2>1, <2>2 DEF Region
  <2>4. QED
    BY <1>2, <1>5, <2>2, <2>3
<1>10. StatsExact'
  <2>1. UsedBlocks = UsedBlocks' \cup R /\ UsedBlocks' \cap R = {}
    <3>1. \A b \in Index : blocks'[b] # 0 <=> b \notin R /\ blocks[b] # 0
      BY <1>2
    <3>2. \A b \in R : b \in Index /\ blocks[b] # 0
      BY <1>1, <1>3
    <3>3. QED
      BY <3>1, <3>2 DEF UsedBlocks
  <2>2. IsFiniteSet(UsedBlocks') /\ Cardinality(UsedBlocks') \in 0 .. PoolBlockNumber
    BY BlockSetBounded DEF UsedBlocks
  <2>3. Cardinality(UsedBlocks) = Cardinality(UsedBlocks') + n
    <3>1. n \in Nat \ {0}
      BY <1>1
    <3> HIDE DEF n
    <3>2. Cardinality(UsedBlocks' \cup (p .. (p + n - 1))) = Cardinality(UsedBlocks') + n
      BY <1>1, <2>1, <2>2, <3>1, CardinalityOfRun
    <3>3. QED
      BY <2>1, <3>2
  <2>4. blocks_used = Cardinality(UsedBlocks)
    BY DEF IInv, StatsExact
  <2>5. blocks_used' = Cardinality(UsedBlocks')
    <3>1. blocks_used - n = Cardinality(UsedBlocks')
      BY <1>1, <2>2, <2>3, <2>4
    <3>2. Cardinality(UsedBlocks') \in 0 .. (U8 - 1)
      BY <2>2
    <3>3. QED
      BY <1>2, <3>1, <3>2, Wrap8
  <2>6. QED
    BY <2>5 DEF StatsExact
<1>11. QED
  BY <1>6, <1>7, <1>8, <1>9, <1>10 DEF IInv

LEMMA UnchangedKeepsIInv ==
  ASSUME IInv, blocks' = blocks, blocks_used' = blocks_used, held' = held,
         asked' \in Requests \cup {Null}, ret' \in Index \cup {Null}
  PROVE  IInv'
BY DEF IInv, TypeOK, RegionsLabelled, RegionsDisjoint, NoOrphanBlock, StatsExact,
       Region, UsedBlocks

LEMMA StepIInv == IInv /\ [Next]_vars => IInv'
<1> SUFFICES ASSUME IInv, [Next]_vars PROVE IInv'
  OBVIOUS
<1>0. asked \in Requests \cup {Null} /\ ret \in Index \cup {Null}
  BY DEF IInv, TypeOK
<1>1. ASSUME NEW bytes \in Requests, pool_alloc_bytes(bytes)
      PROVE  IInv'
  <2>1. CASE TakeFirstFit(BlocksNeeded(bytes))
    BY <1>1, <2>1, TakeKeepsIInv DEF pool_alloc_bytes
  <2>2. CASE ReturnNull(BlocksNeeded(bytes))
    BY <1>1, <2>2, UnchangedKeepsIInv DEF ReturnNull, pool_alloc_bytes
  <2>3. QED
    BY <1>1, <2>1, <2>2 DEF pool_alloc_bytes, pool_alloc_blocks
<1>2. ASSUME NEW p \in held \cup {Null}, pool_free(p)
      PROVE  IInv'
  <2>1. CASE p = Null
    BY <1>0, <1>2, <2>1, UnchangedKeepsIInv DEF pool_free, vars
  <2>2. CASE p \in held
    BY <1>2, <2>2, FreeKeepsIInv
  <2>3. QED
    BY <2>1, <2>2
<1>3. CASE UNCHANGED vars
  BY <1>0, <1>3, UnchangedKeepsIInv DEF vars
<1>4. QED
  BY <1>1, <1>2, <1>3 DEF Next

-----------------------------------------------------------------------------
(* Whatever is allocated and freed in whatever order, live buffers stay    *)
(* inside the pool, disjoint and labelled, no block is lost, and the 8-bit *)
(* counter equals the number of used blocks (alloc.c).                     *)
THEOREM PoolCorrect == Spec => []IInv
<1>1. pool_init => IInv
  BY InitIInv
<1>2. IInv /\ [Next]_vars => IInv'
  BY StepIInv
<1>3. QED
  BY <1>1, <1>2, PTL DEF Spec

(* The type invariant of the pool.                                         *)
THEOREM TypeCorrect == Spec => []TypeOK
<1>1. IInv => TypeOK
  BY DEF IInv
<1>2. QED
  BY <1>1, PoolCorrect, PTL

(* Two live buffers never share a block.                                   *)
THEOREM DisjointBuffers == Spec => []RegionsDisjoint
<1>1. IInv => RegionsDisjoint
  BY DEF IInv
<1>2. QED
  BY <1>1, PoolCorrect, PTL

(* The counter never drifts from the status bytes.                         *)
THEOREM CounterExact == Spec => []StatsExact
<1>1. IInv => StatsExact
  BY DEF IInv
<1>2. QED
  BY <1>1, PoolCorrect, PTL

-----------------------------------------------------------------------------
(* Two facts of arithmetic, stated for the provers' sake.                  *)
LEMMA DivBounds ==
  ASSUME NEW a \in Nat, NEW d \in Nat \ {0}
  PROVE  /\ a \div d \in Nat
         /\ (a \div d) * d <= a
         /\ a < (a \div d) * d + d
OBVIOUS

LEMMA TimesMonotone ==
  ASSUME NEW x \in Int, NEW y \in Int, x <= y, NEW d \in Nat \ {0}
  PROVE  x * d <= y * d
OBVIOUS

(* DIV_ROUND_UP gives the one length that covers the bytes with no block   *)
(* to spare, and the narrowing to uint8_t cuts no request of the callers.  *)
LEMMA NeededCovers ==
  ASSUME NEW bytes \in Requests
  PROVE  /\ BlocksNeeded(bytes) \in 0 .. (U8 - 1)
         /\ \A len \in Nat \ {0} :
              Abstract!Covers(len, bytes) <=> len = BlocksNeeded(bytes)
<1> DEFINE d == BlockSize
           a == bytes + d - 1
           q == a \div d
<1>1. d \in Nat \ {0} /\ bytes \in Nat /\ bytes <= 255 * d
  BY PoolAssumption DEF U8
<1>2. a \in Nat
  BY <1>1
<1>3. q \in Nat /\ q * d <= a /\ a < q * d + d
  BY <1>1, <1>2, DivBounds
<1>4. q < 256
  <2>1. SUFFICES ASSUME 256 <= q PROVE FALSE
    BY <1>3
  <2>2. 256 * d <= q * d
    BY <1>1, <1>3, <2>1, TimesMonotone
  <2>3. QED
    BY <1>1, <1>3, <2>2
<1>5. BlocksNeeded(bytes) = q
  BY <1>3, <1>4 DEF BlocksNeeded, U8
<1> HIDE DEF q
<1>6. q * d >= bytes /\ (q - 1) * d < bytes
  <2>1. (q - 1) * d = q * d - d
    BY <1>1, <1>3
  <2>2. q * d \in Int
    BY <1>1, <1>3
  <2>3. QED
    BY <1>1, <1>3, <2>1, <2>2
<1>7. ASSUME NEW len \in Nat \ {0}, Abstract!Covers(len, bytes)
      PROVE  len = q
  <2>1. len * d >= bytes /\ (len - 1) * d < bytes
    BY <1>7 DEF Abstract!Covers
  <2>2. ~(len < q)
    <3>1. SUFFICES ASSUME len <= q - 1 PROVE FALSE
      BY <1>3
    <3>2. len * d <= (q - 1) * d
      BY <1>1, <1>3, <3>1, TimesMonotone
    <3>3. len * d \in Int /\ (q - 1) * d \in Int
      BY <1>1, <1>3
    <3>4. QED
      BY <1>1, <1>6, <2>1, <3>2, <3>3
  <2>3. ~(len > q)
    <3>1. SUFFICES ASSUME q <= len - 1 PROVE FALSE
      BY <1>3
    <3>2. q * d <= (len - 1) * d
      BY <1>1, <1>3, <3>1, TimesMonotone
    <3>3. q * d \in Int /\ (len - 1) * d \in Int
      BY <1>1, <1>3
    <3>4. QED
      BY <1>1, <1>6, <2>1, <3>2, <3>3
  <2>4. QED
    BY <1>3, <2>2, <2>3
<1>8. QED
  BY <1>3, <1>4, <1>5, <1>6, <1>7 DEF Abstract!Covers, U8

(* Free blocks are what Pool calls a gap.                                  *)
LEMMA GapIsFree ==
  ASSUME IInv, NEW i \in Index, NEW n \in 1 .. PoolBlockNumber
  PROVE  Abstract!Gap(i, n) <=> i \in Candidates(n)
<1> USE PoolAssumption DEF U8
<1>1. \A p \in held : p \in Index /\ blocks[p] \in 1 .. PoolBlockNumber
  BY DEF IInv, TypeOK, RegionsLabelled
<1>2. ASSUME Abstract!Gap(i, n)
      PROVE  i \in Candidates(n)
  <2>1. i + n <= PoolBlockNumber /\ \A q \in held : q + blocks[q] <= i \/ i + n <= q
    BY <1>2 DEF Abstract!Gap
  <2>2. ASSUME NEW j \in 0 .. (n - 1)
        PROVE  blocks[i + j] = 0
    <3>1. i + j \in Index
      BY <2>1 DEF Index
    <3>2. SUFFICES ASSUME blocks[i + j] # 0 PROVE FALSE
      OBVIOUS
    <3>3. PICK p \in held : i + j \in Region(p)
      BY <3>1, <3>2 DEF IInv, NoOrphanBlock
    <3>4. QED
      BY <1>1, <2>1, <3>3 DEF Region, Index
  <2>3. QED
    BY <2>1, <2>2 DEF Candidates, SpaceFound, Index
<1>3. ASSUME i \in Candidates(n)
      PROVE  Abstract!Gap(i, n)
  <2>1. i + n <= PoolBlockNumber /\ \A j \in 0 .. (n - 1) : blocks[i + j] = 0
    BY <1>3 DEF Candidates, SpaceFound, Index
  <2>2. ASSUME NEW q \in held, ~(q + blocks[q] <= i), ~(i + n <= q)
        PROVE  FALSE
    <3>1. \A b \in Region(q) : blocks[b] # 0
      BY <1>1 DEF IInv, RegionsLabelled
    <3>2. \E j \in 0 .. (n - 1) : i + j \in Region(q)
      <4>1. CASE q <= i
        <5>1. 0 \in 0 .. (n - 1) /\ i + 0 \in Region(q)
          BY <1>1, <2>2, <4>1 DEF Region, Index
        <5>2. QED
          BY <5>1
      <4>2. CASE q > i
        <5>1. q - i \in 0 .. (n - 1) /\ i + (q - i) \in Region(q)
          BY <1>1, <2>2, <4>2 DEF Region, Index
        <5>2. QED
          BY <5>1
      <4>3. QED
        BY <1>1, <4>1, <4>2 DEF Index
    <3>3. QED
      BY <2>1, <3>1, <3>2
  <2>3. QED
    BY <2>1, <2>2 DEF Abstract!Gap
<1>4. QED
  BY <1>2, <1>3

LEMMA AllocRefines ==
  ASSUME IInv, NEW bytes \in Requests, TakeFirstFit(BlocksNeeded(bytes)),
         asked' = bytes
  PROVE  Abstract!Allocate(bytes)
<1> DEFINE n == BlocksNeeded(bytes)
           M == [p \in held |-> blocks[p]]
<1>1. PICK i \in Index :
        /\ n \in 1 .. PoolBlockNumber
        /\ i + n <= PoolBlockNumber
        /\ \A b \in i .. (i + n - 1) : b \in Index /\ blocks[b] = 0
        /\ blocks' = [b \in Index |-> IF b \in i .. (i + n - 1) THEN n ELSE blocks[b]]
        /\ held' = held \cup {i}
        /\ ret' = i
        /\ blocks_used' = (blocks_used + n) % U8
        /\ i \notin held
  BY TakeFacts
<1>2. Abstract!Covers(n, bytes)
  BY <1>1, NeededCovers
<1> HIDE DEF n
<1>3. i \in Candidates(n)
  <2>1. \A j \in 0 .. (n - 1) : i + j \in i .. (i + n - 1)
    BY <1>1 DEF Index
  <2>2. QED
    BY <1>1, <2>1, PoolAssumption DEF Candidates, SpaceFound, Index, U8
<1>4. Abstract!Gap(i, n)
  BY <1>1, <1>3, GapIsFree
<1>5. ASSUME NEW q \in held
      PROVE  q \in Index /\ blocks'[q] = blocks[q]
  <2>1. q \in Index /\ blocks[q] # 0
    BY DEF IInv, TypeOK, RegionsLabelled
  <2>2. QED
    BY <1>1, <2>1
<1>6. blocks'[i] = n
  BY <1>1 DEF Index
<1>7. M' = [q \in held \cup {i} |-> IF q = i THEN n ELSE M[q]]
  BY <1>1, <1>5, <1>6
<1>8. DOMAIN M = held
  OBVIOUS
<1>9. QED
  BY <1>1, <1>2, <1>4, <1>7, <1>8 DEF Abstract!Allocate, Abstract!Starts, Index

LEMMA RefusalRefines ==
  ASSUME IInv, NEW bytes \in Requests, ReturnNull(BlocksNeeded(bytes)),
         asked' = bytes
  PROVE  Abstract!Refuse(bytes)
<1> DEFINE n == BlocksNeeded(bytes)
<1>1. n \notin 1 .. PoolBlockNumber \/ Candidates(n) = {}
  BY DEF ReturnNull
<1>2. \A len \in 1 .. PoolBlockNumber : Abstract!Covers(len, bytes) => len = n
  BY NeededCovers
<1> HIDE DEF n
<1>3. ASSUME NEW p \in Abstract!Starts, NEW len \in 1 .. PoolBlockNumber,
             Abstract!Covers(len, bytes)
      PROVE  ~Abstract!Gap(p, len)
  <2>1. len = n /\ Candidates(len) = {}
    BY <1>1, <1>2, <1>3
  <2>2. QED
    BY <2>1, GapIsFree DEF Abstract!Starts, Index
<1>4. QED
  BY <1>3 DEF ReturnNull, Abstract!Refuse, Abstract!Null, Null

LEMMA FreeRefines ==
  ASSUME IInv, NEW p \in held, pool_free(p)
  PROVE  Abstract!Release(p)
<1> DEFINE M == [q \in held |-> blocks[q]]
<1>1. p \in Index /\ p # Null
  BY DEF IInv, TypeOK, Index, Null
<1>2. /\ blocks' = [b \in Index |-> IF b \in Region(p) THEN 0 ELSE blocks[b]]
      /\ held' = held \ {p}
      /\ asked' = asked
      /\ ret' = ret
  BY <1>1 DEF pool_free, Region
<1>3. ASSUME NEW q \in held', q # p
      PROVE  blocks'[q] = blocks[q]
  <2>1. q \in held /\ q \in Index /\ q \in Region(q)
    BY <1>2 DEF IInv, TypeOK, RegionsLabelled, Region, Index
  <2>2. q \notin Region(p)
    BY <1>3, <2>1 DEF IInv, RegionsDisjoint
  <2>3. QED
    BY <1>2, <2>1, <2>2
<1>4. M' = [q \in held \ {p} |-> M[q]]
  BY <1>2, <1>3
<1>5. QED
  BY <1>2, <1>4 DEF Abstract!Release

(* alloc.c implements the pool of its callers: every call either hands out *)
(* a region of exactly the blocks the request needs in a gap, refuses      *)
(* because there is no gap, or gives back one whole region.                *)
THEOREM PoolRefinement == Spec => ImplementsPool
<1>1. pool_init => Abstract!PoolInit
  BY DEF pool_init, Abstract!PoolInit, Abstract!Null, Null
<1>2. ASSUME IInv, [Next]_vars
      PROVE  [Abstract!PoolNext]_(Abstract!poolVars)
  <2>1. ASSUME NEW bytes \in Requests, pool_alloc_bytes(bytes)
        PROVE  Abstract!PoolNext
    <3>1. CASE TakeFirstFit(BlocksNeeded(bytes))
      BY <1>2, <2>1, <3>1, AllocRefines DEF Abstract!PoolNext, pool_alloc_bytes
    <3>2. CASE ReturnNull(BlocksNeeded(bytes))
      BY <1>2, <2>1, <3>2, RefusalRefines DEF Abstract!PoolNext, pool_alloc_bytes
    <3>3. QED
      BY <2>1, <3>1, <3>2 DEF pool_alloc_bytes, pool_alloc_blocks
  <2>2. ASSUME NEW p \in held, pool_free(p)
        PROVE  Abstract!PoolNext
    <3>1. Abstract!Release(p) /\ p \in Abstract!Starts
      BY <1>2, <2>2, FreeRefines DEF IInv, TypeOK, Index, Abstract!Starts
    <3>2. QED
      BY <3>1 DEF Abstract!PoolNext
  <2>3. CASE UNCHANGED vars
    BY <2>3 DEF vars, Abstract!poolVars
  <2>4. ASSUME pool_free(Null)
        PROVE  UNCHANGED vars
    BY <2>4 DEF pool_free
  <2>5. QED
    BY <1>2, <2>1, <2>2, <2>3, <2>4 DEF Next
<1>3. Spec => []IInv
  BY PoolCorrect
<1>4. QED
  BY <1>1, <1>2, <1>3, PTL DEF Spec, ImplementsPool, Abstract!PoolSpec

(* What the invariant says of one live buffer.                             *)
LEMMA LiveRegion ==
  ASSUME IInv, NEW p \in held
  PROVE  /\ p \in Index /\ blocks[p] \in 1 .. PoolBlockNumber
         /\ \A b \in Region(p) : b \in Index /\ blocks[b] # 0
<1>1. p \in Index /\ blocks[p] \in 1 .. PoolBlockNumber /\ p + blocks[p] <= PoolBlockNumber
  BY DEF IInv, TypeOK, RegionsLabelled
<1>2. \A b \in Region(p) : b \in Index
  BY <1>1, PoolAssumption DEF Region, Index, U8
<1>3. \A b \in Region(p) : blocks[b] = blocks[p]
  BY DEF IInv, RegionsLabelled
<1>4. QED
  BY <1>1, <1>2, <1>3

(* No call changes the status bytes of a buffer that stays live across it: *)
(* a client never loses blocks to another client's allocation or free.     *)
THEOREM LiveBuffersKept == Spec => OthersUntouched
<1> DEFINE Kept == \A p \in held \cap held' : \A b \in Region(p) : blocks'[b] = blocks[b]
<1>1. ASSUME IInv, [Next]_vars
      PROVE  [Kept]_vars
  <2>1. ASSUME NEW bytes \in Requests, pool_alloc_bytes(bytes)
        PROVE  Kept
    <3>1. CASE TakeFirstFit(BlocksNeeded(bytes))
      <4>1. PICK n \in Nat, i \in Index :
              /\ \A b \in i .. (i + n - 1) : blocks[b] = 0
              /\ blocks' = [b \in Index |-> IF b \in i .. (i + n - 1) THEN n ELSE blocks[b]]
        BY <1>1, <3>1, TakeFacts
      <4>2. \A p \in held : \A b \in Region(p) : b \in Index /\ blocks[b] # 0
        BY <1>1, LiveRegion
      <4>3. QED
        BY <4>1, <4>2
    <3>2. CASE ReturnNull(BlocksNeeded(bytes))
      BY <3>2 DEF ReturnNull
    <3>3. QED
      BY <2>1, <3>1, <3>2 DEF pool_alloc_bytes, pool_alloc_blocks
  <2>2. ASSUME NEW p \in held, pool_free(p)
        PROVE  Kept
    <3>1. p # Null
      BY <1>1 DEF IInv, TypeOK, Index, Null
    <3>2. /\ held' = held \ {p}
          /\ blocks' = [b \in Index |-> IF b \in Region(p) THEN 0 ELSE blocks[b]]
      BY <2>2, <3>1 DEF pool_free, Region
    <3>3. ASSUME NEW q \in held', NEW b \in Region(q)
          PROVE  b \in Index /\ b \notin Region(p)
      <4>1. q \in held /\ q # p
        BY <3>2, <3>3
      <4>2. Region(q) \cap Region(p) = {}
        BY <1>1, <4>1 DEF IInv, RegionsDisjoint
      <4>3. QED
        BY <1>1, <3>3, <4>1, <4>2, LiveRegion
    <3>4. QED
      BY <3>2, <3>3
  <2>3. CASE UNCHANGED vars
    BY <2>3
  <2>4. ASSUME pool_free(Null)
        PROVE  UNCHANGED vars
    BY <2>4 DEF pool_free
  <2>5. QED
    BY <1>1, <2>1, <2>2, <2>3, <2>4 DEF Next
<1>2. Spec => []IInv
  BY PoolCorrect
<1>3. QED
  BY <1>1, <1>2, PTL DEF Spec, OthersUntouched
-----------------------------------------------------------------------------
(* What a caller of the pool may rely on, in one place per call.  An       *)
(* allocation returns NULL and leaves the pool alone, or a pointer that    *)
(* was not live, to at least the bytes asked for.                          *)
LEMMA AllocFacts ==
  ASSUME IInv, NEW bytes \in Requests, pool_alloc_bytes(bytes)
  PROVE  /\ IInv'
         /\ \/ ret' = Null /\ held' = held /\ blocks' = blocks
            \/ /\ ret' \in Index \ held
               /\ held' = held \cup {ret'}
               /\ \A p \in held : blocks'[p] = blocks[p]
               /\ blocks'[ret'] * BlockSize >= bytes
<1> DEFINE n == BlocksNeeded(bytes)
<1>1. IInv'
  <2>1. pool_alloc_bytes(bytes) => [Next]_vars
    BY DEF Next
  <2>2. QED
    BY <2>1, StepIInv
<1>2. CASE ReturnNull(n)
  BY <1>1, <1>2 DEF ReturnNull
<1>3. CASE TakeFirstFit(n)
  <2>1. PICK i \in Index :
          /\ n \in 1 .. PoolBlockNumber
          /\ i + n <= PoolBlockNumber
          /\ \A b \in i .. (i + n - 1) : b \in Index /\ blocks[b] = 0
          /\ blocks' = [b \in Index |-> IF b \in i .. (i + n - 1) THEN n ELSE blocks[b]]
          /\ held' = held \cup {i}
          /\ ret' = i
          /\ i \notin held
    BY <1>3, TakeFacts
  <2>2. n * BlockSize >= bytes
    <3> DEFINE a == bytes + BlockSize - 1
               q == a \div BlockSize
    <3>1. n = q % 256
      BY DEF BlocksNeeded, U8
    <3>2. bytes \in Nat /\ bytes <= 255 * BlockSize /\ BlockSize \in Nat \ {0}
      BY PoolAssumption DEF U8
    <3>3. q \in Nat /\ q * BlockSize <= a /\ a < q * BlockSize + BlockSize
      BY <3>2, DivBounds
    <3>4. q < 256
      <4>1. SUFFICES ASSUME 256 <= q PROVE FALSE
        BY <3>3
      <4>2. 256 * BlockSize <= q * BlockSize
        BY <3>2, <3>3, <4>1, TimesMonotone
      <4>3. QED
        BY <3>2, <3>3, <4>2
    <3>5. n = q
      BY <3>1, <3>3, <3>4
    <3> HIDE DEF n, q
    <3>6. q * BlockSize \in Int
      BY <3>2, <3>3
    <3>7. QED
      BY <3>2, <3>3, <3>5, <3>6
  <2>3. ASSUME NEW p \in held
        PROVE  blocks'[p] = blocks[p]
    <3>1. p \in Index /\ blocks[p] # 0
      BY PoolAssumption DEF IInv, TypeOK, RegionsLabelled, Index, U8
    <3>2. QED
      BY <2>1, <3>1
  <2>4. i \in i .. (i + n - 1)
    BY <2>1 DEF Index
  <2>5. blocks'[i] = n
    BY <2>1, <2>4
  <2>6. QED
    BY <1>1, <2>1, <2>2, <2>3, <2>5
<1>4. QED
  BY <1>2, <1>3 DEF pool_alloc_bytes, pool_alloc_blocks

(* A free takes back its own pointer, and only that.                       *)
LEMMA FreeFacts ==
  ASSUME IInv, NEW p \in held \cup {Null}, pool_free(p)
  PROVE  /\ IInv'
         /\ held' = held \ {p}
         /\ \A q \in held' : blocks'[q] = blocks[q]
<1>1. IInv'
  <2>1. pool_free(p) => [Next]_vars
    BY DEF Next
  <2>2. QED
    BY <2>1, StepIInv
<1>2. Null \notin held
  BY DEF IInv, TypeOK, Index, Null
<1>3. CASE p = Null
  BY <1>1, <1>2, <1>3 DEF pool_free, vars
<1>4. CASE p \in held
  <2>1. /\ held' = held \ {p}
        /\ blocks' = [b \in Index |-> IF b \in Region(p) THEN 0 ELSE blocks[b]]
    BY <1>2, <1>4 DEF pool_free, Region
  <2>2. ASSUME NEW q \in held'
        PROVE  q \in Index /\ q \notin Region(p)
    <3>1. q \in held /\ q # p
      BY <2>1, <2>2
    <3>2. Region(q) \cap Region(p) = {}
      BY <1>4, <3>1 DEF IInv, RegionsDisjoint
    <3>3. q \in Index /\ blocks[q] \in 1 .. PoolBlockNumber
      BY <3>1, LiveRegion
    <3>4. q \in Region(q)
      BY <3>3, PoolAssumption DEF Region, Index, U8
    <3>5. QED
      BY <3>2, <3>3, <3>4
  <2>3. QED
    BY <1>1, <2>1, <2>2
<1>5. QED
  BY <1>3, <1>4
=============================================================================
