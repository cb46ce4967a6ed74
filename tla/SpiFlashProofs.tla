---------------------------- MODULE SpiFlashProofs --------------------------
(***************************************************************************)
(* The SPI flash tools for every chip, sector, stride and command line:    *)
(* what "done" and a dump mean on a chip that a killed run left in any     *)
(* state, working or idle.                                                 *)
(***************************************************************************)
EXTENDS SpiFlash, TLAPS

-----------------------------------------------------------------------------
Commands == [op : {"none", "erase", "page"}, page : Int, data : Int]

TypeOK ==
  /\ cells \in [0 .. (ChipPages - 1) -> Int]
  /\ busy \in Commands /\ wel \in BOOLEAN
  /\ job \in Jobs
  /\ page \in Nat /\ start \in Nat
  /\ buf \in Seq(Int)

(* A dump that reads, or has read, from a chip that works on nothing.      *)
Dumping == {"id", "read", "dumped"}
Quiet == job.present /\ (clean = "idle" \/ (clean = "busy" /\ job.tool = "nor_dump"))

DumpSoFar ==
  /\ at \in Dumping /\ clean = "idle" => busy = Ready
  /\ at = "id" => page = 0 /\ start = job.start /\ buf = <<>>
  /\ at \in {"read", "dumped"} /\ Quiet =>
       /\ busy = Ready
       /\ page = Len(buf) /\ start = job.start + page
       /\ \A k \in 1 .. Len(buf) : buf[k] = cells[(job.start + k - 1) % ChipPages]
       /\ at = "dumped" => page = job.pages

-----------------------------------------------------------------------------
(* The steps of a program run, and what it has done to the chip.           *)
Programming == {"file", "wren", "rdsr", "erase", "page", "wait", "check"}

(* The runs that "Done" is claimed of.                                     *)
Sound == clean # "failed" /\ job.start = 0 /\ job.erase /\ Fits /\ job.present

EraseAt(s) == [op |-> "erase", page |-> s, data |-> 0]
PageAt(p) == [op |-> "page", page |-> p, data |-> p]

(* The pages of c below p hold the file, those from p up to s are erased.  *)
Written(c, p, s) ==
  /\ \A q \in 0 .. (p - 1) : q < ChipPages /\ c[q] = q
  /\ \A q \in p .. (s - 1) : q < ChipPages /\ c[q] = Erased

(* The pages that fit before sector n is erased, and where it begins.      *)
Lim(n) == n * Stride
Top(n) == n * SectorPages

(* n sectors are erased and page pages written, or a step of that is under *)
(* way: the erased sectors run ahead, one every Stride pages.              *)
Filing(n) ==
  at = "file" /\ Lim(n) < page + Stride /\ page <= Lim(n) /\ Written(cells, page, start)

Erasing(n) ==
  /\ at # "file" /\ op = "erase" /\ page = Lim(n) /\ page < job.pages
  /\ Written(cells, page, IF at \in {"wait", "check"} /\ busy = Ready THEN start + SectorPages ELSE start)
  /\ at = "wait" => busy \in {Ready, EraseAt(start)}

Paging(n) ==
  /\ at # "file" /\ op = "page" /\ Lim(n) <= page + Stride /\ page < Lim(n) /\ page < job.pages
  /\ Written(cells, IF at \in {"wait", "check"} /\ busy = Ready THEN page + 1 ELSE page, start)
  /\ at = "wait" => busy \in {Ready, PageAt(page)}

Progress(n) ==
  page <= job.pages /\ start = Top(n) /\ (Filing(n) \/ Erasing(n) \/ Paging(n))

(* What a step works for, and when the chip is known to be idle.           *)
Steps ==
  /\ at \in Programming \ {"file"} => op \in {"erase", "page"}
  /\ at \in {"erase", "page"} => op = at /\ busy = Ready /\ wel
  /\ at = "check" => busy = Ready

(* A command that a killed run left goes on until the first write enable,  *)
(* which waits for it: nothing of this run is in the chip before.          *)
ProgramSoFar ==
  /\ at \in Programming /\ Sound =>
       /\ \E n \in Nat : Progress(n)
       /\ at \in {"file", "wren", "rdsr"} /\ busy # Ready => page = 0 /\ start = 0
  /\ at = "programmed" /\ Sound =>
       /\ page = job.pages /\ (busy # Ready => page = 0)
       /\ \A q \in 0 .. (page - 1) : cells[q] = q

IInv == TypeOK /\ DumpSoFar /\ Steps /\ ProgramSoFar

-----------------------------------------------------------------------------
(* What a command line says.                                               *)
LEMMA JobType ==
  ASSUME NEW j \in Jobs
  PROVE  j.start \in Nat /\ j.pages \in Nat /\ j.tool \in {"HydraSPI", "nor_dump"}
BY FlashAssumption

(* An address is in the chip once it has wrapped around.                   *)
LEMMA InChip ==
  ASSUME NEW x \in Nat
  PROVE  x % ChipPages \in 0 .. (ChipPages - 1) /\ (x < ChipPages => x % ChipPages = x)
BY FlashAssumption

(* Reading one more page keeps a dump a sequence of pages.                 *)
LEMMA AppendType ==
  ASSUME NEW s \in Seq(Int), NEW e \in Int
  PROVE  Append(s, e) \in Seq(Int)
OBVIOUS

(* Every step keeps the types.                                             *)
LEMMA TypeStep == TypeOK /\ [Next]_vars => TypeOK'
<1> SUFFICES ASSUME TypeOK, [Next]_vars PROVE TypeOK'
  OBVIOUS
<1> USE FlashAssumption DEF TypeOK, Commands, chip
<1>1. CASE Start
  BY <1>1, JobType DEF Start
<1>2. CASE ReadFile
  BY <1>2 DEF ReadFile, Enable
<1>3. CASE WREN \/ enable_write \/ Wait \/ get_chip_id \/ Kill
  BY <1>3 DEF WREN, enable_write, Wait, get_chip_id, Kill
<1>4. CASE erase_sector_4k
  <2>1. start % ChipPages \in Int
    BY InChip
  <2>2. QED
    BY <1>4, <2>1 DEF erase_sector_4k, Send
<1>5. CASE write_page
  <2>1. page % ChipPages \in Int
    BY InChip
  <2>2. busy' \in {busy, [op |-> "page", page |-> page % ChipPages, data |-> page]}
    BY <1>5 DEF write_page, Send
  <2>3. UNCHANGED <<cells, wel, job, page, start, buf>>
    BY <1>5 DEF write_page
  <2>4. busy' \in Commands
    BY <2>1, <2>2
  <2>5. QED
    BY <2>3, <2>4
<1>6. CASE check_fail
  BY <1>6 DEF check_fail, Enable
<1>7. CASE dump_flash
  <2>1. start % ChipPages \in 0 .. (ChipPages - 1)
    BY InChip
  <2>2. (IF Accepts THEN cells[start % ChipPages] ELSE Ones) \in Int
    BY <2>1 DEF Ones
  <2>3. page' \in Nat /\ start' \in Nat
    BY <1>7 DEF dump_flash
  <2>4. buf' \in Seq(Int)
    <3>1. \/ buf' = buf
          \/ buf' = Append(buf, IF Accepts THEN cells[start % ChipPages] ELSE Ones)
      BY <1>7 DEF dump_flash
    <3>2. QED
      BY <2>2, <3>1, AppendType
  <2>5. UNCHANGED <<cells, busy, wel, job>>
    BY <1>7 DEF dump_flash
  <2>6. QED
    BY <2>3, <2>4, <2>5
<1>8. CASE Complete
  <2>1. busy' = Ready /\ wel' = FALSE /\ UNCHANGED <<job, page, start, buf>>
    BY <1>8 DEF Complete
  <2>2. Ready \in Commands
    BY DEF Ready
  <2>3. cells' \in [0 .. (ChipPages - 1) -> Int]
    <3>1. \A q \in 0 .. (ChipPages - 1) : Result(q, busy) \in Int
      BY DEF Result, Erased, Torn
    <3>2. Torn \in Int
      BY DEF Torn
    <3>3. QED
      BY <1>8, <3>1, <3>2 DEF Complete
  <2>4. QED
    BY <2>1, <2>2, <2>3
<1>9. CASE UNCHANGED vars
  BY <1>9 DEF vars
<1>10. QED
  BY <1>1, <1>2, <1>3, <1>4, <1>5, <1>6, <1>7, <1>8, <1>9 DEF Next, Host

(* Nothing but the dump's own step touches what it has read, and no work   *)
(* of the chip can end under it.                                           *)
LEMMA DumpStep ==
  ASSUME TypeOK, DumpSoFar, Steps, [Next]_vars
  PROVE  DumpSoFar'
<1> USE DEF Dumping
<1>1. CASE Start
  <2>1. PICK j \in Jobs :
          /\ j.present = job.present /\ job' = j /\ start' = j.start
          /\ at' = IF j.action = "dump" THEN IF j.tool = "nor_dump" THEN "id" ELSE "read"
                   ELSE IF j.start % 2 = 0 THEN "file" ELSE "failed"
    BY <1>1 DEF Start
  <2>2. /\ page' = 0 /\ buf' = <<>> /\ busy' = busy
        /\ clean' = IF busy = Ready THEN "idle" ELSE "busy"
    BY <1>1 DEF Start, chip
  <2>3. at' \in {"id", "read", "file", "failed"} /\ (at' = "read" => j.tool # "nor_dump")
    BY <2>1
  <2>4. j.start \in Nat
    BY JobType
  <2>5. Ready' = Ready
    BY DEF Ready
  <2>6. at' = "read" /\ Quiet' => busy' = Ready
    BY <2>1, <2>2, <2>3 DEF Quiet
  <2>7. QED
    BY <2>1, <2>2, <2>3, <2>4, <2>5, <2>6 DEF DumpSoFar
<1>2. CASE ReadFile \/ WREN \/ enable_write \/ erase_sector_4k \/ write_page \/ Wait \/ check_fail \/ Kill
  <2>1. at' \notin Dumping
    <3>1. CASE enable_write
      BY <3>1 DEF enable_write, Programming, Steps
    <3>2. CASE ReadFile \/ WREN
      BY <3>2 DEF ReadFile, WREN, Enable
    <3>3. CASE erase_sector_4k \/ write_page \/ Wait
      BY <3>3 DEF erase_sector_4k, write_page, Wait
    <3>4. CASE check_fail \/ Kill
      BY <3>4 DEF check_fail, Kill, Enable
    <3>5. QED
      BY <1>2, <3>1, <3>2, <3>3, <3>4
  <2>2. QED
    BY <2>1 DEF DumpSoFar
<1>3. CASE get_chip_id
  BY <1>3 DEF get_chip_id, Accepts, chip, DumpSoFar, Quiet, TypeOK, Ready
<1>4. CASE dump_flash
  <2>1. /\ at = "read" /\ UNCHANGED <<cells, busy, job, clean>>
    BY <1>4 DEF dump_flash, chip
  <2>2. Quiet' <=> Quiet
    BY <2>1 DEF Quiet
  <2>3. at' \in {"read", "dumped", "failed"} /\ Ready' = Ready
    BY <1>4 DEF dump_flash, Ready
  <2>4. clean = "idle" => busy' = Ready
    BY <2>1 DEF DumpSoFar
  <2>5. ASSUME Quiet, at' # "failed"
        PROVE  /\ page' = Len(buf') /\ start' = job.start + page'
               /\ \A k \in 1 .. Len(buf') : buf'[k] = cells[(job.start + k - 1) % ChipPages]
               /\ at' = "dumped" => page' = job.pages
    <3>1. /\ busy = Ready /\ page = Len(buf) /\ start = job.start + page
          /\ \A k \in 1 .. Len(buf) : buf[k] = cells[(job.start + k - 1) % ChipPages]
      BY <2>1, <2>5 DEF DumpSoFar
    <3>2. job.start \in Nat
      BY JobType DEF TypeOK
    <3>3. CASE page = job.pages
      BY <1>4, <3>1, <3>3 DEF dump_flash
    <3>4. CASE page # job.pages
      <4>1. Accepts
        BY <2>5, <3>1 DEF Accepts, Quiet
      <4>2. DEFINE c == cells[start % ChipPages]
      <4>3. buf' = Append(buf, c) /\ page' = page + 1 /\ start' = start + 1 /\ at' = "read"
        BY <1>4, <2>5, <3>4, <4>1 DEF dump_flash
      <4>4. c \in Int
        BY InChip DEF TypeOK
      <4>5. c = cells[(job.start + page + 1 - 1) % ChipPages]
        <5>1. start = job.start + page + 1 - 1
          BY <3>1, <3>2 DEF TypeOK
        <5>2. QED
          BY <5>1
      <4> HIDE DEF c
      <4>6. /\ Len(buf') = page + 1 /\ buf'[page + 1] = c
            /\ \A k \in 1 .. page : buf'[k] = buf[k]
        BY <3>1, <4>3, <4>4 DEF TypeOK
      <4>7. ASSUME NEW k \in 1 .. Len(buf')
            PROVE  buf'[k] = cells[(job.start + k - 1) % ChipPages]
        <5>1. k = page + 1 \/ k \in 1 .. page
          BY <4>6, <4>7 DEF TypeOK
        <5>2. CASE k = page + 1
          <6>1. job.start + k - 1 = job.start + page + 1 - 1
            BY <3>2, <5>2 DEF TypeOK
          <6>2. QED
            BY <4>5, <4>6, <5>2, <6>1
        <5>3. CASE k \in 1 .. page
          BY <3>1, <4>6, <5>3
        <5>4. QED
          BY <5>1, <5>2, <5>3
      <4>8. page' = Len(buf')
        BY <4>3, <4>6
      <4>9. start' = job.start + page'
        <5>1. page \in Nat /\ start = job.start + page
          BY <3>1 DEF TypeOK
        <5>2. start' = start + 1 /\ page' = page + 1
          BY <4>3
        <5>3. QED
          BY <3>2, <5>1, <5>2
      <4>10. QED
        BY <4>3, <4>7, <4>8, <4>9
    <3>5. QED
      BY <3>3, <3>4
  <2>6. Quiet => busy' = Ready
    BY <2>1 DEF DumpSoFar
  <2>7. QED
    BY <2>1, <2>2, <2>3, <2>4, <2>5, <2>6 DEF DumpSoFar
<1>5. CASE Complete
  <2>1. /\ busy # Ready /\ busy' = Ready /\ Ready' = Ready
        /\ UNCHANGED <<job, at, page, start, buf>>
        /\ clean' \in {clean, "failed"}
    BY <1>5 DEF Complete, Ready
  <2>2. Quiet' => Quiet
    BY <2>1 DEF Quiet
  <2>3. ~(at \in {"read", "dumped"} /\ Quiet)
    BY <2>1 DEF DumpSoFar
  <2>4. QED
    BY <2>1, <2>2, <2>3 DEF DumpSoFar
<1>6. CASE UNCHANGED vars
  BY <1>6 DEF vars, DumpSoFar, Quiet, Ready
<1>7. QED
  BY <1>1, <1>2, <1>3, <1>4, <1>5, <1>6 DEF Next, Host

-----------------------------------------------------------------------------
(* Sectors and strides.                                                    *)
LEMMA TimesMonotone ==
  ASSUME NEW a \in Nat, NEW b \in Nat, NEW k \in Nat, a <= b
  PROVE  a * k <= b * k
OBVIOUS

(* Strides are shorter than sectors: the erased sectors run ahead.         *)
LEMMA Products ==
  ASSUME NEW n \in Nat
  PROVE  /\ Lim(n) \in Nat /\ Top(n) \in Nat
         /\ Lim(n + 1) = Lim(n) + Stride /\ Top(n + 1) = Top(n) + SectorPages
         /\ Lim(n) <= Top(n) /\ n <= Lim(n)
BY FlashAssumption DEF Lim, Top

(* Only a multiple of the stride starts a sector.                          *)
LEMMA AtStride ==
  ASSUME NEW n \in Nat, NEW p \in Nat, Lim(n) < p + Stride, p <= Lim(n)
  PROVE  p % Stride = 0 <=> p = Lim(n)
<1> DEFINE r == p % Stride
           k == p \div Stride
<1>1. Stride \in Nat \ {0}
  BY FlashAssumption
<1>2. p = k * Stride + r /\ r \in 0 .. (Stride - 1) /\ k \in Nat
  BY <1>1
<1>3. ASSUME r = 0 PROVE p = Lim(n)
  <2>1. p = k * Stride
    BY <1>1, <1>2, <1>3
  <2>2. k * Stride <= n * Stride /\ n * Stride < (k + 1) * Stride
    BY <1>1, <1>2, <2>1 DEF Lim
  <2>3. k <= n
    <3>1. CASE n + 1 <= k
      <4>1. (n + 1) * Stride <= k * Stride
        BY <1>1, <1>2, <3>1, TimesMonotone
      <4>2. QED
        BY <1>1, <1>2, <2>2, <4>1
    <3>2. QED
      BY <1>2, <3>1
  <2>4. n < k + 1
    <3>1. CASE k + 1 <= n
      <4>1. (k + 1) * Stride <= n * Stride
        BY <1>1, <1>2, <3>1, TimesMonotone
      <4>2. QED
        BY <1>1, <1>2, <2>2, <4>1
    <3>2. QED
      BY <1>2, <3>1
  <2>5. QED
    BY <1>2, <2>1, <2>3, <2>4 DEF Lim
<1>4. ASSUME p = Lim(n) PROVE r = 0
  BY <1>1, <1>2, <1>4 DEF Lim
<1>5. QED
  BY <1>3, <1>4

(* A chip that the sectors fit in has room for the one that a page of the  *)
(* file needs.                                                             *)
LEMMA SectorFits ==
  ASSUME NEW n \in Nat, job.pages \in Nat, Fits, Lim(n) < job.pages
  PROVE  Top(n) + SectorPages <= ChipPages
<1>1. Stride \in Nat \ {0} /\ SectorPages \in Nat /\ ChipPages \in Nat
  BY FlashAssumption
<1>2. Sectors \in Nat /\ job.pages + Stride - 1 < (Sectors + 1) * Stride
  <2> DEFINE x == job.pages + Stride - 1
  <2>1. x \in Nat
    BY <1>1
  <2> HIDE DEF x
  <2>2. x \div Stride \in Nat /\ x < (x \div Stride + 1) * Stride
    BY <1>1, <2>1
  <2>3. QED
    BY <2>2 DEF x, Sectors
<1>3. (n + 1) * Stride < (Sectors + 1) * Stride
  BY <1>1, <1>2 DEF Lim
<1>4. n + 1 <= Sectors
  <2>1. CASE Sectors + 1 <= n + 1
    <3>1. (Sectors + 1) * Stride <= (n + 1) * Stride
      BY <1>1, <1>2, <2>1, TimesMonotone
    <3>2. QED
      BY <1>1, <1>2, <1>3, <3>1
  <2>2. QED
    BY <1>2, <2>1
<1>5. (n + 1) * SectorPages <= Sectors * SectorPages
  BY <1>1, <1>2, <1>4, TimesMonotone
<1>6. Top(n + 1) <= Sectors * SectorPages /\ Sectors * SectorPages <= ChipPages
  BY <1>5 DEF Top, Fits
<1>7. Sectors * SectorPages \in Nat
  BY <1>1, <1>2
<1>8. QED
  BY <1>1, <1>6, <1>7, Products

(* What an erase of sector n clears.                                       *)
LEMMA SectorIs ==
  ASSUME NEW n \in Nat, Top(n) + SectorPages <= ChipPages
  PROVE  /\ Top(n) % ChipPages = Top(n)
         /\ Sector(Top(n)) = Top(n) .. (Top(n) + SectorPages - 1)
<1>1. SectorPages \in Nat \ {0} /\ ChipPages \in Nat
  BY FlashAssumption
<1>2. Top(n) \in Nat /\ Top(n) < ChipPages
  BY <1>1, Products
<1>3. ASSUME NEW q \in Nat
      PROVE  q \div SectorPages = n <=> (n * SectorPages <= q /\ q < (n + 1) * SectorPages)
  <2> DEFINE d == q \div SectorPages
  <2>1. d \in Nat /\ d * SectorPages <= q /\ q < (d + 1) * SectorPages
    BY <1>1
  <2> HIDE DEF d
  <2>2. ASSUME n * SectorPages <= q, q < (n + 1) * SectorPages PROVE d = n
    <3>1. CASE d + 1 <= n
      <4>1. (d + 1) * SectorPages <= n * SectorPages
        BY <1>1, <2>1, <3>1, TimesMonotone
      <4>2. QED
        BY <1>1, <2>1, <2>2, <4>1
    <3>2. CASE n + 1 <= d
      <4>1. (n + 1) * SectorPages <= d * SectorPages
        BY <1>1, <2>1, <3>2, TimesMonotone
      <4>2. QED
        BY <1>1, <2>1, <2>2, <4>1
    <3>3. QED
      BY <2>1, <3>1, <3>2
  <2>3. QED
    BY <2>1, <2>2 DEF d
<1>4. Top(n) \div SectorPages = n
  BY <1>1, <1>2, <1>3 DEF Top
<1>5. (n + 1) * SectorPages = Top(n) + SectorPages
  BY <1>1, Products DEF Top
<1>6. \A q \in 0 .. (ChipPages - 1) :
        q \div SectorPages = n <=> (Top(n) <= q /\ q < Top(n) + SectorPages)
  BY <1>1, <1>3, <1>5 DEF Top
<1>7. Sector(Top(n)) = {q \in 0 .. (ChipPages - 1) : Top(n) <= q /\ q < Top(n) + SectorPages}
  BY <1>4, <1>6 DEF Sector
<1>8. QED
  BY <1>1, <1>2, <1>7, InChip

-----------------------------------------------------------------------------
(* A command is sent to a chip that takes it, and is looked at until it is *)
(* over.                                                                   *)
LEMMA StepsStep == TypeOK /\ Steps /\ [Next]_vars => Steps'
<1> SUFFICES ASSUME TypeOK, Steps, [Next]_vars PROVE Steps'
  OBVIOUS
<1>1. Ready' = Ready
  BY DEF Ready
<1> USE <1>1 DEF TypeOK, Steps, Programming, chip
<1>2. CASE Start
  BY <1>2 DEF Start
<1>3. CASE ReadFile \/ check_fail
  BY <1>3 DEF ReadFile, check_fail, Enable
<1>4. CASE WREN \/ enable_write \/ get_chip_id \/ Kill
  BY <1>4 DEF WREN, enable_write, get_chip_id, Kill, Accepts
<1>5. CASE erase_sector_4k \/ write_page \/ Wait \/ dump_flash
  BY <1>5 DEF erase_sector_4k, write_page, Wait, dump_flash
<1>6. CASE Complete
  BY <1>6 DEF Complete
<1>7. CASE UNCHANGED vars
  BY <1>7 DEF vars
<1>8. QED
  BY <1>2, <1>3, <1>4, <1>5, <1>6, <1>7 DEF Next, Host

(* What "Done" is claimed of stays the same within a run, up to a failure. *)
LEMMA SameClaim ==
  ASSUME TypeOK, job' = job, clean' = clean \/ clean' = "failed"
  PROVE  Sound' => Sound
BY DEF Sound, Fits, Sectors

(* A run that starts has erased and written nothing.                       *)
LEMMA StartProgress ==
  ASSUME TypeOK, Start
  PROVE  ProgramSoFar'
<1>1. PICK j \in Jobs :
        /\ job' = j /\ start' = j.start
        /\ at' = IF j.action = "dump" THEN IF j.tool = "nor_dump" THEN "id" ELSE "read"
                 ELSE IF j.start % 2 = 0 THEN "file" ELSE "failed"
  BY DEF Start
<1>2. page' = 0 /\ at' \in {"id", "read", "file", "failed"}
  BY <1>1 DEF Start
<1>3. ASSUME at' = "file", Sound' PROVE Progress(0)' /\ start' = 0
  <2>1. start' = 0
    BY <1>1, <1>3 DEF Sound
  <2>2. Lim(0) = 0 /\ Top(0) = 0 /\ Stride \in Nat /\ Stride > 0 /\ j.pages \in Nat
    BY FlashAssumption, JobType DEF Lim, Top
  <2>3. Written(cells, page, start)'
    BY <1>2, <2>1 DEF Written
  <2>4. Filing(0)'
    BY <1>2, <1>3, <2>2, <2>3 DEF Filing, Lim
  <2>5. (page <= job.pages /\ start = Top(0))'
    BY <1>1, <1>2, <2>1, <2>2 DEF Top
  <2>6. QED
    BY <2>1, <2>4, <2>5 DEF Progress
<1>4. QED
  BY <1>2, <1>3 DEF ProgramSoFar, Programming

(* The loop's head: an erase when the pages have reached the erased        *)
(* sectors' limit, else the next page.                                     *)
LEMMA ReadFileProgress ==
  ASSUME TypeOK, ProgramSoFar, ReadFile
  PROVE  ProgramSoFar'
<1>1. /\ at = "file" /\ UNCHANGED <<cells, busy, job, page, clean>>
      /\ Ready' = Ready
  BY DEF ReadFile, chip, Ready
<1>2. SUFFICES ASSUME Sound' PROVE ProgramSoFar'
  BY DEF ProgramSoFar
<1>3. Sound
  BY <1>1, <1>2, SameClaim
<1>4. PICK n \in Nat : Progress(n)
  BY <1>1, <1>3 DEF ProgramSoFar, Programming
<1>5. /\ page <= job.pages /\ start = Top(n)
      /\ Lim(n) < page + Stride /\ page <= Lim(n) /\ Written(cells, page, start)
  BY <1>1, <1>4 DEF Progress, Filing, Erasing, Paging
<1>6. /\ busy # Ready => page = 0 /\ start = 0
      /\ job.erase /\ job.pages \in Nat /\ page \in Nat /\ Stride \in Nat
      /\ Lim(n) \in Nat /\ Top(n) \in Nat
  <2>1. busy # Ready => page = 0 /\ start = 0
    BY <1>1, <1>3 DEF ProgramSoFar, Programming
  <2>2. job.erase
    BY <1>3 DEF Sound
  <2>3. job.pages \in Nat /\ page \in Nat
    BY JobType DEF TypeOK
  <2>4. QED
    BY <2>1, <2>2, <2>3, Products, FlashAssumption
<1>7. CASE page = job.pages
  <2>1. at' = "programmed"
    BY <1>7 DEF ReadFile
  <2>2. \A q \in 0 .. (page - 1) : cells[q] = q
    BY <1>5 DEF Written
  <2>3. (page = job.pages /\ (busy # Ready => page = 0) /\ \A q \in 0 .. (page - 1) : cells[q] = q)'
    BY <1>1, <1>6, <1>7, <2>2
  <2>4. QED
    BY <2>1, <2>3 DEF ProgramSoFar, Programming
<1>8. CASE page # job.pages
  <2>1. at' = "wren" /\ op' = IF page % Stride # 0 THEN "page" ELSE "erase"
    BY <1>6, <1>8 DEF ReadFile, Enable
  <2>2. start' = start
    BY <1>6, <1>8 DEF ReadFile, Enable
  <2>3. Written(cells, page, start)'
    BY <1>1, <1>5, <2>2 DEF Written, Erased
  <2>4. page < job.pages
    BY <1>5, <1>6, <1>8
  <2>5. page % Stride = 0 <=> page = Lim(n)
    BY <1>5, <1>6, AtStride
  <2>6. Lim(n)' = Lim(n) /\ Top(n)' = Top(n)
    BY DEF Lim, Top
  <2>7. CASE page = Lim(n)
    <3>1. Erasing(n)'
      BY <1>1, <2>1, <2>3, <2>4, <2>5, <2>6, <2>7 DEF Erasing
    <3>2. QED
      BY <1>1, <1>5, <1>6, <2>1, <2>2, <2>6, <3>1 DEF ProgramSoFar, Progress
  <2>8. CASE page # Lim(n)
    <3>1. Lim(n) <= page + Stride /\ page < Lim(n)
      BY <1>5, <1>6, <2>8
    <3>2. Paging(n)'
      BY <1>1, <2>1, <2>3, <2>4, <2>5, <2>6, <2>8, <3>1 DEF Paging
    <3>3. QED
      BY <1>1, <1>5, <1>6, <2>1, <2>2, <2>6, <3>2 DEF ProgramSoFar, Progress
  <2>9. QED
    BY <2>7, <2>8
<1>9. QED
  BY <1>7, <1>8

(* A step that neither sends a command nor counts.                         *)
LEMMA WaitingProgress ==
  ASSUME TypeOK, Steps, ProgramSoFar, WREN \/ enable_write \/ Wait
  PROVE  ProgramSoFar'
<1>1. /\ UNCHANGED <<cells, busy, job, op, page, start, clean>>
      /\ Ready' = Ready
  BY DEF WREN, enable_write, Wait, chip, Ready
<1>2. SUFFICES ASSUME Sound' PROVE ProgramSoFar'
  BY DEF ProgramSoFar
<1>3. Sound
  BY <1>1, <1>2, SameClaim
<1>4. /\ at \in {"wren", "rdsr", "wait"}
      /\ at' \in {"wren", "rdsr", "erase", "page", "wait", "check"}
      /\ at' = "wait" => at = "wait"
      /\ at' = "check" => at = "wait" /\ busy = Ready
      /\ at' # "check" /\ at = "wait" => at' = "wait"
      /\ at' \in {"wren", "rdsr"} => at \in {"wren", "rdsr"}
  BY DEF WREN, enable_write, Wait, Steps, Programming
<1>5. PICK n \in Nat : Progress(n)
  BY <1>3, <1>4 DEF ProgramSoFar, Programming
<1>6. Lim(n)' = Lim(n) /\ Top(n)' = Top(n)
  BY DEF Lim, Top
<1>7. at' \in {"wait", "check"} <=> at \in {"wait", "check"}
  BY <1>4
<1>8. ASSUME Erasing(n) PROVE Erasing(n)'
  <2>1. Written(cells, page, IF at \in {"wait", "check"} /\ busy = Ready THEN start + SectorPages ELSE start)'
    BY <1>1, <1>7, <1>8 DEF Erasing, Written, Erased
  <2>2. QED
    BY <1>1, <1>4, <1>6, <1>8, <2>1 DEF Erasing, EraseAt
<1>9. ASSUME Paging(n) PROVE Paging(n)'
  <2>1. Written(cells, IF at \in {"wait", "check"} /\ busy = Ready THEN page + 1 ELSE page, start)'
    BY <1>1, <1>7, <1>9 DEF Paging, Written, Erased
  <2>2. QED
    BY <1>1, <1>4, <1>6, <1>9, <2>1 DEF Paging, PageAt
<1>10. Progress(n)'
  BY <1>1, <1>4, <1>5, <1>6, <1>8, <1>9 DEF Progress, Filing
<1>11. at' \in {"file", "wren", "rdsr"} /\ busy' # Ready => page' = 0 /\ start' = 0
  BY <1>1, <1>3, <1>4 DEF ProgramSoFar, Programming
<1>12. QED
  BY <1>1, <1>4, <1>10, <1>11 DEF ProgramSoFar

(* The erase goes to the next sector, which is in the chip.                *)
LEMMA EraseProgress ==
  ASSUME TypeOK, Steps, ProgramSoFar, erase_sector_4k
  PROVE  ProgramSoFar'
<1>1. /\ at = "erase" /\ at' \in {"wait", "failed"}
      /\ UNCHANGED <<cells, wel, job, op, page, start, clean>> /\ Ready' = Ready
  BY DEF erase_sector_4k, Ready
<1>2. SUFFICES ASSUME Sound', at' = "wait" PROVE \E n \in Nat : Progress(n)'
  BY <1>1 DEF ProgramSoFar, Programming
<1>3. Sound
  BY <1>1, <1>2, SameClaim
<1>4. op = "erase" /\ busy = Ready /\ Accepts /\ wel
  BY <1>1, <1>3 DEF Steps, Sound, Accepts
<1>5. PICK n \in Nat : Progress(n)
  BY <1>1, <1>3 DEF ProgramSoFar, Programming
<1>6. Erasing(n) /\ start = Top(n) /\ page <= job.pages
  BY <1>1, <1>4, <1>5 DEF Progress, Filing, Paging
<1>7. start % ChipPages = start
  <2>1. job.pages \in Nat
    BY JobType DEF TypeOK
  <2>2. Top(n) + SectorPages <= ChipPages
    BY <1>3, <1>6, <2>1, SectorFits DEF Erasing, Sound
  <2>3. QED
    BY <1>6, <2>2, SectorIs
<1>8. busy' = EraseAt(start)
  BY <1>1, <1>2, <1>4, <1>7 DEF erase_sector_4k, Send, EraseAt
<1>9. busy' # Ready
  BY <1>8 DEF EraseAt, Ready
<1>10. Written(cells, page, IF at \in {"wait", "check"} /\ busy = Ready THEN start + SectorPages ELSE start)'
  BY <1>1, <1>2, <1>6, <1>9 DEF Erasing, Written, Erased
<1>11. Lim(n)' = Lim(n) /\ Top(n)' = Top(n) /\ EraseAt(start)' = EraseAt(start)
  BY <1>1 DEF Lim, Top, EraseAt
<1>12. Erasing(n)'
  BY <1>1, <1>2, <1>6, <1>8, <1>10, <1>11 DEF Erasing
<1>13. QED
  BY <1>1, <1>6, <1>11, <1>12 DEF Progress

(* The page goes to an erased sector of the chip.                          *)
LEMMA PageProgress ==
  ASSUME TypeOK, Steps, ProgramSoFar, write_page
  PROVE  ProgramSoFar'
<1>1. /\ at = "page" /\ at' \in {"wait", "failed"}
      /\ UNCHANGED <<cells, wel, job, op, page, start, clean>> /\ Ready' = Ready
  BY DEF write_page, Ready
<1>2. SUFFICES ASSUME Sound', at' = "wait" PROVE \E n \in Nat : Progress(n)'
  BY <1>1 DEF ProgramSoFar, Programming
<1>3. Sound
  BY <1>1, <1>2, SameClaim
<1>4. op = "page" /\ busy = Ready /\ Accepts /\ wel
  BY <1>1, <1>3 DEF Steps, Sound, Accepts
<1>5. PICK n \in Nat : Progress(n)
  BY <1>1, <1>3 DEF ProgramSoFar, Programming
<1>6. Paging(n) /\ start = Top(n) /\ page <= job.pages
  BY <1>1, <1>4, <1>5 DEF Progress, Filing, Erasing
<1>7. page % ChipPages = page
  <2>1. page \in Nat /\ page < start
    <3>1. page \in Nat /\ page < Lim(n)
      BY <1>6 DEF TypeOK, Paging
    <3>2. Lim(n) <= Top(n) /\ Lim(n) \in Nat /\ Top(n) \in Nat
      BY Products
    <3>3. QED
      BY <1>6, <3>1, <3>2
  <2>2. Written(cells, page, start)
    BY <1>1, <1>6 DEF Paging
  <2>3. start \in Nat
    BY DEF TypeOK
  <2>4. page < ChipPages
    BY <2>1, <2>2, <2>3 DEF Written
  <2>5. QED
    BY <2>1, <2>4, InChip
<1>8. busy' = PageAt(page)
  BY <1>1, <1>2, <1>4, <1>7 DEF write_page, Send, PageAt
<1>9. busy' # Ready
  BY <1>8 DEF PageAt, Ready
<1>10. Written(cells, IF at \in {"wait", "check"} /\ busy = Ready THEN page + 1 ELSE page, start)'
  BY <1>1, <1>2, <1>6, <1>9 DEF Paging, Written, Erased
<1>11. Lim(n)' = Lim(n) /\ Top(n)' = Top(n) /\ PageAt(page)' = PageAt(page)
  BY <1>1 DEF Lim, Top, PageAt
<1>12. Paging(n)'
  BY <1>1, <1>2, <1>6, <1>8, <1>10, <1>11 DEF Paging
<1>13. QED
  BY <1>1, <1>6, <1>11, <1>12 DEF Progress

(* A command is over: the page of a sector just erased, or the loop's head *)
(* for the page that follows.                                              *)
LEMMA CheckProgress ==
  ASSUME TypeOK, Steps, ProgramSoFar, check_fail
  PROVE  ProgramSoFar'
<1>1. /\ at = "check" /\ busy = Ready
      /\ UNCHANGED <<cells, wel, busy, job, clean>> /\ Ready' = Ready
  BY DEF check_fail, Steps, Ready
<1>2. at' \in {"wren", "file"} /\ busy' = Ready
  BY <1>1 DEF check_fail, Enable
<1>3. SUFFICES ASSUME Sound' PROVE \E n \in Nat : Progress(n)'
  BY <1>1, <1>2 DEF ProgramSoFar
<1>4. Sound
  BY <1>1, <1>3, SameClaim
<1>5. PICK n \in Nat : Progress(n)
  BY <1>1, <1>4 DEF ProgramSoFar, Programming
<1>6. /\ page <= job.pages /\ start = Top(n) /\ page \in Nat /\ job.pages \in Nat
      /\ Erasing(n) \/ Paging(n)
  BY <1>1, <1>5, JobType DEF Progress, Filing, TypeOK
<1>7. /\ Lim(n) \in Nat /\ Stride \in Nat \ {0} /\ n + 1 \in Nat
      /\ Lim(n + 1) = Lim(n) + Stride /\ Top(n + 1) = Top(n) + SectorPages
  BY Products, FlashAssumption
<1>8. CASE Erasing(n)
  <2>1. at' = "wren" /\ op' = "page" /\ start' = start + SectorPages /\ page' = page
    BY <1>8 DEF Erasing, check_fail, Enable
  <2>2. Written(cells, page, start + SectorPages)
    BY <1>1, <1>8 DEF Erasing
  <2>3. Written(cells, page, start)'
    BY <1>1, <2>1, <2>2 DEF Written, Erased
  <2>4. page = Lim(n) /\ page < job.pages
    BY <1>8 DEF Erasing
  <2>5. Lim(n + 1) <= page + Stride /\ page < Lim(n + 1)
    BY <1>6, <1>7, <2>4
  <2>6. Lim(n + 1)' = Lim(n + 1) /\ Top(n + 1)' = Top(n + 1)
    BY DEF Lim, Top
  <2>7. Paging(n + 1)'
    BY <1>1, <2>1, <2>3, <2>4, <2>5, <2>6 DEF Paging
  <2>8. Progress(n + 1)'
    BY <1>1, <1>6, <1>7, <2>1, <2>6, <2>7 DEF Progress
  <2>9. QED
    BY <1>7, <2>8
<1>9. CASE Paging(n)
  <2>1. at' = "file" /\ page' = page + 1 /\ start' = start
    BY <1>9 DEF Paging, check_fail
  <2>2. Written(cells, page + 1, start)
    BY <1>1, <1>9 DEF Paging
  <2>3. Written(cells, page, start)'
    BY <1>1, <2>1, <2>2 DEF Written, Erased
  <2>4. Lim(n) <= page + Stride /\ page < Lim(n) /\ page < job.pages
    BY <1>9 DEF Paging
  <2>5. Lim(n) < page + 1 + Stride /\ page + 1 <= Lim(n) /\ page + 1 <= job.pages
    BY <1>6, <1>7, <2>4
  <2>6. Lim(n)' = Lim(n) /\ Top(n)' = Top(n)
    BY DEF Lim, Top
  <2>7. Filing(n)'
    BY <2>1, <2>3, <2>5, <2>6 DEF Filing
  <2>8. Progress(n)'
    BY <1>1, <1>6, <2>1, <2>5, <2>6, <2>7 DEF Progress
  <2>9. QED
    BY <2>8
<1>10. QED
  BY <1>6, <1>8, <1>9

(* The chip ends what it does: a command of this run makes its progress,   *)
(* and one that a killed run left finds nothing of this run to spoil.      *)
LEMMA CompleteProgress ==
  ASSUME TypeOK, Steps, ProgramSoFar, Complete
  PROVE  ProgramSoFar'
<1>1. /\ busy # Ready /\ busy' = Ready /\ Ready' = Ready
      /\ UNCHANGED <<job, at, op, page, start>>
      /\ clean' = clean \/ clean' = "failed"
  BY DEF Complete, Ready
<1>2. SUFFICES ASSUME Sound' PROVE ProgramSoFar'
  BY DEF ProgramSoFar
<1>3. Sound
  BY <1>1, <1>2, SameClaim
<1>4. cells' = [p \in DOMAIN cells |-> IF p \in Touched(busy) THEN Result(p, busy) ELSE cells[p]]
  BY <1>2 DEF Complete, Sound
<1>5. DOMAIN cells = 0 .. (ChipPages - 1) /\ page \in Nat /\ start \in Nat
  BY DEF TypeOK
<1>6. CASE at = "programmed"
  BY <1>1, <1>3, <1>6 DEF ProgramSoFar, Programming
<1>7. CASE at \in Programming
  <2>1. PICK n \in Nat : Progress(n)
    BY <1>3, <1>7 DEF ProgramSoFar
  <2>2. at \notin {"erase", "page", "check"}
    BY <1>1 DEF Steps
  <2>3. Lim(n)' = Lim(n) /\ Top(n)' = Top(n)
    BY DEF Lim, Top
  <2>4. page <= job.pages /\ start = Top(n)
    BY <2>1 DEF Progress
  <2>5. CASE at # "wait"
    <3>1. at \in {"file", "wren", "rdsr"} /\ page = 0 /\ start = 0
      BY <1>1, <1>3, <1>7, <2>2, <2>5 DEF ProgramSoFar, Programming
    <3>2. Written(cells, page, start)'
      BY <1>1, <3>1 DEF Written
    <3>3. Progress(n)'
      BY <1>1, <2>1, <2>3, <2>5, <3>1, <3>2 DEF Progress, Filing, Erasing, Paging
    <3>4. QED
      BY <1>1, <1>7, <3>1, <3>3 DEF ProgramSoFar
  <2>6. CASE at = "wait"
    <3>1. SUFFICES Progress(n)'
      BY <1>1, <2>6 DEF ProgramSoFar
    <3>2. CASE Erasing(n)
      <4>1. busy = EraseAt(start) /\ page = Lim(n) /\ page < job.pages /\ Written(cells, page, start)
        BY <1>1, <2>6, <3>2 DEF Erasing
      <4>2. Top(n) + SectorPages <= ChipPages
        BY <1>3, <4>1, JobType, SectorFits DEF Sound, TypeOK
      <4>3. Sector(start) = start .. (start + SectorPages - 1)
        BY <2>4, <4>2, SectorIs
      <4>4. \A q \in 0 .. (ChipPages - 1) :
              cells'[q] = IF q \in Sector(start) THEN Erased ELSE cells[q]
        BY <1>4, <1>5, <4>1 DEF EraseAt, Touched, Result
      <4>5. page <= start /\ SectorPages \in Nat /\ ChipPages \in Nat
        BY <2>4, <4>1, Products, FlashAssumption
      <4>6. ASSUME NEW q \in 0 .. (page - 1) PROVE q < ChipPages /\ cells'[q] = q
        <5>1. q < ChipPages /\ cells[q] = q
          BY <4>1 DEF Written
        <5>2. q \notin Sector(start) /\ q \in 0 .. (ChipPages - 1)
          BY <1>5, <4>3, <4>5, <5>1
        <5>3. QED
          BY <4>4, <5>1, <5>2
      <4>7. ASSUME NEW q \in page .. (start + SectorPages - 1) PROVE q < ChipPages /\ cells'[q] = Erased
        <5>1. q \in page .. (start - 1) \/ q \in Sector(start)
          BY <1>5, <4>3, <4>5
        <5>2. q \in 0 .. (ChipPages - 1)
          BY <1>5, <2>4, <4>2, <4>5
        <5>3. q \in page .. (start - 1) => cells[q] = Erased
          BY <4>1 DEF Written
        <5>4. QED
          BY <4>4, <4>5, <5>1, <5>2, <5>3
      <4>8. Written(cells, page, start + SectorPages)'
        <5>1. \A q \in 0 .. (page' - 1) : q < ChipPages /\ cells'[q] = q
          BY <1>1, <4>6
        <5>2. \A q \in page' .. (start' + SectorPages - 1) : q < ChipPages /\ cells'[q] = Erased
          BY <1>1, <4>7
        <5>3. Written(cells', page', start' + SectorPages)
          BY <1>1, <1>5, <4>5, <5>1, <5>2 DEF Written
        <5>4. QED
          BY <5>3
      <4>9. Erasing(n)'
        BY <1>1, <2>3, <2>6, <3>2, <4>8 DEF Erasing
      <4>10. QED
        BY <1>1, <2>3, <2>4, <4>9 DEF Progress
    <3>3. CASE Paging(n)
      <4>1. busy = PageAt(page) /\ page < Lim(n) /\ Written(cells, page, start)
        BY <1>1, <2>6, <3>3 DEF Paging
      <4>2. Lim(n) <= start /\ Lim(n) \in Nat
        BY <2>4, Products
      <4>3. page < start
        BY <1>5, <4>1, <4>2
      <4>4. page < ChipPages /\ cells[page] = Erased
        BY <1>5, <4>1, <4>3 DEF Written
      <4>5. \A q \in 0 .. (ChipPages - 1) :
              cells'[q] = IF q = page THEN page ELSE cells[q]
        BY <1>4, <1>5, <4>1, <4>4 DEF PageAt, Touched, Result
      <4>6. ASSUME NEW q \in 0 .. page PROVE q < ChipPages /\ cells'[q] = q
        <5>1. q = page \/ q \in 0 .. (page - 1)
          BY <1>5
        <5>2. q \in 0 .. (page - 1) => q < ChipPages /\ cells[q] = q
          BY <4>1 DEF Written
        <5>3. q < ChipPages
          BY <4>4, <5>1, <5>2
        <5>4. q \in 0 .. (ChipPages - 1)
          BY <1>5, <5>3, FlashAssumption
        <5>5. QED
          BY <4>5, <5>1, <5>2, <5>3, <5>4
      <4>7. ASSUME NEW q \in (page + 1) .. (start - 1) PROVE q < ChipPages /\ cells'[q] = Erased
        <5>1. q \in page .. (start - 1) /\ q # page
          BY <1>5
        <5>2. q < ChipPages /\ cells[q] = Erased
          BY <4>1, <5>1 DEF Written
        <5>3. q \in 0 .. (ChipPages - 1)
          BY <1>5, <5>2, FlashAssumption
        <5>4. QED
          BY <4>5, <5>1, <5>2, <5>3
      <4>8. page + 1 - 1 = page
        BY <1>5
      <4>9. Written(cells, page + 1, start)'
        <5>1. \A q \in 0 .. (page' + 1 - 1) : q < ChipPages /\ cells'[q] = q
          BY <1>1, <4>6, <4>8
        <5>2. \A q \in (page' + 1) .. (start' - 1) : q < ChipPages /\ cells'[q] = Erased
          BY <1>1, <4>7
        <5>3. Written(cells', page' + 1, start')
          BY <1>1, <1>5, <5>1, <5>2 DEF Written
        <5>4. QED
          BY <5>3
      <4>10. Paging(n)'
        BY <1>1, <2>3, <2>6, <3>3, <4>9 DEF Paging
      <4>11. QED
        BY <1>1, <2>3, <2>4, <4>10 DEF Progress
    <3>4. QED
      BY <2>1, <2>6, <3>2, <3>3 DEF Progress, Filing
  <2>7. QED
    BY <2>5, <2>6
<1>8. QED
  BY <1>1, <1>6, <1>7 DEF ProgramSoFar

(* All of these together, and the steps that program nothing.              *)
LEMMA ProgramStep == TypeOK /\ Steps /\ ProgramSoFar /\ [Next]_vars => ProgramSoFar'
<1> SUFFICES ASSUME TypeOK, Steps, ProgramSoFar, [Next]_vars PROVE ProgramSoFar'
  OBVIOUS
<1>1. CASE get_chip_id \/ dump_flash \/ Kill
  <2>1. at' \notin Programming \cup {"programmed"}
    BY <1>1 DEF get_chip_id, dump_flash, Kill, Programming
  <2>2. QED
    BY <2>1 DEF ProgramSoFar
<1>2. CASE UNCHANGED vars
  <2>1. UNCHANGED <<cells, busy, job, at, op, page, start, clean>> /\ Ready' = Ready
    BY <1>2 DEF vars, Ready
  <2>2. Sound' <=> Sound
    BY <2>1 DEF Sound, Fits, Sectors
  <2>3. ASSUME NEW n \in Nat, Progress(n) PROVE Progress(n)'
    BY <2>1, <2>3 DEF Progress, Filing, Erasing, Paging, Written, Lim, Top, EraseAt, PageAt, Erased
  <2>4. QED
    BY <2>1, <2>2, <2>3 DEF ProgramSoFar, Programming
<1>3. QED
  BY <1>1, <1>2, StartProgress, ReadFileProgress, WaitingProgress, EraseProgress, PageProgress,
     CheckProgress, CompleteProgress DEF Next, Host

-----------------------------------------------------------------------------
(* The invariant holds at first, and every step keeps it.                  *)
LEMMA InitIInv == Init => IInv
<1> SUFFICES ASSUME Init PROVE IInv
  OBVIOUS
<1>1. TypeOK
  <2>1. cells \in [0 .. (ChipPages - 1) -> Int] /\ wel \in BOOLEAN
    <3>1. Old \in Int
      BY DEF Old
    <3>2. cells = [p \in 0 .. (ChipPages - 1) |-> Old] /\ wel = FALSE
      BY DEF Init
    <3>3. QED
      BY <3>1, <3>2
  <2>2. busy \in Commands
    BY DEF Init, Commands, Ready
  <2>3. job \in Jobs /\ page \in Nat /\ start \in Nat /\ buf \in Seq(Int)
    BY DEF Init
  <2>4. QED
    BY <2>1, <2>2, <2>3 DEF TypeOK
<1>2. at = "none"
  BY DEF Init
<1>3. QED
  BY <1>1, <1>2 DEF IInv, DumpSoFar, Dumping, Steps, ProgramSoFar, Programming

LEMMA StepIInv == IInv /\ [Next]_vars => IInv'
BY TypeStep, DumpStep, StepsStep, ProgramStep DEF IInv

(* Every state of a run of either tool is one of the invariant's.          *)
THEOREM FlashCorrect == Spec => []IInv
BY InitIInv, StepIInv, PTL DEF Spec

(* Whatever the chip, the sector and the stride, a file that program_flash *)
(* says is programmed from address 0 with an erase is in the chip, unless  *)
(* the chip failed or the sectors wrapped around it.                       *)
THEOREM ProgramsWhatItSays == Spec => []DoneMeansProgrammed
<1>1. IInv => DoneMeansProgrammed
  BY DEF IInv, ProgramSoFar, Sound, DoneMeansProgrammed
<1>2. QED
  BY <1>1, FlashCorrect, PTL

(* Whatever the chip and the addresses asked for, dump_flash of a chip     *)
(* that works on nothing, or that has said its id, reads what it holds.    *)
THEOREM DumpsWhatIsThere == Spec => []DumpIsContents
<1>1. IInv => DumpIsContents
  BY DEF IInv, DumpSoFar, Dumping, Quiet, DumpIsContents
<1>2. QED
  BY <1>1, FlashCorrect, PTL
=============================================================================
