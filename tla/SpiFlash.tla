------------------------------ MODULE SpiFlash ------------------------------
(***************************************************************************)
(* What the two SPI flash tools do to the chip: program and dump of        *)
(* SPI_flasher/HydraSPI.py, and dump of hydra_spiflash_nor_dump.py.  Each  *)
(* step of the host is one write-then-read of BBIO SPI, which HostSession  *)
(* shows to be answered in step.  The chip is not in the repository: it    *)
(* latches a write enable, works on its own time, ignores what it is sent  *)
(* meanwhile, and may fail.  The host may be killed between two steps and  *)
(* be started again; numbers are in pages of 256 bytes.                    *)
(***************************************************************************)
EXTENDS Integers, Sequences

CONSTANTS
  ChipPages,         (* pages of the chip, whose addresses wrap around     *)
  SectorPages,       (* pages an erase clears: 16                          *)
  Stride,            (* pages programmed before the next erase: 0xF        *)
  AddrPages,         (* pages that three address bytes reach               *)
  Jobs,              (* the command lines                                  *)
  MaxFaults          (* bound on kills and failures                        *)

ASSUME FlashAssumption ==
  /\ SectorPages \in Nat \ {0} /\ Stride \in 1 .. SectorPages
  /\ ChipPages \in Nat \ {0} /\ ChipPages % SectorPages = 0
  /\ AddrPages \in Nat \ {0} /\ MaxFaults \in Nat
  /\ Jobs \subseteq [tool : {"HydraSPI", "nor_dump"}, action : {"program", "dump"}, start : Nat,
                     pages : Nat, erase : BOOLEAN, present : BOOLEAN]

VARIABLES
  cells,             (* chip page -> the page of the file it holds         *)
  wel, busy,         (* write enable latch; the command being carried out  *)
  scur,              (* the security register: P_FAIL and E_FAIL           *)
  job,               (* tool, action, start, pages, erase; present         *)
  at, op,            (* the host's step, and what it works for             *)
  page, start,       (* its counters                                       *)
  buf,               (* what a dump has read                               *)
  clean,             (* the chip was idle or busy when this run began, or  *)
                     (* has failed since                                   *)
  faults

chip == <<cells, wel, busy, scur>>
vars == <<cells, wel, busy, scur, job, at, op, page, start, buf, clean, faults>>

Old == -1
Erased == -2
Torn == -3
Ones == -4           (* what reads back when the chip does not drive       *)
Ready == [op |-> "none", page |-> 0, data |-> 0]
Ends == {"none", "programmed", "dumped", "failed"}

PFail == 32
EFail == 64
Bit(s, k) == (s \div 2^k) % 2 = 1

-----------------------------------------------------------------------------
(* The chip.                                                               *)
Accepts == job.present /\ busy = Ready
Sector(p) == {q \in 0 .. (ChipPages - 1) : q \div SectorPages = p \div SectorPages}
Touched(c) == IF c.op = "erase" THEN Sector(c.page) ELSE {c.page}

Result(p, c) == IF c.op = "erase" THEN Erased
                ELSE IF cells[p] \in {Erased, c.data} THEN c.data ELSE Torn

Complete ==
  /\ busy # Ready
  /\ \/ /\ cells' = [p \in DOMAIN cells |-> IF p \in Touched(busy) THEN Result(p, busy) ELSE cells[p]]
        /\ scur' = 0 /\ UNCHANGED <<faults, clean>>
     \/ /\ faults < MaxFaults /\ faults' = faults + 1 /\ clean' = "failed"
        /\ cells' = [p \in DOMAIN cells |-> IF p \in Touched(busy) THEN Torn ELSE cells[p]]
        /\ scur' = IF busy.op = "erase" THEN EFail ELSE PFail
  /\ wel' = FALSE /\ busy' = Ready
  /\ UNCHANGED <<job, at, op, page, start, buf>>

Send(c) == IF Accepts /\ wel THEN busy' = c ELSE UNCHANGED busy

-----------------------------------------------------------------------------
(* program_flash.                                                          *)
Enable(what) == at' = "wren" /\ op' = what

Start ==
  /\ at \in Ends
  /\ \E j \in Jobs :
       /\ j.present = job.present /\ job' = j /\ start' = j.start
       /\ at' = IF j.action = "dump" THEN IF j.tool = "nor_dump" THEN "id" ELSE "read"
                ELSE IF j.start % 2 = 0 THEN "file" ELSE "failed"    (* 0x1FF *)
  /\ page' = 0 /\ buf' = <<>> /\ op' = "none"
  /\ clean' = IF busy = Ready THEN "idle" ELSE "busy"
  /\ UNCHANGED <<chip, faults>>

(* The loop's head: the next page of the file, and the next sector.        *)
ReadFile ==
  /\ at = "file"
  /\ IF page = job.pages THEN at' = "programmed" /\ UNCHANGED <<op, start>>
     ELSE IF page % Stride # 0 THEN Enable("page") /\ UNCHANGED start
     ELSE IF job.erase THEN Enable("erase") /\ UNCHANGED start
     ELSE Enable("page") /\ start' = start + SectorPages
  /\ UNCHANGED <<chip, job, page, buf, clean, faults>>

(* enable_write sends WREN and reads the status until the latch is set and *)
(* nothing is in progress; its assertions on a text never fire.            *)
WREN ==
  /\ at = "wren" /\ at' = "rdsr"
  /\ wel' = IF Accepts THEN TRUE ELSE wel
  /\ UNCHANGED <<cells, busy, scur, job, op, page, start, buf, clean, faults>>

(* Fault: the work in progress is not looked at.                           *)
LatchOnly ==
  /\ at = "rdsr"
  /\ at' = IF job.present /\ wel THEN op ELSE "wren"
  /\ UNCHANGED <<chip, job, op, page, start, buf, clean, faults>>

enable_write ==
  /\ at = "rdsr"
  /\ at' = IF Accepts /\ wel THEN op ELSE "wren"
  /\ UNCHANGED <<chip, job, op, page, start, buf, clean, faults>>

(* SE at start_addr, three bytes.                                          *)
erase_sector_4k ==
  /\ at = "erase"
  /\ IF start < AddrPages
       THEN Send([op |-> "erase", page |-> start % ChipPages, data |-> 0]) /\ at' = "wait"
       ELSE at' = "failed" /\ UNCHANGED busy
  /\ UNCHANGED <<cells, wel, scur, job, op, page, start, buf, clean, faults>>

(* PP at the number of the page, two bytes and a zero.                     *)
write_page ==
  /\ at = "page"
  /\ IF page < AddrPages
       THEN Send([op |-> "page", page |-> page % ChipPages, data |-> page]) /\ at' = "wait"
       ELSE at' = "failed" /\ UNCHANGED busy
  /\ UNCHANGED <<cells, wel, scur, job, op, page, start, buf, clean, faults>>

(* Fault: the status is compared as enable_write does it.                  *)
WaitLatch ==
  /\ at = "wait" /\ job.present
  /\ at' = IF busy = Ready /\ wel THEN "check" ELSE "wait"
  /\ UNCHANGED <<chip, job, op, page, start, buf, clean, faults>>

(* RDSR until nothing is in progress.                                      *)
Wait ==
  /\ at = "wait" /\ job.present
  /\ at' = IF busy = Ready THEN "check" ELSE "wait"
  /\ UNCHANGED <<chip, job, op, page, start, buf, clean, faults>>

(* check_fail masks the register with 0x01100000, bits 20 and 24; CLSR is  *)
(* what it would send.  Then the caller goes on.                           *)
check_fail ==
  /\ at = "check"
  /\ scur' = IF Bit(scur, 20) \/ Bit(scur, 24) THEN 0 ELSE scur
  /\ IF op = "erase" THEN Enable("page") /\ start' = start + SectorPages /\ UNCHANGED page
     ELSE at' = "file" /\ page' = page + 1 /\ UNCHANGED <<op, start>>
  /\ UNCHANGED <<cells, wel, busy, job, buf, clean, faults>>

-----------------------------------------------------------------------------
(* dump_flash, and dump of the other tool, which asks for the chip first   *)
(* and chooses the command with four address bytes by the size alone.      *)
get_chip_id ==
  /\ at = "id" /\ at' = IF Accepts THEN "read" ELSE "failed"
  /\ UNCHANGED <<chip, job, op, page, start, buf, clean, faults>>

FourBytes == job.tool = "nor_dump" /\ job.pages >= AddrPages

(* Fault: the address does not move.                                       *)
dump_again ==
  /\ at = "read"
  /\ IF page = job.pages THEN at' = "dumped" /\ UNCHANGED <<page, start, buf>>
     ELSE /\ buf' = Append(buf, IF Accepts THEN cells[start % ChipPages] ELSE Ones)
          /\ page' = page + 1 /\ UNCHANGED <<at, start>>
  /\ UNCHANGED <<chip, job, op, clean, faults>>

dump_flash ==
  /\ at = "read"
  /\ IF page = job.pages THEN at' = "dumped" /\ UNCHANGED <<page, start, buf>>
     ELSE IF ~FourBytes /\ start >= AddrPages THEN at' = "failed" /\ UNCHANGED <<page, start, buf>>
     ELSE /\ buf' = Append(buf, IF Accepts THEN cells[start % ChipPages] ELSE Ones)
          /\ page' = page + 1 /\ start' = start + 1 /\ UNCHANGED at
  /\ UNCHANGED <<chip, job, op, clean, faults>>

-----------------------------------------------------------------------------
(* The host dies between two steps; the chip goes on with its work.        *)
Kill ==
  /\ at \notin Ends /\ faults < MaxFaults
  /\ at' = "failed" /\ faults' = faults + 1
  /\ UNCHANGED <<chip, job, op, page, start, buf, clean>>

Init ==
  /\ cells = [p \in 0 .. (ChipPages - 1) |-> Old]
  /\ wel = FALSE /\ busy = Ready /\ scur = 0
  /\ job \in Jobs
  /\ at = "none" /\ op = "none" /\ page = 0 /\ start = 0 /\ buf = <<>>
  /\ clean = "idle" /\ faults = 0

Host ==
  \/ ReadFile \/ WREN \/ enable_write \/ erase_sector_4k \/ write_page \/ Wait
  \/ check_fail \/ get_chip_id \/ dump_flash

Next == Start \/ Host \/ Complete \/ Kill

(* The host goes on as long as it is answered; the chip ends what it does. *)
Spec == Init /\ [][Next]_vars /\ WF_vars(Host) /\ WF_vars(Complete)

-----------------------------------------------------------------------------
(* The sectors a run erases from start on do not wrap around the chip.     *)
Sectors == (job.pages + Stride - 1) \div Stride
Fits == Sectors * SectorPages <= ChipPages

(* "Done": a file programmed from address 0 with erase_before_program is   *)
(* in the chip, whatever a killed run left there or in progress.  An erase *)
(* every 15 pages of a sector of 16 runs ahead of the pages, and never     *)
(* reaches one already programmed unless the chip wraps around.            *)
DoneMeansProgrammed ==
  at = "programmed" /\ clean # "failed" /\ job.start = 0 /\ job.erase /\ Fits /\ job.present
    => \A p \in 0 .. (job.pages - 1) : cells[p] = p

(* A dump is what the chip holds from the address asked for on; a chip     *)
(* that a killed run left busy spoils HydraSPI's dump, but not the one of  *)
(* the tool that asks for the chip's id first.                             *)
DumpIsContents ==
  at = "dumped" /\ job.present /\ (clean = "idle" \/ (clean = "busy" /\ job.tool = "nor_dump"))
    => /\ Len(buf) = job.pages
       /\ \A k \in 1 .. Len(buf) : buf[k] = cells[(job.start + k - 1) % ChipPages]

(* Every run on a chip that answers comes to an end.                       *)
RunEnds == (job.present /\ at \notin Ends) ~> at \in Ends
=============================================================================
