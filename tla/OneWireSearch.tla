---------------------------- MODULE OneWireSearch ---------------------------
(***************************************************************************)
(* The scan of a 1-Wire bus (hydrabus_mode_onewire.c): each call of        *)
(* onewire_search follows one path of the tree of ROM codes, steering by   *)
(* the last branch where it took 0.  Devices answer a bit and its          *)
(* complement together, so a low line hides a high one, and drop out when  *)
(* the bit written back is not theirs.  Devices come and go, also in the   *)
(* middle of a search.                                                     *)
(***************************************************************************)
EXTENDS Naturals, Sequences, FiniteSetsExt

CONSTANTS
  Bits, FamilyBits,  (* 64 and 8                                           *)
  Roms,              (* the codes devices may have; their checksum is right*)
  MaxMoves           (* bound on the comings and goings                    *)

AllRoms == [1 .. Bits -> {0, 1}]
Family(r) == SubSeq(r, 1, FamilyBits)
Zeros(n) == [k \in 1 .. n |-> 0]

(* No device has family code 0.                                            *)
ASSUME RomsAssumption ==
  /\ Bits \in Nat \ {0} /\ FamilyBits \in 1 .. Bits /\ MaxMoves \in Nat
  /\ Roms \subseteq AllRoms /\ \A r \in Roms : Family(r) # Zeros(FamilyBits)

VARIABLES
  devices,           (* on the bus                                         *)
  shorted,           (* the line is held low                               *)
  lsb,               (* dev_bit_lsb_msb is LSB first                       *)
  scanning,
  ROM_ADDR, last_discrepancy, last_device_p,
  found, twice,      (* the codes this scan has printed; one of them twice *)
  present,           (* the devices on the bus when it began               *)
  moves, moved       (* in all, and during this scan                       *)

state == <<ROM_ADDR, last_discrepancy, last_device_p>>
scanVars == <<devices, shorted, lsb, scanning, state, found, twice, present, moves, moved>>

-----------------------------------------------------------------------------
(* The bit and its complement as read: low if any device pulls it low.     *)
Reads0(on, n) == shorted \/ \E d \in on : d[n] = 0
Reads1(on, n) == shorted \/ \E d \in on : d[n] = 1

Answers(on, n) == Reads0(on, n) \/ Reads1(on, n)
Discrepancy(on, n) == Reads0(on, n) /\ Reads1(on, n)

(* Fault: at the last discrepancy the same branch is taken again.          *)
SameBranch(n) == IF n <= last_discrepancy THEN ROM_ADDR[n] ELSE 0

(* At a discrepancy: as before up to the last one, there 1, then 0.        *)
Branch(n) ==
  IF n < last_discrepancy THEN ROM_ADDR[n] ELSE IF n = last_discrepancy THEN 1 ELSE 0

Direction(on, n) ==
  IF Discrepancy(on, n) THEN Branch(n) ELSE IF Reads1(on, n) THEN 1 ELSE 0

(* Who still answers at bit n of the path rom: those whose code agrees with*)
(* it so far.  The devices in gone leave before bit k.  Devices understand *)
(* the search command in their own bit order only.                         *)
On(rom, n, gone, k) ==
  {d \in IF lsb THEN devices ELSE {} :
     (\A j \in 1 .. n - 1 : d[j] = rom[j]) /\ ~(n >= k /\ d \in gone)}

(* The loop: rom is what it leaves in ROM_ADDR, len the bits it walked     *)
(* until nobody answered.                                                  *)
IsPath(rom, len, gone, k) ==
  /\ \A n \in 1 .. Bits :
       LET on == On(rom, n, gone, k)
       IN  IF n <= len THEN Answers(on, n) /\ rom[n] = Direction(on, n)
                       ELSE rom[n] = ROM_ADDR[n]
  /\ len < Bits => ~Answers(On(rom, len + 1, gone, k), len + 1)

LastZero(rom, len, gone, k) ==
  Max({0} \cup {n \in 1 .. len : rom[n] = 0 /\ Discrepancy(On(rom, n, gone, k), n)})

ResetSearch == last_discrepancy' = 0 /\ last_device_p' = FALSE

(* A checksum of 0 is that of a code without errors, or of zeros.          *)
ChecksumOK(rom) == rom \in Roms \cup {Zeros(Bits)}

(* Fault: the all-zero answer of a shorted line passes for a device.       *)
AcceptsZeros(rom, len) == len = Bits /\ ChecksumOK(rom)

(* Fault: a path that nobody answered to the end passes for a device.      *)
IgnoresLength(rom, len) == ChecksumOK(rom) /\ Family(rom) # Zeros(FamilyBits)

Accepted(rom, len) ==
  len = Bits /\ ChecksumOK(rom) /\ Family(rom) # Zeros(FamilyBits)

NewDiscrepancy(last_zero) == last_discrepancy' = last_zero

(* Either the scan goes on with one more device or it is over.             *)
Found(rom, last_zero) ==
  /\ NewDiscrepancy(last_zero) /\ last_device_p' = (last_discrepancy' = 0)
  /\ found' = found \cup {rom} /\ twice' = (twice \/ rom \in found)
  /\ UNCHANGED scanning

NotFound == ResetSearch /\ scanning' = FALSE /\ UNCHANGED <<found, twice>>

(* onewire_search with a reset that some device answers.                   *)
Search(gone, k) ==
  \E rom \in AllRoms, len \in 0 .. Bits :
    /\ ROM_ADDR' = rom /\ devices' = devices \ gone
    /\ IsPath(rom, len, gone, k)
    /\ IF Accepted(rom, len) THEN Found(rom, LastZero(rom, len, gone, k)) ELSE NotFound

NobodyThere == devices = {} /\ ~shorted

SearchOnce ==
  /\ scanning /\ ~last_device_p /\ ~NobodyThere
  /\ Search({}, 0)
  /\ UNCHANGED <<shorted, lsb, present, moves, moved>>

(* A device is pulled off before bit k is read.                            *)
SearchWhileLeaving ==
  /\ scanning /\ ~last_device_p /\ ~NobodyThere /\ moves < MaxMoves
  /\ \E d \in devices, k \in 1 .. Bits : Search({d}, k)
  /\ moves' = moves + 1 /\ moved' = TRUE
  /\ UNCHANGED <<shorted, lsb, present>>

(* After the last device, or without an answer to the reset.               *)
SearchEnds ==
  /\ scanning /\ (last_device_p \/ NobodyThere)
  /\ NotFound
  /\ UNCHANGED <<devices, shorted, lsb, ROM_ADDR, present, moves, moved>>

(* onewire_scan: its state is on the stack, the code in it undefined;      *)
(* two extremes stand for it.                                              *)
Scan ==
  /\ ~scanning /\ scanning' = TRUE
  /\ ROM_ADDR' \in {Zeros(Bits), [n \in 1 .. Bits |-> 1]}
  /\ ResetSearch
  /\ found' = {} /\ twice' = FALSE /\ present' = devices /\ moved' = FALSE
  /\ UNCHANGED <<devices, shorted, lsb, moves>>

SetBitOrder ==
  /\ ~scanning /\ lsb' = ~lsb
  /\ UNCHANGED <<devices, shorted, scanning, state, found, twice, present, moves, moved>>

Move ==
  /\ moves < MaxMoves /\ moves' = moves + 1 /\ moved' = TRUE
  /\ \/ devices' \in SUBSET Roms /\ devices' # devices /\ UNCHANGED shorted
     \/ shorted' = ~shorted /\ UNCHANGED devices
  /\ UNCHANGED <<lsb, scanning, state, found, twice, present>>

ScanInit ==
  /\ devices \in SUBSET Roms /\ shorted \in BOOLEAN /\ lsb = TRUE
  /\ scanning = FALSE /\ ROM_ADDR = Zeros(Bits)
  /\ last_discrepancy = 0 /\ last_device_p = FALSE
  /\ found = {} /\ twice = FALSE /\ present = {} /\ moves = 0 /\ moved = FALSE

ScanNext == Scan \/ SearchOnce \/ SearchWhileLeaving \/ SearchEnds \/ SetBitOrder \/ Move

(* The scan is one loop of the console thread.                             *)
ScanSpec == ScanInit /\ [][ScanNext]_scanVars /\ WF_scanVars(SearchOnce) /\ WF_scanVars(SearchEnds)

-----------------------------------------------------------------------------
(* A scan of a quiet bus prints every device on it exactly once, whatever  *)
(* the undefined code in its state; on a shorted bus, or with the bit      *)
(* order the devices do not speak, it prints none.                         *)
FindsEveryDevice ==
  [][scanning /\ ~scanning' /\ ~moved' =>
       /\ ~twice'
       /\ found' = IF shorted \/ ~lsb THEN {} ELSE present]_scanVars

(* Nothing is printed that was not on the bus: codes of devices that leave *)
(* in the middle do not blend into one that does not exist.  A bus shorted *)
(* in the middle of a scan is left out: it continues the last path with    *)
(* zeros, which only the checksum can reject.                              *)
NoGhost ==
  [][scanning /\ ~shorted => found' \ found \subseteq devices]_scanVars

(* A scan ends, however the bus changed under it, once it stays as it is.  *)
ScanEnds == scanning ~> ~scanning
=============================================================================
