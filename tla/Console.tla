------------------------------- MODULE Console ------------------------------
(***************************************************************************)
(* The console of main.c: the main thread starts it when USB is active,    *)
(* and it reads the host's bytes one by one.  Text goes to tokenline; runs *)
(* of NULs, counted in i, announce a binary mode.  A read that USB cannot  *)
(* serve gives a NUL as well (get_char in exec.c).                         *)
(***************************************************************************)
EXTENDS Naturals

CONSTANTS BbioNuls, SumpNuls, SerprogNuls   (* 20, 5 and 8                 *)

ASSUME NulsAssumption ==
  /\ BbioNuls \in Nat /\ SumpNuls \in 1 .. BbioNuls /\ SerprogNuls \in SumpNuls .. BbioNuls

VARIABLES
  usb,               (* the USB device is active                           *)
  at,                (* none (no thread yet), prompt, bbio, sump, serprog  *)
  i,                 (* the counter of NULs                                *)
  nuls               (* the NULs just read in a row at the prompt          *)

vars == <<usb, at, i, nuls>>

Nul == 0
SumpByte == 2
SerprogByte == 16
Text == 97           (* any byte tokenline gets                            *)
Command == 13        (* the Enter that runs the command sump               *)
Bytes == {Nul, SumpByte, SerprogByte, Text, Command}

(* Fault: only a connected host's bytes are seen.                          *)
HostOnly(c) == usb /\ c \in Bytes

(* What get_char may give.                                                 *)
get_char(c) == IF usb THEN c \in Bytes ELSE c = Nul

Run(c) == IF c = Nul THEN nuls + 1 ELSE 0
Enter(mode) == at' = mode /\ nuls' = 0

Init == usb = FALSE /\ at = "none" /\ i = 0 /\ nuls = 0

(* main: a thread is created for a console that has none.                  *)
Spawn ==
  /\ at = "none" /\ usb
  /\ at' = "prompt" /\ i' = 0 /\ nuls' = 0
  /\ UNCHANGED usb

(* Fault: the counter goes on after the mode.                              *)
BbioKeepsCount == i' = i + 1

ResetCount == i' = 0

(* case 0 of the console's switch.                                         *)
ReadNul ==
  /\ at = "prompt" /\ get_char(Nul)
  /\ IF i + 1 = BbioNuls
       THEN ResetCount /\ Enter("bbio")
       ELSE i' = i + 1 /\ nuls' = Run(Nul) /\ UNCHANGED at
  /\ UNCHANGED usb

(* Cases 2 and 0x10: the byte is dropped when the count differs, and i     *)
(* keeps its value either way.                                             *)
ReadMark(c, count, mode) ==
  /\ at = "prompt" /\ get_char(c)
  /\ IF i = count THEN Enter(mode) ELSE nuls' = Run(c) /\ UNCHANGED at
  /\ UNCHANGED <<usb, i>>

ReadSump == ReadMark(SumpByte, SumpNuls, "sump")
ReadSerprog == ReadMark(SerprogByte, SerprogNuls, "serprog")

(* The default case; the command "sump" enters that mode too.              *)
ReadText ==
  /\ at = "prompt" /\ get_char(Text)
  /\ i' = 0 /\ nuls' = 0
  /\ UNCHANGED <<usb, at>>

ReadSumpCommand ==
  /\ at = "prompt" /\ get_char(Command)
  /\ i' = 0 /\ Enter("sump")
  /\ UNCHANGED usb

(* The button, or a leaving command, ends a mode.                          *)
Leave ==
  /\ at \in {"bbio", "sump", "serprog"}
  /\ at' = "prompt" /\ nuls' = 0
  /\ UNCHANGED <<usb, i>>

(* Enumeration, reset, suspend.                                            *)
Usb == usb' = ~usb /\ UNCHANGED <<at, i, nuls>>

ReadByte == ReadNul \/ ReadSump \/ ReadSerprog \/ ReadText \/ ReadSumpCommand
Next == Spawn \/ ReadByte \/ Leave \/ Usb

(* A read that gives the NUL of a detached device does not block.          *)
Spec == Init /\ [][Next]_vars /\ WF_vars(ReadNul /\ ~usb)

-----------------------------------------------------------------------------
TypeOK ==
  /\ usb \in BOOLEAN /\ at \in {"none", "prompt", "bbio", "sump", "serprog"}
  /\ i \in 0 .. (BbioNuls - 1) /\ nuls \in Nat

(* Whatever was read before, BbioNuls NULs in a row reach BBIO: the count  *)
(* may be ahead of the run (it survives sump and serprog, and the bytes 2  *)
(* and 0x10) but never passes the mark it is compared with.                *)
NulsReachBbio == nuls < BbioNuls /\ nuls <= i

(* A console that loses USB at the prompt is in BBIO when the host comes   *)
(* back, without a byte from the host.                                     *)
DetachEntersBbio == (at = "prompt" /\ ~usb) ~> (usb \/ at = "bbio")
=============================================================================
