------------------------------- MODULE SdCard -------------------------------
(***************************************************************************)
(* The micro-SD card as the firmware holds it: the state of the ChibiOS    *)
(* SDC driver, the flag fs_ready of common/microsd.c and the registration  *)
(* of SDC_FS as FatFs work area.  A card is a record                       *)
(*   drv   "stop", "active", "ready", or "halted" once an assertion of the *)
(*         driver has stopped the system (CH_DBG_ENABLE_ASSERTS is on)     *)
(*   fs    fs_ready                                                        *)
(*   area  f_mount has registered the work area                            *)
(* Every call runs to completion on the console thread; it is an operator  *)
(* from a card to the set of the cards it may leave, since the card on the *)
(* bus may answer or not.                                                  *)
(***************************************************************************)

Cards == [drv : {"stop", "active", "ready", "halted"}, fs : BOOLEAN, area : BOOLEAN]

Then(S, F(_)) == UNION {F(c) : c \in S}

Halt(c) == [c EXCEPT !.drv = "halted"]

-----------------------------------------------------------------------------
(* The driver.  Connecting and disconnecting assert that it is started,    *)
(* starting and stopping that no card is connected.                        *)
Requires(states, c, S) ==
  IF c.drv = "halted" THEN {c} ELSE IF c.drv \in states THEN S ELSE {Halt(c)}

sdcConnect(c) ==
  Requires({"active", "ready"}, c, {[c EXCEPT !.drv = d] : d \in {"ready", "active"}})

sdcDisconnect(c) == Requires({"active", "ready"}, c, {[c EXCEPT !.drv = "active"]})

sdcStop(c) == Requires({"stop", "active"}, c, {[c EXCEPT !.drv = "stop"]})

sdcStart(c) == Requires({"stop", "active"}, c, {[c EXCEPT !.drv = "active"]})

(* FatFs only registers or drops the work area.                            *)
f_mount(c) == {[c EXCEPT !.area = TRUE]}
f_unmount(c) == {[c EXCEPT !.area = FALSE]}

-----------------------------------------------------------------------------
SetReady(c) == IF c.drv = "ready" THEN {[c EXCEPT !.fs = TRUE]} ELSE {c}

(* A failed connection returns early; an f_mount that fails disconnects.   *)
AfterConnect(c) ==
  IF c.drv = "ready" THEN Then(f_mount(c), SetReady) \cup sdcDisconnect(c) ELSE {c}

mount(c) == Then(sdcConnect(c), AfterConnect)

ClearReady(c) == IF c.drv = "halted" THEN {c} ELSE {[c EXCEPT !.fs = FALSE]}

umount(c) ==
  IF c.fs THEN Then(Then(f_unmount(c), sdcDisconnect), ClearReady) ELSE {c}

(* The opening test of cd, pwd, ls, cat, rm, mkdir, script and file_open,  *)
(* file_create_write and is_file_present: mount on first use.              *)
WithFs(c) == IF c.fs THEN {c} ELSE mount(c)

cmd_sd_umount(c) == umount(c)

(* Nothing disconnects the card after the measurement.                     *)
cmd_sd_test_perf(c) == {c} \cup sdcConnect(c)

(* From the registration on: a failing step unmounts; the full test drops  *)
(* the work area, disconnects, and unmounts all the same.                  *)
EraseFsTest(c) ==
  Then(mount(c), umount)
    \cup Then({m \in mount(c) : m.drv = "ready"},
              LAMBDA m : Then(Then(f_unmount(m), sdcDisconnect), umount))

(* A failing read or write before that unmounts, which does nothing when   *)
(* the file system was not mounted; no buffer or no card ends the command. *)
cmd_sd_erase(c) ==
  {c} \cup Then(sdcConnect(c),
                LAMBDA d : IF d.drv = "ready" THEN umount(d) \cup EraseFsTest(d) ELSE {d})

(* Whatever the console's SD commands and the init script may do.          *)
SdCommand(c) ==
  WithFs(c) \cup cmd_sd_umount(c) \cup cmd_sd_test_perf(c) \cup cmd_sd_erase(c)

-----------------------------------------------------------------------------
(* The raw SDIO modes take the peripheral from the driver ...              *)
TakeFromDriver(c) == Then(sdcDisconnect(c), sdcStop)

(* Fault: the driver is not started again.                                 *)
GiveUnstarted(c) == sdcConnect(c)

(* ... and give it back, on BBIO_RESET only.                               *)
GiveToDriver(c) == Then(sdcStart(c), sdcConnect)
=============================================================================
