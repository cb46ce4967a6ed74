----------------------------- MODULE HostSession ----------------------------
(***************************************************************************)
(* A host tool and the firmware at the two ends of the USB serial line:    *)
(* SPI_flasher/HydraSPI.py and hydra_spiflash_nor_dump.py on one side, the *)
(* console, cmd_bbio and bbio_mode_spi on the other.  The tools open the   *)
(* binary mode with 20 NULs, read without a timeout, drop what has arrived *)
(* and go on; what an earlier run left in the firmware and on the line is  *)
(* still there.  A tool may raise or be killed between any two of its      *)
(* writes, and USB may be lost.  The button is for a board that no tool    *)
(* uses.                                                                   *)
(***************************************************************************)
EXTENDS Console, Sequences

CONSTANTS
  Banner, Id,        (* the bytes "BBIO1" and "SPI1"                       *)
  HostNuls,          (* NULs a tool sends: 20, the firmware's own count    *)
  Bodies,            (* tool -> the commands of each run it can make       *)
  Params,            (* the polarity and clock phase asked for             *)
  Late,              (* bound on the bytes that arrive after a flush       *)
  MaxUnread,         (* bound on what either side leaves unread while the  *)
                     (* sniffer runs                                       *)
  MaxFaults          (* bound on exceptions, kills and losses of USB       *)

Tools == {"HydraSPI", "nor_dump"}
Commands == [tx : Nat, data : Nat, rx : Nat]
Said == {Banner[k] : k \in DOMAIN Banner} \cup {Id[k] : k \in DOMAIN Id} \cup {"ok", "d", "t", "h", "s"}

(* The identification of SPI mode begins with a byte that the board says   *)
(* nowhere else: the S of SPI1.                                            *)
ASSUME SessionAssumption ==
  /\ Banner \in Seq(Said) /\ Id \in Seq(Said) /\ Len(Id) \in 1 .. Len(Banner)
  /\ \A k \in 1 .. Len(Banner) : Banner[k] # Id[1]
  /\ \A k \in 2 .. Len(Id) : Id[k] # Id[1]
  /\ Id[1] \notin {"ok", "d", "t", "h", "s"}
  /\ HostNuls \in Nat /\ HostNuls >= BbioNuls
  /\ DOMAIN Bodies \subseteq Tools /\ \A t \in DOMAIN Bodies : Bodies[t] \subseteq Seq(Commands)
  /\ Params \subseteq [pol : 0 .. 1, pha : 0 .. 1]
  /\ Late \in Nat /\ MaxFaults \in Nat /\ MaxUnread \in Nat

(* What arrives after a flush is less than a banner and an identification: *)
(* old ones that come late, and an answer, would pass for what a tool asks *)
(* for when it enters.                                                     *)
ASSUME LateAssumption == Late < Len(Banner) + Len(Id)

VARIABLES
  toDev, toHost,     (* bytes on their way                                 *)
  fw, spi,           (* menu, spi or sniff; dev_polarity and dev_phase     *)
  need, rx,          (* payload bytes WRITE_READ still waits for; to_rx    *)
  tool, params, body,  (* the run's tool, options and commands             *)
  phase, cmd, pc,    (* off, enter, body or cleanup; its command, its step *)
  result,            (* none, done or failed: how the last run ended       *)
  faults

firmware == <<usb, at, i, nuls, fw, spi, need, rx>>
run == <<tool, params, body>>
host == <<run, phase, cmd, pc, result, faults>>
allVars == <<firmware, host, toDev, toHost>>

Ok == <<"ok">>
Data(n) == [k \in 1 .. n |-> "d"]

-----------------------------------------------------------------------------
(* The firmware's end.                                                     *)
Say(s) == toHost' = toHost \o s
Take(n) == Len(toDev) >= n /\ toDev' = SubSeq(toDev, n + 1, Len(toDev))
AsByte(b) == IF b \in {Nul, SumpByte, SerprogByte, Command} THEN b ELSE Text

(* What the host sends is read by the console's loop; tokenline echoes.    *)
ConsoleReads ==
  /\ usb /\ Take(1)
  /\ LET c == AsByte(Head(toDev)) IN
       \/ c = Nul /\ ReadNul
       \/ c = SumpByte /\ ReadSump
       \/ c = SerprogByte /\ ReadSerprog
       \/ c = Text /\ ReadText
       \/ c = Command /\ ReadSumpCommand
  /\ Say(CASE at' = "bbio" -> Banner
           [] at' = "prompt" /\ Head(toDev) = Nul -> <<>>
           [] OTHER -> <<"t">>)
  /\ UNCHANGED <<fw, spi, need, rx, host>>

(* No byte comes from a lost USB, and get_char makes a NUL of that; what   *)
(* is printed is lost.                                                     *)
DetachedReads == ~usb /\ ReadNul /\ UNCHANGED <<fw, spi, need, rx, host, toDev, toHost>>

(* cmd_bbio's loop.                                                        *)
MenuReads ==
  /\ at = "bbio" /\ fw = "menu" /\ Take(1)
  /\ \/ /\ Head(toDev) = 0 /\ Say(Banner)                 (* BBIO_RESET    *)
        /\ UNCHANGED firmware
     \/ /\ Head(toDev) = 1 /\ Say(Id)                     (* BBIO_SPI      *)
        /\ fw' = "spi" /\ spi' = [pol |-> 0, pha |-> 0]
        /\ UNCHANGED <<usb, at, i, nuls, need, rx>>
     \/ /\ Head(toDev) = 15 /\ Say(<<"h">>)               (* BBIO_RESET_HW *)
        /\ Leave /\ UNCHANGED <<fw, spi, need, rx>>
  /\ UNCHANGED host

(* The bits of a configuration byte.                                       *)
Bit(b, k) == (b \div 2^k) % 2

InSpi == at = "bbio" /\ fw = "spi" /\ need = 0

(* BBIO_SPI_SNIFF_ALL, _CS_LOW and _CS_HIGH.                               *)
Sniffs == 13 .. 15

(* bbio_mode_spi's loop: RESET, the identification, chip select, speed,    *)
(* configuration and the sniffers; a byte that is no command is not        *)
(* answered.  The peripherals are taken to start.                          *)
SpiReads ==
  /\ InSpi /\ toDev # <<>> /\ Head(toDev) # 4 /\ Take(1)
  /\ LET b == Head(toDev) IN
       /\ fw' = CASE b = 0 -> "menu" [] b \in Sniffs -> "sniff" [] OTHER -> "spi"
       /\ spi' = IF b >= 128 THEN [pol |-> Bit(b, 2), pha |-> Bit(b, 1)] ELSE spi
       /\ Say(CASE b = 0 -> Banner
                [] b = 1 -> Id
                [] b \in {2, 3} \cup Sniffs \/ b \in 96 .. 103 \/ b >= 128 -> Ok
                [] OTHER -> <<>>)
  /\ UNCHANGED <<usb, at, i, nuls, need, rx, host>>

(* WRITE_READ takes four bytes of lengths, here two of the same write ...  *)
WriteRead ==
  /\ InSpi /\ toDev # <<>> /\ Head(toDev) = 4 /\ Take(3)
  /\ need' = toDev[2] /\ rx' = toDev[3]
  /\ UNCHANGED <<usb, at, i, nuls, fw, spi, host, toHost>>

(* ... and to_tx bytes, whatever they are, before it answers.              *)
Payload ==
  /\ need > 0 /\ Take(1)
  /\ need' = need - 1
  /\ IF need = 1 THEN Say(Ok \o Data(rx)) ELSE UNCHANGED toHost
  /\ UNCHANGED <<usb, at, i, nuls, fw, spi, rx, host>>

(* bbio_spi_sniff does not read the host while the button is up.  It       *)
(* prints what passes on the bus, escaped: no four bytes of it in a row    *)
(* are an identification, nor five a banner.                               *)
BusTraffic ==
  /\ fw = "sniff" /\ usb /\ Len(toHost) < MaxUnread
  /\ Say(<<"s">>)
  /\ UNCHANGED <<firmware, host, toDev>>

(* SUMP and serprog take the NULs of a tool without a word.                *)
OtherReads == at \in {"sump", "serprog"} /\ Take(1) /\ UNCHANGED <<firmware, host, toHost>>

(* main starts the console.                                                *)
SpawnConsole == Spawn /\ UNCHANGED <<fw, spi, need, rx, host, toDev, toHost>>

Device ==
  \/ SpawnConsole \/ ConsoleReads \/ DetachedReads \/ MenuReads
  \/ SpiReads \/ WriteRead \/ Payload \/ OtherReads

-----------------------------------------------------------------------------
(* The tools' end: a run is a sequence of writes and reads.                *)
W(b) == [do |-> "write", bytes |-> b]
R(want) == [do |-> "read", want |-> want]
Reset == [do |-> "flush"]

(* Fault: the configuration's answer is not read.                          *)
EnterUnread(t, p) ==
  [k \in 1 .. HostNuls |-> W(<<0>>)] \o <<R(Banner), Reset, W(<<1>>), R(Id), W(<<129>>)>>

(* Fault: one NUL too few.                                                 *)
EnterShort(t, p) ==
  [k \in 1 .. (HostNuls - 1) |-> W(<<0>>)] \o <<R(Banner), Reset, W(<<1>>), R(Id), W(<<129>>), R(Ok)>>

(* __enter__ and setup; the byte of the configuration is the tool's.       *)
Configuration(t, p) == IF t = "HydraSPI" THEN 128 + 8 * p.pol + 4 * p.pha + 1 ELSE 129

Switch(t, p) == <<R(Banner), Reset, W(<<1>>), R(Id), W(<<Configuration(t, p)>>), R(Ok)>>
EnterMode(t, p) ==
  [k \in 1 .. HostNuls |-> W(<<0>>)]
  \o IF t = "HydraSPI" THEN Switch(t, p) \o <<W(<<102>>), R(Ok), W(<<2>>), R(Ok)>> ELSE Switch(t, p)

Ones(n) == [k \in 1 .. n |-> 255]
Lengths(c) == <<4, c.tx + c.data, c.rx>>

(* Fault: the answer's first byte is asked for twice.                      *)
ReadTwice(c) == <<W(Lengths(c)), W(Ones(c.tx)), W(Ones(c.data)), R(Ok), R(Ok)>>

(* A command: its lengths, its payload in one or two writes, the answer. A *)
(* write or read of nothing is one that this command does not make.        *)
WriteThenRead(c) == <<W(Lengths(c)), W(Ones(c.tx)), W(Ones(c.data)), R(Ok), R(Data(c.rx))>>

(* The command without a payload is nor_dump's choice of the speed.        *)
Exchange(c) == IF c.tx = 0 THEN <<W(<<96>>), R(Ok)>> ELSE WriteThenRead(c)

(* Fault: only the mode is left.                                           *)
LeaveMode(t) == <<W(<<0>>)>>

(* Fault: BBIO_RESET_HW is sent to the mode instead of to the dispatcher.  *)
CleanupSwapped(t) == <<W(<<15>>), W(<<0>>)>>

Cleanup(t) == <<W(<<0>>), W(IF t = "HydraSPI" THEN <<15>> ELSE <<15, 10>>)>>

(* nor_dump cleans up after its dump and again at the end of __init__.     *)
Leaving(t, b) == IF t = "nor_dump" /\ Len(b) > 1 THEN Cleanup(t) \o Cleanup(t) ELSE Cleanup(t)

(* The steps of the phase, and the one that comes next.                    *)
Steps ==
  CASE phase = "enter" -> EnterMode(tool, params)
    [] phase = "body" /\ cmd <= Len(body) -> Exchange(body[cmd])
    [] phase = "cleanup" -> IF result = "failed" THEN Cleanup(tool) ELSE Leaving(tool, body)
    [] OTHER -> <<>>
Now == Steps[pc]
AtStep(do) == phase # "off" /\ pc <= Len(Steps) /\ Now.do = do

-----------------------------------------------------------------------------
Off(r) == phase' = "off" /\ cmd' = 1 /\ pc' = 1 /\ result' = r
GiveUp == phase' = "cleanup" /\ cmd' = 1 /\ pc' = 1 /\ result' = "failed"

(* What has arrived is dropped: by reset_input_buffer, and by              *)
(* serial.Serial when it opens the port.                                   *)
Flushed == \E k \in 0 .. Len(toHost) :
  k + Late >= Len(toHost) /\ toHost' = SubSeq(toHost, k + 1, Len(toHost))

(* Nobody starts a tool so fast that the board has not read what the last  *)
(* one sent, unless it does not read at all.                               *)
Open ==
  /\ phase = "off" /\ usb
  /\ toDev = <<>> \/ (fw = "sniff" /\ Len(toDev) < MaxUnread)
  /\ tool' \in DOMAIN Bodies /\ params' \in Params /\ body' \in Bodies[tool']
  /\ phase' = "enter" /\ cmd' = 1 /\ pc' = 1 /\ result' = "none" /\ Flushed
  /\ UNCHANGED <<firmware, faults, toDev>>

Onward == pc' = pc + 1 /\ UNCHANGED <<phase, cmd, result>>

Write ==
  /\ AtStep("write")
  /\ toDev' = toDev \o Now.bytes /\ Onward
  /\ UNCHANGED <<firmware, run, faults, toHost>>

Flush ==
  /\ AtStep("flush")
  /\ Flushed /\ Onward
  /\ UNCHANGED <<firmware, run, faults, toDev>>

(* read blocks until everything it wants is there. error cleans up at any  *)
(* time, __exit__ only once __enter__ has returned.                        *)
Read ==
  /\ AtStep("read")
  /\ LET n == Len(Now.want) IN
       /\ Len(toHost) >= n
       /\ toHost' = SubSeq(toHost, n + 1, Len(toHost))
       /\ \/ SubSeq(toHost, 1, n) = Now.want /\ Onward
          \/ /\ SubSeq(toHost, 1, n) # Now.want
             /\ IF tool = "nor_dump" \/ phase = "body" THEN GiveUp ELSE Off("failed")
  /\ UNCHANGED <<firmware, run, faults, toDev>>

(* Entered, on to the next command, done, or gone.                         *)
NextPhase ==
  /\ phase # "off" /\ pc > Len(Steps)
  /\ \/ phase = "enter" /\ phase' = "body" /\ cmd' = 1 /\ pc' = 1 /\ UNCHANGED result
     \/ phase = "body" /\ cmd <= Len(body) /\ cmd' = cmd + 1 /\ pc' = 1 /\ UNCHANGED <<phase, result>>
     \/ phase = "body" /\ cmd > Len(body) /\ phase' = "cleanup" /\ cmd' = 1 /\ pc' = 1 /\ UNCHANGED result
     \/ phase = "cleanup" /\ Off(IF result = "none" THEN "done" ELSE result)
  /\ UNCHANGED <<firmware, run, faults, toDev, toHost>>

HostStep == Write \/ Flush \/ Read \/ NextPhase

(* Nothing is under way that the firmware would read.                      *)
NothingUnderWay == toDev = <<>> \/ fw = "sniff"

(* A read that waits for what no byte under way will bring.                *)
Hangs == AtStep("read") /\ Len(toHost) < Len(Now.want) /\ NothingUnderWay

(* An exception between two steps: an address that does not fit, or the    *)
(* Ctrl-C of a user, who may tire of a hanging tool as often as there is   *)
(* one.  Only HydraSPI's with statement still cleans up.                   *)
Raise ==
  /\ phase # "off"
  /\ \/ Hangs /\ UNCHANGED faults
     \/ faults < MaxFaults /\ faults' = faults + 1
  /\ IF tool = "HydraSPI" /\ phase = "body" THEN GiveUp ELSE Off("failed")
  /\ UNCHANGED <<firmware, run, toDev, toHost>>

(* The process is killed.                                                  *)
Kill ==
  /\ phase = "body" /\ tool = "HydraSPI" /\ faults < MaxFaults /\ faults' = faults + 1
  /\ Off("failed") /\ UNCHANGED <<firmware, run, toDev, toHost>>

-----------------------------------------------------------------------------
(* USB: both queues are emptied, a tool's next call raises, and a payload  *)
(* that is cut short is used as it is.                                     *)
UsbEvent ==
  /\ Usb
  /\ \/ phase = "off" /\ UNCHANGED faults
     \/ phase # "off" /\ faults < MaxFaults /\ faults' = faults + 1
  /\ Off("none")
  /\ toDev' = <<>> /\ toHost' = <<>> /\ need' = 0
  /\ UNCHANGED <<fw, spi, rx, run>>

(* Someone at a terminal, or another tool, sends a byte to the prompt and  *)
(* has read what the board said.                                           *)
Types ==
  /\ phase = "off" /\ usb /\ at = "prompt" /\ toDev = <<>>
  /\ \E c \in Bytes : toDev' = <<c>>
  /\ result' = "none" /\ toHost' = <<>>
  /\ UNCHANGED <<firmware, run, phase, cmd, pc, faults>>

(* The button, where the firmware reads commands.                          *)
Button ==
  /\ phase = "off" /\ need = 0 /\ fw # "sniff" /\ Leave
  /\ fw' = "menu" /\ result' = "none"
  /\ UNCHANGED <<spi, need, rx, run, phase, cmd, pc, faults, toDev, toHost>>

(* In the sniffer it makes the firmware read and drop what the host sent;  *)
(* the sniffer ends when nothing is left of it, and so does the mode if    *)
(* the button is still down.                                               *)
ButtonInSniffer ==
  /\ phase = "off" /\ fw = "sniff" /\ result' = "none"
  /\ \/ /\ \E k \in 1 .. Len(toDev) : toDev' = SubSeq(toDev, k + 1, Len(toDev))
        /\ UNCHANGED <<usb, at, i, nuls, fw>>
     \/ toDev' = <<>> /\ fw' = "spi" /\ UNCHANGED <<usb, at, i, nuls>>
     \/ toDev' = <<>> /\ fw' = "menu" /\ Leave
  /\ UNCHANGED <<spi, need, rx, run, phase, cmd, pc, faults, toHost>>

SessionInit ==
  /\ Init
  /\ toDev = <<>> /\ toHost = <<>> /\ fw = "menu" /\ spi = [pol |-> 0, pha |-> 0] /\ need = 0 /\ rx = 0
  /\ tool = "HydraSPI" /\ params = [pol |-> 0, pha |-> 0] /\ body = <<>>
  /\ phase = "off" /\ cmd = 1 /\ pc = 1 /\ result = "none" /\ faults = 0

SessionNext ==
  \/ Device \/ BusTraffic \/ Open \/ HostStep \/ Raise \/ Kill
  \/ UsbEvent \/ Types \/ Button \/ ButtonInSniffer

(* The console and the mode read what is there, and a tool goes on.        *)
SessionSpec == SessionInit /\ [][SessionNext]_allVars /\ WF_allVars(Device) /\ WF_allVars(HostStep)

-----------------------------------------------------------------------------
(* Once a tool has entered, each of its commands meets a firmware that     *)
(* waits for a command in SPI mode and a line with nothing on it, whatever *)
(* was left by earlier runs: no stale banner or answer gets past the       *)
(* checks of __enter__ and setup.                                          *)
SessionInStep ==
  phase = "body" /\ (pc = 1 \/ pc > Len(Steps)) => InSpi /\ toDev = <<>> /\ toHost = <<>>

(* A tool hangs only before it has entered, when the firmware took all of  *)
(* its NULs for the payload of a command that an earlier run began (so it  *)
(* is still in SPI mode), runs the SPI sniffer and reads none of them, or  *)
(* is in SUMP or serprog.                                                  *)
HangsOnlyInMode ==
  usb /\ at # "none" /\ Hangs
    => phase = "enter" /\ (fw \in {"spi", "sniff"} \/ at \in {"sump", "serprog"})

(* The sniffer, in which every tool hangs until somebody presses the       *)
(* button, is started by nothing but the clean-up of a run that failed in  *)
(* the middle of a command: its 0 is taken for the payload, and its 15 is  *)
(* then no BBIO_RESET_HW.                                                  *)
SnifferAfterFailure == [][fw # "sniff" /\ fw' = "sniff" => result = "failed"]_allVars

(* A run that says it is done has left the board at its prompt, with the   *)
(* count of NULs at 0.                                                     *)
BackAtPrompt == phase = "off" /\ result = "done" /\ toDev = <<>> => at = "prompt" /\ i = 0

(* A run that starts at a fresh prompt, on a line with nothing on it, and  *)
(* is not disturbed, is done.                                              *)
FreshRunSucceeds ==
  (/\ phase = "enter" /\ pc = 1 /\ faults = MaxFaults
   /\ at = "prompt" /\ i = 0 /\ toDev = <<>> /\ toHost = <<>>) ~> result = "done"

(* "SPI polarity" and "SPI clock phase": what the tool was asked for is    *)
(* what the port is set to.                                                *)
ConfigHonoured == phase = "body" /\ tool = "HydraSPI" => spi = params
=============================================================================
