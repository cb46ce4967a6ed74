----------------------------- MODULE BinaryModes ----------------------------
(***************************************************************************)
(* The binary modes of the console thread: cmd_bbio (hydrabus_bbio.c), the *)
(* modes it enters, and SUMP and SERPROG, entered from the console.  Each  *)
(* takes its buffers from the pool and its peripheral from the board, then *)
(* loops on a command byte until BBIO_RESET or the user button, which is   *)
(* looked at between commands only.  The pool is PoolAlloc, the SD card    *)
(* SdCard.  One action per statement that touches the pool, and one for    *)
(* the rest of a handler between two looks at the button.                  *)
(***************************************************************************)
EXTENDS Integers, FiniteSets, SdCard

CONSTANTS
  PoolBlockNumber,   (* blocks of the pool                                 *)
  BlockSize,         (* bytes per block                                    *)
  Modes              (* the modes compiled in (NFC under #ifdef HYDRANFC)  *)

PairModes == {"spi", "i2c", "flash", "smartcard", "mmc", "sdio", "serprog"}
SingleModes == {"openocd", "sump", "nfc"}
BareModes == {"uart", "onewire", "rawwire", "pin"}
FromConsole == {"sump", "serprog"}
CardModes == {"mmc", "sdio"}

ASSUME ModesAssumption == Modes \subseteq PairModes \cup SingleModes \cup BareModes

PairBytes == 4096

SingleBytes == [m \in SingleModes |->
  CASE m = "openocd" -> 8192 [] m = "sump" -> 32768 [] m = "nfc" -> 256]

Requests ==
  (IF Modes \cap PairModes = {} THEN {} ELSE {PairBytes})
    \cup {SingleBytes[m] : m \in Modes \cap SingleModes}

VARIABLES
  blocks, blocks_used, held, asked, ret,   (* the pool: see PoolAlloc      *)
  mode,              (* the function that runs                             *)
  at,                (* where in it                                        *)
  tx, rx,            (* its buffers                                        *)
  leaving,           (* how the last session ended or is ending            *)
  hw,                (* on: initialised peripherals, dev: dev_num, card    *)
  button,            (* the user button is pressed                         *)
  before,            (* held when the session began (history)              *)
  sniffed            (* the session ran a sniffer (history)                *)

pool == <<blocks, blocks_used, held, asked, ret>>
vars == <<pool, mode, at, tx, rx, leaving, hw, button, before, sniffed>>

P == INSTANCE PoolAlloc

(* alloc.c's limits on the pool, for what the modes ask of it.             *)
ASSUME RequestsAssumption == P!PoolAssumption

Null == P!Null

Peripherals ==
  {"SPI1", "SPI2", "I2C", "I2CSLAVE", "UART", "SMARTCARD", "SDIO", "TIM", "NFC"}

(* The peripherals a mode may initialise.                                  *)
Own(m) ==
  CASE m \in {"spi", "serprog"}  -> {"SPI1", "SPI2"}
    [] m = "i2c"                 -> {"I2C", "I2CSLAVE"}
    [] m = "uart"                -> {"UART"}
    [] m = "smartcard"           -> {"SMARTCARD"}
    [] m \in CardModes           -> {"SDIO"}
    [] m \in {"rawwire", "openocd", "sump"} -> {"TIM"}
    [] m = "nfc"                 -> {"NFC"}
    [] OTHER                     -> {}

SetOn(h, S) == [h EXCEPT !.on = @ \cup S]
SetOff(h, S) == [h EXCEPT !.on = @ \ S]

(* What a mode does to the board between its allocation and its loop.      *)
Begin(m, h) ==
  CASE m = "spi"      -> {SetOn([h EXCEPT !.dev = "SPI1"], {"SPI1"})}
    [] m = "serprog"  -> {[h EXCEPT !.dev = "SPI2"]}
    [] m \in CardModes ->
         {IF c.drv = "halted" THEN [h EXCEPT !.card = c]
            ELSE SetOn([h EXCEPT !.card = c], {"SDIO"}) : c \in TakeFromDriver(h.card)}
    [] m = "i2c"      -> {SetOn(h, {"I2C"})}
    [] m = "openocd"  -> {h}
    [] OTHER          -> {SetOn(h, Own(m))}

(* Fault: the old device stays on.                                         *)
SpiConfigKeepsOld(h) == {SetOn([h EXCEPT !.dev = d], {d}) : d \in {"SPI1", "SPI2"}}

(* CONFIG turns the old device off when it chooses the other one.          *)
SpiConfig(h) ==
  {SetOn([SetOff(h, {h.dev}) EXCEPT !.dev = d], {d}) : d \in {"SPI1", "SPI2"}}

(* What a command of a mode does to the board: SPI chooses its device,     *)
(* SERPROG turns its drivers on and off and a flash dump opens a file on   *)
(* the card.  The others at most initialise again what is on.              *)
Command(m, h) ==
  {h} \cup
  CASE m = "spi"     -> SpiConfig(h)
    [] m = "serprog" -> {SetOn(h, {h.dev}), SetOff(h, {h.dev})}
    [] m = "flash"   -> {[h EXCEPT !.card = c] : c \in WithFs(h.card)}
    [] OTHER         -> {h}

SniffBegin(m, h) ==
  IF m = "spi" THEN SetOn(h, {"SPI1", "SPI2"})
    ELSE SetOn(SetOff(h, {"I2C"}), {"I2CSLAVE"})

(* The SPI sniffer ends on SPI1 whatever device the session had chosen.    *)
SniffEnd(m, h) ==
  IF m = "spi" THEN SetOff(SetOn(h, {"SPI1"}), {"SPI2"})
    ELSE SetOn(SetOff(h, {"I2CSLAVE"}), {"I2C"})

(* Fault: the driver gets the card back with the raw peripheral still on.  *)
ReturnCardOn(h) == {[h EXCEPT !.card = c] : c \in GiveToDriver(h.card)}

ReturnCard(h) == {[SetOff(h, {"SDIO"}) EXCEPT !.card = c] : c \in GiveToDriver(h.card)}

(* The end of a session.  On the button the card modes and NFC release     *)
(* nothing and UART keeps its peripheral; OpenOCD never stops its timer.   *)
Leave(m, why, h) ==
  IF why = "nomem" THEN {h}
  ELSE CASE m \in {"spi", "serprog"}  -> {SetOff(h, {h.dev})}
         [] m \in CardModes           -> IF why = "reset" THEN ReturnCard(h) ELSE {h}
         [] m \in {"uart", "nfc"}     -> {IF why = "reset" THEN SetOff(h, Own(m)) ELSE h}
         [] m = "openocd"             -> {h}
         [] OTHER                     -> {SetOff(h, Own(m))}

-----------------------------------------------------------------------------
Init ==
  /\ P!pool_init
  /\ mode = "console" /\ at = "idle"
  /\ tx = Null /\ rx = Null /\ leaving = "none"
  /\ hw = [on |-> {}, dev |-> "SPI1",
           card |-> [drv |-> "active", fs |-> FALSE, area |-> FALSE]]
  /\ button = FALSE
  /\ before = {} /\ sniffed = FALSE

Parent(m) == IF m \in FromConsole THEN "console" ELSE "bbio"

Running == hw.card.drv # "halted"

(* The user presses or releases the button at any time.                    *)
Button ==
  /\ button' = ~button
  /\ UNCHANGED <<pool, mode, at, tx, rx, leaving, hw, before, sniffed>>

(* A text command that uses the SD card.                                   *)
SdText ==
  /\ Running /\ mode = "console"
  /\ \E c \in SdCommand(hw.card) : hw' = [hw EXCEPT !.card = c]
  /\ UNCHANGED <<pool, mode, at, tx, rx, leaving, button, before, sniffed>>

EnterBbio ==
  /\ Running /\ mode = "console"
  /\ mode' = "bbio" /\ at' = "test"
  /\ UNCHANGED <<pool, tx, rx, leaving, hw, button, before, sniffed>>

(* BBIO_RESET_HW ends the dispatcher.                                      *)
LeaveBbio ==
  /\ Running /\ mode = "bbio" /\ at = "read"
  /\ mode' = "console" /\ at' = "idle"
  /\ UNCHANGED <<pool, tx, rx, leaving, hw, button, before, sniffed>>

(* A mode byte (or a SUMP or SERPROG identification) enters its mode;      *)
(* jtag_enter_openocd starts its timer before it asks for the buffer.      *)
Enter(m) ==
  /\ Running /\ mode = Parent(m)
  /\ at = IF mode = "bbio" THEN "read" ELSE "idle"
  /\ mode' = m
  /\ at' = IF m \in PairModes THEN "alloc_tx"
            ELSE IF m \in SingleModes THEN "alloc_rx" ELSE "begin"
  /\ hw' = IF m = "openocd" THEN SetOn(hw, {"TIM"}) ELSE hw
  /\ leaving' = "none" /\ before' = held /\ sniffed' = FALSE
  /\ UNCHANGED <<pool, tx, rx, button>>

AllocTx ==
  /\ Running /\ at = "alloc_tx"
  /\ P!pool_alloc_bytes(PairBytes)
  /\ tx' = ret' /\ at' = "alloc_rx"
  /\ UNCHANGED <<mode, rx, leaving, hw, button, before, sniffed>>

(* The NFC reader does not look at what it was given.                      *)
AllocRx ==
  /\ Running /\ at = "alloc_rx"
  /\ P!pool_alloc_bytes(IF mode \in PairModes THEN PairBytes ELSE SingleBytes[mode])
  /\ rx' = ret'
  /\ at' = IF mode = "nfc" THEN "begin" ELSE "check"
  /\ UNCHANGED <<mode, tx, leaving, hw, button, before, sniffed>>

(* Fault: the pair is refused only when both buffers are missing.          *)
RefusedBoth == IF mode \in PairModes THEN tx = Null /\ rx = Null ELSE rx = Null

Refused == IF mode \in PairModes THEN tx = Null \/ rx = Null ELSE rx = Null

(* A pair of which one is missing is freed as it is; a single buffer that  *)
(* is missing leaves nothing to free.                                      *)
CheckBuffers ==
  /\ Running /\ at = "check"
  /\ IF Refused
       THEN leaving' = "nomem" /\ at' = IF mode \in PairModes THEN "free_tx" ELSE "leave"
       ELSE at' = "begin" /\ UNCHANGED leaving
  /\ UNCHANGED <<pool, mode, tx, rx, hw, button, before, sniffed>>

BeginMode ==
  /\ Running /\ at = "begin"
  /\ hw' \in Begin(mode, hw)
  /\ at' = "test"
  /\ UNCHANGED <<pool, mode, tx, rx, leaving, button, before, sniffed>>

(* Fault: only one buffer of a pair is freed.                              *)
FirstExitSkipsTx(why) ==
  IF mode \in PairModes \cup SingleModes THEN "free_rx" ELSE "leave"

(* Where the end of a session starts.  The NFC reader frees its buffer on  *)
(* BBIO_RESET and forgets it on the button.                                *)
FirstExit(why) ==
  CASE mode \in PairModes -> "free_tx"
    [] mode = "nfc"       -> IF why = "reset" THEN "free_rx" ELSE "leave"
    [] mode \in SingleModes \ {"nfc"} -> "free_rx"
    [] OTHER              -> "leave"

(* Fault: OpenOCD does not look at the button.                             *)
ButtonEndsExceptOpenOcd == button /\ mode \notin {"pin", "openocd"}

(* while (!hydrabus_ubtn()); the PIN mode loops for ever.                  *)
ButtonEnds == button /\ mode # "pin"

TestButton ==
  /\ Running /\ at = "test"
  /\ IF ButtonEnds
       THEN IF mode = "bbio"
              THEN mode' = "console" /\ at' = "idle" /\ UNCHANGED leaving
              ELSE mode' = mode /\ leaving' = "button" /\ at' = FirstExit("button")
       ELSE mode' = mode /\ at' = "read" /\ UNCHANGED leaving
  /\ UNCHANGED <<pool, tx, rx, hw, button, before, sniffed>>

ResetModes == (Modes \ {"serprog", "openocd", "sump"})

(* BBIO_RESET returns without another look at the button.                  *)
Reset ==
  /\ Running /\ at = "read" /\ mode \in ResetModes
  /\ leaving' = "reset" /\ at' = FirstExit("reset")
  /\ UNCHANGED <<pool, mode, tx, rx, hw, button, before, sniffed>>

(* Any other command, or a read that returned nothing: chnReadTimeout in   *)
(* OpenOCD and SUMP, a detached host in the others.  In OpenOCD these are  *)
(* the commands without parameters.                                        *)
OtherCommand ==
  /\ Running /\ at = "read"
  /\ hw' \in Command(mode, hw)
  /\ at' = "test"
  /\ UNCHANGED <<pool, mode, tx, rx, leaving, button, before, sniffed>>

(* The commands that wait by themselves: the sniffers and the UART bridge  *)
(* for the button, a SUMP capture for its trigger, and those of OpenOCD    *)
(* that have parameters for the host to send them, without a timeout.      *)
Wait ==
  /\ Running /\ at = "read"
  /\ mode \in {"spi", "i2c", "uart", "sump", "openocd"}
  /\ at' = "wait"
  /\ hw' = IF mode \in {"spi", "i2c"} THEN SniffBegin(mode, hw) ELSE hw
  /\ UNCHANGED <<pool, mode, tx, rx, leaving, button, before, sniffed>>

EndWait ==
  /\ Running /\ at = "wait"
  /\ mode \notin {"sump", "openocd"} => button
  /\ at' = "test"
  /\ IF mode \in {"spi", "i2c"}
       THEN hw' = SniffEnd(mode, hw) /\ sniffed' = TRUE
       ELSE UNCHANGED <<hw, sniffed>>
  /\ UNCHANGED <<pool, mode, tx, rx, leaving, button, before>>

(* A session whose SPI sniffer could not be initialised goes on at once.   *)
SniffRefused ==
  /\ Running /\ at = "read" /\ mode = "spi"
  /\ hw' = SniffEnd(mode, SniffBegin(mode, hw))
  /\ sniffed' = TRUE /\ at' = "test"
  /\ UNCHANGED <<pool, mode, tx, rx, leaving, button, before>>

FreeTx ==
  /\ Running /\ at = "free_tx"
  /\ P!pool_free(tx)
  /\ at' = "free_rx"
  /\ UNCHANGED <<mode, tx, rx, leaving, hw, button, before, sniffed>>

FreeRx ==
  /\ Running /\ at = "free_rx"
  /\ P!pool_free(rx)
  /\ at' = "leave"
  /\ UNCHANGED <<mode, tx, rx, leaving, hw, button, before, sniffed>>

Return ==
  /\ Running /\ at = "leave"
  /\ hw' \in Leave(mode, leaving, hw)
  /\ mode' = Parent(mode)
  /\ at' = IF Parent(mode) = "bbio" THEN "test" ELSE "idle"
  /\ tx' = Null /\ rx' = Null
  /\ UNCHANGED <<pool, leaving, button, before, sniffed>>

Next ==
  \/ Button
  \/ SdText \/ EnterBbio \/ LeaveBbio
  \/ \E m \in Modes : Enter(m)
  \/ AllocTx \/ AllocRx \/ CheckBuffers \/ BeginMode
  \/ TestButton \/ Reset \/ OtherCommand
  \/ Wait \/ EndWait \/ SniffRefused
  \/ FreeTx \/ FreeRx \/ Return

(* A step that waits for nobody: OpenOCD reads its command byte with a     *)
(* timeout of one tick, the UART bridge reads with one of 100 us.  Nobody  *)
(* has to send what OpenOCD waits for after such a byte.                   *)
Polling ==
  \/ AllocTx \/ AllocRx \/ CheckBuffers \/ BeginMode
  \/ TestButton \/ FreeRx \/ FreeTx \/ Return
  \/ mode = "openocd" /\ OtherCommand
  \/ mode = "uart" /\ EndWait

Spec == Init /\ [][Next]_vars /\ WF_vars(Polling)

-----------------------------------------------------------------------------
AtRest == mode \in {"console", "bbio"}

(* A session ends with the pool it found: whatever allocation failed and   *)
(* however it was left, every mode gives back what it took and nothing     *)
(* else.  The NFC reader left by the button is the one that does not.      *)
SessionGivesBack ==
  [][at = "leave" /\ AtRest' /\ ~(mode = "nfc" /\ leaving = "button")
       => held' = before]_vars

(* A mode of two buffers works on two live ones, each large enough for the *)
(* longest transfer its protocol can ask for.                              *)
BuffersUsable ==
  mode \in PairModes /\ at \in {"begin", "test", "read", "wait"} =>
    /\ {tx, rx} \subseteq held /\ tx # rx
    /\ \A b \in {tx, rx} : blocks[b] * BlockSize >= PairBytes

(* The SDIO peripheral has one owner: a raw mode drives it exactly while   *)
(* the SDC driver is stopped.                                              *)
SdioOneOwner == Running => ("SDIO" \in hw.on <=> hw.card.drv = "stop")

(* No command sequence runs into an assertion of the SDC driver, but for   *)
(* one that left a raw card mode by the button before.                     *)
HaltOnlyAfterButton == ~Running => "SDIO" \in hw.on

(* A session that BBIO_RESET ends leaves none of its peripherals on,       *)
(* whatever devices it switched between; the SPI sniffer is excepted, that *)
(* ends on a device the session may not have chosen.                       *)
ResetReleases ==
  [][at = "leave" /\ AtRest' /\ leaving = "reset" /\ ~(mode = "spi" /\ sniffed)
       => Own(mode) \cap hw'.on = {}]_vars

(* OpenOCD has taken a command's byte and waits for its parameters.        *)
HalfACommand == mode = "openocd" /\ at = "wait"

(* Whoever presses the button in OpenOCD or in the UART bridge and holds   *)
(* it gets out: they wait for the host with a timeout only.  What keeps    *)
(* OpenOCD is half a command, of a host that died after its first byte: it *)
(* is then deaf to the button for as long as no host sends the rest.       *)
PollersHonourButton ==
  (button /\ ((mode = "openocd" /\ ~HalfACommand) \/ (mode = "uart" /\ at = "wait")))
    ~> (~button \/ AtRest \/ HalfACommand)
=============================================================================
