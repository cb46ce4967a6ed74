-------------------------- MODULE BinaryModesProofs -------------------------
(***************************************************************************)
(* The sessions of the binary modes for every set of modes and every pool  *)
(* large enough to be asked: who owns the SDIO peripheral, what a session  *)
(* gives back and which of its peripherals it leaves on.                   *)
(***************************************************************************)
EXTENDS BinaryModes, TLAPS

(* What is proved of the pool, about the pool that the sessions share.     *)
PP == INSTANCE PoolAllocProofs

-----------------------------------------------------------------------------
(* The inductive invariant, part by part.                                  *)
Working == {"begin", "test", "read", "wait"}
Ending == {"free_tx", "free_rx", "leave"}

(* Where in a mode the console thread can be, and why it is leaving.       *)
Control ==
  /\ mode \in {"console", "bbio"} \cup Modes
  /\ mode = "console" => at = "idle"
  /\ mode = "bbio" => at \in {"test", "read"}
  /\ mode \in Modes =>
       /\ at \in {"alloc_tx", "alloc_rx", "check"} \cup Working \cup Ending
       /\ at \in {"alloc_tx", "free_tx"} => mode \in PairModes
       /\ at \in {"alloc_rx", "check", "free_rx"} => mode \in PairModes \cup SingleModes
       /\ at = "wait" => mode \in {"spi", "i2c", "uart", "sump", "openocd"}
       /\ at \in Ending => leaving \in {"nomem", "button", "reset"}
       /\ at \in Ending /\ leaving = "reset" => mode \in ResetModes
       /\ at = "free_rx" /\ mode = "nfc" => leaving = "reset"

(* The session has begun: its peripherals are its own.                     *)
Begun ==
  /\ mode \in Modes
  /\ at \in {"test", "read", "wait"} \/ (at \in Ending /\ leaving # "nomem")

(* The card modes hold the card while they are begun; the second SPI       *)
(* device is on only under a session that has chosen it, or a sniffer.     *)
Board ==
  /\ hw \in [on : SUBSET Peripherals, dev : {"SPI1", "SPI2"}, card : Cards]
  /\ SdioOneOwner
  /\ HaltOnlyAfterButton
  /\ Running /\ Begun /\ mode \in CardModes => hw.card.drv = "stop"
  /\ "SPI2" \in hw.on =>
       Begun /\ mode \in {"spi", "serprog"} /\ (at # "wait" => hw.dev = "SPI2")
  /\ "SPI1" \in hw.on /\ Begun /\ mode = "spi" /\ ~sniffed /\ at # "wait" =>
       hw.dev = "SPI1"

(* The buffers that the session has taken and not yet given back.          *)
LiveTx ==
  IF at \in {"alloc_rx", "check", "free_tx"} \cup Working THEN {tx} \ {Null} ELSE {}

LiveRx ==
  IF \/ at \in {"check", "free_tx", "free_rx"} \cup Working
     \/ at = "leave" /\ mode = "nfc" /\ leaving = "button"
    THEN {rx} \ {Null} ELSE {}

(* The pool holds what it held before the session and the live buffers.    *)
Buffers ==
  /\ AtRest => tx = Null /\ rx = Null
  /\ mode \in Modes =>
       /\ mode \notin PairModes => tx = Null
       /\ mode \in BareModes => rx = Null
       /\ at = "alloc_tx" => tx = Null
       /\ at \in {"alloc_tx", "alloc_rx"} => rx = Null
       /\ held = before \cup LiveTx \cup LiveRx
       /\ LiveTx \cap before = {}
       /\ LiveRx \cap (before \cup LiveTx) = {}
       /\ mode \in PairModes =>
            /\ \A b \in LiveTx \cup LiveRx : blocks[b] * BlockSize >= PairBytes
            /\ at \in Working => tx # Null /\ rx # Null

IInv == PP!IInv /\ Control /\ Board /\ Buffers

-----------------------------------------------------------------------------
(* The card is with the driver, or taken from it (for good once halted).   *)
Attached == {c \in Cards : c.drv \in {"active", "ready"}}
Taken == {c \in Cards : c.drv \in {"stop", "halted"}}

(* A started driver stays started in these calls and a stopped one can     *)
(* only halt: the calls assert what they need, and mount connects before   *)
(* it asks for the result (microsd.c).                                     *)
LEMMA DriverCalls ==
  ASSUME NEW c \in Cards
  PROVE  /\ c \in Attached \cup Taken
         /\ c \in Attached => sdcConnect(c) \subseteq Attached /\ sdcDisconnect(c) \subseteq Attached
         /\ c \in Taken => sdcConnect(c) \subseteq Taken /\ sdcDisconnect(c) \subseteq Taken
         /\ \A K \in {Attached, Taken} : c \in K =>
              /\ f_mount(c) \subseteq K /\ f_unmount(c) \subseteq K
              /\ SetReady(c) \subseteq K /\ ClearReady(c) \subseteq K
<1>1. c \in Attached \cup Taken
  BY DEF Attached, Taken, Cards
<1>2. c \in Attached => sdcConnect(c) \subseteq Attached /\ sdcDisconnect(c) \subseteq Attached
  BY DEF Attached, Cards, sdcConnect, sdcDisconnect, Requires, Halt
<1>3. c \in Taken => sdcConnect(c) \subseteq Taken /\ sdcDisconnect(c) \subseteq Taken
  BY DEF Taken, Cards, sdcConnect, sdcDisconnect, Requires, Halt
<1>4. ASSUME NEW K \in {Attached, Taken}, c \in K
      PROVE  /\ f_mount(c) \subseteq K /\ f_unmount(c) \subseteq K
             /\ SetReady(c) \subseteq K /\ ClearReady(c) \subseteq K
  BY <1>4 DEF Attached, Taken, Cards, f_mount, f_unmount, SetReady, ClearReady
<1>5. QED
  BY <1>1, <1>2, <1>3, <1>4

(* The calls of microsd.c leave the card on the side they found it on.     *)
LEMMA SidesKept ==
  ASSUME NEW K \in {Attached, Taken}, NEW c \in K
  PROVE  WithFs(c) \subseteq K /\ SdCommand(c) \subseteq K
<1>1. \A d \in K : /\ d \in Cards
                   /\ sdcConnect(d) \subseteq K /\ sdcDisconnect(d) \subseteq K
                   /\ f_mount(d) \subseteq K /\ f_unmount(d) \subseteq K
                   /\ SetReady(d) \subseteq K /\ ClearReady(d) \subseteq K
  <2>1. K \subseteq Cards
    BY DEF Attached, Taken
  <2>2. QED
    BY <2>1, DriverCalls
<1>2. \A d \in K : AfterConnect(d) \subseteq K
  BY <1>1 DEF AfterConnect, Then
<1>3. \A d \in K : mount(d) \subseteq K
  BY <1>1, <1>2 DEF mount, Then
<1>4. \A d \in K : umount(d) \subseteq K
  BY <1>1 DEF umount, Then
<1>5. \A d \in K : EraseFsTest(d) \subseteq K
  <2>1. SUFFICES ASSUME NEW d \in K PROVE EraseFsTest(d) \subseteq K
    OBVIOUS
  <2>2. Then(mount(d), umount) \subseteq K
    BY <1>3, <1>4 DEF Then
  <2>3. \A m \in K : Then(Then(f_unmount(m), sdcDisconnect), umount) \subseteq K
    BY <1>1, <1>4 DEF Then
  <2>4. {m \in mount(d) : m.drv = "ready"} \subseteq K
    BY <1>3
  <2>5. QED
    BY <2>2, <2>3, <2>4 DEF EraseFsTest, Then
<1>6. \A d \in K : cmd_sd_erase(d) \subseteq K
  BY <1>1, <1>4, <1>5 DEF cmd_sd_erase, Then
<1>7. QED
  BY <1>1, <1>3, <1>4, <1>6 DEF WithFs, SdCommand, cmd_sd_umount, cmd_sd_test_perf

(* A raw mode takes an attached card and nothing else ...                  *)
LEMMA TakeResult ==
  ASSUME NEW c \in Cards, NEW d \in TakeFromDriver(c)
  PROVE  d \in Cards /\ d.drv = IF c \in Attached THEN "stop" ELSE "halted"
BY DEF TakeFromDriver, Then, Cards, Attached, sdcDisconnect, sdcStop, Requires, Halt

(* ... and gives back one that it has taken.                               *)
LEMMA GiveResult ==
  ASSUME NEW c \in Cards, c.drv = "stop", NEW d \in GiveToDriver(c)
  PROVE  d \in Attached
<1>1. sdcStart(c) \subseteq Attached
  BY DEF Cards, Attached, sdcStart, Requires
<1>2. \A e \in Attached : sdcConnect(e) \subseteq Attached
  BY DriverCalls DEF Attached
<1>3. QED
  BY <1>1, <1>2 DEF GiveToDriver, Then

-----------------------------------------------------------------------------
(* No mode is called like one of the places between the modes.             *)
LEMMA ModeNames ==
  /\ "console" \notin Modes /\ "bbio" \notin Modes
  /\ \A m \in Modes : m \in PairModes \cup SingleModes \cup BareModes
  /\ PairModes \cap SingleModes = {} /\ PairModes \cap BareModes = {}
  /\ SingleModes \cap BareModes = {}
  /\ \A m : Parent(m) \in {"console", "bbio"}
BY ModesAssumption DEF PairModes, SingleModes, BareModes, Parent

(* Where a session starts to end, case by case.                            *)
LEMMA FirstExits ==
  ASSUME NEW why
  PROVE  /\ mode \in PairModes => FirstExit(why) = "free_tx"
         /\ mode = "nfc" => FirstExit(why) = IF why = "reset" THEN "free_rx" ELSE "leave"
         /\ mode \in SingleModes /\ mode # "nfc" => FirstExit(why) = "free_rx"
         /\ mode \notin PairModes \cup SingleModes => FirstExit(why) = "leave"
<1>1. CASE mode \in PairModes
  <2>1. mode # "nfc" /\ mode \notin SingleModes \ {"nfc"}
    BY <1>1, ModeNames DEF PairModes
  <2>2. QED
    BY <1>1, <2>1, ModeNames, Zenon DEF FirstExit
<1>2. CASE mode = "nfc"
  <2>1. mode \notin PairModes /\ mode \in SingleModes
    BY <1>2 DEF PairModes, SingleModes
  <2>2. FirstExit(why) = IF why = "reset" THEN "free_rx" ELSE "leave"
    BY <1>2, <2>1 DEF FirstExit
  <2>3. QED
    BY <1>2, <2>1, <2>2
<1>3. CASE mode \in SingleModes \ {"nfc"}
  <2>1. mode \notin PairModes
    BY <1>3, ModeNames
  <2>2. QED
    BY <1>3, <2>1, Zenon DEF FirstExit
<1>4. CASE mode \notin PairModes \cup SingleModes
  <2>1. mode # "nfc"
    BY <1>4 DEF SingleModes
  <2>2. QED
    BY <1>4, <2>1, Zenon DEF FirstExit
<1>5. QED
  BY <1>1, <1>2, <1>3, <1>4

(* The thread stays where its code can be, whatever it does.               *)
LEMMA ControlStep == Control /\ [Next]_vars => Control'
<1> SUFFICES ASSUME Control, [Next]_vars PROVE Control'
  OBVIOUS
<1> USE ModeNames DEF Control, Working, Ending
<1>1. CASE UNCHANGED <<mode, at, leaving>>
  BY <1>1
<1>2. CASE EnterBbio \/ LeaveBbio
  BY <1>2 DEF EnterBbio, LeaveBbio
<1>3. ASSUME NEW m \in Modes, Enter(m)
      PROVE  Control'
  BY <1>3 DEF Enter
<1>4. CASE AllocTx \/ AllocRx
  BY <1>4 DEF AllocTx, AllocRx
<1>5. CASE CheckBuffers
  BY <1>5 DEF CheckBuffers, SingleModes
<1>6. CASE BeginMode \/ OtherCommand \/ EndWait \/ SniffRefused
  BY <1>6 DEF BeginMode, OtherCommand, EndWait, SniffRefused
<1>7. CASE TestButton
  <2>1. CASE mode' = mode /\ leaving' = "button" /\ at' = FirstExit("button")
    BY <1>7, <2>1, FirstExits DEF TestButton
  <2>2. CASE mode' = "console" /\ at' = "idle"
    BY <2>2
  <2>3. CASE mode' = mode /\ at' = "read" /\ leaving' = leaving
    BY <1>7, <2>3 DEF TestButton
  <2>4. QED
    BY <1>7, <2>1, <2>2, <2>3 DEF TestButton
<1>8. CASE Reset
  <2>1. mode \in Modes /\ mode \in ResetModes
    BY <1>8 DEF Reset, ResetModes
  <2>2. mode' = mode /\ leaving' = "reset" /\ at' = FirstExit("reset")
    BY <1>8 DEF Reset
  <2>3. ResetModes' = ResetModes
    BY DEF ResetModes
  <2>4. QED
    BY <2>1, <2>2, <2>3, FirstExits
<1>9. CASE Wait
  BY <1>9 DEF Wait
<1>10. CASE FreeTx \/ FreeRx
  <2>1. mode' = mode /\ leaving' = leaving /\ ResetModes' = ResetModes
    BY <1>10 DEF FreeTx, FreeRx, ResetModes
  <2>2. \/ at = "free_tx" /\ at' = "free_rx"
        \/ at = "free_rx" /\ at' = "leave"
    BY <1>10 DEF FreeTx, FreeRx
  <2>3. at = "free_tx" => mode \in PairModes /\ mode # "nfc"
    BY <2>2 DEF PairModes
  <2>4. mode \in Modes
    BY <2>2
  <2>5. QED
    BY <2>1, <2>2, <2>3, <2>4
<1>11. CASE Return
  BY <1>11 DEF Return
<1>12. QED
  BY <1>1, <1>2, <1>3, <1>4, <1>5, <1>6, <1>7, <1>8, <1>9, <1>10, <1>11
     DEF Next, vars, Button, SdText

-----------------------------------------------------------------------------
(* What the steps of a session do to the board, mode by mode.              *)
Boards == [on : SUBSET Peripherals, dev : {"SPI1", "SPI2"}, card : Cards]

(* Only the card modes own SDIO, and only SPI and SERPROG an SPI device.    *)
LEMMA OwnFacts ==
  /\ \A m : Own(m) \subseteq Peripherals
  /\ \A m : m \notin CardModes => "SDIO" \notin Own(m)
  /\ \A m : m \notin {"spi", "serprog"} => {"SPI1", "SPI2"} \cap Own(m) = {}
  /\ \A m : m \in {"spi", "serprog"} => Own(m) = {"SPI1", "SPI2"}
  /\ \A m \in CardModes : Own(m) = {"SDIO"}
<1>1. \A m \in {"spi", "serprog"} : Own(m) = {"SPI1", "SPI2"}
  BY Zenon DEF Own, CardModes
<1>2. \A m \in CardModes : Own(m) = {"SDIO"}
  <2>1. Own("mmc") = {"SDIO"} /\ Own("sdio") = {"SDIO"}
    BY DEF Own, CardModes
  <2>2. QED
    BY <2>1 DEF CardModes
<1>3. \A m : m \notin CardModes \cup {"spi", "serprog"} =>
         Own(m) \in {{"I2C", "I2CSLAVE"}, {"UART"}, {"SMARTCARD"}, {"TIM"}, {"NFC"}, {}}
  BY DEF Own, CardModes
<1>4. QED
  BY <1>1, <1>2, <1>3 DEF CardModes, Peripherals

(* A card mode takes the SDIO peripheral with the card or halts; the other *)
(* modes only add devices of their own, and SPI and SERPROG choose theirs. *)
LEMMA BeginFacts ==
  ASSUME NEW m, NEW h \in Boards, NEW g \in Begin(m, h)
  PROVE  /\ g \in Boards
         /\ m \in CardModes =>
              /\ g.card \in TakeFromDriver(h.card) /\ g.dev = h.dev
              /\ g.on = IF g.card.drv = "halted" THEN h.on ELSE h.on \cup {"SDIO"}
         /\ m \notin CardModes => g.card = h.card /\ g.on \subseteq h.on \cup Own(m) /\ h.on \subseteq g.on
         /\ m = "spi" => g.dev = "SPI1" /\ g.on = h.on \cup {"SPI1"}
         /\ m = "serprog" => g.dev = "SPI2" /\ g.on = h.on
<1> USE DEF Boards, SetOn
<1>1. CASE m = "spi"
  <2>0. m # "serprog" /\ m \notin CardModes
    BY <1>1 DEF CardModes
  <2>1. g = SetOn([h EXCEPT !.dev = "SPI1"], {"SPI1"})
    BY <1>1, <2>0, Zenon DEF Begin
  <2>2. QED
    BY <1>1, <2>1, OwnFacts DEF CardModes, Peripherals
<1>2. CASE m = "serprog"
  <2>0. m # "spi" /\ m \notin CardModes
    BY <1>2 DEF CardModes
  <2>1. g = [h EXCEPT !.dev = "SPI2"]
    BY <1>2, <2>0, Zenon DEF Begin
  <2>2. QED
    BY <1>2, <2>1 DEF CardModes
<1>3. CASE m \in CardModes
  <2>1. PICK c \in TakeFromDriver(h.card) :
          g = IF c.drv = "halted" THEN [h EXCEPT !.card = c]
                ELSE SetOn([h EXCEPT !.card = c], {"SDIO"})
    <3>1. m \notin {"spi", "serprog", "i2c", "openocd"}
      BY <1>3 DEF CardModes
    <3>2. Begin(m, h) = {IF c.drv = "halted" THEN [h EXCEPT !.card = c]
            ELSE SetOn([h EXCEPT !.card = c], {"SDIO"}) : c \in TakeFromDriver(h.card)}
      BY <1>3, <3>1, Zenon DEF Begin
    <3>3. QED
      BY <3>2
  <2>2. c \in Cards
    BY TakeResult
  <2>3. QED
    BY <1>3, <2>1, <2>2 DEF CardModes, Peripherals
<1>4. CASE m \notin CardModes \cup {"spi", "serprog"}
  <2>1. \E S \in SUBSET Own(m) : g = SetOn(h, S)
    <3>1. CASE m = "i2c"
      <4>1. g = SetOn(h, {"I2C"})
        BY <1>4, <3>1 DEF Begin
      <4>2. Own(m) = {"I2C", "I2CSLAVE"}
        BY <3>1, Zenon DEF Own, CardModes
      <4>3. QED
        BY <4>1, <4>2
    <3>2. CASE m = "openocd"
      <4>1. g = h
        BY <1>4, <3>2 DEF Begin
      <4>2. h = SetOn(h, {})
        OBVIOUS
      <4>3. QED
        BY <4>1, <4>2
    <3>3. CASE m \notin {"i2c", "openocd"}
      <4>1. g = SetOn(h, Own(m))
        BY <1>4, <3>3 DEF Begin
      <4>2. QED
        BY <4>1
    <3>4. QED
      BY <3>1, <3>2, <3>3
  <2>2. QED
    BY <1>4, <2>1, OwnFacts
<1>5. QED
  BY <1>1, <1>2, <1>3, <1>4

(* A command moves the SPI device, which turns the other one off, or opens *)
(* a file on the card; it changes nothing else of the board.               *)
LEMMA CommandFacts ==
  ASSUME NEW m, NEW h \in Boards, NEW g \in Command(m, h)
  PROVE  /\ g \in Boards
         /\ ("SDIO" \in g.on <=> "SDIO" \in h.on)
         /\ g.card = h.card \/ (m = "flash" /\ g.card \in WithFs(h.card))
         /\ m \notin {"spi", "serprog"} => g.on = h.on /\ g.dev = h.dev
         /\ m = "spi" => \/ g = h
                        \/ g.on = (h.on \ {h.dev}) \cup {g.dev}
         /\ m = "serprog" => g.dev = h.dev /\ g.on \subseteq h.on \cup {h.dev}
<1> USE DEF Boards, SetOn, SetOff, Peripherals
<1>1. CASE g = h
  BY <1>1
<1>2. CASE m = "spi" /\ g # h
  <2>1. g \in SpiConfig(h)
    BY <1>2, Zenon DEF Command
  <2>2. PICK d \in {"SPI1", "SPI2"} : g = SetOn([SetOff(h, {h.dev}) EXCEPT !.dev = d], {d})
    BY <2>1 DEF SpiConfig
  <2>3. QED
    BY <1>2, <2>2
<1>3. CASE m = "serprog" /\ g # h
  <2>1. g \in {SetOn(h, {h.dev}), SetOff(h, {h.dev})}
    BY <1>3, Zenon DEF Command
  <2>2. QED
    BY <1>3, <2>1
<1>4. CASE m = "flash" /\ g # h
  <2>1. PICK c \in WithFs(h.card) : g = [h EXCEPT !.card = c]
    BY <1>4, Zenon DEF Command
  <2>2. c \in Cards
    BY SidesKept, DriverCalls DEF Attached, Taken
  <2>3. QED
    BY <1>4, <2>1, <2>2
<1>5. CASE m \notin {"spi", "serprog", "flash"}
  BY <1>5 DEF Command
<1>6. QED
  BY <1>1, <1>2, <1>3, <1>4, <1>5

(* The sniffers end on the first device of their bus.                      *)
LEMMA SniffFacts ==
  ASSUME NEW m \in {"spi", "i2c"}, NEW h \in Boards
  PROVE  /\ SniffBegin(m, h) \in Boards /\ SniffEnd(m, h) \in Boards
         /\ SniffBegin(m, h).card = h.card /\ SniffEnd(m, h).card = h.card
         /\ SniffEnd(m, h).dev = h.dev
         /\ "SDIO" \in SniffBegin(m, h).on <=> "SDIO" \in h.on
         /\ "SDIO" \in SniffEnd(m, h).on <=> "SDIO" \in h.on
         /\ m = "spi" => "SPI2" \notin SniffEnd(m, h).on
         /\ m = "i2c" => \A d \in {"SPI1", "SPI2"} :
              /\ d \in SniffBegin(m, h).on <=> d \in h.on
              /\ d \in SniffEnd(m, h).on <=> d \in h.on
BY DEF SniffBegin, SniffEnd, Boards, SetOn, SetOff, Peripherals

(* The end of a session only turns peripherals off.  The card modes give   *)
(* the card back on BBIO_RESET and keep it on the button.                  *)
LEMMA LeaveFacts ==
  ASSUME NEW m \in Modes, NEW why \in {"nomem", "button", "reset"}, NEW h \in Boards,
         NEW g \in Leave(m, why, h), m \in CardModes /\ why = "reset" => h.card.drv = "stop"
  PROVE  /\ g \in Boards /\ g.on \subseteq h.on
         /\ why = "nomem" => g = h
         /\ m \in {"spi", "serprog"} /\ why # "nomem" => g.on = h.on \ {h.dev}
         /\ m \in CardModes /\ why = "reset" => g.card \in Attached /\ g.on = h.on \ {"SDIO"}
         /\ ~(m \in CardModes /\ why = "reset") =>
              g.card = h.card /\ ("SDIO" \in g.on <=> "SDIO" \in h.on)
         /\ m \in ResetModes \ {"spi"} /\ why = "reset" => Own(m) \cap g.on = {}
<1> USE DEF Boards, SetOff
<1>1. CASE why = "nomem"
  BY <1>1 DEF Leave
<1>2. CASE why # "nomem" /\ m \in {"spi", "serprog"}
  <2>1. m \notin CardModes \cup {"uart", "nfc", "openocd"}
    BY <1>2 DEF CardModes
  <2>2. g = SetOff(h, {h.dev})
    BY <1>2, <2>1 DEF Leave
  <2>3. QED
    BY <1>2, <2>2 DEF CardModes, ResetModes
<1>3. CASE why = "reset" /\ m \in CardModes
  <2>1. m \notin {"spi", "serprog", "uart", "nfc", "openocd"}
    BY <1>3 DEF CardModes
  <2>2. g \in ReturnCard(h)
    BY <1>3, <2>1 DEF Leave
  <2>3. PICK c \in GiveToDriver(h.card) : g = [SetOff(h, {"SDIO"}) EXCEPT !.card = c]
    BY <2>2 DEF ReturnCard
  <2>4. c \in Attached /\ c \in Cards
    BY <1>3, GiveResult DEF Attached
  <2>5. QED
    BY <1>3, <2>1, <2>3, <2>4, OwnFacts
<1>4. CASE why = "button" /\ m \in CardModes
  <2>1. m \notin {"spi", "serprog", "uart", "nfc", "openocd"}
    BY <1>4 DEF CardModes
  <2>2. g = h
    BY <1>4, <2>1 DEF Leave
  <2>3. QED
    BY <1>4, <2>1, <2>2
<1>5. CASE why # "nomem" /\ m \notin CardModes \cup {"spi", "serprog"}
  <2>1. \/ g = h /\ (m \in ResetModes => why # "reset")
        \/ g = SetOff(h, Own(m))
    <3>1. CASE m \in {"uart", "nfc"}
      BY <1>5, <3>1 DEF Leave
    <3>2. CASE m = "openocd"
      BY <1>5, <3>2 DEF Leave, ResetModes
    <3>3. CASE m \notin {"uart", "nfc", "openocd"}
      BY <1>5, <3>3 DEF Leave
    <3>4. QED
      BY <3>1, <3>2, <3>3
  <2>2. QED
    BY <1>5, <2>1, OwnFacts
<1>6. QED
  BY <1>1, <1>2, <1>3, <1>4, <1>5

-----------------------------------------------------------------------------
(* A step that leaves the board alone keeps what is said of it, unless it  *)
(* begins or ends a session.                                               *)
LEMMA BoardUntouched ==
  ASSUME Board, hw' = hw, sniffed' = sniffed \/ ~Begun',
         Begun' => Begun /\ mode' = mode /\ (at = "wait" => at' = "wait"),
         Begun => Begun' /\ mode' = mode
  PROVE  Board'
BY DEF Board, SdioOneOwner, HaltOnlyAfterButton, Running

(* Every step keeps what is known of the board.                           *)
LEMMA BoardStep == Control /\ Board /\ [Next]_vars => Board'
<1> SUFFICES ASSUME Control, Board, [Next]_vars PROVE Board'
  OBVIOUS
<1>0. /\ hw \in Boards /\ hw.card \in Cards
      /\ hw.card \in Attached <=> hw.card.drv \in {"active", "ready"}
      /\ hw.card \in Taken <=> hw.card.drv \in {"stop", "halted"}
  BY DEF Board, Boards, Attached, Taken
<1> USE DEF Board, Boards, SdioOneOwner, HaltOnlyAfterButton, Running
<1>1. CASE UNCHANGED <<mode, at, leaving, hw, sniffed>>
  BY <1>1, BoardUntouched DEF Begun
<1>2. CASE SdText
  <2>1. PICK c \in SdCommand(hw.card) : hw' = [hw EXCEPT !.card = c]
    BY <1>2 DEF SdText
  <2>2. mode = "console" /\ mode' = mode /\ ~Begun /\ ~Begun'
    BY <1>2, ModeNames DEF SdText, Begun
  <2>3. CASE hw.card \in Attached
    <3>1. c \in Attached
      BY <2>3, SidesKept
    <3>2. QED
      BY <1>0, <2>1, <2>2, <2>3, <3>1 DEF Attached
  <2>4. CASE hw.card \in Taken
    <3>1. c \in Taken
      BY <2>4, SidesKept
    <3>2. QED
      BY <1>0, <1>2, <2>1, <2>2, <2>4, <3>1 DEF Taken, SdText
  <2>5. QED
    BY <1>0, <2>3, <2>4, DriverCalls
<1>3. CASE EnterBbio \/ LeaveBbio
  BY <1>3, ModeNames, BoardUntouched DEF EnterBbio, LeaveBbio, Begun
<1>4. ASSUME NEW m \in Modes, Enter(m)
      PROVE  Board'
  <2>1. ~Begun /\ ~Begun'
    BY <1>4, ModeNames DEF Enter, Begun, Ending
  <2>2. \/ hw' = hw
        \/ hw' = [hw EXCEPT !.on = @ \cup {"TIM"}]
    BY <1>4 DEF Enter, SetOn
  <2>3. QED
    BY <2>1, <2>2 DEF Peripherals
<1>5. CASE AllocTx \/ AllocRx
  BY <1>5, BoardUntouched DEF AllocTx, AllocRx, Begun, Ending
<1>6. CASE CheckBuffers
  BY <1>6, BoardUntouched DEF CheckBuffers, Begun, Ending
<1>7. CASE BeginMode
  <2>1. hw' \in Begin(mode, hw) /\ mode' = mode /\ at = "begin" /\ at' = "test" /\ ~Begun
        /\ sniffed' = sniffed
    BY <1>7 DEF BeginMode, Begun, Ending
  <2>2. Begun' /\ mode \in Modes
    BY <1>7, ModeNames DEF BeginMode, Begun, Control
  <2>3. CASE mode \in CardModes
    <3>1. /\ hw' \in Boards /\ hw'.dev = hw.dev
          /\ hw'.card.drv = IF hw.card \in Attached THEN "stop" ELSE "halted"
          /\ hw'.on = IF hw'.card.drv = "halted" THEN hw.on ELSE hw.on \cup {"SDIO"}
      <4> HIDE DEF Boards
      <4>1. /\ hw' \in Boards /\ hw'.card \in TakeFromDriver(hw.card) /\ hw'.dev = hw.dev
            /\ hw'.on = IF hw'.card.drv = "halted" THEN hw.on ELSE hw.on \cup {"SDIO"}
        BY <1>0, <2>1, <2>3, BeginFacts
      <4>2. hw'.card.drv = IF hw.card \in Attached THEN "stop" ELSE "halted"
        BY <1>0, <4>1, TakeResult
      <4>3. QED
        BY <4>1, <4>2
    <3>2. mode \notin {"spi", "serprog"} /\ hw.card.drv # "halted" /\ "SPI2" \notin hw.on
      BY <1>7, <2>1, <2>3 DEF CardModes, BeginMode
    <3>3. CASE hw.card \in Attached
      BY <2>1, <3>1, <3>2, <3>3
    <3>4. CASE hw.card \notin Attached
      <4>1. hw'.on = hw.on /\ hw'.card.drv = "halted"
        BY <3>1, <3>4
      <4>2. "SDIO" \in hw.on
        BY <1>0, <3>2, <3>4 DEF Cards
      <4>3. QED
        BY <2>1, <3>1, <3>2, <4>1, <4>2
    <3>5. QED
      BY <3>3, <3>4
  <2>4. CASE mode \notin CardModes
    <3>1. /\ hw' \in Boards /\ hw'.card = hw.card
          /\ hw'.on \subseteq hw.on \cup Own(mode) /\ hw.on \subseteq hw'.on
          /\ mode = "spi" => hw'.dev = "SPI1" /\ hw'.on = hw.on \cup {"SPI1"}
          /\ mode = "serprog" => hw'.dev = "SPI2" /\ hw'.on = hw.on
      <4> HIDE DEF Boards
      <4>1. /\ hw' \in Boards
            /\ mode \notin CardModes =>
                 hw'.card = hw.card /\ hw'.on \subseteq hw.on \cup Own(mode) /\ hw.on \subseteq hw'.on
        BY <1>0, <2>1, BeginFacts, Zenon
      <4>2. mode = "spi" => hw'.dev = "SPI1" /\ hw'.on = hw.on \cup {"SPI1"}
        BY <1>0, <2>1, BeginFacts
      <4>3. mode = "serprog" => hw'.dev = "SPI2" /\ hw'.on = hw.on
        BY <1>0, <2>1, BeginFacts
      <4>4. QED
        BY <2>4, <4>1, <4>2, <4>3
    <3>2. QED
      BY <2>1, <2>2, <2>4, <3>1, OwnFacts
  <2>5. QED
    BY <2>3, <2>4
<1>8. CASE TestButton
  <2>1. CASE mode = "bbio"
    BY <1>8, <2>1, ModeNames, BoardUntouched DEF TestButton, Begun
  <2>2. CASE mode # "bbio"
    <3>1. mode' = mode /\ mode \in Modes /\ hw' = hw /\ sniffed' = sniffed /\ at = "test"
      BY <1>8, <2>2 DEF TestButton, Control
    <3>2. \/ at' = "read"
          \/ at' \in Ending /\ leaving' = "button"
      BY <1>8, <2>2, <3>1, FirstExits, ModeNames DEF TestButton, Ending
    <3>3. QED
      BY <3>1, <3>2, BoardUntouched DEF Begun, Ending
  <2>3. QED
    BY <2>1, <2>2
<1>9. CASE Reset
  <2>1. /\ mode' = mode /\ mode \in Modes /\ hw' = hw /\ sniffed' = sniffed /\ at = "read"
        /\ leaving' = "reset" /\ at' = FirstExit("reset")
    BY <1>9 DEF Reset, ResetModes
  <2>2. at' \in Ending
    BY <2>1, FirstExits, ModeNames DEF Ending
  <2>3. QED
    BY <2>1, <2>2, BoardUntouched DEF Begun, Ending
<1>10. CASE OtherCommand
  <2>1. /\ hw' \in Command(mode, hw) /\ mode' = mode /\ at = "read" /\ at' = "test"
        /\ sniffed' = sniffed /\ (Begun <=> Begun') /\ hw.card.drv # "halted"
    BY <1>10 DEF OtherCommand, Begun
  <2>2. /\ hw' \in Boards
        /\ ("SDIO" \in hw'.on <=> "SDIO" \in hw.on)
        /\ hw'.card = hw.card \/ (mode = "flash" /\ hw'.card \in WithFs(hw.card))
        /\ mode \notin {"spi", "serprog"} => hw'.on = hw.on /\ hw'.dev = hw.dev
        /\ mode = "spi" => \/ hw' = hw
                          \/ hw'.on = (hw.on \ {hw.dev}) \cup {hw'.dev}
        /\ mode = "serprog" => hw'.dev = hw.dev /\ hw'.on \subseteq hw.on \cup {hw.dev}
    BY <1>0, <2>1, CommandFacts
  <2>3. mode = "spi" \/ mode = "serprog" => Begun
    BY <2>1, ModeNames DEF Control, Begun
  <2>4. /\ hw'.card.drv # "halted" => ("SDIO" \in hw'.on <=> hw'.card.drv = "stop")
        /\ hw'.card.drv = "halted" => "SDIO" \in hw'.on
        /\ mode \in CardModes => hw'.card = hw.card
    <3>1. CASE hw'.card = hw.card
      BY <2>1, <2>2, <3>1
    <3>2. CASE hw.card \in Attached /\ mode = "flash" /\ hw'.card \in WithFs(hw.card)
      <4>1. hw'.card \in Attached
        BY <3>2, SidesKept
      <4>2. QED
        BY <1>0, <2>1, <2>2, <3>2, <4>1 DEF Attached, CardModes
    <3>3. CASE hw.card \in Taken /\ mode = "flash" /\ hw'.card \in WithFs(hw.card)
      <4>1. hw'.card \in Taken
        BY <3>3, SidesKept
      <4>2. QED
        BY <1>0, <2>1, <2>2, <3>3, <4>1 DEF Taken, CardModes
    <3>4. QED
      BY <1>0, <2>2, <3>1, <3>2, <3>3, DriverCalls
  <2>5. /\ "SPI2" \in hw'.on => Begun' /\ mode \in {"spi", "serprog"} /\ hw'.dev = "SPI2"
        /\ "SPI1" \in hw'.on /\ Begun' /\ mode = "spi" /\ ~sniffed => hw'.dev = "SPI1"
    BY <1>0, <2>1, <2>2, <2>3
  <2>6. QED
    BY <2>1, <2>2, <2>4, <2>5
<1>11. CASE Wait
  <2>1. /\ mode' = mode /\ at = "read" /\ at' = "wait" /\ sniffed' = sniffed
        /\ mode \in Modes /\ Begun /\ Begun'
    BY <1>11, ModeNames DEF Wait, Begun, Control
  <2>2. CASE mode \in {"spi", "i2c"}
    <3>1. hw' = SniffBegin(mode, hw)
      BY <1>11, <2>2 DEF Wait
    <3>2. QED
      BY <1>0, <2>1, <2>2, <3>1, SniffFacts DEF CardModes
  <2>3. CASE mode \notin {"spi", "i2c"}
    <3>1. hw' = hw
      BY <1>11, <2>3 DEF Wait
    <3>2. QED
      BY <2>1, <2>3, <3>1
  <2>4. QED
    BY <2>2, <2>3
<1>12. CASE EndWait
  <2>1. /\ mode' = mode /\ at = "wait" /\ at' = "test" /\ mode \in {"spi", "i2c", "uart", "sump", "openocd"}
        /\ mode \in Modes /\ Begun /\ Begun'
    BY <1>12, ModeNames DEF EndWait, Begun, Control
  <2>2. CASE mode \in {"spi", "i2c"}
    <3>1. hw' = SniffEnd(mode, hw) /\ sniffed' = TRUE
      BY <1>12, <2>2 DEF EndWait
    <3>2. QED
      BY <1>0, <2>1, <2>2, <3>1, SniffFacts DEF CardModes
  <2>3. CASE mode \notin {"spi", "i2c"}
    <3>1. hw' = hw
      BY <1>12, <2>3 DEF EndWait
    <3>2. QED
      BY <2>1, <2>3, <3>1
  <2>4. QED
    BY <2>2, <2>3
<1>13. CASE SniffRefused
  <2>1. /\ mode' = mode /\ mode = "spi" /\ at = "read" /\ at' = "test" /\ sniffed' = TRUE
        /\ hw' = SniffEnd(mode, SniffBegin(mode, hw))
        /\ Begun <=> Begun'
    BY <1>13 DEF SniffRefused, Begun
  <2>2. QED
    BY <1>0, <2>1, SniffFacts DEF CardModes
<1>14. CASE FreeTx \/ FreeRx
  BY <1>14, BoardUntouched DEF FreeTx, FreeRx, Begun, Ending
<1>15. CASE Return
  <2>1. /\ hw' \in Leave(mode, leaving, hw) /\ at = "leave"
        /\ mode \in Modes /\ leaving \in {"nomem", "button", "reset"} /\ leaving' = leaving
    BY <1>15 DEF Return, Control, Ending
  <2>2. ~Begun' /\ (Begun <=> leaving # "nomem")
    BY <1>15, <2>1, ModeNames DEF Return, Begun, Ending
  <2>3. mode \in CardModes /\ leaving = "reset" => hw.card.drv = "stop"
    BY <1>15, <2>2 DEF Return
  <2>4. /\ hw' \in Boards /\ hw'.on \subseteq hw.on
        /\ leaving = "nomem" => hw' = hw
        /\ mode \in {"spi", "serprog"} /\ leaving # "nomem" => hw'.on = hw.on \ {hw.dev}
        /\ mode \in CardModes /\ leaving = "reset" =>
             hw'.card \in Attached /\ hw'.on = hw.on \ {"SDIO"}
        /\ ~(mode \in CardModes /\ leaving = "reset") =>
             hw'.card = hw.card /\ ("SDIO" \in hw'.on <=> "SDIO" \in hw.on)
    BY <1>0, <2>1, <2>3, LeaveFacts
  <2>5. "SPI2" \notin hw'.on
    BY <2>1, <2>2, <2>4
  <2>6. QED
    BY <1>0, <2>2, <2>4, <2>5 DEF Attached
<1>16. QED
  BY <1>1, <1>2, <1>3, <1>4, <1>5, <1>6, <1>7, <1>8, <1>9, <1>10, <1>11, <1>12, <1>13, <1>14,
     <1>15 DEF Next, vars, Button

-----------------------------------------------------------------------------
(* The pool's calls, with what PoolAllocProofs shows of them.              *)
LEMMA SameCalls ==
  /\ \A bytes : P!pool_alloc_bytes(bytes) => PP!pool_alloc_bytes(bytes)
  /\ \A p : P!pool_free(p) => PP!pool_free(p)
  /\ P!pool_init => PP!pool_init
  /\ P!PoolAssumption => PP!PoolAssumption
  /\ Null = PP!Null /\ Null \notin PP!Index
<1>1. ASSUME NEW bytes, P!pool_alloc_bytes(bytes)
      PROVE  PP!pool_alloc_bytes(bytes)
  BY <1>1 DEF PP!pool_alloc_bytes, PP!pool_alloc_blocks, PP!TakeFirstFit, PP!ReturnNull,
     PP!Candidates, PP!SpaceFound, PP!BlocksNeeded, PP!Index, PP!Null, PP!U8,
     P!pool_alloc_bytes, P!pool_alloc_blocks, P!TakeFirstFit, P!ReturnNull,
     P!Candidates, P!SpaceFound, P!BlocksNeeded, P!Index, P!Null, P!U8
<1>2. ASSUME NEW p, P!pool_free(p)
      PROVE  PP!pool_free(p)
  BY <1>2 DEF PP!pool_free, PP!Index, PP!Null, PP!U8, PP!vars,
     P!pool_free, P!Index, P!Null, P!U8, P!vars
<1>3. P!pool_init => PP!pool_init
  BY DEF PP!pool_init, P!pool_init, PP!Index, P!Index, PP!Null, P!Null
<1>4. P!PoolAssumption => PP!PoolAssumption
  BY DEF PP!PoolAssumption, P!PoolAssumption, PP!U8, P!U8
<1>5. Null = PP!Null /\ Null \notin PP!Index
  BY DEF Null, P!Null, PP!Null, PP!Index
<1>6. QED
  BY <1>1, <1>2, <1>3, <1>4, <1>5

(* An allocation of a session: nothing, or a buffer of its own.            *)
LEMMA AllocStep ==
  ASSUME PP!IInv, NEW bytes \in Requests, P!pool_alloc_bytes(bytes)
  PROVE  /\ PP!IInv'
         /\ \/ ret' = Null /\ held' = held /\ blocks' = blocks
            \/ /\ ret' # Null /\ ret' \notin held
               /\ held' = held \cup {ret'}
               /\ \A p \in held : blocks'[p] = blocks[p]
               /\ blocks'[ret'] * BlockSize >= bytes
<1>1. PP!pool_alloc_bytes(bytes) /\ PP!PoolAssumption
  BY SameCalls, RequestsAssumption
<1>2. QED
  BY <1>1, PP!AllocFacts, SameCalls

(* A free of what the session holds.                                       *)
LEMMA FreeStep ==
  ASSUME PP!IInv, NEW p \in held \cup {Null}, P!pool_free(p)
  PROVE  /\ PP!IInv'
         /\ held' = held \ {p}
         /\ \A q \in held' : blocks'[q] = blocks[q]
<1>1. PP!pool_free(p) /\ PP!PoolAssumption /\ p \in held \cup {PP!Null}
  BY SameCalls, RequestsAssumption
<1>2. QED
  BY <1>1, PP!FreeFacts

(* A step that makes no call leaves the pool as it is.                     *)
LEMMA PoolKept == ASSUME PP!IInv, UNCHANGED pool PROVE PP!IInv'
BY PP!StepIInv, RequestsAssumption, SameCalls DEF pool, PP!vars

(* Every session asks for byte counts that the pool was laid out for.      *)
LEMMA SessionRequests ==
  ASSUME NEW m \in Modes
  PROVE  /\ m \in PairModes => PairBytes \in Requests
         /\ m \in SingleModes => SingleBytes[m] \in Requests
BY DEF Requests

(* A step between the pool's calls keeps the account if it keeps the live  *)
(* buffers.                                                                *)
LEMMA BuffersUntouched ==
  ASSUME Buffers, UNCHANGED <<pool, tx, rx, before>>, mode \in Modes, mode' = mode, ~AtRest',
         LiveTx' = LiveTx, LiveRx' = LiveRx,
         at' \notin {"alloc_tx", "alloc_rx"},
         mode \in PairModes /\ at' \in Working => tx # Null /\ rx # Null
  PROVE  Buffers'
<1>1. Null' = Null
  BY DEF Null, P!Null
<1>2. QED
  BY <1>1 DEF Buffers, pool

(* The account of the buffers holds across every step, whichever of the    *)
(* allocations fails and however the session is left.                      *)
LEMMA BuffersStep == PP!IInv /\ Control /\ Buffers /\ [Next]_vars => PP!IInv' /\ Buffers'
<1> SUFFICES ASSUME PP!IInv, Control, Buffers, [Next]_vars
             PROVE  PP!IInv' /\ Buffers'
  OBVIOUS
<1>0. Null' = Null /\ \A m \in Modes : m \notin {"console", "bbio"}
  BY ModeNames DEF Null, P!Null
<1> USE DEF AtRest, Working, Ending
<1>1. CASE UNCHANGED <<pool, mode, at, tx, rx, leaving, before>>
  <2>1. Buffers'
    BY <1>0, <1>1 DEF Buffers, LiveTx, LiveRx, pool
  <2>2. QED
    BY <1>1, <2>1, PoolKept
<1>2. CASE EnterBbio \/ LeaveBbio
  <2>1. mode \in {"console", "bbio"} /\ mode' \in {"console", "bbio"} /\ UNCHANGED <<pool, tx, rx>>
    BY <1>2 DEF EnterBbio, LeaveBbio
  <2>2. QED
    BY <1>0, <2>1, PoolKept DEF Buffers
<1>3. ASSUME NEW m \in Modes, Enter(m)
      PROVE  PP!IInv' /\ Buffers'
  <2>1. /\ mode' = m /\ UNCHANGED <<pool, tx, rx>> /\ before' = held /\ tx = Null /\ rx = Null
        /\ at' \in {"alloc_tx", "alloc_rx", "begin"} /\ (at' = "begin" => m \notin PairModes)
    BY <1>3, ModeNames DEF Enter, Buffers
  <2>2. LiveTx' = {} /\ LiveRx' = {}
    BY <1>0, <2>1 DEF LiveTx, LiveRx
  <2>3. Buffers'
    BY <1>0, <2>1, <2>2 DEF Buffers, pool
  <2>4. QED
    BY <2>1, <2>3, PoolKept
<1>4. CASE AllocTx
  <2>1. /\ mode \in Modes /\ mode \in PairModes /\ at = "alloc_tx" /\ at' = "alloc_rx"
        /\ P!pool_alloc_bytes(PairBytes) /\ tx' = ret' /\ UNCHANGED <<mode, rx, before>>
    BY <1>4 DEF AllocTx, Control
  <2>2. rx = Null /\ held = before
    BY <2>1 DEF Buffers, LiveTx, LiveRx
  <2>3. /\ PP!IInv'
        /\ \/ ret' = Null /\ held' = held /\ blocks' = blocks
           \/ /\ ret' # Null /\ ret' \notin held
              /\ held' = held \cup {ret'}
              /\ blocks'[ret'] * BlockSize >= PairBytes
    BY <2>1, AllocStep, SessionRequests
  <2>4. LiveTx' = {tx'} \ {Null} /\ LiveRx' = {}
    BY <1>0, <2>1 DEF LiveTx, LiveRx
  <2>5. Buffers'
    BY <1>0, <2>1, <2>2, <2>3, <2>4, ModeNames DEF Buffers
  <2>6. QED
    BY <2>3, <2>5
<1>5. CASE AllocRx
  <2>1. /\ mode \in Modes /\ mode \in PairModes \cup SingleModes /\ at = "alloc_rx"
        /\ at' \in {"begin", "check"} /\ (mode \in PairModes => at' = "check")
        /\ P!pool_alloc_bytes(IF mode \in PairModes THEN PairBytes ELSE SingleBytes[mode])
        /\ rx' = ret' /\ UNCHANGED <<mode, tx, before>>
    BY <1>5 DEF AllocRx, Control, PairModes
  <2>2. rx = Null /\ held = before \cup LiveTx /\ LiveTx \cap before = {} /\ LiveTx = {tx} \ {Null}
    BY <2>1 DEF Buffers, LiveTx, LiveRx
  <2>3. /\ PP!IInv'
        /\ \/ ret' = Null /\ held' = held /\ blocks' = blocks
           \/ /\ ret' # Null /\ ret' \notin held
              /\ held' = held \cup {ret'}
              /\ \A p \in held : blocks'[p] = blocks[p]
              /\ mode \in PairModes => blocks'[ret'] * BlockSize >= PairBytes
    BY <2>1, AllocStep, SessionRequests
  <2>4. LiveTx' = LiveTx /\ LiveRx' = {rx'} \ {Null}
    BY <1>0, <2>1, <2>2 DEF LiveTx, LiveRx
  <2>5. mode \in PairModes => \A b \in LiveTx' \cup LiveRx' : blocks'[b] * BlockSize >= PairBytes
    BY <2>1, <2>2, <2>3, <2>4 DEF Buffers
  <2>6. Buffers'
    BY <1>0, <2>1, <2>2, <2>3, <2>4, <2>5, ModeNames DEF Buffers
  <2>7. QED
    BY <2>3, <2>6
<1>6. CASE CheckBuffers
  <2>1. mode \in Modes /\ mode' = mode /\ UNCHANGED <<pool, tx, rx, before>> /\ at = "check"
    BY <1>6 DEF CheckBuffers, Control
  <2>2. CASE ~Refused
    <3>1. at' = "begin" /\ (mode \in PairModes => tx # Null /\ rx # Null)
      BY <1>6, <2>2 DEF CheckBuffers, Refused
    <3>2. LiveTx' = LiveTx /\ LiveRx' = LiveRx
      BY <1>0, <2>1, <3>1 DEF LiveTx, LiveRx
    <3>3. QED
      BY <1>0, <2>1, <3>1, <3>2, BuffersUntouched, PoolKept
  <2>3. CASE Refused /\ mode \in PairModes
    <3>1. at' = "free_tx"
      BY <1>6, <2>3 DEF CheckBuffers
    <3>2. LiveTx' = LiveTx /\ LiveRx' = LiveRx
      BY <1>0, <2>1, <3>1 DEF LiveTx, LiveRx
    <3>3. QED
      BY <1>0, <2>1, <3>1, <3>2, BuffersUntouched, PoolKept
  <2>4. CASE Refused /\ mode \notin PairModes
    <3>1. at' = "leave" /\ leaving' = "nomem" /\ rx = Null /\ tx = Null
      BY <1>6, <2>1, <2>4 DEF CheckBuffers, Refused, Buffers
    <3>2. LiveTx' = LiveTx /\ LiveRx' = LiveRx
      BY <1>0, <2>1, <3>1 DEF LiveTx, LiveRx
    <3>3. QED
      BY <1>0, <2>1, <3>1, <3>2, BuffersUntouched, PoolKept
  <2>5. QED
    BY <2>2, <2>3, <2>4
<1>7. CASE BeginMode \/ OtherCommand \/ Wait \/ EndWait \/ SniffRefused
  <2>1. mode' = mode /\ UNCHANGED <<pool, tx, rx, before>> /\ at \in Working /\ at' \in Working
    BY <1>7 DEF BeginMode, OtherCommand, Wait, EndWait, SniffRefused
  <2>2. CASE mode \in Modes
    <3>1. LiveTx' = LiveTx /\ LiveRx' = LiveRx
      BY <1>0, <2>1 DEF LiveTx, LiveRx
    <3>2. QED
      BY <1>0, <2>1, <2>2, <3>1, BuffersUntouched, PoolKept DEF Buffers
  <2>3. CASE mode \notin Modes
    BY <1>0, <2>1, <2>3, PoolKept DEF Buffers, Control
  <2>4. QED
    BY <2>2, <2>3
<1>8. CASE TestButton \/ Reset
  <2>1. UNCHANGED <<pool, tx, rx, before>> /\ at \in {"test", "read"}
    BY <1>8 DEF TestButton, Reset
  <2>2. CASE mode \notin Modes
    <3>1. mode \in {"console", "bbio"} /\ mode' \in {"console", "bbio"}
      BY <1>8, <2>2 DEF TestButton, Reset, Control, ResetModes
    <3>2. QED
      BY <1>0, <2>1, <3>1, PoolKept DEF Buffers
  <2>3. CASE mode \in Modes
    <3>1. mode' = mode
      BY <1>0, <1>8, <2>3 DEF TestButton, Reset
    <3>2. \/ at' = "read"
          \/ mode \in PairModes /\ at' = "free_tx"
          \/ mode \in SingleModes /\ at' = "free_rx"
          \/ mode = "nfc" /\ leaving' = "button" /\ at' = "leave"
          \/ mode \in BareModes /\ at' = "leave"
      BY <1>0, <1>8, <2>3, FirstExits, ModeNames DEF TestButton, Reset, SingleModes
    <3>3. mode \notin PairModes => tx = Null
      BY <2>3 DEF Buffers
    <3>4. mode \in BareModes => rx = Null
      BY <2>3 DEF Buffers
    <3>5. LiveTx' = LiveTx
      BY <1>0, <2>1, <3>1, <3>2, <3>3, ModeNames DEF LiveTx, SingleModes
    <3>6. LiveRx' = LiveRx
      BY <1>0, <2>1, <3>1, <3>2, <3>4 DEF LiveRx
    <3>7. mode \in PairModes => tx # Null /\ rx # Null
      BY <2>1, <2>3 DEF Buffers
    <3>8. at' \notin {"alloc_tx", "alloc_rx"}
      BY <3>2
    <3>9. QED
      BY <1>0, <2>1, <2>3, <3>1, <3>5, <3>6, <3>7, <3>8, BuffersUntouched, PoolKept
  <2>4. QED
    BY <2>2, <2>3
<1>9. CASE FreeTx
  <2>1. /\ mode \in Modes /\ mode \in PairModes /\ at = "free_tx" /\ at' = "free_rx"
        /\ P!pool_free(tx) /\ UNCHANGED <<mode, tx, rx, before>>
    BY <1>9 DEF FreeTx, Control
  <2>2. /\ held = before \cup LiveTx \cup LiveRx /\ LiveTx \cap before = {}
        /\ LiveRx \cap (before \cup LiveTx) = {}
        /\ LiveTx = {tx} \ {Null} /\ LiveRx = {rx} \ {Null}
    BY <2>1 DEF Buffers, LiveTx, LiveRx
  <2>3. /\ PP!IInv'
        /\ held' = held \ {tx}
        /\ \A q \in held' : blocks'[q] = blocks[q]
    BY <2>1, <2>2, FreeStep
  <2>4. LiveTx' = {} /\ LiveRx' = LiveRx
    BY <1>0, <2>1, <2>2 DEF LiveTx, LiveRx
  <2>5. Null \notin held
    BY SameCalls DEF PP!IInv, PP!TypeOK
  <2>6. held' = before' \cup LiveRx'
    BY <2>1, <2>2, <2>3, <2>4, <2>5
  <2>7. Buffers'
    BY <1>0, <2>1, <2>2, <2>3, <2>4, <2>6, ModeNames DEF Buffers
  <2>8. QED
    BY <2>3, <2>7
<1>10. CASE FreeRx
  <2>1. /\ mode \in Modes /\ at = "free_rx" /\ at' = "leave"
        /\ P!pool_free(rx) /\ UNCHANGED <<mode, tx, rx, before, leaving>>
        /\ mode = "nfc" => leaving = "reset"
    BY <1>10 DEF FreeRx, Control
  <2>2. /\ held = before \cup LiveRx
        /\ LiveRx \cap before = {} /\ LiveRx = {rx} \ {Null}
    BY <2>1 DEF Buffers, LiveTx, LiveRx
  <2>3. /\ PP!IInv'
        /\ held' = held \ {rx}
    BY <2>1, <2>2, FreeStep
  <2>4. LiveTx' = {} /\ LiveRx' = {}
    BY <1>0, <2>1, <2>2 DEF LiveTx, LiveRx
  <2>5. Null \notin held
    BY SameCalls DEF PP!IInv, PP!TypeOK
  <2>6. held' = before'
    BY <2>1, <2>2, <2>3, <2>5
  <2>7. Buffers'
    BY <1>0, <2>1, <2>4, <2>6, ModeNames DEF Buffers
  <2>8. QED
    BY <2>3, <2>7
<1>11. CASE Return
  <2>1. UNCHANGED pool /\ tx' = Null /\ rx' = Null /\ mode' \in {"console", "bbio"}
    BY <1>11, ModeNames DEF Return
  <2>2. QED
    BY <1>0, <2>1, PoolKept DEF Buffers
<1>12. QED
  BY <1>1, <1>2, <1>3, <1>4, <1>5, <1>6, <1>7, <1>8, <1>9, <1>10, <1>11
     DEF Next, vars, Button, SdText

-----------------------------------------------------------------------------
(* The invariant holds at first, and every step keeps it.                  *)
LEMMA InitIInv == Init => IInv
<1> SUFFICES ASSUME Init PROVE IInv
  OBVIOUS
<1>1. PP!IInv
  <2>1. PP!pool_init /\ PP!PoolAssumption
    BY SameCalls, RequestsAssumption DEF Init
  <2>2. QED
    BY <2>1, PP!InitIInv
<1>2. mode = "console" /\ mode \notin Modes
  BY ModeNames DEF Init
<1>3. Control
  BY <1>2 DEF Init, Control
<1>4. Board
  <2>1. hw.on = {} /\ hw.dev = "SPI1" /\ hw.card.drv = "active"
    BY DEF Init
  <2>2. hw \in [on : SUBSET Peripherals, dev : {"SPI1", "SPI2"}, card : Cards]
    BY DEF Init, Cards
  <2>3. QED
    BY <1>2, <2>1, <2>2 DEF Board, Begun, Running, SdioOneOwner, HaltOnlyAfterButton
<1>5. Buffers
  BY <1>2 DEF Init, Buffers, AtRest
<1>6. QED
  BY <1>1, <1>3, <1>4, <1>5 DEF IInv

LEMMA StepIInv == IInv /\ [Next]_vars => IInv'
BY ControlStep, BoardStep, BuffersStep DEF IInv

(* Whatever modes are compiled in and however large the pool is, the       *)
(* account of the pool, the thread and the board holds in every state.     *)
THEOREM SessionsCorrect == Spec => []IInv
BY InitIInv, StepIInv, PTL DEF Spec

(* A mode of two buffers never works on a missing, shared or short one.    *)
THEOREM PairsUsable == Spec => []BuffersUsable
<1>1. IInv => BuffersUsable
  <2> SUFFICES ASSUME IInv, mode \in PairModes, at \in Working
               PROVE  /\ {tx, rx} \subseteq held /\ tx # rx
                      /\ \A b \in {tx, rx} : blocks[b] * BlockSize >= PairBytes
    BY DEF BuffersUsable, Working
  <2>1. mode \in Modes
    BY DEF IInv, Control, PairModes
  <2>2. LiveTx = {tx} /\ LiveRx = {rx}
    BY <2>1 DEF IInv, Buffers, LiveTx, LiveRx, Working
  <2>3. QED
    BY <2>1, <2>2 DEF IInv, Buffers
<1>2. QED
  BY <1>1, SessionsCorrect, PTL

(* The raw modes drive the SDIO peripheral exactly while the SDC driver is *)
(* stopped, across every failure of the card and every way to leave.       *)
THEOREM SdioOwned == Spec => []SdioOneOwner
<1>1. IInv => SdioOneOwner
  BY DEF IInv, Board
<1>2. QED
  BY <1>1, SessionsCorrect, PTL

(* The only way into an assertion of the SDC driver is a raw card mode     *)
(* that was left by the button and still owns the peripheral.              *)
THEOREM HaltsAreButtons == Spec => []HaltOnlyAfterButton
<1>1. IInv => HaltOnlyAfterButton
  BY DEF IInv, Board
<1>2. QED
  BY <1>1, SessionsCorrect, PTL

(* Every session but an NFC reader's that the button ended leaves exactly  *)
(* the live buffers that it found.                                         *)
THEOREM NothingLeaks == Spec => SessionGivesBack
<1> DEFINE GivesBack == at = "leave" /\ AtRest' /\ ~(mode = "nfc" /\ leaving = "button")
                          => held' = before
<1>1. ASSUME IInv, [Next]_vars
      PROVE  [GivesBack]_vars
  <2> SUFFICES ASSUME at = "leave", AtRest', ~(mode = "nfc" /\ leaving = "button")
               PROVE  held' = before
    OBVIOUS
  <2>1. mode \in Modes
    BY <1>1 DEF IInv, Control
  <2>2. held = before
    BY <1>1, <2>1 DEF IInv, Buffers, LiveTx, LiveRx, Working
  <2>3. mode' # mode
    BY <2>1, ModeNames DEF AtRest
  <2>4. CASE Return
    BY <2>2, <2>4 DEF Return, pool
  <2>5. CASE ~Return
    BY <1>1, <2>1, <2>3, <2>5, ModeNames
       DEF Next, vars, Button, SdText, EnterBbio, LeaveBbio, Enter, AllocTx, AllocRx, CheckBuffers,
           BeginMode, TestButton, Reset, OtherCommand, Wait, EndWait, SniffRefused, FreeTx, FreeRx
  <2>6. QED
    BY <2>4, <2>5
<1>2. QED
  BY <1>1, SessionsCorrect, PTL DEF Spec, SessionGivesBack

(* A session that BBIO_RESET ends has turned its peripherals off, but for  *)
(* the SPI sniffer, whatever the devices it switched between.              *)
THEOREM ResetTurnsOff == Spec => ResetReleases
<1> DEFINE Off == at = "leave" /\ AtRest' /\ leaving = "reset" /\ ~(mode = "spi" /\ sniffed)
                    => Own(mode) \cap hw'.on = {}
<1>1. ASSUME IInv, [Next]_vars
      PROVE  [Off]_vars
  <2> SUFFICES ASSUME at = "leave", AtRest', leaving = "reset", ~(mode = "spi" /\ sniffed)
               PROVE  Own(mode) \cap hw'.on = {}
    OBVIOUS
  <2>1. mode \in Modes /\ mode \in ResetModes /\ hw \in Boards
    BY <1>1 DEF IInv, Control, Ending, Board, Boards
  <2>2. mode' # mode
    BY <2>1, ModeNames DEF AtRest
  <2>3. Return
    BY <1>1, <2>1, <2>2, ModeNames
       DEF Next, vars, Button, SdText, EnterBbio, LeaveBbio, Enter, AllocTx, AllocRx, CheckBuffers,
           BeginMode, TestButton, Reset, OtherCommand, Wait, EndWait, SniffRefused, FreeTx, FreeRx
  <2>4. hw' \in Leave(mode, leaving, hw)
    BY <2>3 DEF Return
  <2>5. Begun
    BY <2>1 DEF Begun, Ending
  <2>6. mode \in CardModes => hw.card.drv = "stop"
    BY <1>1, <2>3, <2>5 DEF IInv, Board, Return
  <2>7. /\ mode = "spi" => hw'.on = hw.on \ {hw.dev}
        /\ mode # "spi" => Own(mode) \cap hw'.on = {}
    BY <2>1, <2>4, <2>6, LeaveFacts
  <2>8. mode = "spi" => /\ "SPI1" \in hw.on => hw.dev = "SPI1"
                        /\ "SPI2" \in hw.on => hw.dev = "SPI2"
    BY <1>1, <2>5 DEF IInv, Board
  <2>9. QED
    BY <2>7, <2>8, OwnFacts
<1>2. QED
  BY <1>1, SessionsCorrect, PTL DEF Spec, ResetReleases
=============================================================================
