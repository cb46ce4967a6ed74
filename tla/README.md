# A TLA+ verification of the HydraBus firmware (STM32F401 port) and its host tools

This directory holds TLA+ modules translated from the firmware's C sources and
from the Python tools that drive it, TLC configurations that model-check them on
small instances, and theorems about them that the TLA+ proof system checks for
every value of the constants. Paths below are relative to the repository; the
firmware lives in its `src/`, the tools in `scripts/` and `contrib/`.

* `Pool`, `History`, `FlashUpdate`: what a component promises, without its mechanism.
* `PoolAlloc`, `SdCard`, `BinaryModes`, `LineHistory`, `UartBridge`,
  `SumpCapture`, `Console`, `OneWireSearch`, `TextLine`: what the firmware does.
* `PyDfu`, `SpiFlash`: what the tools do. `HostSession`: tools and firmware together.
* `MC*.tla`, `MC*.cfg`: the instances TLC checks.
* `PoolAllocProofs`, `BinaryModesProofs`, `UartBridgeProofs`, `SumpCaptureProofs`,
  `TextModeProofs`, `PyDfuProofs`, `SpiFlashProofs`, `HostSessionProofs`: theorems
  and proofs.
* `PROJECT.json`: which definition stands for which lines, the runs, the
  mutants that show each property can fail, the findings, the hazards.

How to run it: `tlc -config MCPoolAlloc.cfg MCPoolAlloc` (likewise for the other
configurations), `tlapm PoolAllocProofs.tla` (likewise for the other
seven modules of proofs).

## 1. The system and its components

HydraBus is a USB tool for talking to buses. The firmware is one program on
ChibiOS with **cooperative scheduling** (`CH_CFG_TIME_QUANTUM` is 0): a thread
keeps the processor until it blocks or yields. The main thread starts one
console thread per USB port when the port is active. The console thread reads
bytes, counts NULs to recognise the binary protocols, and otherwise feeds the
line editor; a completed line runs a command, which may enter a *text mode* for
one bus. Twenty NULs enter the *binary* dispatcher. All modes run on the console
thread; the UART bridges create one more thread. What they share: the RAM pool,
the peripherals with their drivers, the SD card, timer TIM4, and the user button
(UBTN), which is polled.

On the host, `pydfu.py` programs the firmware through the chip's DFU bootloader,
and scripts under `contrib/` use the binary modes over the USB serial line. The
two sides share only the bytes on that line: each believes of the other what its
own history tells it.

| Component (source) | State | Operations | Interacts with | Hard because | Correct when |
|---|---|---|---|---|---|
| RAM pool (`common/alloc.c`) | a status byte per block, `blocks_used` (8 bits) | init, alloc by bytes or blocks, free | every binary mode, SUMP, OpenOCD | fragmentation, 8-bit counts, order of frees | buffers disjoint, count exact, a request refused only if no gap holds it |
| BBIO dispatcher and binary modes (`hydrabus/hydrabus_bbio*.c`, `hydrabus_serprog.c`) | the running mode, its two buffers, its device | enter, allocate, loop on a command byte, reset, leave by button, sniff, bridge | pool, peripherals, SD card, button | one of two allocations fails; five ways out, each with its own clean-up | what a session took it gives back |
| SD card glue (`common/microsd.c`, `hydrabus_sd.c`, `hydrabus_bbio_sdio.c`, `hydrabus_bbio_mmc.c`) | SDC driver state, `fs_ready`, the FatFs work area | mount, umount, erase, test_perf, file commands, raw modes | FatFs, SDC driver | each call may fail half-way; driver assertions halt | one owner of the SDIO peripheral; `fs_ready` iff the work area is registered |
| Tokenline history (`tokenline/tokenline.c`) | a ring of bytes, begin, end, position | type, erase, Enter, Up, Down, cancel | console | entries that wrap or fit exactly | the newest lines, whole and in order |
| Console loop (`main.c`, `common/exec.c`) | counter `i` of NULs | a byte of each kind, loss of USB | BBIO, SUMP, serprog, tokenline | what an earlier session left in `i` | an identification enters its mode, nothing else does |
| UART readers (`hydrabus_bbio_uart.c`, `hydrabus_mode_uart.c`) | `rthread`, the thread's working area, ready list | START, STOP, BRIDGE, RESET, bridge, the thread's loop | scheduler, heap, USB queue, button | two threads, flags polled, joins | no reader outlives its session unaccounted; joins return |
| SUMP (`hydrabus_sump.c`) | ring of packed samples, index, trigger, counts | arm, trigger, delay, readback | host, button, kernel lock | packing, stale ring contents | the host reads what the pins were; the button ends it |
| 1-Wire search (`hydrabus_mode_onewire.c`) | ROM, last discrepancy, last-device flag | first, next, scan | bus devices | devices that leave while searched | each device once, no ghost, it ends |
| Text modes and tokenizer (`hydrabus_mode.c`, `hydrabus_mode_*.c`, `tokenline.c`, `commands.c`) | the token vector, `mode_config_proto` | init, exec, walk, exit | drivers, TIM4 | two loops that share an index; leftovers of earlier lines | each command once and in order; exit switches off |
| Trigger (`hydrabus_trigger.c`) | pattern, position | filter, start | text modes | overlapping patterns | it fires where the pattern occurs |
| I2C master, bit-banged protocols (`drv/stm32cube/bsp_i2c_master.c`, twowire, threewire) | bus lines, started flag | start, stop, read, write, ack | slaves | clock stretching, error exits | the bus is released after every command |
| JTAG (`hydrabus_mode_jtag.c`) | TAP state, pins | reset, shift, scan, brute force, OpenOCD | devices | the TAP is walked blind | the walk ends in the state it names |
| NFC (`hydranfc/`) | transceiver registers, emulator state | read, sniff, emulate | TRF7970A, interrupt | timing, ISO 14443-3 states | answers of the emulated card |
| ADC, DAC, PWM, frequency, GPIO, RNG, continuity | a peripheral each | set up, loop until the button | button | little | - |
| CAN; BBIO ADC and frequency | - | - | - | not built or not reachable in this port | - |
| Init script and debug (`common/script.c`, `common/debug.c`) | an open file | run lines from the card | tokenline, SD | re-entry of `tl_input` | - |
| Drivers, USB, board, fault handler | registers | - | everything | hardware | - |
| DFU programmer (`scripts/pydfu.py`) | where it is in the file, element, page, transfer | init, mass erase, page erase, set address, write, leave | bootloader | each operation is three transfers that may fail; the next run meets what is left | Finished means written; only the file's pages erased; a second run recovers |
| SPI flash tools (`contrib/SPI_flasher/HydraSPI.py`, `contrib/hydra_spiflash_nor_dump/`) | page, address, what was read; the open serial port | enter BBIO SPI, chip id, dump, program, leave | console, dispatcher, BBIO SPI; the flash chip | blocking reads, late bytes, a tool that dies inside a command, a chip that is busy | in step with the firmware; the chip holds the file; the dump is the chip; back at the prompt |
| NFC shield, smart card, EEPROM, sensor, car monitor examples (`contrib/`), `scripts/tx_bench.py` | little | straight-line calls | pyHydrabus, serial line | timeouts of 10 ms | - |
| `scripts/get-pip.py` | - | - | - | third-party installer, 32 207 lines of encoded data | - |

`PROJECT.json` lists the same parts with their files and says which are
modelled; its `hazards` name, line by line, what in this code is hard to test.

## 2. Plan

The order follows how much depends on a part and how hard it is to test.

1. **Pool → PoolAlloc → BinaryModes + SdCard.** The shared resource, its
   promise, the sessions that use it. `BinaryModes` composes `PoolAlloc`
   (INSTANCE) and `SdCard`.
2. **UartBridge.** The only real concurrency.
3. **History → LineHistory; Console; TextLine.** What a user's bytes go through.
4. **SumpCapture, OneWireSearch.** The two algorithms with state that survives
   a step.
5. **FlashUpdate → PyDfu; SpiFlash; HostSession.** The tools: against the
   bootloader, against the chip, and, composed with `Console`, the dispatcher and
   BBIO SPI, against the firmware.
6. Proofs: the pool with its refinement, then the sessions that rest on it; the
   reader threads; the tools and the firmware in step, and that the console under
   the tools is the console of `Console`; the SPI flash tools; the logic analyzer's
   ring; the text modes; `pydfu.py` and the command history, with their refinements.

All of the above is done. What is left, in this order:

* `Trigger` against a reference definition of where a pattern occurs; the
  `uint8_t` repeat counts of `hydrabus_mode.c` go with it.
* `I2cMaster`: the bus with its owner, acknowledge, clock stretching, and
  WRITE_READ, which leaves on errors without a stop condition.
* JTAG: the TAP walk against the TAP's diagram, and the brute-force search.
* SD: open files, the commands of `hydrabus_sd.c`, the init script.
* The emulator of `hydranfc_emul_14443a_sdd.c` and of the cards built on it
  (`hydranfc_emul_mifare.c`, `hydranfc_emul_mf_ultralight.c`); the sniffer's framing.
* The line editor proper: cursor, insertion, deletion and completion in
  `tokenline.c`, under `LineHistory`.
* The drivers' own state (`drv/stm32cube`), under `TextLine` and `BinaryModes`,
  with the failure of an initialisation.

Abstract specifications worth stating beyond `Pool` and `History`: the set of
devices a ROM search has to print (now `FindsEveryDevice`), the bus owner for
I2C, the TAP's state diagram.

## 3. Modules, properties and runs

In every module a definition keeps the name of the function it models where
there is one. Definitions headed "Fault:" are plausible bugs; nothing uses them
in the specifications. For each property one of them is known to break it.

### Pool, PoolAlloc: the buffer pool

`PoolAlloc` has the status bytes (`blocks`), the counter (`blocks_used`, taken
modulo 256) and, as history, the pointers that callers hold (`held`), the last
request and its answer. Each call is an action, because the pool has no lock and
needs none: calls run to completion on one thread. `Candidates` and `SpaceFound`
are the two scans of `pool_alloc_blocks`, `BlocksNeeded` the round-up and its
narrowing to `uint8_t`.
Callers free what they hold or NULL; that the binary modes do is shown in
`BinaryModes`.

`Pool` is what callers may rely on: regions that do not overlap, an allocation
that covers the request with no block to spare, and refusal only if no gap
would do. Any gap may be chosen.

Run `pool_alloc` (7 blocks of 2 bytes; requests of 0, 1, 2, 3, 6, 14, 15, 16
bytes): `TypeOK`, `RegionsDisjoint`, `StatsExact`, `ImplementsPool`. (`NoOrphanBlock`
is a conjunct of the inductive invariant and no property of its own: a block
without an owner breaks the exactness of the counter or the refinement.)
Seven blocks are enough for three live regions with two gaps neither of which
holds what both together would, for a request of the whole pool, and for one
block more. Requests include both sides of each rounding. The theorems remove
the bound.

### SdCard, BinaryModes: sessions and what they hold

`SdCard` models a card as driver state, `fs_ready` and work area. Each function
of `microsd.c` is an operator from a card to the set of cards it may leave,
since each access may fail. An assertion of the SDC driver leaves `halted`: the
build has `CH_DBG_ENABLE_ASSERTS` on.

`BinaryModes` follows one console thread through `cmd_bbio` and the modes of the
dispatcher, plus SUMP and serprog, which are entered from the console. There is
one action for each statement that touches the pool and one for what a handler
does between two looks at the button. The button changes at any time. `hw` has
the initialised peripherals, the selected SPI device and the card. The content
of transfers is left out. The differences between modes are what matters: OpenOCD
starts its timer before its allocation and never stops it, the NFC reader does
not look at the pointer it was given, the PIN mode never looks at the button, the
card modes give the card back on reset only.

Run `binary_modes` (pool of 4 blocks of 8192 bytes, the board's 32 KiB in larger
blocks, all fourteen modes; 275 684 states):

* `SessionGivesBack`: every session leaves the pool as it found it, whichever
  allocation failed; NFC left by the button is the exception the code has.
* `BuffersUsable`: a mode of two buffers has two, live and wide enough.
* `SdioOneOwner`, `HaltOnlyAfterButton`: about the card. An
  assertion of the driver is reached only from a raw card session left by the button.
* `ResetReleases`: BBIO_RESET leaves none of the session's peripherals on; a
  session that ran the SPI sniffer is excepted, as it ends on SPI1.
* `PollersHonourButton` (liveness): OpenOCD and the UART bridge end when the
  button is held, but for OpenOCD with half a command (`HalfACommand`): it reads a
  command's byte with a timeout and its parameters without (`Wait`), so a host that
  dies between the two leaves it deaf to the button.

The blocks are large so that the pool reaches refusal after few leaks. Every
request size of the code keeps its number of bytes, and the same order of refusals
occurs as on the board, only sooner.

### History, LineHistory: the command history

`History` is what the user sees: the newest lines entered, a cursor, Up and Down.
How many lines stay is open, but the newest is among them. `LineHistory` is the
ring of bytes of `tokenline.c`: `history_add`, `history_delete`, the walks
backwards and forwards, lines that wrap. Editing keys are reduced to a line that is
replaced or shortened.

Run `line_history` (12 bytes, lines of 1 to 3 characters; 11 098 states):
`ImplementsHistory` is the refinement, with entries read off the ring by cutting
it at zeros.
Twelve bytes are three of the longest lines; entry ends fall on every byte of
the ring, the last included. That is every case of the wrap arithmetic; a
longer ring repeats them.

The constants are assumed as the code has them (`HistoryAssumption`): a line has at
most `TL_MAX_LINE_LEN - 1` = 127 characters, none of them zero, and the ring of
`TL_MAX_HISTORY_SIZE` = 512 bytes holds three lines of `TL_MAX_LINE_LEN`. The
names `EditInit`, `EditNext`, `EditSpec` and `PrintingKey` (the typing of a line)
leave `Init`, `Next`, `Spec` and `TypeLine` to `TextLine`, whose module of proofs
it shares. `ImplementsHistory` is also proved (section 5).

What Down shows of an entry that continues at the start of the ring is its first
part only (Up shows all of it); `History!Down` allows a beginning for that reason.

### UartBridge: threads

State: the ready list of threads at normal priority, each working area's thread
(place in its loop, kind, stop flag), the console's place, `rthread`, whether the
UART is on, the button, the areas RESET has forgotten. `Runs` is the scheduler:
the head of the list runs, and the bridge thread, at low priority, runs when the
list is empty. A step of a thread goes from one point where it can block, yield or
look at shared state to the next.

Run `uart_bridge` (2 working areas; 4 463 states):

* `ReadersAccounted`: a live reader is the console's own or one that RESET forgot.
* `EchoHonest`: a handle that is set means a live reader unless the button was
  pressed meanwhile.
* `ReadsWhileOn`: an owned reader touches the UART only while it is on.
* `HaltOnlyAfterLeak`: the NULL thread of the text bridge needs every area leaked.
* `StopReturns` (liveness): waiting for an echo reader ends, unless a forgotten
  reader, which may never yield on a busy line, holds the processor.
* `ButtonEndsReaders` (liveness): a held button ends all readers.

Two areas allow an owned reader next to a forgotten one and a heap used up. The
heap of the board is the memory left over and holds more; the theorems cover
every number.

### SumpCapture: the logic analyzer

The ring of samples, `INDEX`, the trigger, the delay and the read counts. Several
samples share a cell when few channels are sampled; lane 0 stores, the others
are or-ed. `kept` remembers the samples of this capture and what each was or-ed
with. Run `sump_capture` (4 samples, 2 to a cell, a sampled pin and one that is
not; 29 736 states): `ReadsWhatWasSampled` says precisely which of the samples
that come back are what the pins were. A ring of two cells wraps in both
lanes, and the ring may hold anything before the first capture.

### Console, HostSession: identification, and a tool at the other end

`Console` has the counter `i`, bytes in any order, and USB lost at any time, after
which `get_char` yields NULs. It is checked as a part of `HostSession` and proved
about by itself.

`HostSession` EXTENDS it with the dispatcher's loop (`MenuReads`, for the bytes the
tools send), BBIO SPI (`SpiReads`, `WriteRead`, `Payload`), its sniffer (`BusTraffic`,
`ButtonInSniffer`: it reads the host only while the button is down, and drops what it
reads), two queues of bytes, and the tools. A tool's run has three phases: entering, the commands of its body one by
one, cleaning up. Each is a fixed script of writes, flushes and reads (`EnterMode`,
`Exchange`, `Cleanup`, `Leaving`), and `pc` is the step the tool is at (`Steps`,
`Now`); a read blocks until all it wants is there and gives up when something else
comes. `nor_dump` cleans up on an error at any time, `HydraSPI.py` only inside its
`with` statement; neither does when killed.

Run `host_session` (643 245 states):

* `SessionInStep`: when a command of the body begins and when it has ended, the
  firmware waits for a command in SPI mode and nothing is on the line, whatever
  earlier runs left.
* `HangsOnlyInMode`: a tool waits in vain only while it enters, and only if an
  earlier run left the firmware inside a command, in the SPI sniffer, or in SUMP
  or serprog. In the sniffer its NULs stay unread, so `Hangs` asks for no byte
  under way that the firmware would read.
* `SnifferAfterFailure`: the worst of these, in which every tool hangs until
  somebody presses the button, comes only from the clean-up of a run that failed
  inside a command: the 0 is taken for the last byte of the payload, and the 15
  (`BBIO_RESET_HW` to the dispatcher) is `BBIO_SPI_SNIFF_CS_HIGH` to the mode.
* `BackAtPrompt`: a run that says it is done leaves the board at its prompt and
  the counter at 0, also `nor_dump`'s dump, which cleans up twice.
* `NulsReachBbio`: the count is ahead of the run of NULs and below its mark.
* `DetachEntersBbio` (liveness): a console that loses USB at its prompt drifts
  into BBIO by itself.
* `FreshRunSucceeds` (liveness): an undisturbed run from a fresh prompt is done.

Bounds: five NULs instead of 20, with 2 and 3 for SUMP and serprog; a tool sends
as many. The relations that matter are kept: an identification is longer than a
command's address and shorter than a page with it, so that the next run's NULs
complete the one and are swallowed by the other. The four bytes of lengths are
two; two exceptions, kills or losses of USB per behaviour. The bodies are those of
`HydraSPI.py` (no command, the chip's identification, or a page and a block) and of `nor_dump` (the chip's
identification, and a dump with its choice of a speed). What the chip sends and what
the prompt echoes is one value each, which is not the first byte of an identification:
a chip that holds "SPI1" could deceive a tool. The chip's identification is the command
with a payload of one byte. `MaxUnread` bounds what either side leaves unread under the
sniffer at 6: a second tool adds its NULs to those of a first.

`Late` bounds how many bytes are still coming when the tool flushes. 8 is the largest
number below the length of a banner and an identification (`LateAssumption`). It is a
limit on the environment that the tools depend on, not something they see to: with 10,
and this assumption taken out, TLC finds a run that takes the banner, the identification
and an answer of an earlier run for its own and starts its body out of step.

Assumed of the environment: a write to the port is not split; the next tool is
started once the board has read what the last one sent (`Open`: without this, late
answers "SPI1" and 0x01 of the last run can pass for the new run's); the button is
for a board no tool uses; whoever tires of a hanging tool ends it.

### OneWireSearch: the ROM search

`onewire_search` bit by bit along the tree of codes, `onewire_first`,
`onewire_next` and the scan loop. Devices come and go, also within a search,
`MaxMoves` times; the line may be shorted; the bit order may be the wrong one.
Run `onewire_search` (codes of 4 bits, 4 devices parting at the first, second and
last bit, 1 move; 6 875 states): `FindsEveryDevice`, `NoGhost`, `ScanEnds`. One
move within a scan suffices for a code pieced together from two devices.

### TextLine: how a line runs

The token vector `p->tokens`, over which each line is written with a single
terminating 0; the loop of `cmd_mode_exec`; the loop in each mode's `exec`, with
the values it accepts and refuses and how many tokens it says it used; entering a
mode with parameters; exit; the devices that are on and the timer.
Abstractions: a token is a word; an argument is its offset in `p->buf`, words being four
bytes long, so that the first is 0 and the following ones are small token
numbers; text arguments, transfers and the failure of a driver's
init are left out; commands that block until the button is pressed are one step.

Run `text_line` (eleven modes, lines of at most 2 commands and a tail, 3 lines
since power-up, 24 words, twice the longest line; 49 542 states):
`EveryCommandOnce`, `PromptIsReady`, `ExitSwitchesOff`, `HangsOnlyAfterExit`,
`LineEnds`. Two commands and a tail contain every change between the loops; three
lines are an entry, a line that leaves tokens behind and one that might run them.
Counts of 255, which fits the buffer once but not twice in a row, of 256 and, in a mode
that waits for the timer, of 300, and a number of 256 show the writes that are given up
(`ChompFits`): the bytes before are written and the rest of the line is lost. The
run has no deadlock check, since after `MaxLines` lines, or hung, the model stops.

### FlashUpdate, PyDfu: programming the board

`PyDfu` is `main` of `pydfu.py` transfer by transfer: `init`'s loop, each
operation as DNLOAD and two status requests (`Operation`), the walk over elements,
pages and transfers, and the two calls of `exit_dfu`. `read_dfu_file` is a fold
over a file's targets with Python's slices, which are never longer than what is
left. The bootloader is not in the repository: it is the DFU state machine as far
as the tool relies on it, it may fail a command, leaving its area torn, and it
may be unplugged. A cell remembers which address its data was meant for.
`FlashUpdate` is the promise without protocol: erase only what was asked for,
program only erased cells, finished only when all that was due is there.

Run `dfu` (8 addresses in pages of 2, 2 and 4; transfers of 2; ten files, sound
and damaged; 2 faults; 95 509 states): `FinishedMeansWritten`; `RerunSucceeds`
(liveness: a run that nothing disturbs, on a sound file, finishes from whatever
an earlier one left); `ImplementsFlashUpdate`, the refinement. Pages of two sizes
make a piece end at both kinds of page end, transfers of two split a piece, and two
faults are a failure and the interruption of the run that follows it.

`FinishedMeansWritten` is about the bytes that no later element erased again
(`Stays`): without mass erase an element that starts in a page an earlier one has
written erases it first. A bootloader already told to leave (`manSYNC`) is
excepted from `RerunSucceeds`: it leaves at the first status request.

### SpiFlash: the chip behind the tools

Each step is one write-then-read of BBIO SPI, which `HostSession` shows to be
answered in step, so no bytes appear here. Program and dump of both tools, a chip
with write enable latch, work in progress and fail flags, that ignores what it is
sent while busy; the host killed anywhere and started again with any job.

Run `spi_flash` (12 pages in sectors of 4, an erase every 3 as the code has 15 of
16, addresses up to page 16 so that both the chip and the address wrap; jobs
that end before, on and after both boundaries; 2 faults; 379 966 states):
`DoneMeansProgrammed`, `DumpIsContents`, `RunEnds`. The erase every 15 pages
looks like an off-by-one; the run shows that it only erases ahead. All program jobs
carry the same image, since a page is known by its number in the file.

### Findings

Two runs expect a violation. Each states what the repository says.

| Run | Said | Done |
|---|---|---|
| `text_bridge_press` | "Interrupt by pressing user button." (`hydrabus_mode_uart.c:133`) | The thread asks only for the button, not for its stop flag: after a short press the console waits for it for ever, or until another press. |
| `session_config` | options "SPI polarity" and "SPI clock phase" (`HydraSPI.py:332,339`) | `HydraSPI.py:74` puts them at bits 3 and 2, the firmware reads bits 2 and 1: polarity is ignored, phase sets the polarity. |

Met while modelling and reflected in the modules, without a run of their own:

* Waiting for SUMP's trigger looks at neither button nor host, although
  `hydrabus_sump.c:348` says "Interrupt by pressing user button."
* `i` survives SUMP and bytes 2 and 0x10, so that the next SUMP identification of
  `main.c:106` may be dropped.
* JTAG's pin commands take one number (`commands.c:1237`), but `tck 5 tms 6` reads
  the wrong token and steps over one too many.
* `device` leaves the device chosen before on; commands after `exit` in a line run
  on what exit has switched off; a refused value makes `exec` answer its position
  in the line instead of the number of tokens used; a NULL buffer is used by the
  NFC reader.
* After a number above 255 or a repeat count over the buffer (`hydrabus_mode.c:335,345`)
  the bytes before it are still written, and whatever follows on the line, `exit`
  too, is dropped.
* OpenOCD with half a command is deaf to the button (`hydrabus_mode_jtag.c:738`).
* `HydraSPI.py`'s clean-up may start the SPI sniffer (`SnifferAfterFailure`).
* `HydraSPI.py:243` programs pages from address 0 whatever start address is given,
  which only the erase follows; `DoneMeansProgrammed` is about a start at 0.
* `HydraSPI.py:198` tests bits 20 and 24 of a byte, meaning 5 and 6: a failure of
  the chip is not noticed. The `assert 'text'` lines never fire: without a chip the
  status loops do not end (`RunEnds` is about a chip that answers).
* `hydra_spiflash_nor_dump.py:194` chooses four address bytes by the size, not the
  last address: a high start ends in an OverflowError between header and payload.
* `pydfu.py -u` is described as "read file from DFU device" and writes; with `-x` it
  exits twice, the second time without a device; a mass erase comes before the file is
  looked at; an empty or damaged file leaves the device in DFU mode.

## 4. Fairness

* `BinaryModes`: weak fairness of `Polling`, the steps that wait for nobody;
  OpenOCD reads its command byte with a timeout of one tick and the UART bridge
  reads with one of 100 us. Nobody has to send a byte, nor a command's parameters.
* `UartBridge`: weak fairness of the running thread (a cooperative scheduler
  runs somebody), of sleeps and of the USB queue (the host empties it), and of
  the console's read with a timeout in the bridges. Nobody has to type or press.
* `Console`, `HostSession`: weak fairness of the read of a detached console, which
  returns at once, of the firmware's reads of bytes that are there, and of the
  tool's next step. No user, fault or second tool has to do anything, and the
  sniffer's output and the button are not fair.
* `PyDfu`: weak fairness of the running tool; each of its transfers has a timeout,
  so it returns or raises. Faults and restarts are not fair.
* `SpiFlash`: weak fairness of the host and of the chip's completion of its work.
* `OneWireSearch`, `TextLine`: weak fairness of the sequential code.
* `PoolAlloc`, `LineHistory`, `SumpCapture`: none is needed; nothing in the code ends
  the wait for a trigger.

## 5. What is proved

**`PoolAllocProofs`** - for every number of blocks from 1 to 255, block size
and set of requests that 255 blocks cover (`PoolAssumption`: `alloc.c:34` asks for
fewer than 256 blocks, and no caller asks for more). The inductive invariant is
`TypeOK /\ RegionsLabelled /\ RegionsDisjoint /\ NoOrphanBlock /\ StatsExact`: the
counter is exact only because the labels of a region are all equal to its length
and each used block belongs to exactly one held pointer. From it follow `TypeCorrect`,
`DisjointBuffers`, `CounterExact`; `PoolRefinement`, that every call is an
allocation, refusal, release or stutter of `Pool`; and `LiveBuffersKept`, that no
call touches the labels of a buffer that stays.

**`UartBridgeProofs`** - for every finite set of working areas
(`SlotsAssumption`: the console is not one of them) and every schedule. The
properties checked are not inductive by themselves. `IInv` adds to the types

* `Ownership`: a working area is in use exactly when it is the console's or
  forgotten, and not both;
* `ReaderOfSession`: during a session the reader is an echo reader that was not
  asked to stop, so only a press can have ended it;
* `ReadyList`: no thread is queued twice, only threads that can run are, and a
  console that waits is queued only once its thread has ended. This is what makes
  the end of a wait mean the end of the thread (`JoinedIsDead`), and without it
  an area could be given back under a running thread.

The proof goes by action; the queue lemmas (`TailQueue`, `AppendQueue`,
`BlockedQueue`, ...) say what each scheduler operation does to the set of queued
threads. From `IInv` follow `TypeCorrect` (with the bound on the ready list),
`ReadersOwned`, `EchoIsHonest`, `OwnedReadsWhileOn`, `HaltMeansLeak` and the
action property `AreaOutlivesThread`.

**`BinaryModesProofs`** - for every pool, block size and set of modes among the
fourteen (`ModesAssumption`; `RequestsAssumption` is the pool's own assumption for
the sizes these modes ask for). None of the properties is inductive. `IInv` is the
pool's invariant, cited from `PoolAllocProofs`, and

* `Control`: where in which mode the thread can be and why it is leaving. A
  session that ends by reset is one that has a reset; one that frees has a buffer.
* `Board`: between a card mode's entry and its end the SDC driver is stopped; the
  second SPI port is on only under a session that selected it or a sniffer. This
  is what makes `reset` know what to switch off.
* `Buffers`: the pool holds exactly what it held before the session and the buffers
  that are live at this point of it, which are new and do not overlap. The five
  ways out each free a different part, so `SessionGivesBack` needs the equality at
  every point between.

From it follow `PairsUsable`, `SdioOwned`, `HaltsAreButtons`, and the action
properties `NothingLeaks` and `ResetTurnsOff`; the lemmas `AllocFacts` and
`FreeFacts` of `PoolAllocProofs` say what a session may use of a call. `DriverCalls`
goes through the calls of `SdCard` one by one. A first attempt failed because two
`CASE` expressions had guards that overlap, of which TLA+ may choose either and TLC
the first; they are written without overlap now.

**`HostSessionProofs`** - for every three counts of NULs in this order
(`NulsAssumption`): the console's counter never falls behind the run of NULs nor
passes the mark it is compared with (`BbioWithinReach`, `TypeCorrect`), by an
invariant that is the two together. For every set of tools, every banner and number
of NULs (`SessionAssumption`: the identification's first byte is said nowhere else, as
the S of "SPI1"; a tool sends at least as many NULs as the console counts): each step of the composition is a step of `Console` or
leaves it alone (`ConsoleUnderTools`), hence that invariant holds under the tools
(`NulsReachBbioInSession`). It is what makes the small counts of the run no
restriction for this property.

With `LateAssumption`, `CommandsInStep` (`SessionInStep`), `NoHangOnceEntered`
(`HangsOnlyInMode`) and `DoneAtPrompt` (`BackAtPrompt`) hold for every set of runs, of
commands of any length, and any number of faults. The three properties speak of a few
moments; `SInv` says what is on the line at each step:

* `Knocking`: the bytes under way are the NULs the console has not counted, and the
  count and they together are at least those sent, or the console has left its prompt.
  What an earlier run left begins no identification behind a banner's length, since an
  identification is on the line whole (`WholeIds`) and less than both arrives late.
* `Heard`, `Asked`: so once a banner was read, an old one or not, no identification is
  left, and one that comes is the answer to the 1 and the last thing the board said. A
  tool that reads it knows that the line is empty (`Quiet`). An old banner is allowed for,
  an old identification is what must not be.
* `Sending`: of a WRITE_READ, either nothing was taken up, or the payload bytes sent and
  those still needed make up its length, or it is answered and nothing is under way.
* `Left`: how much of the goodbye the firmware has read determines where it is; the
  second 0 of `nor_dump`'s two cleanups counts as a knock, which the 15 takes back.

In the sniffer the firmware takes nothing, so `Knocking`, `Heard` and `Asked` have a
case in which the NULs lie where they were put; what it prints holds no byte that an
identification begins with.

The proof goes in two halves. `DeviceEffect` reduces the firmware's actions to eight
effects on positions in the queues, and each of the conditions above is kept by all of
them (`DeviceKnocking`, `DeviceAsked`, `DeviceSending`, `DeviceLeft`, ...). For the tools,
`EnterNow`, `BodyNow` and `CleanupNow` say which step `pc` is, and one lemma for each of
write, flush, read, next phase, open and fault takes each condition to the next. A tool's
script used to be a sequence that was consumed; with `pc` the proof can say where it is.

**`SumpCaptureProofs`** - for every ring of whole cells, number of samples to a cell,
set of pins and of triggers, delay and count (`SumpAssumption`; that the ring is a
power of two is not needed). `ReadbackIsTrue` says which samples come back true.
Its invariant says it of the ring at every moment: the j-th newest sample is at its
place counted back from `INDEX`, for all but the oldest places, of which a number is
wiped already. That number depends on the lane, since lane 0 stores a whole cell and
so wipes the lanes behind it (`Stepping`), and on whether the trigger sample is still
under `INDEX` (`Triggered`), where the next sample is or-ed with it. `RingCorrect`
is the invariant.

**`SpiFlashProofs`** - for every chip of whole sectors, width of the address, stride of the
erases from 1 to a sector, and set of jobs (`FlashAssumption`). `DumpsWhatIsThere` needs
where the dump is and that the chip works on nothing. `ProgramsWhatItSays` needs the
argument for the erase every 15 pages: after `n` erases the next to erase begins
at `n` sectors, and the page to program is at most `n` strides, so no erase meets a
page already programmed and none is programmed before its sector is erased
(`Progress`); and that a command left by a killed run is over before the first
write enable of the next has been confirmed (`ProgramSoFar`, `Steps`). The chip's
guard `wel` and its deafness while busy are what the proof uses at each step.

**`TextModeProofs`**, of `TextLine` - for every set of modes, commands, tails, parameters and
lengths (`TextAssumption` and `ParametersAssumption`: what may follow the name of a
mode clocked by TIM4 is a bit order or a pull with its word, as in `TWOWIRE_PARAMETERS`,
`THREEWIRE_PARAMETERS` and `JTAG_PARAMETERS`). The properties speak of the prompt
and of a hang; the invariant holds at every point of a line: in a mode its device is
set up and its timer runs (`Ready`), what else is on is accounted for (`Accounted`),
and the walk of a mode's init is still on the words typed (`OnTheLine`). The last one
is why entering a clocked mode cannot hang: the timer is started after `exec`, so a
word that clocks the bus there would wait for ever. Otherwise these three need
nothing of what the tokens are, nor of where the two loops stand. From it
follow `PromptPromises`, `ExitLeavesNothing` and `HangNeedsExit`.

`CommandsOnce` is `EveryCommandOnce`, and does need the tokens. `GrammarAssumption` says
how the tables of `commands.c` make a line: a command starts with a word that the loop
walking it knows, and has the length its table gives it (`CommandAt`): a flag one token, a
choice two, a value three, a count two more, numbers in a row as many as
there are, each with its offset. These are the lengths by which the tokenizer writes; that
the code walks by the same lengths is what is proved, and also that in the four places
where it does not `upset` says so: a pin of JTAG, LIN's own trigger, a value that `exec`
refuses, and a write that `chomp_integers` gives up for a number above 255 or a repeat
count over the buffer. There is no promise for what follows these in a line. Of
`show` it says that it ends the line, which holds because the tokenizer
then stays in the table of `show`; of `brute`, whose table would allow a second scan in the
same line, the property speaks only when there is one. TLC evaluates the assumption on the
commands of the run. The invariant `InStep` (`WalkInStep`) says that the walk stands at the
start of a command `k`, that what was carried out are the commands before, and, within
`exec`, that `exec` knows the token if it has just been called for it, so it cannot
answer 0, which would end the line (`Standing`). Past the last command the walk is at the
closing 0, or at the word `pins` of `show pins`, which nothing knows and which ends
the line as well. `Carrying` is the step; each command has only to show that it `Leads` to
where the next one starts. Rows of numbers and the trigger's own commands are walked by
recursive functions, `Chomp` and `TriggerEnd`: `ChainExists` gives such a walk a value at
each place and `ChainEnds` says where it stops, both by a least counterexample.

**`TextModeProofs`**, of `OneWireSearch` - for codes of any length and any set of them,
with any family but the zeros (`RomsAssumption`). The two modules share one module of
proofs, so the specification of the scan is called `ScanSpec`. The search visits the codes
in the order of their first differing bit, 0 before 1 (`Before`). `ScanInv` says of a scan
in which nothing moved: those found are exactly the devices up to `ROM_ADDR` in that
order, and `last_discrepancy` is the last bit where the path took 0 and another device
has 1, 0 if there is none (`Underway`). `NextPath` is the argument: up to that bit the walk
repeats itself, there it takes the 1, and behind it only 0 where it has a choice, so it
ends at the next code; `WholePath`, that it ends at a device at all. `EveryDeviceFound`
(`FindsEveryDevice`) follows, with `ShortedRefused` and `DeafRefused` for the buses that
answer wrongly. `NothingMadeUp` (`NoGhost`) needs no invariant but the types: whoever
leaves, the last bit was some device's that had agreed to there. The proofs need a least
counterexample more than once; `LeastNat` gets it from the theorem that inclusion of
finite sets is well-founded.

**`TextModeProofs`**, of `LineHistory` - for every size of the ring, length of a line and
set of lines (`HistoryAssumption`): `RingIsHistory` is `ImplementsHistory`, the
refinement of `History`, step by step (`TypedStep` to `DownStep`). The invariant
`HistInv` (`RingHolds`) says that there are entries and places for which

* `Ring`: read from `hist_begin` on, the ring is the entries, each with its zero, and
  zeros after the last (`Layout`, `Holds`); at least one byte is free, so equal ends mean
  an empty ring, and an empty ring starts at 0;
* `Spaced`: entries that do not start at 0 nearly fill the ring. This is what
  makes `history_delete` right: it never has to free the last entry, beyond
  which its scan for a zero would read the zeros of the free bytes
  (`EntryToFree`, `RoomMade`). It is also why the entry at `hist_begin` is in the way of
  an exact fit only if it starts at 0, the one case in which `history_add` deletes
  once more at its end (`FullRing`), and why an entry whose string ends at the end
  of the buffer really goes on at its start (`EntryShown`, for `RunsOver`);
* `Shows`: `hist_step` is -1, the first byte of an entry, or `hist_end`.

That cutting the live bytes at their zeros gives those entries (`CutIs`), and counting the
zeros the cursor (`CursorRead`), is an induction over the bytes: `CutIs` takes a least
counterexample (`LeastNat`) instead, and for that `Cut` is a recursive function.
`ModIs` and `Circle` are the arithmetic of the circle. Each of the three cases of
`MakeRoom` and both of `ShownByUp` has its step. TLC checked `Spaced` on the run
before it was proved, with the bytes in use for `n`.

**`PyDfuProofs`** - for every layout of whole, aligned pages that do not overlap
(`LayoutAssumption`: what the mask of `page_addr` takes for granted, and true of the
layout string of the STM32F4), transfer size, number of attempts and of faults, and
every command line. `FinishedIsWritten` is `FinishedMeansWritten`; `UpdateRefinement`
is `ImplementsFlashUpdate`. The invariant has to say

* `Pending`: whatever command waits or runs in the bootloader does only what an update
  may, and that also of one an earlier run of the tool left, which `init` lets end;
* `InStep`: an operation asks for a status only of the command it sent itself;
* `InFile`: where the walk is; a piece ends with its element or its page, so the next
  one starts a page (`Aligned`) and erasing it takes away nothing that is to stay;
* `Fresh`: the part of a piece still to be written is erased or already right, and
  after a mass erase so is the whole flash;
* `WrittenSoFar`: every byte behind the walk that no later element erases is there.

`PageFacts` and `NextPage` are the arithmetic: a page is the page of each of its
addresses, and what follows a page starts one, also across segments. The theorems
have the hypothesis `FilesRead`: the folds of the parser make of a well-formed file
what it declares, and no element is longer than its size. That is an induction over the
file, which the prover cannot do; TLC evaluates it on the ten files of the run. The
attempt showed that `FlashUpdate`'s `Tear` read `SUBSET image \cup ...` without
parentheses, which the prover takes for a subset of the union; it has them now.

The inductive invariants were checked by TLC on the instances of the runs before they
were proved.

**Only model-checked**: all liveness, since fairness and ENABLED are beyond the
prover; `SnifferAfterFailure`; that the lines which `TextLine`'s `Line` builds from commands satisfy
`GrammarAssumption`, and `FilesRead` of `PyDfu`, the folds of its parser, which are
inductions over the words and over the file.

## 6. What is not modelled

* Bytes on the wire and the timing of signals: registers and hardware.
* The driver functions under `drv/stm32cube`: known by whether they are initialised.
* NFC apart from the life of the binary reader's session; its sniffer and its
  emulators drive an external chip.
* CAN (`CAN1` is undefined on the STM32F401) and the BBIO ADC and frequency
  modes, which no dispatcher of this port calls.
* The one-peripheral commands (ADC, DAC, PWM, ...): a loop until the button.
* USB descriptors, board tables, the fault handler, `build-scripts/hex2dfu.c`.
* Of the tools: option parsing, output, the table of SPI speeds, `pydfu.py --list`.
  The examples that are straight-line calls of pyHydrabus or print and go on after
  every error have no state to check. `get-pip.py` is a vendored installer and makes
  up 94 of 100 lines of Python in the repository; it is no part of the system.
* Trigger match, I2C master, JTAG's TAP, open files and scripts: see the plan.
