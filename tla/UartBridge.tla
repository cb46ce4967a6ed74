------------------------------ MODULE UartBridge ----------------------------
(***************************************************************************)
(* The threads that copy UART data to the host: the reader of the binary   *)
(* UART mode (hydrabus_bbio_uart.c), which START, BRIDGE and STOP create   *)
(* and join, and the one of the bridge command (hydrabus_mode_uart.c).     *)
(* ChibiOS runs without time slices: among threads of equal priority the   *)
(* first ready one keeps the CPU until it blocks or yields.  The console   *)
(* and the echo readers have NORMALPRIO, the bridge thread has LOWPRIO.    *)
(***************************************************************************)
EXTENDS Naturals, Sequences, FiniteSets

CONSTANT Slots       (* the heap's working areas for reader threads        *)

ASSUME SlotsAssumption == IsFiniteSet(Slots) /\ "console" \notin Slots /\ "none" \notin Slots

VARIABLES
  ready,             (* ready NORMALPRIO threads, the running one first    *)
  th,                (* the thread in each working area                    *)
  con,               (* where the console thread is                        *)
  rthread,           (* the reader the console knows of                    *)
  uart,              (* the peripheral is initialised                      *)
  button,
  abandoned,         (* the areas whose handle RESET has forgotten         *)
  pressed            (* the button was down since rthread was made         *)

vars == <<ready, th, con, rthread, uart, button, abandoned, pressed>>

none == "none"
Free == [at |-> "free", kind |-> "echo", stop |-> FALSE]

Joining == {"join_cmd", "join_exit", "join_text"}
Reading == {"prompt", "cmd", "bridge_read", "text_read"}
ReadyAt == {"start", "test", "poll", "print"}

Alive(s) == th[s].at \notin {"free", "dead"}
Runs(t) ==
  /\ con # "halt"
  /\ IF ready # << >> THEN t = Head(ready)
       ELSE t \in Slots /\ th[t].kind = "bridge" /\ th[t].at \in ReadyAt

(* What the ready list becomes when a thread blocks, wakes or yields.      *)
IsNormal(t) == t = "console" \/ th[t].kind = "echo"
Blocked(t)  == IF IsNormal(t) THEN Tail(ready) ELSE ready
Woken(t)    == IF IsNormal(t) THEN Append(ready, t) ELSE ready
(* Fault: the thread that yields stays in front as well.                   *)
YieldedTwice(t) == IF IsNormal(t) THEN Append(ready, t) ELSE ready

Yielded(t)  == IF IsNormal(t) THEN Append(Tail(ready), t) ELSE ready

ReaderVars == <<con, rthread, uart, button, abandoned, pressed>>
To(s, at) == th' = [th EXCEPT ![s].at = at]

-----------------------------------------------------------------------------
(* The reader threads.                                                     *)
Start(s) ==
  /\ Runs(s) /\ th[s].at = "start"
  /\ To(s, "sleep") /\ ready' = Blocked(s)
  /\ UNCHANGED ReaderVars

(* chThdWait wakes when the thread it waits for ends.                      *)
Exit(s) ==
  /\ To(s, "dead")
  /\ ready' = IF con \in Joining /\ rthread = s
                THEN Append(Blocked(s), "console") ELSE Blocked(s)

(* Fault: only the button ends the thread.                                 *)
EndsByButtonOnly(s) == button

(* The bridge thread of the text mode does not ask for its stop flag.      *)
Ends(s) == button \/ (th[s].kind = "echo" /\ th[s].stop)

Test(s) ==
  /\ Runs(s) /\ th[s].at = "test"
  /\ IF Ends(s) THEN Exit(s) ELSE To(s, "poll") /\ UNCHANGED ready
  /\ UNCHANGED ReaderVars

Poll(s) ==
  /\ Runs(s) /\ th[s].at = "poll"
  /\ \/ To(s, "print") /\ UNCHANGED ready
     \/ To(s, "test") /\ ready' = Yielded(s)
  /\ UNCHANGED ReaderVars

(* Fault: more data is read before the loop condition is tested again.     *)
PollsOn(s) == To(s, "poll")

Printed(s) == To(s, "test")

(* Printing blocks while the USB queue is full.                            *)
PrintData(s) ==
  /\ Runs(s) /\ th[s].at = "print"
  /\ \/ Printed(s) /\ UNCHANGED ready
     \/ To(s, "full") /\ ready' = Blocked(s)
  /\ UNCHANGED ReaderVars

WakeReader(s) ==
  /\ con # "halt"
  /\ th[s].at \in {"sleep", "full"}
  /\ To(s, "test") /\ ready' = Woken(s)
  /\ UNCHANGED ReaderVars

ReaderStep(s) == Start(s) \/ Test(s) \/ Poll(s) \/ PrintData(s)

-----------------------------------------------------------------------------
(* chThdCreateFromHeap: NULL when no working area is left.                 *)
FreeSlots == {s \in Slots : th[s].at = "free"}

Create(kind) ==
  IF FreeSlots = {} THEN rthread' = none /\ UNCHANGED <<th, ready, pressed>>
  ELSE \E s \in FreeSlots :
    /\ rthread' = s
    /\ th' = [th EXCEPT ![s] = [at |-> "start", kind |-> kind, stop |-> FALSE]]
    /\ ready' = IF kind = "echo" THEN Append(ready, s) ELSE ready
    /\ pressed' = button

CreateEcho ==
  IF rthread = none THEN Create("echo") ELSE UNCHANGED <<th, ready, rthread, pressed>>

(* Fault: the stop flag is set and the thread forgotten.                   *)
StopAndForget(join) ==
  /\ th' = [th EXCEPT ![rthread].stop = TRUE]
  /\ rthread' = none
  /\ con' = IF join = "join_cmd" THEN "test" ELSE "prompt"
  /\ ready' = IF join = "join_cmd" THEN ready ELSE Tail(ready)

(* chThdTerminate and chThdWait.  The console blocks until the reader has  *)
(* ended, unless it has already.                                           *)
Stop(join) ==
  /\ th' = [th EXCEPT ![rthread].stop = TRUE]
  /\ con' = join
  /\ ready' = IF Alive(rthread) THEN Tail(ready) ELSE ready
  /\ UNCHANGED rthread

(* Fault: the working area is not given back.                              *)
ReleaseNothing == th' = th

Release == th' = [th EXCEPT ![rthread] = Free]

(* Fault: the variable keeps its value.                                    *)
KeepHandle == UNCHANGED rthread

ForgetHandle == rthread' = none

(* The wait is over: the area is released and the variable cleared.        *)
Joined ==
  /\ Runs("console") /\ con \in Joining
  /\ Release /\ ForgetHandle
  /\ IF con = "join_cmd" THEN con' = "test" /\ UNCHANGED ready
       ELSE con' = "prompt" /\ ready' = Tail(ready)
  /\ UNCHANGED <<uart, button, abandoned, pressed>>

(* A byte from the host, a timeout or the loss of USB ends a read.         *)
WakeConsole ==
  /\ con \in Reading /\ \A i \in DOMAIN ready : ready[i] # "console"
  /\ ready' = Append(ready, "console")
  /\ UNCHANGED <<th, con, rthread, uart, button, abandoned, pressed>>

-----------------------------------------------------------------------------
(* bbio_mode_uart.                                                         *)
EnterMode ==
  /\ Runs("console") /\ con = "prompt"
  /\ con' = "test" /\ rthread' = none /\ uart' = TRUE
  /\ UNCHANGED <<ready, th, button, abandoned, pressed>>

(* The button ends the session and leaves the UART on.                     *)
TestLoop ==
  /\ Runs("console") /\ con = "test"
  /\ IF ~button THEN con' = "cmd" /\ ready' = Tail(ready) /\ UNCHANGED <<th, rthread>>
     ELSE IF rthread # none THEN Stop("join_exit")
     ELSE con' = "prompt" /\ ready' = Tail(ready) /\ UNCHANGED <<th, rthread>>
  /\ UNCHANGED <<uart, button, abandoned, pressed>>

(* BBIO_RESET returns at once: the reader, if any, lives on.               *)
Reset ==
  /\ Runs("console") /\ con = "cmd"
  /\ con' = "prompt" /\ ready' = Tail(ready)
  /\ uart' = FALSE /\ rthread' = none
  /\ abandoned' = abandoned \cup ({rthread} \ {none})
  /\ UNCHANGED <<th, button, pressed>>

StartEcho ==
  /\ Runs("console") /\ con = "cmd"
  /\ CreateEcho /\ con' = "test"
  /\ UNCHANGED <<uart, button, abandoned>>

StopEcho ==
  /\ Runs("console") /\ con = "cmd"
  /\ IF rthread # none THEN Stop("join_cmd") ELSE con' = "test" /\ UNCHANGED <<th, ready, rthread>>
  /\ UNCHANGED <<uart, button, abandoned, pressed>>

Bridge ==
  /\ Runs("console") /\ con = "cmd"
  /\ CreateEcho /\ con' = "bridge"
  /\ UNCHANGED <<uart, button, abandoned>>

BridgeLoop ==
  /\ Runs("console") /\ con = "bridge"
  /\ IF ~button THEN con' = "bridge_read" /\ ready' = Tail(ready) /\ UNCHANGED <<th, rthread>>
     ELSE IF rthread # none THEN Stop("join_cmd")
     ELSE con' = "test" /\ UNCHANGED <<th, ready, rthread>>
  /\ UNCHANGED <<uart, button, abandoned, pressed>>

(* Any other command, or no byte at all, and the bytes a bridge sends on.  *)
OtherRead ==
  /\ Runs("console") /\ con \in Reading
  /\ con' = CASE con = "cmd" -> "test" [] con = "bridge_read" -> "bridge"
              [] con = "text_read" -> "text" [] con = "prompt" -> "prompt"
  /\ ready' = IF con = "prompt" THEN Tail(ready) ELSE ready
  /\ UNCHANGED <<th, rthread, uart, button, abandoned, pressed>>

-----------------------------------------------------------------------------
(* The bridge command of the text mode.                                    *)
TextBridge ==
  /\ Runs("console") /\ con = "prompt"
  /\ Create("bridge") /\ con' = "text" /\ uart' = TRUE
  /\ UNCHANGED <<button, abandoned>>

(* With no thread, chThdTerminate and chThdWait are given NULL.            *)
TextLoop ==
  /\ Runs("console") /\ con = "text"
  /\ IF ~button THEN con' = "text_read" /\ ready' = Tail(ready) /\ UNCHANGED <<th, rthread>>
     ELSE IF rthread # none THEN Stop("join_text")
     ELSE con' = "halt" /\ UNCHANGED <<th, ready, rthread>>
  /\ UNCHANGED <<uart, button, abandoned, pressed>>

-----------------------------------------------------------------------------
Press ==
  /\ ~button /\ button' = TRUE /\ pressed' = TRUE
  /\ UNCHANGED <<ready, th, con, rthread, uart, abandoned>>

Unpress ==
  /\ button /\ button' = FALSE
  /\ UNCHANGED <<ready, th, con, rthread, uart, abandoned, pressed>>

Init ==
  /\ ready = << >>
  /\ th = [s \in Slots |-> Free]
  /\ con = "prompt" /\ rthread = none /\ uart = FALSE
  /\ button = FALSE /\ abandoned = {} /\ pressed = FALSE

(* What a thread does next in its loops, without a new byte from the host. *)
ConsoleStep ==
  TestLoop \/ BridgeLoop \/ TextLoop \/ Joined \/ OtherRead

Command == EnterMode \/ Reset \/ StartEcho \/ StopEcho \/ Bridge \/ TextBridge

Next ==
  \/ ConsoleStep \/ Command \/ WakeConsole \/ Press \/ Unpress
  \/ \E s \in Slots : ReaderStep(s) \/ WakeReader(s)

(* The running thread runs, sleeps and timeouts end, and the host empties  *)
(* the USB queue.  Nobody has to send a byte or press the button.          *)
Fairness ==
  /\ WF_vars(ConsoleStep \/ Command \/ \E s \in Slots : ReaderStep(s))
  /\ \A s \in Slots : WF_vars(WakeReader(s))
  /\ WF_vars(WakeConsole /\ con \in {"bridge_read", "text_read"})

Spec == Init /\ [][Next]_vars /\ Fairness

-----------------------------------------------------------------------------
TypeOK ==
  /\ ready \in Seq(Slots \cup {"console"}) /\ Len(ready) <= Cardinality(Slots) + 1
  /\ \A i, j \in DOMAIN ready : ready[i] = ready[j] => i = j
  /\ th \in [Slots -> [at : ReadyAt \cup {"sleep", "full", "dead", "free"},
                       kind : {"echo", "bridge"}, stop : BOOLEAN]]
  /\ con \in Joining \cup Reading \cup {"test", "bridge", "text", "halt"}
  /\ rthread \in Slots \cup {none} /\ abandoned \subseteq Slots
  /\ uart \in BOOLEAN /\ button \in BOOLEAN /\ pressed \in BOOLEAN

(* A reader outlives the session that made it only when RESET ended that   *)
(* session: every other way out joins it, so no two readers share          *)
(* proto->buffer_rx otherwise.                                             *)
ReadersAccounted ==
  \A s \in Slots : Alive(s) => s = rthread \/ s \in abandoned

(* The console believes in a reader that has ended only if the button was  *)
(* down meanwhile: START then answers 1 and starts nothing.                *)
EchoHonest ==
  con \in {"test", "cmd", "bridge", "bridge_read"} /\ rthread # none /\ ~pressed
    => Alive(rthread)

(* A reader that is still owned touches the UART only while it is on.      *)
ReadsWhileOn ==
  \A s \in Slots \ abandoned : th[s].at \in {"poll", "print"} => uart

(* The NULL handle that halts the system in the text bridge comes only     *)
(* from areas RESET has leaked: a joined thread always gives its area back.*)
HaltOnlyAfterLeak == con = "halt" => abandoned = Slots

(* The console never waits for ever for an echo reader: it tests its stop  *)
(* flag on every turn, data or not, unless an abandoned reader has the CPU.*)
StopReturns ==
  (con \in {"join_cmd", "join_exit"})
    ~> (con \notin {"join_cmd", "join_exit"} \/ \E s \in abandoned : Alive(s))

(* A button that is held down ends every reader, the abandoned ones too,   *)
(* however busy the line is.                                               *)
ButtonEndsReaders ==
  (\E s \in Slots : Alive(s)) ~> (~button \/ con = "halt" \/ \A s \in Slots : ~Alive(s))

(* "Interrupt by pressing user button.": once the console has seen the     *)
(* button the text bridge ends.                                            *)
PressEndsTextBridge == (con = "join_text") ~> (con # "join_text")
=============================================================================
