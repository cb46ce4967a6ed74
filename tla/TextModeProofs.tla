----------------------------- MODULE TextModeProofs --------------------------
(***************************************************************************)
(* Proofs about the text modes.  TextLine: what a prompt promises, what    *)
(* exit leaves on, when the board can hang, and that each command of a     *)
(* line is carried out once, for every set of modes, commands and lines.   *)
(* OneWireSearch: what the scan of the 1-Wire mode prints, for every       *)
(* length of a code and set of codes.  LineHistory: the ring of the        *)
(* command history implements the history the user sees, for every size of *)
(* the ring and of a line.                                                 *)
(***************************************************************************)
EXTENDS TextLine, OneWireSearch, LineHistory, FiniteSetTheorems, SequenceTheorems,
        TLAPS

(* The prompt is the top's or a mode's, and the level counts the modes.    *)
Prompt ==
  /\ console_mode \in Modes \cup {"top"} /\ entering \in BOOLEAN
  /\ level = (IF console_mode = "top" THEN 0 ELSE 1)

(* The init of a mode runs its exec under the prompt of the top.           *)
Entering == entering => console_mode = "top" /\ exec_mode \in Modes /\ phase = "exec"

(* In a mode, at any point of a line, its device is set up.                *)
Ready ==
  console_mode # "top" =>
    /\ exec_mode = console_mode /\ Device(dev_num) \subseteq on
    /\ exec_mode \in Clocked => tim

(* Nothing is on but the device in use and what is accounted for.          *)
Accounted ==
  /\ on \subseteq stray \cup Device(dev_num)
  /\ AfterExit => on \subseteq stray

(* On its way into a mode that waits for the timer, the walk is still on   *)
(* the line typed, at its closing 0 at the latest.                         *)
OnTheLine ==
  /\ DOMAIN tokens = 0 .. Words - 1
  /\ entering /\ exec_mode \in Clocked =>
       /\ Quiet(line.tokens) /\ t \in 1 .. Len(line.tokens)
       /\ \A p \in 1 .. Len(line.tokens) - 1 : tokens[p] = line.tokens[p + 1]
       /\ tokens[Len(line.tokens)] = "0"

IInv == Prompt /\ Entering /\ Ready /\ Accounted /\ OnTheLine /\ HangsOnlyAfterExit

-----------------------------------------------------------------------------
(* No mode is called as the top is.                                        *)
LEMMA TopIsNoMode == "top" \notin Modes
<1>1. "top" \notin DOMAIN Exec  BY DEF Exec
<1> QED  BY <1>1, TextAssumption

(* To the exec of a clocked mode a bit order is a flag, pull a choice, and *)
(* neither a pull's word nor the closing 0 means anything.                 *)
LEMMA ClockedExec ==
  ASSUME NEW m \in Clocked
  PROVE  /\ \A c \in Exec[m].flag : c \notin Pulls \cup {"PULL", "0"}
         /\ \A c \in Exec[m].choice : c \notin Pulls \cup BitOrders \cup {"0"}
         /\ \A c \in DOMAIN Exec[m].value \cup DOMAIN Exec[m].sub \cup DOMAIN Exec[m].pin :
              c \notin Pulls \cup BitOrders \cup {"PULL", "0"}
<1>1. Exec.twowire = TwoWireExec /\ Exec.threewire = ThreeWireExec /\ Exec.jtag = JtagExec
  BY DEF Exec
<1>2. DOMAIN None = {}  BY DEF None
<1>3. CASE m = "twowire"
  <2>1. /\ TwoWireExec.flag = {"MSB_FIRST", "LSB_FIRST", "IDCODE"} /\ TwoWireExec.choice = {"PULL"}
        /\ DOMAIN TwoWireExec.value = {"FREQUENCY", "BRUTE", "POLARITY"}
        /\ TwoWireExec.sub = None /\ TwoWireExec.pin = None
    BY DEF TwoWireExec
  <2> QED  BY <1>1, <1>2, <1>3, <2>1 DEF Pulls, BitOrders
<1>4. CASE m = "threewire"
  <2>1. /\ ThreeWireExec.flag = {"MSB_FIRST", "LSB_FIRST"} /\ ThreeWireExec.choice = {"PULL"}
        /\ DOMAIN ThreeWireExec.value = {"FREQUENCY", "POLARITY"}
        /\ ThreeWireExec.sub = None /\ ThreeWireExec.pin = None
    BY DEF ThreeWireExec
  <2> QED  BY <1>1, <1>2, <1>4, <2>1 DEF Pulls, BitOrders
<1>5. CASE m = "jtag"
  <2>1. /\ JtagExec.flag = {"MSB_FIRST", "LSB_FIRST", "BYPASS", "IDCODE", "OOCD"}
        /\ JtagExec.choice = {"PULL"}
        /\ DOMAIN JtagExec.value = {"FREQUENCY"} /\ DOMAIN JtagExec.sub = {"BRUTE"}
        /\ DOMAIN JtagExec.pin = {"TCK", "TMS", "TDI", "TDO", "TRST"}
    BY DEF JtagExec
  <2> QED  BY <1>1, <1>5, <2>1 DEF Pulls, BitOrders
<1> QED  BY <1>3, <1>4, <1>5 DEF Clocked

(* What the walk into a clocked mode can stand at.                         *)
LEMMA AtQuietWord ==
  ASSUME IInv, entering, exec_mode \in Clocked
  PROVE  /\ Len(line.tokens) \in Nat /\ t \in 1 .. Len(line.tokens)
         /\ tokens[t] \in BitOrders \cup Pulls \cup {"PULL", "0"}
         /\ tokens[t] # "0" => t + 1 <= Len(line.tokens)
         /\ tokens[t] = "PULL" => t + 2 <= Len(line.tokens)
<1> DEFINE n == Len(line.tokens)
<1>1. /\ Quiet(line.tokens) /\ t \in 1 .. n /\ tokens[n] = "0"
      /\ \A p \in 1 .. n - 1 : tokens[p] = line.tokens[p + 1]
  BY DEF IInv, OnTheLine
<1>2. n \in Nat  BY <1>1 DEF Quiet
<1>3. CASE t = n
  BY <1>1, <1>2, <1>3
<1>4. CASE t < n
  <2>1. t \in 1 .. n - 1 /\ t + 1 \in 2 .. n  BY <1>1, <1>2, <1>4
  <2>2. tokens[t] = line.tokens[t + 1]  BY <1>1, <2>1
  <2>3. \/ line.tokens[t + 1] \in BitOrders \cup Pulls
        \/ line.tokens[t + 1] = "PULL" /\ t + 1 < n
    BY <1>1, <2>1 DEF Quiet
  <2>4. "PULL" \notin BitOrders \cup Pulls  BY DEF BitOrders, Pulls
  <2> QED  BY <1>1, <1>2, <2>1, <2>2, <2>3, <2>4
<1> QED  BY <1>1, <1>2, <1>3, <1>4

(* Nothing hangs but a command after exit: in a mode the timer runs, and   *)
(* on the way into one no word clocks the bus.                             *)
LEMMA HangIsAfterExit ==
  ASSUME IInv, MayHang(tokens[t])
  PROVE  AfterExit
<1>1. exec_mode \in Clocked /\ ~tim /\ tokens[t] \in Edges \cup OneEdge  BY DEF MayHang
<1>2. console_mode = "top"  BY <1>1 DEF IInv, Ready
<1>3. CASE entering
  <2>1. tokens[t] \in BitOrders \cup Pulls \cup {"PULL", "0"}  BY <1>1, <1>3, AtQuietWord
  <2> QED  BY <1>1, <2>1 DEF Edges, OneEdge, BitOrders, Pulls
<1> QED  BY <1>2, <1>3 DEF AfterExit

(* A step that only moves on along the line keeps the invariant.           *)
LEMMA MovingOn ==
  ASSUME IInv, UNCHANGED <<parsed, modes, hardware, entering>>,
         phase' = "hung" => AfterExit,
         entering => phase' = "exec",
         entering /\ exec_mode \in Clocked => t' \in 1 .. Len(line.tokens)
  PROVE  IInv'
<1> USE DEF parsed, modes, hardware
<1>1. Prompt'  BY DEF IInv, Prompt
<1>2. Entering'  BY DEF IInv, Entering
<1>3. Ready'  BY DEF IInv, Ready, Device
<1>4. Accounted'  BY DEF IInv, Accounted, Device, AfterExit
<1>5. OnTheLine'  BY DEF IInv, OnTheLine, Quiet
<1>6. HangsOnlyAfterExit'  BY DEF HangsOnlyAfterExit, AfterExit
<1> QED  BY <1>1, <1>2, <1>3, <1>4, <1>5, <1>6 DEF IInv

(* So does the end of a line, unless it was on its way into a mode.        *)
LEMMA Ending ==
  ASSUME IInv, EndLine, ~entering, UNCHANGED <<parsed, modes, hardware>>
  PROVE  IInv'
<1>1. UNCHANGED entering  BY DEF EndLine, IInv, Prompt
<1> QED  BY <1>1, MovingOn DEF EndLine

(* The walk of cmd_mode_exec is never that of a mode's init.               *)
LEMMA InLine ==
  ASSUME IInv, phase \in {"line", "idle", "hung"}
  PROVE  ~entering
BY DEF IInv, Entering

(* Finish, in cmd_mode_exec or with nothing set up in exec.                *)
LEMMA Finishing ==
  ASSUME IInv, NEW p, Finish(p), UNCHANGED <<parsed, modes, hardware>>,
         phase \in {"line", "exec"},
         entering /\ exec_mode \in Clocked => p \in 1 .. Len(line.tokens)
  PROVE  IInv'
<1>0. entering => phase = "exec"  BY DEF IInv, Entering
<1>1. CASE GoOn(p)  BY <1>0, <1>1, MovingOn DEF GoOn
<1>2. CASE MayHang(tokens[t]) /\ phase' = "hung" /\ UNCHANGED <<t, token_pos, entering>>
  BY <1>2, HangIsAfterExit, MovingOn DEF AfterExit
<1> QED  BY <1>1, <1>2 DEF Finish

(* exec returns: into the mode it was called for, or to cmd_mode_exec.     *)
LEMMA Returning ==
  ASSUME IInv, NEW n, phase = "exec", Return(n), UNCHANGED parsed
  PROVE  IInv'
<1> USE DEF parsed, modes, hardware
<1>1. CASE entering
  <2>1. /\ phase' = "idle" /\ entering' = FALSE /\ InitHardware
        /\ console_mode' = exec_mode /\ level' = level + 1
        /\ UNCHANGED <<exec_mode, dev_num, stray>>
    BY <1>1 DEF Return, EndLine
  <2>2. console_mode = "top" /\ level = 0 /\ exec_mode \in Modes
    BY <1>1 DEF IInv, Prompt, Entering
  <2>3. Prompt'
    <3>1. console_mode' \in Modes /\ console_mode' # "top" /\ level' = 1
      BY <2>1, <2>2, TopIsNoMode
    <3>2. entering' \in BOOLEAN  BY <2>1
    <3> QED  BY <3>1, <3>2 DEF Prompt
  <2>4. Entering'  BY <2>1 DEF Entering
  <2>5. Ready'  BY <2>1, <2>2 DEF Ready, Device, InitHardware
  <2>6. Accounted'
    BY <2>1, <2>2, TopIsNoMode DEF IInv, Accounted, Device, InitHardware, AfterExit
  <2>7. OnTheLine'  BY <2>1 DEF IInv, OnTheLine
  <2>8. HangsOnlyAfterExit'  BY <2>1 DEF HangsOnlyAfterExit
  <2> QED  BY <2>3, <2>4, <2>5, <2>6, <2>7, <2>8 DEF IInv
<1>2. CASE ~entering /\ n = 0
  BY <1>2, Ending DEF Return, GivesUp
<1>3. CASE ~entering /\ n # 0
  BY <1>3, MovingOn DEF Return, Resume
<1> QED  BY <1>1, <1>2, <1>3

-----------------------------------------------------------------------------
(* The steps of the user and of cmd_mode_exec.                             *)
LEMMA TypingKeeps ==
  ASSUME IInv, TypeLine
  PROVE  IInv'
<1> USE DEF modes, hardware
<1>0. phase = "idle" /\ ~entering  BY InLine DEF TypeLine, TypeRejected, TypeInMode, TypeAtTop
<1>1. CASE TypeRejected \/ TypeInMode
  <2>1. /\ UNCHANGED <<entering, modes, hardware>> /\ console_mode \in Modes
        /\ phase' \in {"idle", "line"} /\ DOMAIN tokens' = DOMAIN tokens
    BY <1>0, <1>1 DEF TypeRejected, TypeInMode, Store
  <2>2. Prompt'  BY <2>1 DEF IInv, Prompt
  <2>3. Entering'  BY <1>0, <2>1 DEF Entering
  <2>4. Ready'  BY <2>1 DEF IInv, Ready, Device
  <2>5. Accounted'  BY <2>1 DEF IInv, Accounted, Device, AfterExit
  <2>6. OnTheLine'  BY <1>0, <2>1 DEF IInv, OnTheLine
  <2>7. HangsOnlyAfterExit'  BY <2>1 DEF HangsOnlyAfterExit
  <2> QED  BY <2>2, <2>3, <2>4, <2>5, <2>6, <2>7 DEF IInv
<1>2. CASE TypeAtTop
  <2>1. PICK m \in Modes : \E l \in TopLines[m] : Store(l, TRUE) /\ exec_mode' = m
    BY <1>2 DEF TypeAtTop
  <2>2. PICK l \in TopLines[m] : Store(l, TRUE)  BY <2>1
  <2>3. /\ console_mode = "top" /\ dev_num' = 0 /\ entering' = TRUE /\ phase' = "exec" /\ t' = 1
        /\ UNCHANGED <<console_mode, level, hardware>> /\ exec_mode' = m
    BY <1>2, <2>1 DEF TypeAtTop
  <2>4. Prompt'  BY <2>3 DEF IInv, Prompt
  <2>5. Entering'  BY <2>3 DEF Entering
  <2>6. Ready'  BY <2>3 DEF Ready
  <2>7. Accounted'  BY <1>0, <2>3 DEF IInv, Accounted, AfterExit
  <2>8. OnTheLine'
    <3>1. /\ DOMAIN tokens = 0 .. Words - 1 /\ DOMAIN tokens' = DOMAIN tokens /\ line' = l
          /\ \A p \in DOMAIN tokens :
               tokens'[p] = IF p < Len(l.tokens) THEN l.tokens[p + 1]
                            ELSE IF p = Len(l.tokens) THEN "0" ELSE tokens[p]
      BY <2>2 DEF IInv, OnTheLine, Store
    <3>2. CASE m \in Clocked
      <4>1. l.tokens # <<>> /\ Quiet(l.tokens)  BY <2>2, <3>2, ParametersAssumption
      <4>2. Len(l.tokens) \in Nat \ {0} /\ Len(l.tokens) < Words
        BY <4>1 DEF Quiet
      <4>3. \A p \in 0 .. Len(l.tokens) : p \in DOMAIN tokens
        BY <3>1, <4>2, TextAssumption
      <4> QED  BY <2>3, <3>1, <4>1, <4>2, <4>3 DEF OnTheLine
    <3>3. CASE m \notin Clocked
      BY <2>3, <3>1, <3>3 DEF OnTheLine
    <3> QED  BY <3>2, <3>3
  <2>9. HangsOnlyAfterExit'  BY <2>3 DEF HangsOnlyAfterExit
  <2> QED  BY <2>4, <2>5, <2>6, <2>7, <2>8, <2>9 DEF IInv
<1> QED  BY <1>1, <1>2 DEF TypeLine

(* exit cleans up and pops the mode's tokens, again when it comes again.   *)
LEMMA ExitKeeps ==
  ASSUME IInv, Exit
  PROVE  IInv'
<1> USE DEF parsed, modes, hardware
<1>1. ~entering  BY InLine DEF Exit, AtLine
<1>2. /\ on' = on \ Device(dev_num) /\ console_mode' = "top"
      /\ level' = IF level = 0 THEN 0 ELSE level - 1
      /\ UNCHANGED <<phase, entering, parsed, exec_mode, dev_num, stray>>
  BY DEF Exit, Cleanup, mode_exit, GoOn
<1>3. Prompt'
  <2>1. level' = 0  BY <1>2 DEF IInv, Prompt
  <2> QED  BY <1>2, <2>1 DEF IInv, Prompt
<1>4. Entering'  BY <1>1, <1>2 DEF Entering
<1>5. Ready'  BY <1>2 DEF Ready
<1>6. Accounted'  BY <1>2 DEF IInv, Accounted, Device
<1>7. OnTheLine'  BY <1>1, <1>2 DEF IInv, OnTheLine
<1>8. HangsOnlyAfterExit'  BY <1>1, <1>2 DEF HangsOnlyAfterExit, AfterExit
<1> QED  BY <1>3, <1>4, <1>5, <1>6, <1>7, <1>8 DEF IInv

(* Each step of cmd_mode_exec keeps the invariant: only exit disturbs it.  *)
LEMMA LineKeeps ==
  ASSUME IInv, LineStep
  PROVE  IInv'
<1>0. phase = "line" /\ ~entering
  BY InLine DEF LineStep, LineOver, Mark, ReadOrDelay, Write, Trigger, Exit, CallExec, AtLine
<1>1. CASE LineOver  BY <1>0, <1>1, Ending DEF LineOver
<1>2. CASE Mark  BY <1>0, <1>2, Finishing DEF Mark
<1>3. CASE ReadOrDelay  BY <1>0, <1>3, Finishing DEF ReadOrDelay
<1>4. CASE Write
  <2>1. PICK p : WriteAt(p)  BY <1>4 DEF Write
  <2>2. UNCHANGED <<parsed, modes, hardware>>  BY <1>4 DEF Write
  <2>3. CASE GivesUp  BY <1>0, <2>2, <2>3, Ending DEF GivesUp
  <2>4. CASE Finish(Chomp(p))  BY <1>0, <2>2, <2>4, Finishing
  <2>5. CASE MayHang(tokens[t]) /\ phase' = "hung" /\ UNCHANGED <<t, token_pos, entering>>
    <3>1. Finish(t)  BY <2>5 DEF Finish
    <3> QED  BY <1>0, <2>2, <3>1, Finishing
  <2> QED  BY <2>1, <2>3, <2>4, <2>5 DEF WriteAt
<1>5. CASE Trigger  BY <1>0, <1>5, MovingOn DEF Trigger, GoOn
<1>6. CASE Exit  BY <1>6, ExitKeeps
<1>7. CASE CallExec  BY <1>0, <1>7, MovingOn DEF CallExec
<1> QED  BY <1>1, <1>2, <1>3, <1>4, <1>5, <1>6, <1>7 DEF LineStep

-----------------------------------------------------------------------------
(* The steps of a mode's exec.  What it sets up, with the loop moved on:   *)
(* the device in use is on, and what it replaces is accounted for.         *)
LEMMA SettingUp ==
  ASSUME IInv, NEW d, SetUp(d), dev_num' = d, phase = "exec",
         UNCHANGED <<tokens, line, entering, console_mode, exec_mode, level>>,
         tim => tim', phase' = "hung" => AfterExit,
         entering => phase' = "exec",
         entering /\ exec_mode \in Clocked => t' \in 1 .. Len(line.tokens)
  PROVE  IInv'
<1>1. Prompt'  BY DEF IInv, Prompt
<1>2. Entering'  BY DEF IInv, Entering
<1>3. Ready'  BY DEF IInv, Ready, Device, SetUp
<1>4. Accounted'
  <2>1. Device(d)' = Device(d)  BY DEF Device
  <2>2. CASE d = dev_num
    BY <2>1, <2>2 DEF IInv, Accounted, AfterExit, SetUp
  <2>3. CASE d # dev_num
    BY <2>1, <2>3 DEF IInv, Accounted, AfterExit, SetUp
  <2> QED  BY <2>2, <2>3
<1>5. OnTheLine'  BY DEF IInv, OnTheLine, Quiet
<1>6. HangsOnlyAfterExit'  BY DEF HangsOnlyAfterExit, AfterExit
<1> QED  BY <1>1, <1>2, <1>3, <1>4, <1>5, <1>6 DEF IInv

(* A flag or a choice stays on the line of a clocked mode's init.          *)
LEMMA FlagOrChoiceKeeps ==
  ASSUME IInv, FlagOrChoice
  PROVE  IInv'
<1>0. /\ phase = "exec" /\ UNCHANGED <<parsed, modes, tim>> /\ Configure(tokens[t])
      /\ \/ tokens[t] \in E.flag /\ Finish(t + 1)
         \/ tokens[t] \in E.choice /\ Finish(t + 2)
  BY DEF FlagOrChoice, AtExec
<1>1. PICK p : /\ Finish(p)
               /\ entering /\ exec_mode \in Clocked => p \in 1 .. Len(line.tokens)
  <2>1. CASE ~(entering /\ exec_mode \in Clocked)  BY <1>0, <2>1
  <2>2. CASE entering /\ exec_mode \in Clocked
    <3>1. /\ Len(line.tokens) \in Nat /\ t \in 1 .. Len(line.tokens)
          /\ tokens[t] \in BitOrders \cup Pulls \cup {"PULL", "0"}
          /\ tokens[t] # "0" => t + 1 <= Len(line.tokens)
          /\ tokens[t] = "PULL" => t + 2 <= Len(line.tokens)
      BY <2>2, AtQuietWord
    <3>2. CASE tokens[t] \in E.flag /\ Finish(t + 1)
      <4>1. tokens[t] # "0"  BY <2>2, <3>2, ClockedExec DEF E
      <4>2. t + 1 \in 1 .. Len(line.tokens)  BY <3>1, <4>1
      <4> QED  BY <3>2, <4>2
    <3>3. CASE tokens[t] \in E.choice /\ Finish(t + 2)
      <4>1. tokens[t] = "PULL"  BY <2>2, <3>1, <3>3, ClockedExec DEF E
      <4>2. t + 2 \in 1 .. Len(line.tokens)  BY <3>1, <4>1
      <4> QED  BY <3>3, <4>2
    <3> QED  BY <1>0, <3>2, <3>3
  <2> QED  BY <2>1, <2>2
<1>2. CASE UNCHANGED <<on, stray>>
  BY <1>0, <1>1, <1>2, Finishing DEF hardware
<1>3. CASE SetUp(dev_num)
  <2>1. UNCHANGED entering  BY <1>1 DEF Finish, GoOn
  <2>2. phase' = "hung" => AfterExit
    BY <1>0, <1>1, HangIsAfterExit DEF Finish, GoOn
  <2>3. phase' # "hung" => phase' = "exec" /\ t' = p  BY <1>0, <1>1 DEF Finish, GoOn
  <2>4. entering => phase' = "exec" /\ t' = p  BY <2>2, <2>3 DEF AfterExit
  <2> QED  BY <1>0, <1>1, <1>3, <2>1, <2>2, <2>4, SettingUp DEF parsed, modes
<1> QED  BY <1>0, <1>2, <1>3 DEF Configure

(* No value, sub-command or pin is on the way into a clocked mode.         *)
LEMMA NoneOnTheWay ==
  ASSUME IInv, entering, exec_mode \in Clocked
  PROVE  tokens[t] \notin DOMAIN E.value \cup DOMAIN E.sub \cup DOMAIN E.pin \cup {"SHOW"}
<1>1. tokens[t] \in BitOrders \cup Pulls \cup {"PULL", "0"}  BY AtQuietWord
<1>2. tokens[t] # "SHOW"  BY <1>1 DEF BitOrders, Pulls
<1> QED  BY <1>1, <1>2, ClockedExec DEF E

(* A value sets up the device anew or is refused; frequency starts TIM4.   *)
LEMMA ValueKeeps ==
  ASSUME IInv, Value
  PROVE  IInv'
<1>0. phase = "exec" /\ tokens[t] \in DOMAIN E.value /\ UNCHANGED parsed
  BY DEF Value, AtExec
<1>1. ~(entering /\ exec_mode \in Clocked)  BY <1>0, NoneOnTheWay
<1>2. CASE Refuse(t + 2)  BY <1>0, <1>2, Returning DEF Refuse
<1>3. CASE /\ Finish(t + 3) /\ Configure(tokens[t]) /\ UNCHANGED modes
           /\ \E v \in ArgAt(t + 2) :
                tim' = (tim \/ (exec_mode \in Clocked /\ tokens[t] = "FREQUENCY" /\ v # Illegal))
  <2>1. UNCHANGED entering /\ (tim => tim')  BY <1>3 DEF Finish, GoOn
  <2>2. phase' = "hung" => AfterExit  BY <1>0, <1>3, HangIsAfterExit DEF Finish, GoOn
  <2>3. entering => phase' = "exec"  BY <1>0, <1>3, <2>2 DEF Finish, GoOn, AfterExit
  <2>4. CASE SetUp(dev_num)
    BY <1>0, <1>1, <1>3, <2>1, <2>2, <2>3, <2>4, SettingUp DEF parsed, modes
  <2>5. CASE UNCHANGED <<on, stray>>
    <3> USE DEF parsed, modes
    <3>1. Prompt'  BY <1>3, <2>1 DEF IInv, Prompt
    <3>2. Entering'  BY <1>3, <2>1, <2>3 DEF IInv, Entering
    <3>3. Ready'  BY <1>3, <2>1, <2>5 DEF IInv, Ready, Device
    <3>4. Accounted'  BY <1>3, <2>1, <2>5 DEF IInv, Accounted, Device, AfterExit
    <3>5. OnTheLine'  BY <1>0, <1>1, <1>3, <2>1 DEF IInv, OnTheLine
    <3>6. HangsOnlyAfterExit'  BY <1>3, <2>1, <2>2 DEF HangsOnlyAfterExit, AfterExit
    <3> QED  BY <3>1, <3>2, <3>3, <3>4, <3>5, <3>6 DEF IInv
  <2> QED  BY <1>3, <2>4, <2>5 DEF Configure
<1> QED  BY <1>2, <1>3 DEF Value

(* device: the driver of the new number is on, that of the old one stays.  *)
LEMMA ChooseDeviceKeeps ==
  ASSUME IInv, ChooseDevice
  PROVE  IInv'
<1>0. phase = "exec" /\ tokens[t] \in DOMAIN E.value /\ UNCHANGED parsed
  BY DEF ChooseDevice, AtExec
<1>1. ~(entering /\ exec_mode \in Clocked)  BY <1>0, NoneOnTheWay
<1>2. CASE Refuse(t + 2)  BY <1>0, <1>2, Returning DEF Refuse
<1>3. CASE \E v \in ArgAt(t + 2) :
             Select(v - 1) /\ GoOn(t + 3) /\ UNCHANGED <<console_mode, exec_mode, level, tim>>
  BY <1>0, <1>1, <1>3, SettingUp DEF Select, GoOn, parsed
<1> QED  BY <1>2, <1>3 DEF ChooseDevice

(* Each step of a mode's exec keeps the invariant.                         *)
LEMMA ExecKeeps ==
  ASSUME IInv, ExecStep
  PROVE  IInv'
<1>0. phase = "exec"
  BY DEF ExecStep, ExecOver, Show, FlagOrChoice, Value, ChooseDevice, Sub, Pin, LinTrigger, AtExec
<1>1. CASE ExecOver  BY <1>0, <1>1, Returning DEF ExecOver
<1>2. CASE Show
  <2>1. ~(entering /\ exec_mode \in Clocked)  BY <1>2, NoneOnTheWay DEF Show, AtExec
  <2> QED  BY <1>0, <1>2, <2>1, MovingOn DEF Show, GoOn
<1>3. CASE FlagOrChoice  BY <1>3, FlagOrChoiceKeeps
<1>4. CASE Value  BY <1>4, ValueKeeps
<1>5. CASE ChooseDevice  BY <1>5, ChooseDeviceKeeps
<1>6. CASE Sub
  <2>1. ~(entering /\ exec_mode \in Clocked)  BY <1>6, NoneOnTheWay DEF Sub, AtExec
  <2>2. UNCHANGED parsed  BY <1>6 DEF Sub
  <2>3. CASE Refuse(t)  BY <1>0, <2>2, <2>3, Returning DEF Refuse
  <2>4. CASE Finish(t + 4) /\ UNCHANGED <<modes, hardware>>
    BY <1>0, <2>1, <2>2, <2>4, Finishing
  <2> QED  BY <1>6, <2>3, <2>4 DEF Sub
<1>7. CASE Pin
  <2>1. ~(entering /\ exec_mode \in Clocked)  BY <1>7, NoneOnTheWay DEF Pin, AtExec
  <2>2. UNCHANGED parsed  BY <1>7 DEF Pin
  <2>3. CASE Refuse(t)  BY <1>0, <2>2, <2>3, Returning DEF Refuse
  <2>4. CASE GoOn(t + 4) /\ UNCHANGED <<modes, hardware>>
    BY <1>0, <2>1, <2>2, <2>4, MovingOn DEF GoOn
  <2> QED  BY <1>7, <2>3, <2>4 DEF Pin
<1>8. CASE LinTrigger
  <2>1. tokens[t] = "TRIGGER"  BY <1>8 DEF LinTrigger, AtExec
  <2>2. ~(entering /\ exec_mode \in Clocked)
    BY <2>1, AtQuietWord DEF BitOrders, Pulls
  <2> QED  BY <1>0, <1>8, <2>2, MovingOn DEF LinTrigger, GoOn
<1> QED  BY <1>1, <1>2, <1>3, <1>4, <1>5, <1>6, <1>7, <1>8 DEF ExecStep

-----------------------------------------------------------------------------
(* It holds at power-up.                                                   *)
LEMMA InitHolds ==
  ASSUME Init
  PROVE  IInv
<1>1. Prompt  BY DEF Init, Prompt
<1>2. Entering  BY DEF Init, Entering
<1>3. Ready  BY DEF Init, Ready
<1>4. Accounted  BY DEF Init, Accounted
<1>5. OnTheLine  BY DEF Init, OnTheLine
<1>6. HangsOnlyAfterExit  BY DEF Init, HangsOnlyAfterExit
<1> QED  BY <1>1, <1>2, <1>3, <1>4, <1>5, <1>6 DEF IInv

(* A power cycle is a fresh start.                                         *)
LEMMA PowerUpKeeps ==
  ASSUME IInv, PowerUp
  PROVE  IInv'
<1>1. /\ DOMAIN tokens' = DOMAIN tokens /\ phase' = "idle" /\ entering' = FALSE
      /\ console_mode' = "top" /\ level' = 0 /\ on' = {}
  BY DEF PowerUp, EndLine
<1>2. Prompt'  BY <1>1 DEF Prompt
<1>3. Entering'  BY <1>1 DEF Entering
<1>4. Ready'  BY <1>1 DEF Ready
<1>5. Accounted'  BY <1>1 DEF Accounted
<1>6. OnTheLine'  BY <1>1 DEF IInv, OnTheLine
<1>7. HangsOnlyAfterExit'  BY <1>1 DEF HangsOnlyAfterExit
<1> QED  BY <1>2, <1>3, <1>4, <1>5, <1>6, <1>7 DEF IInv

(* The inductive invariant: in a mode its device is set up and its timer   *)
(* runs at every point of every line, not only at the prompt.              *)
THEOREM WalkCorrect == Spec => []IInv
<1>1. Init => IInv  BY InitHolds
<1>2. IInv /\ [Next]_vars => IInv'
  <2> SUFFICES ASSUME IInv, [Next]_vars PROVE IInv'
    OBVIOUS
  <2>1. CASE TypeLine  BY <2>1, TypingKeeps
  <2>2. CASE LineStep  BY <2>2, LineKeeps
  <2>3. CASE ExecStep  BY <2>3, ExecKeeps
  <2>4. CASE PowerUp  BY <2>4, PowerUpKeeps
  <2>5. CASE UNCHANGED vars
    <3>1. UNCHANGED <<parsed, modes, hardware, entering, phase, t>>  BY <2>5 DEF vars
    <3> QED
      BY <3>1, MovingOn DEF IInv, HangsOnlyAfterExit, Entering, OnTheLine
  <2> QED  BY <2>1, <2>2, <2>3, <2>4, <2>5 DEF Next
<1> QED  BY <1>1, <1>2, PTL DEF Spec

(* A prompt means the right token level, the device it names set up and,   *)
(* where the mode's clock waits for it, the timer running.                 *)
THEOREM PromptPromises == Spec => []PromptIsReady
<1>1. IInv => PromptIsReady  BY DEF IInv, Prompt, Ready, PromptIsReady
<1> QED  BY <1>1, WalkCorrect, PTL

(* Back at the top nothing is on but what device moved away from or a      *)
(* command after exit set up again.                                        *)
THEOREM ExitLeavesNothing == Spec => []ExitSwitchesOff
<1>1. IInv => ExitSwitchesOff
  BY InLine DEF IInv, Accounted, AfterExit, ExitSwitchesOff
<1> QED  BY <1>1, WalkCorrect, PTL

(* The board waits for a stopped timer only after exit in the same line.   *)
THEOREM HangNeedsExit == Spec => []HangsOnlyAfterExit
<1>1. IInv => HangsOnlyAfterExit  BY DEF IInv
<1> QED  BY <1>1, WalkCorrect, PTL

-----------------------------------------------------------------------------
(* The scan.  A code comes before another if it has 0 where they part.     *)
(* d and e agree below bit n; the scan comes to d before e.               *)
Agree(d, e, n) == \A j \in 1 .. n - 1 : d[j] = e[j]
Before(d, e) == \E n \in 1 .. Bits : d[n] = 0 /\ e[n] = 1 /\ Agree(d, e, n)

(* At bit n of the path rom the branch 1 is left for later.               *)
Left(rom, n) == rom[n] = 0 /\ \E e \in devices : Agree(e, rom, n) /\ e[n] = 1

(* m is the last such bit, or 0.                                           *)
LastLeft(rom, m) ==
  /\ m # 0 => Left(rom, m)
  /\ \A n \in 1 .. Bits : n > m => ~Left(rom, n)

(* The types that matter to the scan.                                      *)
ScanTypes ==
  /\ devices \subseteq Roms /\ ROM_ADDR \in AllRoms /\ last_discrepancy \in 0 .. Bits
  /\ shorted \in BOOLEAN /\ lsb \in BOOLEAN /\ last_device_p \in BOOLEAN
  /\ scanning \in BOOLEAN /\ twice \in BOOLEAN /\ moved \in BOOLEAN

(* Before the first search of a scan, and where none has found anything.   *)
Fresh == found = {} /\ last_discrepancy = 0 /\ ~last_device_p

(* After a code was found: those found are the ones up to it.              *)
Underway ==
  /\ lsb /\ ~shorted /\ ROM_ADDR \in devices
  /\ found = {d \in devices : d = ROM_ADDR \/ Before(d, ROM_ADDR)}
  /\ LastLeft(ROM_ADDR, last_discrepancy)
  /\ last_device_p = (last_discrepancy = 0)

(* A scan during which nothing moved is at one of these two.               *)
InOrder == scanning /\ ~moved => devices = present /\ ~twice /\ (Fresh \/ Underway)

ScanInv == ScanTypes /\ InOrder

(* A set of numbers with a bound has a least one: the smallest counter-    *)
(* example, in place of an induction.                                      *)
LEMMA LeastNat ==
  ASSUME NEW b \in Nat, NEW S \in SUBSET (0 .. b), S # {}
  PROVE  \E x \in S : \A y \in S : x <= y
<1> DEFINE Below(x) == 0 .. x
           T == {Below(x) : x \in S}
           R == StrictSubsetOrdering(0 .. b)
           F == FiniteSubsetsOf(0 .. b)
<1>1. IsWellFoundedOn(R, F)
  BY FS_StrictSubsetOrderingWellFounded
<1>2. T # {} /\ T \subseteq SUBSET (0 .. b)
  <2>1. \A x \in S : Below(x) \subseteq 0 .. b
    OBVIOUS
  <2> HIDE DEF Below
  <2> QED BY <2>1
<1>3. F = SUBSET (0 .. b)
  <2>1. IsFiniteSet(0 .. b)
    BY FS_Interval
  <2> QED BY <2>1, FS_FiniteSubsetsOfFinite
<1>4. PICK B \in T : \A C \in T : ~(<<C, B>> \in R)
  <2>1. T \subseteq F
    BY <1>2, <1>3
  <2> HIDE DEF R, F, T
  <2> QED BY <1>1, <1>2, <2>1, WFMin
<1>5. PICK x \in S : B = 0 .. x
  BY <1>4
<1>6. ASSUME NEW y \in S PROVE x <= y
  <2>1. ~(<<0 .. y, 0 .. x>> \in R)
    BY <1>4, <1>5
  <2>2. 0 .. y \subseteq 0 .. x => 0 .. y = 0 .. x
    BY <2>1, <1>2 DEF StrictSubsetOrdering
  <2> SUFFICES ASSUME y < x PROVE FALSE
    OBVIOUS
  <2>3. x \in 0 .. x /\ x \notin 0 .. y /\ 0 .. y \subseteq 0 .. x
    OBVIOUS
  <2> QED BY <2>2, <2>3
<1> QED BY <1>6

(* And a largest one, which is its Max.                                    *)
LEMMA MaxOf ==
  ASSUME NEW b \in Nat, NEW S \in SUBSET (0 .. b), S # {}
  PROVE  Max(S) \in S /\ \A y \in S : y <= Max(S)
<1> DEFINE T == {b - x : x \in S}
<1>1. T \in SUBSET (0 .. b) /\ T # {}
  OBVIOUS
<1>2. PICK z \in T : \A y \in T : z <= y
  BY <1>1, LeastNat
<1>3. PICK x \in S : z = b - x
  BY <1>2
<1>4. \A y \in S : y <= x
  BY <1>2, <1>3
<1>5. \A y \in S : x >= y
  BY <1>4
<1> QED BY <1>5 DEF Max

(* Two codes that differ have a first bit where they do.                   *)
LEMMA LeastDifference ==
  ASSUME NEW d \in AllRoms, NEW e \in AllRoms, d # e
  PROVE  \E n \in 1 .. Bits : d[n] # e[n] /\ Agree(d, e, n)
<1> DEFINE S == {n \in 1 .. Bits : d[n] # e[n]}
<1>1. \E n \in 1 .. Bits : d[n] # e[n]
  <2>1. d = [n \in 1 .. Bits |-> d[n]] /\ e = [n \in 1 .. Bits |-> e[n]]
    BY DEF AllRoms
  <2> QED BY <2>1
<1>2. S \in SUBSET (0 .. Bits) /\ S # {} /\ Bits \in Nat
  BY <1>1, RomsAssumption
<1>3. PICK n \in S : \A y \in S : n <= y
  BY <1>1, <1>2, LeastNat
<1>4. ASSUME NEW j \in 1 .. n - 1 PROVE d[j] = e[j]
  BY <1>3, RomsAssumption
<1> QED BY <1>3, <1>4 DEF Agree

(* The order of the scan is total, ...                                     *)
LEMMA Trichotomy ==
  ASSUME NEW d \in AllRoms, NEW e \in AllRoms
  PROVE  d = e \/ Before(d, e) \/ Before(e, d)
<1> SUFFICES ASSUME d # e PROVE Before(d, e) \/ Before(e, d)
  OBVIOUS
<1>1. PICK n \in 1 .. Bits : d[n] # e[n] /\ Agree(d, e, n)
  BY LeastDifference
<1>2. d[n] \in {0, 1} /\ e[n] \in {0, 1} /\ Agree(e, d, n)
  BY <1>1 DEF AllRoms, Agree
<1> QED BY <1>1, <1>2 DEF Before

(* ... never goes both ways, ...                                           *)
LEMMA Asymmetric ==
  ASSUME NEW d \in AllRoms, NEW e \in AllRoms, Before(d, e)
  PROVE  ~Before(e, d) /\ d # e
<1>1. PICK n \in 1 .. Bits : d[n] = 0 /\ e[n] = 1 /\ Agree(d, e, n)
  BY DEF Before
<1>2. ASSUME NEW m \in 1 .. Bits, e[m] = 0, d[m] = 1, Agree(e, d, m) PROVE FALSE
  <2>1. CASE m < n  BY <2>1, <1>1, <1>2, RomsAssumption DEF Agree
  <2>2. CASE n < m  BY <2>2, <1>1, <1>2, RomsAssumption DEF Agree
  <2>3. CASE n = m  BY <2>3, <1>1, <1>2
  <2> QED BY <2>1, <2>2, <2>3, RomsAssumption
<1> QED BY <1>1, <1>2 DEF Before

(* ... and is transitive.                                                  *)
LEMMA Transitive ==
  ASSUME NEW c \in AllRoms, NEW d \in AllRoms, NEW e \in AllRoms, Before(c, d), Before(d, e)
  PROVE  Before(c, e)
<1>1. PICK n \in 1 .. Bits : c[n] = 0 /\ d[n] = 1 /\ Agree(c, d, n)
  BY DEF Before
<1>2. PICK m \in 1 .. Bits : d[m] = 0 /\ e[m] = 1 /\ Agree(d, e, m)
  BY DEF Before
<1>3. CASE n < m
  <2>1. e[n] = 1 /\ Agree(c, e, n)
    BY <1>1, <1>2, <1>3, RomsAssumption DEF Agree
  <2> QED BY <2>1, <1>1 DEF Before
<1>4. CASE m < n
  <2>1. c[m] = 0 /\ Agree(c, e, m)
    BY <1>1, <1>2, <1>4, RomsAssumption DEF Agree
  <2> QED BY <2>1, <1>2 DEF Before
<1> QED BY <1>1, <1>2, <1>3, <1>4, RomsAssumption

-----------------------------------------------------------------------------
(* While nobody leaves, those who answer are the ones that agree so far.   *)
LEMMA OnIs ==
  ASSUME NEW rom, NEW n, lsb
  PROVE  On(rom, n, {}, 0) = {d \in devices : Agree(d, rom, n)}
BY DEF On, Agree

(* The bit taken is that of somebody who answers.                          *)
LEMMA Reading ==
  ASSUME ~shorted, ScanTypes, NEW rom \in AllRoms, NEW n \in 1 .. Bits, lsb,
         Answers(On(rom, n, {}, 0), n), rom[n] = Direction(On(rom, n, {}, 0), n)
  PROVE  \E d \in devices : Agree(d, rom, n + 1)
<1>1. rom[n] \in {0, 1}
  BY DEF AllRoms
<1>2. PICK d \in On(rom, n, {}, 0) : d[n] = rom[n]
  BY <1>1 DEF Answers, Direction, Discrepancy, Reads0, Reads1
<1>3. d \in devices /\ Agree(d, rom, n)
  BY <1>2, OnIs
<1>4. Agree(d, rom, n + 1)
  BY <1>2, <1>3, RomsAssumption DEF Agree
<1> QED BY <1>3, <1>4


(* A device that agrees so far answers.                                    *)
LEMMA AnyoneAnswers ==
  ASSUME ScanTypes, NEW n \in 1 .. Bits, NEW rom, lsb,
         NEW d \in devices, Agree(d, rom, n)
  PROVE  Answers(On(rom, n, {}, 0), n)
<1>1. d[n] \in {0, 1}
  BY RomsAssumption DEF ScanTypes, AllRoms
<1> QED BY <1>1, OnIs DEF Answers, Reads0, Reads1

(* Codes that agree to the end are the same.                               *)
LEMMA SameRom ==
  ASSUME NEW d \in AllRoms, NEW e \in AllRoms, Agree(d, e, Bits + 1)
  PROVE  d = e
<1>1. \A n \in 1 .. Bits : d[n] = e[n]
  BY RomsAssumption DEF Agree
<1> QED BY <1>1, LeastDifference

(* On a quiet bus the walk gets to the end, at the code of a device.       *)
LEMMA WholePath ==
  ASSUME ScanTypes, ~shorted, lsb, devices # {},
         NEW rom \in AllRoms, NEW len \in 0 .. Bits, IsPath(rom, len, {}, 0)
  PROVE  len = Bits /\ rom \in devices
<1>1. ASSUME NEW n \in 1 .. len PROVE \E d \in devices : Agree(d, rom, n + 1)
  <2>1. n \in 1 .. Bits /\ n <= len
    BY RomsAssumption
  <2>2. Answers(On(rom, n, {}, 0), n) /\ rom[n] = Direction(On(rom, n, {}, 0), n)
    BY <2>1 DEF IsPath
  <2> QED BY <2>1, <2>2, Reading
<1>2. len = Bits
  <2> SUFFICES ASSUME len < Bits PROVE FALSE
    BY RomsAssumption
  <2>1. PICK d \in devices : Agree(d, rom, len + 1)
    <3>1. CASE len = 0
      BY <3>1 DEF Agree
    <3>2. CASE len # 0
      BY <3>2, <1>1
    <3> QED BY <3>1, <3>2
  <2>2. len + 1 \in 1 .. Bits
    BY RomsAssumption
  <2>3. Answers(On(rom, len + 1, {}, 0), len + 1)
    BY <2>1, <2>2, AnyoneAnswers
  <2> QED BY <2>3 DEF IsPath
<1>3. PICK d \in devices : Agree(d, rom, Bits + 1)
  BY <1>1, <1>2, RomsAssumption
<1>4. d \in AllRoms
  BY RomsAssumption DEF ScanTypes
<1> QED BY <1>2, <1>3, <1>4, SameRom

(* On the path of a device, a discrepancy is another device that parts.    *)
LEMMA AtBranch ==
  ASSUME ScanTypes, ~shorted, lsb, NEW rom \in devices, NEW n \in 1 .. Bits
  PROVE  Discrepancy(On(rom, n, {}, 0), n)
           <=> \E e \in devices : Agree(e, rom, n) /\ e[n] # rom[n]
<1>1. On(rom, n, {}, 0) = {d \in devices : Agree(d, rom, n)}
  BY OnIs
<1>2. \A d \in devices : d[n] \in {0, 1}
  BY RomsAssumption DEF ScanTypes, AllRoms
<1>3. Agree(rom, rom, n)
  BY DEF Agree
<1> QED BY <1>1, <1>2, <1>3 DEF Discrepancy, Reads0, Reads1

(* The last zero taken at a discrepancy is the last branch left for later. *)
LEMMA LastZeroIsLastLeft ==
  ASSUME ScanTypes, ~shorted, lsb, NEW rom \in devices
  PROVE  /\ LastZero(rom, Bits, {}, 0) \in 0 .. Bits
         /\ LastLeft(rom, LastZero(rom, Bits, {}, 0))
<1> DEFINE Z == {n \in 1 .. Bits : rom[n] = 0 /\ Discrepancy(On(rom, n, {}, 0), n)}
<1>1. \A n \in 1 .. Bits : n \in Z <=> Left(rom, n)
  <2> TAKE n \in 1 .. Bits
  <2>1. \A d \in devices : d[n] \in {0, 1}
    BY RomsAssumption DEF ScanTypes, AllRoms
  <2> QED BY <2>1, AtBranch DEF Left
<1>2. {0} \cup Z \in SUBSET (0 .. Bits) /\ {0} \cup Z # {} /\ Bits \in Nat
  BY RomsAssumption
<1>3. Z \subseteq 1 .. Bits
  OBVIOUS
<1> DEFINE m == LastZero(rom, Bits, {}, 0)
<1>4. m = Max({0} \cup Z)
  BY DEF LastZero
<1> HIDE DEF Z, m
<1>5. m \in {0} \cup Z /\ \A y \in {0} \cup Z : y <= m
  BY <1>2, <1>4, MaxOf
<1>6. m \in 0 .. Bits /\ LastLeft(rom, m)
  BY <1>1, <1>3, <1>5, RomsAssumption DEF LastLeft
<1> QED BY <1>6 DEF m

(* The first search finds the first code in the order.                     *)
LEMMA FreshPath ==
  ASSUME ScanTypes, ~shorted, lsb, last_discrepancy = 0,
         NEW rom \in devices, IsPath(rom, Bits, {}, 0)
  PROVE  {d \in devices : d = rom \/ Before(d, rom)} = {rom}
<1> SUFFICES ASSUME NEW d \in devices, Before(d, rom) PROVE FALSE
  OBVIOUS
<1>1. PICK n \in 1 .. Bits : d[n] = 0 /\ rom[n] = 1 /\ Agree(d, rom, n)
  BY DEF Before
<1>2. Discrepancy(On(rom, n, {}, 0), n)
  BY <1>1, AtBranch
<1>3. rom[n] = Branch(n)
  BY <1>2, RomsAssumption DEF IsPath, Direction
<1> QED BY <1>1, <1>3, RomsAssumption DEF Branch

(* A later search finds the next one after that of the last search: the    *)
(* path is the same up to the last branch left, takes it, and then keeps   *)
(* to 0 where it can.                                                      *)
LEMMA NextPath ==
  ASSUME ScanTypes, ~shorted, lsb, ROM_ADDR \in devices,
         last_discrepancy # 0, LastLeft(ROM_ADDR, last_discrepancy),
         NEW rom \in devices, IsPath(rom, Bits, {}, 0)
  PROVE  /\ {d \in devices : d = rom \/ Before(d, rom)}
               = {rom} \cup {d \in devices : d = ROM_ADDR \/ Before(d, ROM_ADDR)}
         /\ Before(ROM_ADDR, rom)
<1> DEFINE R == ROM_ADDR
           m == last_discrepancy
<1>1. m \in 1 .. Bits /\ devices \subseteq AllRoms /\ R \in AllRoms /\ rom \in AllRoms
  BY RomsAssumption DEF ScanTypes
<1>2. Left(R, m) /\ \A n \in 1 .. Bits : n > m => ~Left(R, n)
  BY DEF LastLeft
<1>3. \A n \in 1 .. Bits : Discrepancy(On(rom, n, {}, 0), n) => rom[n] = Branch(n)
  BY RomsAssumption DEF IsPath, Direction
<1>4. R # rom
  <2> SUFFICES ASSUME R = rom PROVE FALSE
    OBVIOUS
  <2>1. PICK e \in devices : Agree(e, rom, m) /\ e[m] = 1 /\ rom[m] = 0
    BY <1>2 DEF Left
  <2>2. Discrepancy(On(rom, m, {}, 0), m)
    BY <1>1, <2>1, AtBranch
  <2>3. rom[m] = 1
    BY <1>1, <1>3, <2>2 DEF Branch
  <2> QED BY <2>1, <2>3
<1>5. PICK p \in 1 .. Bits : R[p] # rom[p] /\ Agree(R, rom, p)
  BY <1>1, <1>4, LeastDifference
<1>6. rom[p] = Branch(p)
  <2>1. Discrepancy(On(rom, p, {}, 0), p)
    BY <1>5, AtBranch
  <2> QED BY <1>3, <2>1
<1>7. p = m
  <2>1. CASE p < m
    BY <2>1, <1>5, <1>6 DEF Branch
  <2>2. CASE p > m
    <3>1. rom[p] = 0
      BY <2>2, <1>6, <1>1, RomsAssumption DEF Branch
    <3>2. R[m] = rom[m] /\ Agree(R, rom, m)
      BY <2>2, <1>1, <1>5, RomsAssumption DEF Agree
    <3>3. PICK e \in devices : Agree(e, R, m) /\ e[m] = 1 /\ R[m] = 0
      BY <1>2 DEF Left
    <3>4. Agree(e, rom, m) /\ e[m] # rom[m]
      BY <3>2, <3>3 DEF Agree
    <3>5. rom[m] = Branch(m)
      BY <1>1, <1>3, <3>4, AtBranch
    <3>6. rom[m] = 1
      BY <1>1, <3>5, RomsAssumption DEF Branch
    <3>7. rom[m] = 0
      BY <3>2, <3>3
    <3> QED BY <3>6, <3>7
  <2> QED BY <2>1, <2>2, <1>1, RomsAssumption
<1>8. R[m] = 0 /\ rom[m] = 1 /\ Agree(R, rom, m)
  BY <1>1, <1>2, <1>5, <1>6, <1>7, RomsAssumption DEF Left, Branch
<1>9. Before(R, rom)
  BY <1>1, <1>8 DEF Before
<1>10. ASSUME NEW d \in devices, Before(d, rom) PROVE d = R \/ Before(d, R)
  <2>1. PICK n \in 1 .. Bits : d[n] = 0 /\ rom[n] = 1 /\ Agree(d, rom, n)
    BY <1>10 DEF Before
  <2>2. rom[n] = Branch(n)
    BY <2>1, <1>3, AtBranch
  <2>3. n <= m
    BY <2>1, <2>2, <1>1, RomsAssumption DEF Branch
  <2>4. CASE n < m
    <3>1. R[n] = 1 /\ Agree(d, R, n)
      BY <2>1, <2>4, <1>1, <1>8, RomsAssumption DEF Agree
    <3> QED BY <3>1, <2>1 DEF Before
  <2>5. CASE n = m
    <3>1. \A j \in 1 .. m : d[j] = R[j]
      BY <2>1, <2>5, <1>1, <1>8, RomsAssumption DEF Agree
    <3> SUFFICES ASSUME Before(R, d) PROVE FALSE
      BY <1>1, Trichotomy
    <3>2. PICK q \in 1 .. Bits : R[q] = 0 /\ d[q] = 1 /\ Agree(R, d, q)
      BY DEF Before
    <3>3. q > m
      BY <3>1, <3>2, <1>1, RomsAssumption
    <3>4. Left(R, q)
      BY <3>2 DEF Left, Agree
    <3> QED BY <1>2, <3>3, <3>4
  <2> QED BY <2>3, <2>4, <2>5, <1>1, RomsAssumption
<1>11. ASSUME NEW d \in devices, d = R \/ Before(d, R) PROVE Before(d, rom)
  BY <1>1, <1>9, <1>11, Transitive
<1> QED BY <1>9, <1>10, <1>11

-----------------------------------------------------------------------------
(* The last zero is a bit number, or 0, whoever leaves.                    *)
LEMMA LastZeroRange ==
  ASSUME NEW rom, NEW len \in 0 .. Bits, NEW gone, NEW k
  PROVE  LastZero(rom, len, gone, k) \in 0 .. Bits
<1> DEFINE S == {0} \cup {n \in 1 .. len : rom[n] = 0 /\ Discrepancy(On(rom, n, gone, k), n)}
<1>1. S \in SUBSET (0 .. Bits) /\ S # {} /\ Bits \in Nat
  BY RomsAssumption
<1>2. Max(S) \in S
  <2> HIDE DEF S
  <2> QED BY <1>1, MaxOf
<1> QED BY <1>1, <1>2 DEF LastZero

(* The zeros of a shorted line are not taken for a device, ...             *)
LEMMA ShortedRefused ==
  ASSUME shorted, last_discrepancy = 0, NEW rom \in AllRoms, NEW len \in 0 .. Bits,
         IsPath(rom, len, {}, 0)
  PROVE  ~Accepted(rom, len)
<1> SUFFICES ASSUME len = Bits PROVE Family(rom) = Zeros(FamilyBits)
  BY DEF Accepted
<1>1. ASSUME NEW n \in 1 .. Bits PROVE rom[n] = 0
  <2>1. Discrepancy(On(rom, n, {}, 0), n)
    BY DEF Discrepancy, Reads0, Reads1
  <2>2. rom[n] = Branch(n)
    BY <2>1, RomsAssumption DEF IsPath, Direction
  <2> QED BY <2>2, RomsAssumption DEF Branch
<1>2. Family(rom) = [n \in 1 .. FamilyBits |-> rom[n]]
  <2>1. rom \in Seq({0, 1}) /\ Len(rom) = Bits
    BY RomsAssumption DEF AllRoms
  <2>2. FamilyBits \in 1 .. Bits /\ Bits \in Nat
    BY RomsAssumption
  <2> QED BY <2>1, <2>2 DEF Family
<1>3. \A n \in 1 .. FamilyBits : rom[n] = 0
  BY <1>1, RomsAssumption
<1> QED BY <1>2, <1>3 DEF Zeros

(* ... nor the silence of devices that do not know the command.            *)
LEMMA DeafRefused ==
  ASSUME ~shorted, ~lsb, NEW rom, NEW len \in 0 .. Bits, IsPath(rom, len, {}, 0)
  PROVE  ~Accepted(rom, len)
<1>1. On(rom, 1, {}, 0) = {}
  BY DEF On
<1>2. ~Answers(On(rom, 1, {}, 0), 1)
  BY <1>1 DEF Answers, Reads0, Reads1
<1>3. 1 \in 1 .. Bits /\ Bits \in Nat
  BY RomsAssumption
<1>4. ~(1 <= len)
  BY <1>2, <1>3 DEF IsPath
<1> QED BY <1>3, <1>4 DEF Accepted

(* Whoever leaves, a walk to the end ends at the code of a device.         *)
LEMMA NoneBlended ==
  ASSUME ScanTypes, ~shorted, NEW rom \in AllRoms, NEW gone, NEW k, IsPath(rom, Bits, gone, k)
  PROVE  rom \in devices
<1>1. Bits \in 1 .. Bits /\ Bits <= Bits
  BY RomsAssumption
<1> DEFINE who == On(rom, Bits, gone, k)
<1>2. Answers(who, Bits) /\ rom[Bits] = Direction(who, Bits)
  BY <1>1 DEF IsPath
<1>3. rom[Bits] \in {0, 1}
  BY <1>1 DEF AllRoms
<1>4. PICK d \in who : d[Bits] = rom[Bits]
  <2> HIDE DEF who
  <2> QED BY <1>2, <1>3 DEF Answers, Direction, Discrepancy, Reads0, Reads1
<1>5. d \in devices /\ \A j \in 1 .. Bits - 1 : d[j] = rom[j]
  BY <1>4 DEF On
<1>6. Agree(d, rom, Bits + 1)
  BY <1>4, <1>5, RomsAssumption DEF Agree
<1>7. d \in AllRoms
  BY <1>5, RomsAssumption DEF ScanTypes
<1> QED BY <1>5, <1>6, <1>7, SameRom

(* It holds before the first scan.                                         *)
LEMMA ScanStarts == ScanInit => ScanInv
<1> SUFFICES ASSUME ScanInit PROVE ScanInv
  OBVIOUS
<1>1. 0 \in 0 .. Bits /\ ROM_ADDR \in AllRoms
  BY RomsAssumption DEF ScanInit, AllRoms, Zeros
<1>2. ScanTypes
  BY <1>1 DEF ScanInit, ScanTypes
<1>3. InOrder
  BY DEF ScanInit, InOrder
<1> QED BY <1>2, <1>3 DEF ScanInv

(* Any search leaves state of the right types.                             *)
LEMMA SearchTypes ==
  ASSUME ScanTypes, NEW gone, NEW k, Search(gone, k),
         UNCHANGED <<shorted, lsb>>, moved' \in BOOLEAN
  PROVE  ScanTypes'
<1>1. PICK rom \in AllRoms, len \in 0 .. Bits :
        /\ ROM_ADDR' = rom /\ devices' = devices \ gone
        /\ IF Accepted(rom, len) THEN Found(rom, LastZero(rom, len, gone, k)) ELSE NotFound
  BY DEF Search
<1>2. LastZero(rom, len, gone, k) \in 0 .. Bits
  BY LastZeroRange
<1>3. 0 \in 0 .. Bits
  BY RomsAssumption
<1>4. CASE Accepted(rom, len)
  BY <1>1, <1>2, <1>4 DEF ScanTypes, Found, NewDiscrepancy
<1>5. CASE ~Accepted(rom, len)
  BY <1>1, <1>3, <1>5 DEF ScanTypes, NotFound, ResetSearch
<1> QED BY <1>4, <1>5

(* A search of a quiet bus adds the next code to those found.              *)
LEMMA SearchOnceKeeps ==
  ASSUME ScanInv, SearchOnce
  PROVE  ScanInv'
<1>1. ScanTypes'
  BY SearchTypes DEF ScanInv, SearchOnce, ScanTypes
<1>2. InOrder'
  <2> SUFFICES ASSUME scanning', ~moved' PROVE (devices = present /\ ~twice /\ (Fresh \/ Underway))'
    BY DEF InOrder
  <2>1. PICK rom \in AllRoms, len \in 0 .. Bits :
          /\ ROM_ADDR' = rom /\ devices' = devices \ {}
          /\ IsPath(rom, len, {}, 0)
          /\ IF Accepted(rom, len) THEN Found(rom, LastZero(rom, len, {}, 0)) ELSE NotFound
    BY DEF SearchOnce, Search
  <2>2. Accepted(rom, len) /\ Found(rom, LastZero(rom, len, {}, 0))
    BY <2>1 DEF NotFound
  <2>3. ScanTypes /\ devices = present /\ ~twice /\ (Fresh \/ Underway) /\ ~NobodyThere
        /\ ~last_device_p /\ UNCHANGED <<shorted, lsb, present>>
    BY DEF ScanInv, InOrder, SearchOnce
  <2>4. ~shorted /\ lsb
    BY <2>1, <2>2, <2>3, ShortedRefused, DeafRefused DEF Fresh, Underway
  <2>5. len = Bits /\ rom \in devices
    BY <2>1, <2>3, <2>4, WholePath DEF NobodyThere
  <2> DEFINE m == LastZero(rom, Bits, {}, 0)
  <2>6. m \in 0 .. Bits /\ LastLeft(rom, m)
    BY <2>3, <2>4, <2>5, LastZeroIsLastLeft
  <2>7. {d \in devices : d = rom \/ Before(d, rom)} = {rom} \cup found /\ rom \notin found
    <3>1. CASE Fresh
      BY <3>1, <2>1, <2>3, <2>4, <2>5, FreshPath DEF Fresh
    <3>2. CASE Underway
      <4>1. /\ ROM_ADDR \in devices /\ last_discrepancy # 0
            /\ LastLeft(ROM_ADDR, last_discrepancy)
            /\ found = {d \in devices : d = ROM_ADDR \/ Before(d, ROM_ADDR)}
        BY <3>2, <2>3 DEF Underway
      <4>2. /\ {d \in devices : d = rom \/ Before(d, rom)} = {rom} \cup found
            /\ Before(ROM_ADDR, rom)
        BY <4>1, <2>1, <2>3, <2>4, <2>5, NextPath
      <4>3. ROM_ADDR \in AllRoms
        BY <2>3 DEF ScanTypes
      <4>4. ~Before(rom, ROM_ADDR) /\ rom # ROM_ADDR
        BY <4>2, <4>3, Asymmetric
      <4> QED BY <4>1, <4>2, <4>4
    <3> QED BY <2>3, <3>1, <3>2
  <2>8. /\ last_discrepancy' = m /\ last_device_p' = (m = 0)
        /\ found' = found \cup {rom} /\ twice' = (twice \/ rom \in found)
        /\ devices' = devices /\ ROM_ADDR' = rom
    BY <2>1, <2>2, <2>5 DEF Found, NewDiscrepancy
  <2>9. LastLeft(ROM_ADDR, last_discrepancy)'
    BY <2>6, <2>8 DEF LastLeft, Left
  <2>10. found' = {d \in devices' : d = ROM_ADDR' \/ Before(d, ROM_ADDR')}
    BY <2>7, <2>8
  <2>11. Underway'
    BY <2>3, <2>4, <2>5, <2>8, <2>9, <2>10 DEF Underway
  <2> QED BY <2>3, <2>7, <2>8, <2>11
<1> QED BY <1>1, <1>2 DEF ScanInv

(* Each step keeps the invariant; what moves in a scan gives it up.        *)
LEMMA ScanInvKept == ScanInv /\ [ScanNext]_scanVars => ScanInv'
<1> SUFFICES ASSUME ScanInv, [ScanNext]_scanVars PROVE ScanInv'
  OBVIOUS
<1>1. CASE Scan
  <2>1. ROM_ADDR' \in AllRoms
    BY <1>1 DEF Scan, AllRoms, Zeros
  <2>2. 0 \in 0 .. Bits
    BY RomsAssumption
  <2>3. ScanTypes'
    BY <1>1, <2>1, <2>2 DEF Scan, ScanInv, ScanTypes, ResetSearch
  <2>4. InOrder'
    BY <1>1 DEF Scan, InOrder, Fresh, ResetSearch
  <2> QED BY <2>3, <2>4 DEF ScanInv
<1>2. CASE SearchOnce
  BY <1>2, SearchOnceKeeps
<1>3. CASE SearchWhileLeaving
  <2>1. PICK d \in devices, k \in 1 .. Bits : Search({d}, k)
    BY <1>3 DEF SearchWhileLeaving
  <2>2. UNCHANGED <<shorted, lsb>> /\ moved'
    BY <1>3 DEF SearchWhileLeaving
  <2>3. ScanTypes'
    BY <2>1, <2>2, SearchTypes, Zenon DEF ScanInv
  <2> QED BY <2>2, <2>3 DEF ScanInv, InOrder
<1>4. CASE SearchEnds
  <2>1. 0 \in 0 .. Bits
    BY RomsAssumption
  <2>2. ScanTypes'
    BY <1>4, <2>1 DEF SearchEnds, NotFound, ResetSearch, ScanInv, ScanTypes
  <2>3. InOrder'
    BY <1>4 DEF SearchEnds, NotFound, InOrder
  <2> QED BY <2>2, <2>3 DEF ScanInv
<1>5. CASE SetBitOrder
  <2>1. ScanTypes'
    BY <1>5 DEF SetBitOrder, ScanInv, ScanTypes, state
  <2>2. InOrder'
    BY <1>5 DEF SetBitOrder, InOrder
  <2> QED BY <2>1, <2>2 DEF ScanInv
<1>6. CASE Move
  <2>1. ScanTypes'
    BY <1>6 DEF Move, ScanInv, ScanTypes, state
  <2>2. InOrder'
    BY <1>6 DEF Move, InOrder
  <2> QED BY <2>1, <2>2 DEF ScanInv
<1>7. CASE UNCHANGED scanVars
  BY <1>7 DEF scanVars, state, ScanInv, ScanTypes, InOrder, Fresh, Underway, LastLeft, Left
<1> QED BY <1>1, <1>2, <1>3, <1>4, <1>5, <1>6, <1>7 DEF ScanNext

(* The inductive invariant: at every point of a scan of a quiet bus, those *)
(* found are the codes up to the last one in the order, and the last       *)
(* discrepancy is where the next one parts from it.                        *)
THEOREM ScanInOrder == ScanSpec => []ScanInv
BY ScanStarts, ScanInvKept, PTL DEF ScanSpec

(* When a quiet scan is over, no device is after the last one found.       *)
LEMMA AllFound ==
  ASSUME ScanInv, [ScanNext]_scanVars, scanning, ~scanning', ~moved'
  PROVE  ~twice' /\ found' = IF shorted \/ ~lsb THEN {} ELSE present
<1>1. SearchOnce \/ SearchEnds
  BY DEF ScanNext, Scan, SearchWhileLeaving, SetBitOrder, Move, scanVars
<1>2. ~moved /\ NotFound
  <2>1. CASE SearchOnce
    BY <2>1 DEF SearchOnce, Search, Found
  <2>2. CASE SearchEnds
    BY <2>2 DEF SearchEnds
  <2> QED BY <1>1, <2>1, <2>2
<1>3. ScanTypes /\ devices = present /\ ~twice /\ (Fresh \/ Underway)
  BY <1>2 DEF ScanInv, InOrder
<1>4. found' = found /\ twice' = twice
  BY <1>2 DEF NotFound
<1>5. CASE SearchOnce
  <2> SUFFICES ASSUME ~shorted, lsb PROVE FALSE
    BY <1>3, <1>4 DEF Fresh, Underway
  <2>1. PICK rom \in AllRoms, len \in 0 .. Bits :
          /\ IsPath(rom, len, {}, 0)
          /\ IF Accepted(rom, len) THEN Found(rom, LastZero(rom, len, {}, 0)) ELSE NotFound
    BY <1>5 DEF SearchOnce, Search
  <2>2. len = Bits /\ rom \in devices
    BY <1>3, <1>5, <2>1, WholePath DEF SearchOnce, NobodyThere
  <2>3. rom \in Roms
    BY <1>3, <2>2 DEF ScanTypes
  <2>4. Accepted(rom, len)
    BY <2>2, <2>3, RomsAssumption DEF Accepted, ChecksumOK
  <2> QED BY <2>1, <2>4 DEF Found
<1>6. CASE SearchEnds
  <2>1. CASE Fresh
    <3>1. NobodyThere
      BY <1>6, <2>1 DEF SearchEnds, Fresh
    <3> QED BY <1>3, <1>4, <2>1, <3>1 DEF Fresh, NobodyThere
  <2>2. CASE Underway
    <3>1. last_discrepancy = 0 /\ ~shorted /\ lsb /\ ROM_ADDR \in devices
      BY <1>6, <2>2 DEF SearchEnds, Underway, NobodyThere
    <3>2. \A n \in 1 .. Bits : ~Left(ROM_ADDR, n)
      BY <2>2, <3>1, RomsAssumption DEF Underway, LastLeft
    <3>3. ASSUME NEW d \in devices PROVE d = ROM_ADDR \/ Before(d, ROM_ADDR)
      <4>1. d \in AllRoms /\ ROM_ADDR \in AllRoms
        BY <1>3, RomsAssumption DEF ScanTypes
      <4>2. ~Before(ROM_ADDR, d)
        BY <3>2 DEF Before, Left, Agree
      <4> QED BY <4>1, <4>2, Trichotomy
    <3>4. found = devices
      BY <2>2, <3>3 DEF Underway
    <3> QED BY <1>3, <1>4, <3>1, <3>4
  <2> QED BY <1>3, <2>1, <2>2
<1> QED BY <1>1, <1>5, <1>6

(* A scan of a quiet bus prints every device on it, each once, and on a    *)
(* shorted bus or with the other bit order none: onewire_scan.             *)
THEOREM EveryDeviceFound == ScanSpec => FindsEveryDevice
<1>1. ScanInv /\ [ScanNext]_scanVars =>
        [scanning /\ ~scanning' /\ ~moved' =>
           /\ ~twice'
           /\ found' = IF shorted \/ ~lsb THEN {} ELSE present]_scanVars
  BY AllFound
<1> QED BY <1>1, ScanInOrder, PTL DEF ScanSpec, FindsEveryDevice

(* One search prints the code of a device on the bus or nothing.           *)
LEMMA SearchPrintsDevices ==
  ASSUME ScanTypes, ~shorted, NEW gone, NEW k, Search(gone, k)
  PROVE  found' \ found \subseteq devices
<1>1. PICK rom \in AllRoms, len \in 0 .. Bits :
        /\ IsPath(rom, len, gone, k)
        /\ IF Accepted(rom, len) THEN Found(rom, LastZero(rom, len, gone, k)) ELSE NotFound
  BY DEF Search
<1>2. CASE Accepted(rom, len)
  <2>1. rom \in devices
    BY <1>1, <1>2, NoneBlended DEF Accepted
  <2> QED BY <1>1, <1>2, <2>1 DEF Found
<1>3. CASE ~Accepted(rom, len)
  BY <1>1, <1>3 DEF NotFound
<1> QED BY <1>2, <1>3

(* onewire_search prints only codes of devices that were on the bus, also  *)
(* when a device leaves while it walks.                                    *)
THEOREM NothingMadeUp == ScanSpec => NoGhost
<1>1. ScanInv /\ [ScanNext]_scanVars =>
        [scanning /\ ~shorted => found' \ found \subseteq devices]_scanVars
  <2> SUFFICES ASSUME ScanInv, ScanNext, scanning, ~shorted
               PROVE  found' \ found \subseteq devices
    OBVIOUS
  <2>1. CASE SearchOnce
    BY <2>1, SearchPrintsDevices DEF SearchOnce, ScanInv
  <2>2. CASE SearchWhileLeaving
    BY <2>2, SearchPrintsDevices DEF SearchWhileLeaving, ScanInv
  <2>3. CASE SearchEnds
    BY <2>3 DEF SearchEnds, NotFound
  <2>4. CASE Move
    BY <2>4 DEF Move
  <2> QED BY <2>1, <2>2, <2>3, <2>4 DEF ScanNext, Scan, SetBitOrder
<1> QED BY <1>1, ScanInOrder, PTL DEF ScanSpec, NoGhost

-----------------------------------------------------------------------------
(* The history: places on a circle, and the entries they hold.  A place    *)
(* one turn off is the same place.                                         *)
LEMMA ModIs ==
  ASSUME NEW n \in Nat \ {0}, NEW x \in 0 .. n - 1
  PROVE  x % n = x /\ (x + n) % n = x /\ (x - n) % n = x
<1>0. x \in Int /\ x + n \in Int /\ x - n \in Int
  OBVIOUS
<1>1. \A y \in Int : (y % n) \in 0 .. n - 1 /\ \E q \in Int : y = n * q + (y % n)
  <2> TAKE y \in Int
  <2>1. (y \div n) \in Int /\ (y % n) \in 0 .. n - 1 /\ y = n * (y \div n) + (y % n)
    OBVIOUS
  <2> QED BY <2>1
<1>2. \A q \in Int : n * q > 0 - n /\ n * q < n => q = 0
  <2> TAKE q \in Int
  <2>1. CASE q >= 1  BY <2>1
  <2>2. CASE q <= -1  BY <2>2
  <2> QED BY <2>1, <2>2
<1>3. ASSUME NEW y \in {x, x + n, x - n}, NEW r \in 0 .. n - 1, NEW q \in Int, y = n * q + r
      PROVE  r = x
  <2>1. CASE y = x
    <3>1. n * q = x - r  BY <1>3, <2>1
    <3>2. q = 0  BY <3>1, <1>2
    <3> QED BY <3>1, <3>2
  <2>2. CASE y = x + n
    <3>1. n * (q - 1) = x - r  BY <1>3, <2>2
    <3>2. q - 1 = 0  BY <3>1, <1>2
    <3> QED BY <3>1, <3>2
  <2>3. CASE y = x - n
    <3>1. n * (q + 1) = x - r  BY <1>3, <2>3
    <3>2. q + 1 = 0  BY <3>1, <1>2
    <3> QED BY <3>1, <3>2
  <2> QED BY <2>1, <2>2, <2>3
<1>4. ASSUME NEW y \in {x, x + n, x - n} PROVE y % n = x
  BY <1>0, <1>1, <1>3
<1> QED BY <1>4

(* Without the modulo: at most one turn is added or taken off.             *)
LEMMA Around ==
  ASSUME NEW i \in Bytes, NEW k \in 0 .. HistorySize
  PROVE  /\ Fwd(i, k) = IF i + k < HistorySize THEN i + k ELSE i + k - HistorySize
         /\ Back(i, k) = IF i >= k THEN i - k ELSE i - k + HistorySize
<1>0. HistorySize \in Nat \ {0} /\ i \in 0 .. HistorySize - 1
  BY HistoryAssumption DEF Bytes
<1>1. Fwd(i, k) = IF i + k < HistorySize THEN i + k ELSE i + k - HistorySize
  <2>1. CASE i + k < HistorySize
    <3>1. i + k \in 0 .. HistorySize - 1  BY <1>0, <2>1
    <3>2. (i + k) % HistorySize = i + k  BY <1>0, <3>1, ModIs
    <3> QED BY <2>1, <3>2 DEF Fwd
  <2>2. CASE ~(i + k < HistorySize)
    <3> DEFINE x == i + k - HistorySize
    <3>1. x \in 0 .. HistorySize - 1 /\ i + k = x + HistorySize  BY <1>0, <2>2
    <3> HIDE DEF x
    <3>2. (x + HistorySize) % HistorySize = x  BY <1>0, <3>1, ModIs
    <3>3. Fwd(i, k) = x  BY <3>1, <3>2 DEF Fwd
    <3> QED BY <2>2, <3>3 DEF x
  <2> QED BY <2>1, <2>2
<1>2. Back(i, k) = IF i >= k THEN i - k ELSE i - k + HistorySize
  <2>1. CASE i >= k
    <3>1. i - k \in 0 .. HistorySize - 1  BY <1>0, <2>1
    <3>2. (i - k) % HistorySize = i - k  BY <1>0, <3>1, ModIs
    <3> QED BY <2>1, <3>2 DEF Back
  <2>2. CASE ~(i >= k)
    <3> DEFINE x == i - k + HistorySize
    <3>1. x \in 0 .. HistorySize - 1 /\ i - k = x - HistorySize  BY <1>0, <2>2
    <3> HIDE DEF x
    <3>2. (x - HistorySize) % HistorySize = x  BY <1>0, <3>1, ModIs
    <3>3. Back(i, k) = x  BY <3>1, <3>2 DEF Back
    <3> QED BY <2>2, <3>3 DEF x
  <2> QED BY <2>1, <2>2
<1> QED BY <1>1, <1>2

Text == {l \in Seq(1 .. 255) : Len(l) < MaxLineLen}
Kept == {l \in Seq(1 .. 255) : Len(l) \in 1 .. (MaxLineLen - 1)}

(* The row of bytes s is the entries es, the k-th of them with its zero at *)
(* pos[k].                                                                 *)
Layout(s, es, pos) ==
  /\ es \in Seq(Kept) /\ pos \in [0 .. Len(es) -> Nat]
  /\ pos[0] = 0
  /\ \A k \in 1 .. Len(es) :
       /\ pos[k] = pos[k - 1] + Len(es[k]) + 1 /\ s[pos[k]] = 0
       /\ \A j \in 1 .. Len(es[k]) : s[pos[k - 1] + j] = es[k][j]
  /\ \A i, k \in 0 .. Len(es) : i < k => pos[i] < pos[k]

(* A line has no zero in it.                                               *)
LEMMA NoZeroIn ==
  ASSUME NEW e \in Seq(1 .. 255), NEW j \in 1 .. Len(e)
  PROVE  e[j] \in 1 .. 255 /\ e[j] # 0
<1>1. e[j] \in 1 .. 255  BY ElementOfSeq
<1>2. \A x \in 1 .. 255 : x # 0  OBVIOUS
<1> QED BY <1>1, <1>2

(* The least of a set of numbers is its Min.                               *)
LEMMA LeastIs ==
  ASSUME NEW S, NEW x \in S, \A y \in S : x <= y, \A y \in S : y \in Int
  PROVE  Min(S) = x
<1>1. Min(S) \in S /\ \A y \in S : Min(S) <= y
  BY DEF Min
<1> QED BY <1>1

(* The bytes read so far: entries finished and the one begun.              *)
Read(done, rest) == [done |-> done, rest |-> rest]

(* A zero ends an entry; another byte goes to the one begun.               *)
LEMMA TakeByteIs ==
  ASSUME NEW d, NEW r, NEW c
  PROVE  /\ c = 0 => TakeByte(Read(d, r), c) = Read(Append(d, r), << >>)
         /\ c # 0 => TakeByte(Read(d, r), c) = Read(d, Append(r, c))
BY DEF TakeByte, Read

(* A prefix, and the one longer by an element.                             *)
LEMMA PrefixFacts ==
  ASSUME NEW S, NEW s \in Seq(S)
  PROVE  /\ SubSeq(s, 1, 0) = << >> /\ SubSeq(s, 1, Len(s)) = s
         /\ \A k \in 0 .. Len(s) - 1 : Append(SubSeq(s, 1, k), s[k + 1]) = SubSeq(s, 1, k + 1)
<1>1. SubSeq(s, 1, 0) = << >> /\ SubSeq(s, 1, Len(s)) = s
  OBVIOUS
<1>2. ASSUME NEW k \in 0 .. Len(s) - 1
      PROVE  Append(SubSeq(s, 1, k), s[k + 1]) = SubSeq(s, 1, k + 1)
  <2>1. /\ SubSeq(s, 1, k) \in Seq(S) /\ Len(SubSeq(s, 1, k)) = k
        /\ \A i \in 1 .. k : SubSeq(s, 1, k)[i] = s[i]
    OBVIOUS
  <2>2. /\ SubSeq(s, 1, k + 1) \in Seq(S) /\ Len(SubSeq(s, 1, k + 1)) = k + 1
        /\ \A i \in 1 .. k + 1 : SubSeq(s, 1, k + 1)[i] = s[i]
    OBVIOUS
  <2> DEFINE u == Append(SubSeq(s, 1, k), s[k + 1])
  <2>3. u \in Seq(S) /\ Len(u) = k + 1 /\ \A i \in 1 .. k + 1 : u[i] = s[i]
    BY <2>1
  <2> HIDE DEF u
  <2>4. u = SubSeq(s, 1, k + 1)
    BY <2>2, <2>3, SeqEqual
  <2> QED BY <2>4 DEF u
<1> QED BY <1>1, <1>2

(* Which entry a place belongs to.                                         *)
LEMMA Whose ==
  ASSUME NEW s, NEW es, NEW pos, Layout(s, es, pos), NEW o \in 0 .. pos[Len(es)]
  PROVE  \E k \in 0 .. Len(es) : pos[k] <= o /\ (k < Len(es) => o < pos[k + 1])
<1> DEFINE n == Len(es)
           S == {k \in 0 .. n : o < pos[k]}
<1>1. n \in Nat /\ pos[0] = 0 /\ pos \in [0 .. n -> Nat]
  BY DEF Layout
<1>2. CASE S = {}
  BY <1>1, <1>2
<1>3. CASE S # {}
  <2>1. S \in SUBSET (0 .. n)  OBVIOUS
  <2>2. PICK k \in S : \A i \in S : k <= i
    <3> HIDE DEF S, n
    <3> QED BY <1>1, <1>3, <2>1, LeastNat
  <2>3. k \in 1 .. n  BY <1>1, <2>2
  <2>4. k - 1 \in 0 .. n /\ k - 1 \notin S  BY <1>1, <2>2, <2>3
  <2>5. pos[k - 1] <= o  BY <1>1, <2>4
  <2> QED BY <2>2, <2>3, <2>4, <2>5
<1> QED BY <1>2, <1>3

(* Cutting a row of bytes at its zeros gives back its entries.             *)
LEMMA CutIs ==
  ASSUME NEW s, NEW es, NEW pos, Layout(s, es, pos), Len(s) = pos[Len(es)]
  PROVE  Cut(s) = es
<1> DEFINE n == Len(es)
           In(k, o) == pos[k] <= o /\ (k < n => o < pos[k + 1])
           K(o) == CHOOSE k \in 0 .. n : In(k, o)
           At(o) == Read(SubSeq(es, 1, K(o)), IF K(o) = n THEN << >> ELSE SubSeq(es[K(o) + 1], 1, o - pos[K(o)]))
           F == [o \in 0 .. Len(s) |-> At(o)]
           Is(f) == f = [o \in 0 .. Len(s) |->
                           IF o = 0 THEN Read(<< >>, << >>)
                             ELSE TakeByte(f[o - 1], s[o])]
<1>1. n \in Nat /\ pos[0] = 0 /\ pos[n] = Len(s) /\ pos \in [0 .. n -> Nat] /\ es \in Seq(Kept)
  BY DEF Layout
<1>2. \A k \in 1 .. n : es[k] \in Seq(1 .. 255)
  BY <1>1 DEF Kept
<1>3. \A i, k \in 0 .. n : i < k => pos[i] < pos[k]
  BY DEF Layout
<1>4. ASSUME NEW o \in 0 .. Len(s), NEW k \in 0 .. n, In(k, o) PROVE K(o) = k
  <2>1. K(o) \in 0 .. n /\ In(K(o), o)
    BY <1>4
  <2> HIDE DEF K
  <2>2. CASE K(o) < k
    <3>1. o < pos[K(o) + 1] /\ K(o) + 1 \in 0 .. n  BY <1>1, <2>1, <2>2
    <3>2. pos[K(o) + 1] <= pos[k]  BY <1>1, <1>3, <2>1, <2>2, <3>1
    <3> QED BY <1>1, <1>4, <3>1, <3>2
  <2>3. CASE k < K(o)
    <3>1. o < pos[k + 1] /\ k + 1 \in 0 .. n  BY <1>1, <1>4, <2>1, <2>3
    <3>2. pos[k + 1] <= pos[K(o)]  BY <1>1, <1>3, <2>1, <2>3, <3>1
    <3> QED BY <1>1, <2>1, <3>1, <3>2
  <2> QED BY <1>1, <2>1, <2>2, <2>3
<1>a. ASSUME NEW o \in 0 .. Len(s), NEW k \in 0 .. n, In(k, o)
      PROVE  At(o) = Read(SubSeq(es, 1, k), IF k = n THEN << >> ELSE SubSeq(es[k + 1], 1, o - pos[k]))
  <2>1. K(o) = k  BY <1>4, <1>a
  <2> HIDE DEF K
  <2> QED BY <2>1
<1> HIDE DEF At
<1>5. At(0) = Read(<< >>, << >>)
  <2>1. In(0, 0)  BY <1>1, <1>3
  <2>2. At(0) = Read(SubSeq(es, 1, 0), IF 0 = n THEN << >> ELSE SubSeq(es[0 + 1], 1, 0 - pos[0]))
    BY <1>1, <1>a, <2>1
  <2>3. SubSeq(es, 1, 0) = << >>  BY <1>1, PrefixFacts
  <2>4. n # 0 => SubSeq(es[1], 1, 0) = << >>  BY <1>1, <1>2, PrefixFacts
  <2> QED BY <1>1, <2>2, <2>3, <2>4
<1>6. ASSUME NEW o \in 1 .. Len(s) PROVE At(o) = TakeByte(At(o - 1), s[o])
  <2>0. o - 1 \in 0 .. Len(s) /\ o \in 0 .. Len(s)  OBVIOUS
  <2>1. PICK k \in 0 .. n : In(k, o - 1)
    <3> HIDE DEF n
    <3> QED BY <1>1, <2>0, Whose DEF n
  <2>2. k < n /\ k + 1 \in 1 .. n  BY <1>1, <2>1
  <2>3. PICK e : e = es[k + 1]  OBVIOUS
  <2>4. e \in Seq(1 .. 255) /\ Len(e) \in Nat  BY <1>2, <2>2, <2>3
  <2>5. /\ pos[k + 1] = pos[k] + Len(e) + 1 /\ s[pos[k + 1]] = 0
        /\ \A i \in 1 .. Len(e) : s[pos[k] + i] = e[i]
    BY <1>1, <2>1, <2>2, <2>3 DEF Layout
  <2>6. pos[k] \in Nat /\ pos[k] <= o - 1 /\ o - 1 < pos[k + 1]  BY <1>1, <2>1, <2>2
  <2>7. PICK j \in 1 .. Len(e) + 1 : o = pos[k] + j
    <3>1. o - pos[k] \in 1 .. Len(e) + 1 /\ o = pos[k] + (o - pos[k])  BY <2>4, <2>5, <2>6
    <3> QED BY <3>1
  <2>8. At(o - 1) = Read(SubSeq(es, 1, k), SubSeq(e, 1, j - 1))
    <3>1. o - 1 - pos[k] = j - 1  BY <2>6, <2>7
    <3>2. At(o - 1) = Read(SubSeq(es, 1, k), IF k = n THEN << >> ELSE SubSeq(es[k + 1], 1, o - 1 - pos[k]))
      BY <1>a, <2>0, <2>1
    <3> QED BY <2>2, <2>3, <3>1, <3>2
  <2>9. CASE j = Len(e) + 1
    <3>0. o = pos[k + 1]  BY <2>4, <2>5, <2>6, <2>7, <2>9
    <3>1. In(k + 1, o)  BY <1>1, <1>3, <2>1, <2>2, <3>0
    <3>2. At(o) = Read(SubSeq(es, 1, k + 1), IF k + 1 = n THEN << >> ELSE SubSeq(es[k + 1 + 1], 1, o - pos[k + 1]))
      <4>1. k + 1 \in 0 .. n  BY <2>2
      <4> QED BY <1>a, <2>0, <3>1, <4>1
    <3>3. SubSeq(e, 1, j - 1) = e
      <4>1. j - 1 = Len(e)  BY <2>4, <2>9
      <4> QED BY <4>1, <2>4, PrefixFacts
    <3>4. Append(SubSeq(es, 1, k), e) = SubSeq(es, 1, k + 1)
      BY <1>1, <2>1, <2>2, <2>3, PrefixFacts
    <3>5. k + 1 # n => SubSeq(es[k + 1 + 1], 1, o - pos[k + 1]) = << >>
      <4> SUFFICES ASSUME k + 1 # n PROVE SubSeq(es[k + 1 + 1], 1, 0) = << >>
        BY <1>1, <2>2, <3>0
      <4>1. es[k + 1 + 1] \in Seq(1 .. 255)  BY <1>1, <1>2, <2>1, <2>2
      <4> QED BY <4>1, PrefixFacts
    <3>6. s[o] = 0  BY <2>5, <3>0
    <3>7. At(o) = Read(SubSeq(es, 1, k + 1), << >>)
      BY <3>2, <3>5
    <3>8. TakeByte(At(o - 1), s[o]) = Read(Append(SubSeq(es, 1, k), e), << >>)
      <4>1. At(o - 1) = Read(SubSeq(es, 1, k), e)  BY <2>8, <3>3
      <4>2. TakeByte(Read(SubSeq(es, 1, k), e), 0) = Read(Append(SubSeq(es, 1, k), e), << >>)
        BY TakeByteIs
      <4> QED BY <3>6, <4>1, <4>2
    <3> QED BY <3>4, <3>7, <3>8
  <2>10. CASE j \in 1 .. Len(e)
    <3>1. In(k, o)  BY <1>1, <2>1, <2>2, <2>4, <2>5, <2>6, <2>7, <2>10
    <3>2. At(o) = Read(SubSeq(es, 1, k), SubSeq(e, 1, j))
      <4>1. At(o) = Read(SubSeq(es, 1, k), IF k = n THEN << >> ELSE SubSeq(es[k + 1], 1, o - pos[k]))
        BY <1>a, <2>0, <3>1
      <4>2. o - pos[k] = j  BY <2>6, <2>7
      <4> QED BY <4>1, <4>2, <2>2, <2>3
    <3>3. s[o] = e[j] /\ e[j] # 0
      <4>2. s[o] = e[j]  BY <2>5, <2>7, <2>10
      <4>3. e[j] # 0  BY <2>4, <2>10, NoZeroIn
      <4> QED BY <4>2, <4>3
    <3>4. Append(SubSeq(e, 1, j - 1), e[j]) = SubSeq(e, 1, j)
      <4>1. j - 1 \in 0 .. Len(e) - 1 /\ j - 1 + 1 = j  BY <2>4, <2>10
      <4>2. Append(SubSeq(e, 1, j - 1), e[j - 1 + 1]) = SubSeq(e, 1, j - 1 + 1)
        BY <4>1, <2>4, PrefixFacts
      <4> QED BY <4>1, <4>2
    <3>5. TakeByte(At(o - 1), s[o]) = Read(SubSeq(es, 1, k), Append(SubSeq(e, 1, j - 1), e[j]))
      BY <2>8, <3>3, TakeByteIs
    <3> QED BY <3>2, <3>4, <3>5
  <2> QED BY <2>4, <2>7, <2>9, <2>10
<1>7. Is(F)
  <2>1. \A o \in 0 .. Len(s) : F[o] = IF o = 0 THEN Read(<< >>, << >>)
                                        ELSE TakeByte(F[o - 1], s[o])
    BY <1>5, <1>6
  <2> QED BY <2>1
<1> DEFINE C == CHOOSE f : Is(f)
<1>8. Is(C)
  <2> HIDE DEF Is, F
  <2> QED BY <1>7
<1>9. C[Len(s)] = F[Len(s)]
  <2>0. Len(s) \in Nat  BY <1>1
  <2> DEFINE S == {o \in 0 .. Len(s) : C[o] # F[o]}
  <2> SUFFICES ASSUME C[Len(s)] # F[Len(s)] PROVE FALSE
    OBVIOUS
  <2> HIDE DEF C, F
  <2>1. S \in SUBSET (0 .. Len(s)) /\ S # {}  BY <2>0
  <2>2. PICK o \in S : \A i \in S : o <= i
    <3> HIDE DEF S
    <3> QED BY <2>0, <2>1, LeastNat
  <2>3. o \in 0 .. Len(s) /\ C[o] # F[o]  BY <2>2
  <2>4. CASE o = 0  BY <1>7, <1>8, <2>3, <2>4
  <2>5. CASE o # 0
    <3>1. o - 1 \in 0 .. Len(s) /\ o - 1 \notin S  BY <2>0, <2>2, <2>3, <2>5
    <3>2. C[o - 1] = F[o - 1]  BY <3>1
    <3> QED BY <1>7, <1>8, <2>3, <2>5, <3>2
  <2> QED BY <2>4, <2>5
<1>10. Cut(s) = C[Len(s)].done
  BY DEF Cut, Read
<1>11. F[Len(s)].done = es
  <2>1. In(n, Len(s)) /\ n \in 0 .. n /\ Len(s) \in 0 .. Len(s)  BY <1>1
  <2>2. At(Len(s)) = Read(SubSeq(es, 1, n), << >>)  BY <1>a, <2>1
  <2>3. At(Len(s)).done = SubSeq(es, 1, n)  BY <2>2 DEF Read
  <2> QED BY <1>1, <2>1, <2>3, PrefixFacts
<1> HIDE DEF C, F
<1> QED BY <1>9, <1>10, <1>11

(* Where the k-th entry is, and what is in it.                             *)
LEMMA EntryIs ==
  ASSUME NEW r, NEW es, NEW pos, Layout(r, es, pos), NEW k \in 1 .. Len(es)
  PROVE  /\ Len(es) \in Nat /\ es[k] \in Seq(1 .. 255) /\ Len(es[k]) \in 1 .. MaxLineLen - 1
         /\ pos[k - 1] \in Nat /\ pos[k] = pos[k - 1] + Len(es[k]) + 1 /\ r[pos[k]] = 0
         /\ \A j \in 1 .. Len(es[k]) : r[pos[k - 1] + j] = es[k][j] /\ r[pos[k - 1] + j] # 0
<1>1. Len(es) \in Nat /\ es \in Seq(Kept) /\ k - 1 \in 0 .. Len(es)
  BY DEF Layout
<1>2. es[k] \in Kept
  BY <1>1, ElementOfSeq
<1>3. es[k] \in Seq(1 .. 255) /\ Len(es[k]) \in 1 .. MaxLineLen - 1
  BY <1>2 DEF Kept
<1>4. /\ pos[k - 1] \in Nat /\ pos[k] = pos[k - 1] + Len(es[k]) + 1 /\ r[pos[k]] = 0
      /\ \A j \in 1 .. Len(es[k]) : r[pos[k - 1] + j] = es[k][j]
  BY <1>1 DEF Layout
<1>5. \A j \in 1 .. Len(es[k]) : es[k][j] # 0
  BY <1>3, NoZeroIn
<1>6. \A j \in 1 .. Len(es[k]) : r[pos[k - 1] + j] # 0
  BY <1>4, <1>5
<1> QED BY <1>1, <1>3, <1>4, <1>6

(* The row of the whole ring: the entries, and zeros after the last.       *)
Holds(r, es, pos) ==
  /\ Layout(r, es, pos) /\ pos[Len(es)] <= HistorySize
  /\ \A o \in 1 .. HistorySize : o > pos[Len(es)] => r[o] = 0

(* The places of the entries rise from 0.                                  *)
LEMMA Places ==
  ASSUME NEW r, NEW es, NEW pos, Holds(r, es, pos)
  PROVE  /\ HistorySize \in Nat /\ Len(es) \in Nat /\ es \in Seq(Kept) /\ pos[0] = 0
         /\ \A k \in 0 .. Len(es) : pos[k] \in 0 .. pos[Len(es)] /\ pos[k] \in 0 .. HistorySize
         /\ \A i, k \in 0 .. Len(es) : i < k => pos[i] < pos[k]
<1>1. HistorySize \in Nat /\ Len(es) \in Nat /\ es \in Seq(Kept) /\ pos[0] = 0
      /\ pos \in [0 .. Len(es) -> Nat] /\ pos[Len(es)] <= HistorySize
      /\ \A i, k \in 0 .. Len(es) : i < k => pos[i] < pos[k]
  BY HistoryAssumption DEF Holds, Layout
<1>2. ASSUME NEW k \in 0 .. Len(es) PROVE pos[k] \in 0 .. pos[Len(es)] /\ pos[k] \in 0 .. HistorySize
  <2>1. pos[k] \in Nat /\ pos[Len(es)] \in Nat  BY <1>1
  <2>2. k = Len(es) \/ pos[k] < pos[Len(es)]  BY <1>1
  <2> QED BY <1>1, <2>1, <2>2
<1> QED BY <1>1, <1>2

(* Without the oldest entries.                                             *)
LEMMA Dropped ==
  ASSUME NEW r, NEW es, NEW pos, Holds(r, es, pos), NEW d \in 0 .. Len(es), NEW q,
         \A o \in 1 .. HistorySize :
           q[o] = IF o + pos[d] <= pos[Len(es)] THEN r[o + pos[d]] ELSE 0
  PROVE  Holds(q, SubSeq(es, d + 1, Len(es)), [k \in 0 .. Len(es) - d |-> pos[k + d] - pos[d]])
<1>1. PICK n \in Nat : n = Len(es)  BY Places
<1> DEFINE us == SubSeq(es, d + 1, Len(es))
           at == [k \in 0 .. n - d |-> pos[k + d] - pos[d]]
<1>2. d \in 0 .. n /\ es \in Seq(Kept) /\ n - d \in Nat  BY <1>1, Places
<1>3. us \in Seq(Kept) /\ Len(us) = n - d /\ \A k \in 1 .. n - d : us[k] = es[k + d]
  BY <1>1, <1>2
<1>4. \A k \in 0 .. n : pos[k] \in 0 .. pos[n] /\ pos[k] \in 0 .. HistorySize
  BY <1>1, Places
<1>5. \A i, k \in 0 .. n : i < k => pos[i] < pos[k]
  BY <1>1, Places
<1>6. at \in [0 .. n - d -> Nat] /\ at[0] = 0 /\ at[n - d] = pos[n] - pos[d]
  <2>1. ASSUME NEW k \in 0 .. n - d PROVE pos[k + d] - pos[d] \in Nat
    <3>1. k + d \in 0 .. n /\ pos[k + d] \in Nat /\ pos[d] \in Nat  BY <1>2, <1>4
    <3>2. k = 0 \/ pos[d] < pos[k + d]  BY <1>2, <1>5, <3>1
    <3> QED BY <1>2, <3>1, <3>2
  <2>2. pos[0 + d] - pos[d] = 0
    <3>1. 0 + d = d /\ pos[d] \in Nat  BY <1>2, <1>4
    <3> QED BY <3>1
  <2>3. n - d + d = n /\ 0 \in 0 .. n - d /\ n - d \in 0 .. n - d  BY <1>2
  <2>4. at \in [0 .. n - d -> Nat]  BY <2>1
  <2>5. at[0] = 0  BY <2>2, <2>3
  <2>6. at[n - d] = pos[n] - pos[d]  BY <2>3
  <2> QED BY <2>4, <2>5, <2>6
<1>7. \A i, k \in 0 .. n - d : i < k => at[i] < at[k]
  <2> TAKE i, k \in 0 .. n - d
  <2>1. i + d \in 0 .. n /\ k + d \in 0 .. n  BY <1>2
  <2>2. pos[i + d] \in Nat /\ pos[k + d] \in Nat /\ pos[d] \in Nat  BY <1>2, <1>4, <2>1
  <2>3. i < k => pos[i + d] < pos[k + d]  BY <1>2, <1>5, <2>1
  <2> QED BY <2>2, <2>3
<1>8. ASSUME NEW k \in 1 .. n - d
      PROVE  /\ at[k] = at[k - 1] + Len(us[k]) + 1 /\ q[at[k]] = 0
             /\ \A j \in 1 .. Len(us[k]) : q[at[k - 1] + j] = us[k][j]
  <2>1. k + d \in 1 .. Len(es) /\ k + d - 1 = k - 1 + d  BY <1>1, <1>2
  <2>2. PICK e : e = es[k + d]  OBVIOUS
  <2>3. /\ Len(e) \in Nat /\ pos[k + d - 1] \in Nat
        /\ pos[k + d] = pos[k + d - 1] + Len(e) + 1 /\ r[pos[k + d]] = 0
        /\ \A j \in 1 .. Len(e) : r[pos[k + d - 1] + j] = e[j]
    BY <2>1, <2>2, EntryIs DEF Holds
  <2>4. us[k] = e  BY <1>3, <2>2
  <2>5. at[k] = pos[k + d] - pos[d] /\ at[k - 1] = pos[k + d - 1] - pos[d]
    BY <1>2, <2>1
  <2>6. PICK p0, p1, dp, np \in 0 .. HistorySize :
          /\ p0 = pos[k + d - 1] /\ p1 = pos[k + d] /\ dp = pos[d] /\ np = pos[n]
          /\ dp <= p0 /\ p1 <= np
    <3>1. k + d \in 0 .. n /\ n \in 0 .. n /\ k + d - 1 \in 0 .. n  BY <1>1, <2>1
    <3>2. k + d - 1 = d \/ d < k + d - 1  BY <1>2, <3>1
    <3>3. pos[k + d - 1] = pos[d] \/ pos[d] < pos[k + d - 1]  BY <1>2, <1>5, <3>1, <3>2
    <3> HIDE DEF at, us
    <3>4. /\ pos[k + d - 1] \in 0 .. HistorySize /\ pos[k + d] \in 0 .. HistorySize
          /\ pos[d] \in 0 .. HistorySize /\ pos[n] \in 0 .. HistorySize
          /\ pos[k + d] <= pos[n]
      BY <1>2, <1>4, <3>1
    <3>5. pos[d] <= pos[k + d - 1]  BY <3>3, <3>4
    <3> QED BY <3>4, <3>5
  <2>7. HistorySize \in Nat  BY HistoryAssumption
  <2>8. PICK l \in Nat : l = Len(e)  BY <2>3
  <2> HIDE DEF us, at
  <2>a. at[k] = p1 - dp /\ at[k - 1] = p0 - dp
    BY <2>5, <2>6
  <2>b. p1 = p0 + l + 1
    BY <2>3, <2>6, <2>8
  <2>c. /\ p1 - dp = p0 - dp + l + 1 /\ p1 - dp \in 1 .. HistorySize /\ p1 - dp + dp = p1
        /\ \A j \in 1 .. l : /\ p0 - dp + j \in 1 .. HistorySize
                             /\ p0 - dp + j + dp = p0 + j /\ p0 + j <= np
    <3>1. dp <= p0 /\ p1 <= np  BY <2>6
    <3> QED BY <2>7, <2>b, <3>1
  <2>9. at[k] = at[k - 1] + Len(e) + 1
    BY <2>8, <2>a, <2>c
  <2>10. q[at[k]] = 0
    <3>1. q[p1 - dp] = r[p1]  BY <1>1, <2>6, <2>c
    <3> QED BY <2>3, <2>6, <2>a, <3>1
  <2>11. ASSUME NEW j \in 1 .. Len(e) PROVE q[at[k - 1] + j] = e[j]
    <3>1. j \in 1 .. l  BY <2>8
    <3>2. p0 - dp + j \in 1 .. HistorySize /\ p0 - dp + j + dp = p0 + j /\ p0 + j <= np
      BY <2>c, <3>1
    <3>3. q[p0 - dp + j] = r[p0 + j]  BY <1>1, <2>6, <3>2
    <3> QED BY <2>3, <2>6, <2>a, <3>3
  <2> QED BY <2>4, <2>9, <2>10, <2>11
<1>9. Layout(q, us, at)
  <2> HIDE DEF us, at
  <2> QED BY <1>3, <1>6, <1>7, <1>8 DEF Layout
<1>10. at[Len(us)] <= HistorySize
  <2>1. pos[n] \in 0 .. HistorySize /\ pos[d] \in 0 .. HistorySize  BY <1>2, <1>4
  <2>2. at[Len(us)] = pos[n] - pos[d]  BY <1>3, <1>6
  <2>3. \A x, y \in 0 .. HistorySize : x - y <= HistorySize  BY HistoryAssumption
  <2> QED BY <2>1, <2>2, <2>3
<1>11. ASSUME NEW o \in 1 .. HistorySize, o > at[Len(us)] PROVE q[o] = 0
  <2>1. at[Len(us)] = pos[n] - pos[d]  BY <1>3, <1>6
  <2>2. ~(o + pos[d] <= pos[n])  BY <1>2, <1>4, <1>11, <2>1
  <2> QED BY <1>1, <2>2
<1>12. Holds(q, us, at)
  <2> HIDE DEF us, at
  <2> QED BY <1>9, <1>10, <1>11 DEF Holds
<1> QED BY <1>1, <1>12

(* With one more entry.                                                    *)
LEMMA Added ==
  ASSUME NEW r, NEW es, NEW pos, Holds(r, es, pos), NEW e \in Kept, NEW q,
         pos[Len(es)] + Len(e) + 1 <= HistorySize,
         \A o \in 1 .. HistorySize : o <= pos[Len(es)] \/ o > pos[Len(es)] + Len(e) + 1 => q[o] = r[o],
         \A j \in 1 .. Len(e) : q[pos[Len(es)] + j] = e[j],
         q[pos[Len(es)] + Len(e) + 1] = 0
  PROVE  Holds(q, Append(es, e),
               [k \in 0 .. Len(es) + 1 |-> IF k <= Len(es) THEN pos[k] ELSE pos[Len(es)] + Len(e) + 1])
<1>1. PICK n \in Nat : n = Len(es)  BY Places
<1> DEFINE us == Append(es, e)
           at == [k \in 0 .. n + 1 |-> IF k <= n THEN pos[k] ELSE pos[n] + Len(e) + 1]
<1>2. es \in Seq(Kept) /\ Len(e) \in Nat  BY Places DEF Kept
<1>3. us \in Seq(Kept) /\ Len(us) = n + 1 /\ us[n + 1] = e /\ \A k \in 1 .. n : us[k] = es[k]
  BY <1>1, <1>2
<1>4. /\ \A k \in 0 .. n : pos[k] \in Nat /\ pos[k] <= pos[n] /\ pos[k] <= HistorySize
      /\ pos[0] = 0
      /\ \A i, k \in 0 .. n : i < k => pos[i] < pos[k]
  BY <1>1, Places
<1>5. /\ \A k \in 0 .. n : at[k] = pos[k]
      /\ at[n + 1] = pos[n] + Len(e) + 1
  OBVIOUS
<1>6. PICK np, l \in Nat : np = pos[n] /\ l = Len(e)
  BY <1>2, <1>4
<1>7. at \in [0 .. n + 1 -> Nat] /\ at[0] = 0
  <2>1. \A k \in 0 .. n + 1 : k <= n => pos[k] \in Nat  BY <1>4
  <2>2. pos[n] + Len(e) + 1 \in Nat  BY <1>6
  <2> QED BY <1>4, <1>5, <2>1, <2>2
<1> HIDE DEF us, at
<1>8. \A i, k \in 0 .. n + 1 : i < k => at[i] < at[k]
  <2> TAKE i, k \in 0 .. n + 1
  <2> SUFFICES ASSUME i < k PROVE at[i] < at[k]
    OBVIOUS
  <2>1. CASE k <= n
    <3>1. i \in 0 .. n /\ k \in 0 .. n  BY <2>1
    <3> QED BY <1>4, <1>5, <3>1
  <2>2. CASE k = n + 1
    <3>1. i \in 0 .. n  BY <2>2
    <3>2. PICK x \in Nat : x = at[i] /\ x <= np  BY <1>4, <1>5, <1>6, <3>1
    <3>3. at[k] = np + l + 1  BY <1>5, <1>6, <2>2
    <3> QED BY <3>2, <3>3
  <2> QED BY <2>1, <2>2
<1>9. ASSUME NEW k \in 1 .. n + 1
      PROVE  /\ at[k] = at[k - 1] + Len(us[k]) + 1 /\ q[at[k]] = 0
             /\ \A j \in 1 .. Len(us[k]) : q[at[k - 1] + j] = us[k][j]
  <2>1. CASE k \in 1 .. n
    <3>1. k \in 1 .. Len(es) /\ k \in 0 .. n /\ k - 1 \in 0 .. n  BY <1>1, <2>1
    <3>2. PICK x : x = es[k]  OBVIOUS
    <3>3. /\ Len(x) \in Nat /\ pos[k] = pos[k - 1] + Len(x) + 1 /\ r[pos[k]] = 0
          /\ \A j \in 1 .. Len(x) : r[pos[k - 1] + j] = x[j]
      BY <3>1, <3>2, EntryIs DEF Holds
    <3>4. us[k] = x /\ at[k] = pos[k] /\ at[k - 1] = pos[k - 1]  BY <1>3, <1>5, <2>1, <3>1, <3>2
    <3>5. PICK p0, p1, m \in Nat : p0 = pos[k - 1] /\ p1 = pos[k] /\ m = Len(x) /\ p1 <= np /\ p1 <= HistorySize
      BY <1>4, <1>6, <3>1, <3>3
    <3>6. p1 = p0 + m + 1  BY <3>3, <3>5
    <3>7. \A o \in 1 .. p1 : o \in 1 .. HistorySize /\ o <= np  BY <3>5, HistoryAssumption
    <3>8. \A o \in 1 .. p1 : q[o] = r[o]  BY <1>1, <1>6, <3>7
    <3>9. q[p1] = 0
      <4>1. p1 \in 1 .. p1  BY <3>6
      <4> QED BY <3>3, <3>5, <3>8, <4>1
    <3>10. ASSUME NEW j \in 1 .. Len(x) PROVE q[p0 + j] = x[j]
      <4>1. j \in 1 .. m  BY <3>5
      <4>2. p0 + j \in 1 .. p1  BY <3>6, <4>1
      <4>3. r[p0 + j] = x[j]  BY <3>3, <3>5
      <4> QED BY <3>8, <4>2, <4>3
    <3> QED BY <3>3, <3>4, <3>5, <3>9, <3>10
  <2>2. CASE k = n + 1
    <3>1. n \in 0 .. n /\ k - 1 = n  BY <2>2
    <3>2. us[k] = e /\ at[k] = pos[n] + Len(e) + 1 /\ at[k - 1] = pos[n]
      BY <1>3, <1>5, <2>2, <3>1
    <3> QED BY <1>1, <3>2
  <2> QED BY <2>1, <2>2
<1>10. Layout(q, us, at)
  BY <1>3, <1>7, <1>8, <1>9 DEF Layout
<1>11. at[Len(us)] = np + l + 1 /\ np + l + 1 <= HistorySize
  BY <1>1, <1>3, <1>5, <1>6
<1>12. ASSUME NEW o \in 1 .. HistorySize, o > np + l + 1 PROVE q[o] = 0
  <2>1. q[o] = r[o]  BY <1>1, <1>6, <1>12
  <2>2. o > np  BY <1>12
  <2>3. r[o] = 0  BY <1>1, <1>6, <2>2 DEF Holds
  <2> QED BY <2>1, <2>3
<1>13. Holds(q, us, at)
  BY <1>10, <1>11, <1>12 DEF Holds
<1> QED BY <1>1, <1>13 DEF us, at

(* Going round the ring from i.                                            *)
LEMMA Circle ==
  ASSUME NEW i \in Bytes
  PROVE  /\ HistorySize \in Nat \ {0} /\ \A k \in Bytes : k \in Nat /\ k < HistorySize
         /\ Fwd(i, 0) = i /\ Fwd(i, HistorySize) = i
         /\ \A k \in 0 .. HistorySize : Fwd(i, k) \in Bytes
         /\ \A j \in Bytes : Back(j, i) \in Bytes /\ Fwd(i, Back(j, i)) = j
         /\ \A p \in Bytes, k \in 0 .. HistorySize :
              /\ p + k < HistorySize => Fwd(Fwd(i, p), k) = Fwd(i, p + k)
              /\ p + k >= HistorySize => Fwd(Fwd(i, p), k) = Fwd(i, p + k - HistorySize)
              /\ k <= p => Back(Fwd(i, p), k) = Fwd(i, p - k)
              /\ k > p => Back(Fwd(i, p), k) = Fwd(i, p - k + HistorySize)
         /\ \A p, k \in Bytes :
              /\ p <= k => Back(Fwd(i, k), Fwd(i, p)) = k - p
              /\ p > k => Back(Fwd(i, k), Fwd(i, p)) = k - p + HistorySize
         /\ \A k \in Bytes : Back(Fwd(i, k), i) = k
<1>1. HistorySize \in Nat \ {0} /\ i \in 0 .. HistorySize - 1
  BY HistoryAssumption DEF Bytes
<1> DEFINE f(x, k) == IF x + k < HistorySize THEN x + k ELSE x + k - HistorySize
           g(x, k) == IF x >= k THEN x - k ELSE x - k + HistorySize
<1>2. \A x \in Bytes, k \in 0 .. HistorySize : Fwd(x, k) = f(x, k) /\ Back(x, k) = g(x, k)
  BY Around
<1>3. \A x \in Bytes, k \in 0 .. HistorySize : f(x, k) \in Bytes
  BY <1>1 DEF Bytes
<1>4. \A x, k \in Bytes : g(x, k) \in Bytes
  BY <1>1 DEF Bytes
<1>5. Bytes \subseteq 0 .. HistorySize /\ 0 \in Bytes /\ HistorySize \in 0 .. HistorySize
  BY <1>1 DEF Bytes
<1>6. \A k \in Bytes : k \in Nat /\ k < HistorySize
  BY <1>1 DEF Bytes
<1>7. Fwd(i, 0) = i /\ Fwd(i, HistorySize) = i
  <2>1. f(i, 0) = i /\ f(i, HistorySize) = i  BY <1>1
  <2> QED BY <1>2, <1>5, <2>1
<1>8. ASSUME NEW k \in 0 .. HistorySize PROVE Fwd(i, k) \in Bytes
  BY <1>2, <1>3
<1>9. ASSUME NEW j \in Bytes PROVE Back(j, i) \in Bytes /\ Fwd(i, Back(j, i)) = j
  <2>1. Back(j, i) = g(j, i)  BY <1>2, <1>5
  <2>2. g(j, i) \in Bytes  BY <1>4
  <2>3. f(i, g(j, i)) = j  BY <1>1 DEF Bytes
  <2> HIDE DEF f, g
  <2> QED BY <1>2, <1>5, <2>1, <2>2, <2>3
<1>10. ASSUME NEW p \in Bytes, NEW k \in 0 .. HistorySize
       PROVE  /\ p + k < HistorySize => Fwd(Fwd(i, p), k) = Fwd(i, p + k)
              /\ p + k >= HistorySize => Fwd(Fwd(i, p), k) = Fwd(i, p + k - HistorySize)
              /\ k <= p => Back(Fwd(i, p), k) = Fwd(i, p - k)
              /\ k > p => Back(Fwd(i, p), k) = Fwd(i, p - k + HistorySize)
  <2>1. f(i, p) \in Bytes /\ Fwd(i, p) = f(i, p)  BY <1>2, <1>3, <1>5
  <2>2. Fwd(Fwd(i, p), k) = f(f(i, p), k) /\ Back(Fwd(i, p), k) = g(f(i, p), k)
    <3> HIDE DEF f, g
    <3> QED BY <1>2, <2>1
  <2>3. ASSUME p + k < HistorySize PROVE f(f(i, p), k) = f(i, p + k) /\ Fwd(i, p + k) = f(i, p + k)
    <3>1. f(f(i, p), k) = f(i, p + k) /\ p + k \in 0 .. HistorySize  BY <1>1, <2>3 DEF Bytes
    <3> QED BY <1>2, <3>1
  <2>4. ASSUME p + k >= HistorySize
        PROVE  f(f(i, p), k) = f(i, p + k - HistorySize) /\ Fwd(i, p + k - HistorySize) = f(i, p + k - HistorySize)
    <3>1. f(f(i, p), k) = f(i, p + k - HistorySize) /\ p + k - HistorySize \in 0 .. HistorySize
      BY <1>1, <2>4 DEF Bytes
    <3> QED BY <1>2, <3>1
  <2>5. ASSUME k <= p PROVE g(f(i, p), k) = f(i, p - k) /\ Fwd(i, p - k) = f(i, p - k)
    <3>1. g(f(i, p), k) = f(i, p - k) /\ p - k \in 0 .. HistorySize  BY <1>1, <2>5 DEF Bytes
    <3> QED BY <1>2, <3>1
  <2>6. ASSUME k > p
        PROVE  g(f(i, p), k) = f(i, p - k + HistorySize) /\ Fwd(i, p - k + HistorySize) = f(i, p - k + HistorySize)
    <3>1. g(f(i, p), k) = f(i, p - k + HistorySize) /\ p - k + HistorySize \in 0 .. HistorySize
      BY <1>1, <2>6 DEF Bytes
    <3> QED BY <1>2, <3>1
  <2> HIDE DEF f, g
  <2> QED BY <2>2, <2>3, <2>4, <2>5, <2>6
<1>11. ASSUME NEW p \in Bytes, NEW k \in Bytes
       PROVE  /\ p <= k => Back(Fwd(i, k), Fwd(i, p)) = k - p
              /\ p > k => Back(Fwd(i, k), Fwd(i, p)) = k - p + HistorySize
  <2>1. /\ f(i, p) \in Bytes /\ Fwd(i, p) = f(i, p)
        /\ f(i, k) \in Bytes /\ Fwd(i, k) = f(i, k)
    BY <1>2, <1>3, <1>5
  <2>2. Back(Fwd(i, k), Fwd(i, p)) = g(f(i, k), f(i, p))
    <3>1. \A x \in Bytes, y \in Bytes : Back(x, y) = g(x, y)
      <4> HIDE DEF f, g
      <4> QED BY <1>2, <1>5
    <3> HIDE DEF f, g
    <3> QED BY <2>1, <3>1
  <2>3. /\ p <= k => g(f(i, k), f(i, p)) = k - p
        /\ p > k => g(f(i, k), f(i, p)) = k - p + HistorySize
    BY <1>1 DEF Bytes
  <2> HIDE DEF f, g
  <2> QED BY <2>2, <2>3
<1>12. ASSUME NEW k \in Bytes PROVE Back(Fwd(i, k), i) = k
  <2>1. 0 <= k /\ k - 0 = k  BY <1>6
  <2> QED BY <1>5, <1>7, <1>11, <2>1
<1> HIDE DEF f, g
<1> QED BY <1>1, <1>6, <1>7, <1>8, <1>9, <1>10, <1>11, <1>12

(* Backwards from a place, over the start of the row or not.               *)
LEMMA BackFrom ==
  ASSUME NEW i \in Bytes, NEW p \in Bytes, NEW k \in 0 .. HistorySize
  PROVE  /\ k <= p => Back(Fwd(i, p), k) = Fwd(i, p - k)
         /\ k > p => Back(Fwd(i, p), k) = Fwd(i, p - k + HistorySize)
BY Circle

(* The ring read from i on.                                                *)
Row(b, i) == [o \in 1 .. HistorySize |-> b[Fwd(i, o - 1)]]

(* A byte of the row is one of the ring ...                                *)
LEMMA RowAt ==
  ASSUME NEW b, NEW i \in Bytes, NEW o \in 1 .. HistorySize
  PROVE  o - 1 \in Bytes /\ Row(b, i)[o] = b[Fwd(i, o - 1)]
BY HistoryAssumption DEF Row, Bytes

(* ... and the other way round.                                            *)
LEMMA ByteAt ==
  ASSUME NEW b, NEW i \in Bytes, NEW k \in Bytes
  PROVE  k + 1 \in 1 .. HistorySize /\ b[Fwd(i, k)] = Row(b, i)[k + 1]
<1>1. PICK o \in 1 .. HistorySize : o = k + 1 /\ o - 1 = k
  BY HistoryAssumption DEF Bytes
<1>2. Row(b, i)[o] = b[Fwd(i, o - 1)]
  BY RowAt
<1> QED BY <1>1, <1>2

(* history_delete frees the first p of n bytes.                            *)
Frees(b, i, size, p, n) ==
  /\ DOMAIN Deleted(b, i, size) = 0 .. HistorySize /\ Deleted(b, i, size)[HistorySize] = 0
  /\ p \in Bytes /\ AfterDeleted(b, i, size) = Fwd(i, p)
  /\ \A o \in 1 .. HistorySize :
       Row(Deleted(b, i, size), Fwd(i, p))[o] = IF o + p <= n THEN Row(b, i)[o + p] ELSE 0

(* history_delete frees whole entries: those up to the first that ends     *)
(* beyond size.                                                            *)
LEMMA DeleteIs ==
  ASSUME NEW b, DOMAIN b = 0 .. HistorySize, b[HistorySize] = 0,
         NEW i \in Bytes, NEW es, NEW pos, Holds(Row(b, i), es, pos),
         NEW size \in Nat, NEW d \in 1 .. Len(es) - 1, pos[d - 1] <= size, size < pos[d]
  PROVE  Frees(b, i, size, pos[d], pos[Len(es)])
<1> DEFINE r == Row(b, i)
           D == Deleted(b, i, size)
<1>1. HistorySize \in Nat \ {0} /\ Len(es) \in Nat /\ d \in 0 .. Len(es) /\ d \in 1 .. Len(es)
      /\ Len(es) \in 0 .. Len(es) /\ d < Len(es) /\ d + 1 \in 1 .. Len(es) /\ d + 1 - 1 = d /\ d - 1 \in 0 .. Len(es)
  BY Places, HistoryAssumption
<1>2. PICK p, np, p0 \in Nat : p = pos[d] /\ np = pos[Len(es)] /\ p0 = pos[d - 1] /\ p0 <= size /\ size < p
                               /\ p < np /\ np <= HistorySize
  <2>1. pos[d] \in 0 .. HistorySize /\ pos[Len(es)] \in 0 .. HistorySize /\ pos[d - 1] \in 0 .. HistorySize
        /\ pos[d] < pos[Len(es)]
    BY <1>1, Places
  <2> QED BY <2>1
<1>a. p0 <= size /\ size < p /\ p < np /\ np <= HistorySize
  BY <1>2
<1>3. p \in Bytes /\ p - 1 \in Bytes /\ p + 1 \in 1 .. HistorySize /\ p \in 1 .. HistorySize
  BY <1>1, <1>a DEF Bytes
<1>4. \A k \in Bytes : b[Fwd(i, k)] = r[k + 1]
  BY ByteAt
<1>5. r[p] = 0 /\ \A o \in p0 + 1 .. p - 1 : r[o] # 0
  <2>1. PICK l \in Nat : l = Len(es[d])  BY <1>1, EntryIs DEF Holds
  <2>2. p = p0 + l + 1 /\ r[p] = 0 /\ \A j \in 1 .. l : r[p0 + j] # 0
    BY <1>1, <1>2, <2>1, EntryIs DEF Holds
  <2>3. ASSUME NEW o \in p0 + 1 .. p - 1 PROVE r[o] # 0
    <3>1. o - p0 \in 1 .. l /\ p0 + (o - p0) = o
      <4>1. p = p0 + l + 1  BY <2>2
      <4> QED BY <4>1
    <3> QED BY <2>2, <3>1
  <2> QED BY <2>2, <2>3
<1>6. r[p + 1] # 0
  <2>1. PICK l \in Nat : l = Len(es[d + 1]) /\ l >= 1
    BY <1>1, EntryIs, HistoryAssumption DEF Holds
  <2>2. \A j \in 1 .. l : r[p + j] # 0
    <3>1. PICK k \in 1 .. Len(es) : k = d + 1 /\ k - 1 = d  BY <1>1
    <3>2. Layout(r, es, pos)  BY DEF Holds
    <3>3. \A j \in 1 .. Len(es[k]) : r[pos[k - 1] + j] # 0
      <4> HIDE DEF r
      <4> QED BY <3>2, EntryIs
    <3> QED BY <1>2, <2>1, <3>1, <3>3
  <2>3. 1 \in 1 .. l  BY <2>1
  <2> QED BY <2>2, <2>3
<1>7. Freed(b, i, size) = p - 1
  <2> DEFINE S == {k \in size .. HistorySize : b[Fwd(i, k)] = 0}
  <2>1. p - 1 \in S
    <3>1. b[Fwd(i, p - 1)] = r[p - 1 + 1]  BY <1>3, <1>4
    <3>2. p - 1 + 1 = p /\ p - 1 \in size .. HistorySize  BY <1>1, <1>a
    <3> QED BY <1>5, <3>1, <3>2
  <2>2. ASSUME NEW k \in S PROVE p - 1 <= k
    <3> SUFFICES ASSUME k < p - 1 PROVE FALSE
      BY <1>2
    <3>1. k \in Bytes /\ k + 1 \in p0 + 1 .. p - 1
      <4>1. k \in size .. HistorySize  OBVIOUS
      <4> QED BY <1>1, <1>a, <4>1 DEF Bytes
    <3>2. b[Fwd(i, k)] = r[k + 1]  BY <1>4, <3>1
    <3> QED BY <1>5, <3>1, <3>2
  <2>3. \A k \in S : k \in Int  BY <1>1
  <2> HIDE DEF S
  <2>4. Min(S) = p - 1  BY <2>1, <2>2, <2>3, LeastIs
  <2> QED BY <2>4 DEF Freed, S
<1>8. DOMAIN D = 0 .. HistorySize /\ D[HistorySize] = 0
  <2>1. HistorySize \notin Bytes /\ HistorySize \in 0 .. HistorySize  BY <1>1 DEF Bytes
  <2> QED BY <2>1 DEF Deleted
<1>9. ASSUME NEW k \in Bytes PROVE D[Fwd(i, k)] = IF k < p THEN 0 ELSE r[k + 1]
  <2>1. k \in Nat /\ k \in 0 .. HistorySize /\ Bytes \subseteq 0 .. HistorySize
    BY <1>1 DEF Bytes
  <2>2. Fwd(i, k) \in Bytes /\ Back(Fwd(i, k), i) = k  BY <2>1, Circle
  <2>3. D[Fwd(i, k)] = IF k < p - 1 THEN 0 ELSE b[Fwd(i, k)]
    BY <1>7, <2>1, <2>2 DEF Deleted
  <2>4. k = p - 1 => r[k + 1] = 0
    <3>1. p - 1 + 1 = p  BY <1>2
    <3> QED BY <1>5, <3>1
  <2>5. b[Fwd(i, k)] = r[k + 1]  BY <1>4
  <2>6. k < p - 1 => k < p  BY <2>1
  <2>7. ~(k < p - 1) /\ k < p => k = p - 1  BY <2>1
  <2> HIDE DEF D, r
  <2> QED BY <2>3, <2>4, <2>5, <2>6, <2>7
<1>10. ASSUME NEW k \in 0 .. HistorySize
       PROVE  /\ p + k < HistorySize => Fwd(Fwd(i, p), k) = Fwd(i, p + k)
              /\ p + k >= HistorySize => Fwd(Fwd(i, p), k) = Fwd(i, p + k - HistorySize)
  BY <1>3, Circle
<1>11. AfterDeleted(b, i, size) = Fwd(i, p)
  <2>1. Fwd(Fwd(i, p - 1), 1) = Fwd(i, p)
    <3>1. p - 1 + 1 = p /\ p < HistorySize /\ 1 \in 0 .. HistorySize  BY <1>1, <1>2
    <3> QED BY <1>3, <3>1, Circle
  <2>2. D[Fwd(i, p)] # 0
    <3>1. D[Fwd(i, p)] = r[p + 1]
      <4>1. ~(p < p)  BY <1>2
      <4> QED BY <1>3, <1>9, <4>1
    <3> QED BY <1>6, <3>1
  <2> DEFINE j == Fwd(i, p - 1)
             S == {k \in 1 .. HistorySize : ~(D[Fwd(j, k)] = 0 /\ Fwd(j, k) < i)}
  <2>3. 1 \in S /\ \A k \in S : 1 <= k /\ k \in Int
    BY <1>1, <2>1, <2>2
  <2> HIDE DEF S
  <2>4. Min(S) = 1  BY <2>3, LeastIs
  <2>5. AfterDeleted(b, i, size) = Fwd(j, Min(S))
    <3> HIDE DEF D
    <3> QED BY <1>7 DEF AfterDeleted, S, D
  <2> QED BY <2>1, <2>4, <2>5
<1>12. ASSUME NEW o \in 1 .. HistorySize
       PROVE  Row(D, Fwd(i, p))[o] = IF o + p <= np THEN r[o + p] ELSE 0
  <2> HIDE DEF D, r
  <2>1. Fwd(i, p) \in Bytes /\ o - 1 \in 0 .. HistorySize
    <3>1. p \in 0 .. HistorySize  BY <1>1, <1>a
    <3> QED BY <1>1, <3>1, Circle
  <2>2. Row(D, Fwd(i, p))[o] = D[Fwd(Fwd(i, p), o - 1)]  BY <2>1, RowAt
  <2>3. CASE p + (o - 1) < HistorySize
    <3>1. p + (o - 1) \in Bytes /\ ~(p + (o - 1) < p) /\ p + (o - 1) + 1 = o + p
      BY <1>1, <1>a, <2>3 DEF Bytes
    <3>2. D[Fwd(i, p + (o - 1))] = r[o + p]  BY <1>9, <3>1
    <3>3. Fwd(Fwd(i, p), o - 1) = Fwd(i, p + (o - 1))  BY <1>10, <2>1, <2>3
    <3>4. ~(o + p <= np) => r[o + p] = 0
      <4>1. o + p \in 1 .. HistorySize  BY <1>1, <1>a, <2>3
      <4>2. ~(o + p <= np) => o + p > np  BY <1>2
      <4> QED BY <1>2, <4>1, <4>2 DEF Holds, r
    <3> QED BY <2>2, <3>2, <3>3, <3>4
  <2>4. CASE p + (o - 1) >= HistorySize
    <3>1. p + (o - 1) - HistorySize \in Bytes /\ p + (o - 1) - HistorySize < p /\ ~(o + p <= np)
      BY <1>1, <1>a, <2>4 DEF Bytes
    <3>2. D[Fwd(i, p + (o - 1) - HistorySize)] = 0  BY <1>9, <3>1
    <3>3. Fwd(Fwd(i, p), o - 1) = Fwd(i, p + (o - 1) - HistorySize)  BY <1>10, <2>1, <2>4
    <3> QED BY <2>2, <3>1, <3>2, <3>3
  <2> QED BY <1>1, <1>2, <2>3, <2>4
<1> HIDE DEF D, r
<1>13. /\ DOMAIN D = 0 .. HistorySize /\ D[HistorySize] = 0
       /\ p \in Bytes /\ AfterDeleted(b, i, size) = Fwd(i, p)
       /\ \A o \in 1 .. HistorySize : Row(D, Fwd(i, p))[o] = IF o + p <= np THEN r[o + p] ELSE 0
  BY <1>3, <1>8, <1>11, <1>12
<1> QED BY <1>2, <1>13 DEF D, r, Frees

(* What must be freed ends within an entry that is not the last.           *)
LEMMA EntryToFree ==
  ASSUME NEW r, NEW es, NEW pos, Holds(r, es, pos), NEW size \in Nat,
         size + MaxLineLen < pos[Len(es)]
  PROVE  \E d \in 1 .. Len(es) - 1 :
           pos[d - 1] <= size /\ size < pos[d] /\ pos[d] <= size + MaxLineLen
<1>1. PICK n \in Nat : n = Len(es)  BY Places
<1>2. MaxLineLen \in Nat  BY HistoryAssumption
<1>3. pos[0] = 0 /\ \A k \in 0 .. n : pos[k] \in Nat  BY <1>1, Places
<1> DEFINE S == {k \in 0 .. n : size < pos[k]}
<1>4. S \in SUBSET (0 .. n) /\ n \in S
  BY <1>1, <1>2, <1>3
<1>5. PICK d \in S : \A k \in S : d <= k
  <2> HIDE DEF S
  <2> QED BY <1>4, LeastNat
<1>6. d \in 1 .. n /\ size < pos[d]
  BY <1>3, <1>5
<1>7. d - 1 \in 0 .. n /\ d - 1 \notin S
  BY <1>5, <1>6
<1>8. PICK p0, p, l \in Nat : p0 = pos[d - 1] /\ p = pos[d] /\ l = Len(es[d]) /\ l < MaxLineLen /\ p = p0 + l + 1
  <2>1. Len(es[d]) \in 1 .. MaxLineLen - 1 /\ pos[d] = pos[d - 1] + Len(es[d]) + 1
    BY <1>1, <1>6, EntryIs DEF Holds
  <2>2. pos[d - 1] \in Nat /\ pos[d] \in Nat /\ Len(es[d]) \in Nat /\ Len(es[d]) < MaxLineLen
    BY <1>2, <1>3, <1>6, <1>7, <2>1
  <2> QED BY <2>1, <2>2
<1>9. p0 <= size /\ size < p /\ p <= size + MaxLineLen
  <2>1. p0 <= size  BY <1>7, <1>8
  <2> QED BY <1>2, <1>6, <1>8, <2>1
<1>10. d # n
  <2>1. pos[d] # pos[n]
    <3>1. pos[n] \in Nat /\ size + MaxLineLen < pos[n]  BY <1>1, <1>3
    <3>2. p <= size + MaxLineLen  BY <1>9
    <3> QED BY <1>2, <1>8, <3>1, <3>2
  <2> QED BY <2>1
<1>11. d \in 1 .. Len(es) - 1  BY <1>1, <1>6, <1>10
<1> QED BY <1>8, <1>9, <1>11

(* c is b with e and its zero after the first m bytes of the row from i.   *)
Extended(c, b, i, m, e) ==
  /\ DOMAIN c = 0 .. HistorySize /\ c[HistorySize] = 0
  /\ \A o \in 1 .. HistorySize : o <= m \/ o > m + Len(e) + 1 => Row(c, i)[o] = Row(b, i)[o]
  /\ \A j \in 1 .. Len(e) : Row(c, i)[m + j] = e[j]
  /\ Row(c, i)[m + Len(e) + 1] = 0

(* A line copied to the end of the entries, with its zero.                 *)
LEMMA CopyIs ==
  ASSUME NEW b, DOMAIN b = 0 .. HistorySize, b[HistorySize] = 0,
         NEW i \in Bytes, NEW np \in Bytes, NEW e \in Kept, np + Len(e) + 1 <= HistorySize
  PROVE  Extended(Copied(b, Fwd(i, np), Append(e, 0)), b, i, np, e)
<1> DEFINE s == Append(e, 0)
           at == Fwd(i, np)
           c == Copied(b, at, s)
<1>1. HistorySize \in Nat \ {0} /\ np \in Nat /\ np < HistorySize
  BY HistoryAssumption DEF Bytes
<1>2. PICK l \in Nat : l = Len(e)  BY DEF Kept
<1>3. Len(s) = l + 1 /\ s[l + 1] = 0 /\ \A j \in 1 .. l : s[j] = e[j]
  BY <1>2 DEF Kept
<1> HIDE DEF s
<1>4. DOMAIN c = 0 .. HistorySize /\ c[HistorySize] = 0
  <2>1. HistorySize \notin Bytes /\ HistorySize \in 0 .. HistorySize  BY <1>1 DEF Bytes
  <2> QED BY <2>1 DEF Copied
<1>5. ASSUME NEW k \in Bytes
      PROVE  c[Fwd(i, k)] = IF np <= k /\ k <= np + l THEN s[k - np + 1] ELSE b[Fwd(i, k)]
  <2>1. k \in Nat /\ k < HistorySize /\ Bytes \subseteq 0 .. HistorySize
    BY <1>1 DEF Bytes
  <2>2. Fwd(i, k) \in Bytes
        /\ (np <= k => Back(Fwd(i, k), at) = k - np)
        /\ (np > k => Back(Fwd(i, k), at) = k - np + HistorySize)
    BY <2>1, Circle
  <2>3. c[Fwd(i, k)] = IF Back(Fwd(i, k), at) < l + 1 THEN s[Back(Fwd(i, k), at) + 1] ELSE b[Fwd(i, k)]
    BY <1>3, <2>1, <2>2 DEF Copied
  <2>4. CASE np <= k
    <3>1. Back(Fwd(i, k), at) = k - np  BY <2>2, <2>4
    <3>2. k - np < l + 1 <=> k <= np + l  BY <1>1, <2>1
    <3> QED BY <2>3, <2>4, <3>1, <3>2
  <2>5. CASE np > k
    <3>1. Back(Fwd(i, k), at) = k - np + HistorySize  BY <2>2, <2>5
    <3>2. ~(k - np + HistorySize < l + 1) /\ ~(np <= k)  BY <1>1, <1>2, <2>1, <2>5
    <3> QED BY <2>3, <3>1, <3>2
  <2> QED BY <1>1, <2>1, <2>4, <2>5
<1> HIDE DEF c, at
<1>6. ASSUME NEW o \in 1 .. HistorySize, o <= np \/ o > np + l + 1
      PROVE  Row(c, i)[o] = Row(b, i)[o]
  <2>1. /\ o - 1 \in Bytes
        /\ Row(c, i)[o] = c[Fwd(i, o - 1)] /\ Row(b, i)[o] = b[Fwd(i, o - 1)]
    <3>1. o - 1 \in Bytes /\ Row(c, i)[o] = c[Fwd(i, o - 1)]  BY RowAt
    <3>2. Row(b, i)[o] = b[Fwd(i, o - 1)]  BY RowAt
    <3> QED BY <3>1, <3>2
  <2>2. ~(np <= o - 1 /\ o - 1 <= np + l)  BY <1>1, <1>6
  <2> QED BY <1>5, <2>1, <2>2
<1>7. ASSUME NEW j \in 1 .. l + 1 PROVE Row(c, i)[np + j] = s[j]
  <2>1. np + j \in 1 .. HistorySize  BY <1>1, <1>2
  <2>2. PICK o \in 1 .. HistorySize, k \in Bytes : o = np + j /\ k = o - 1
    BY <1>1, <2>1 DEF Bytes
  <2>3. Row(c, i)[o] = c[Fwd(i, k)]  BY <2>2, RowAt
  <2>4. np <= k /\ k <= np + l /\ k - np + 1 = j  BY <1>1, <2>2
  <2>5. c[Fwd(i, k)] = s[j]  BY <1>5, <2>4
  <2> QED BY <2>2, <2>3, <2>5
<1>8. \A j \in 1 .. l : Row(c, i)[np + j] = e[j]
  BY <1>3, <1>7
<1>9. Row(c, i)[np + l + 1] = 0
  <2>1. l + 1 \in 1 .. l + 1 /\ np + (l + 1) = np + l + 1  BY <1>1
  <2>2. Row(c, i)[np + (l + 1)] = s[l + 1]  BY <1>7, <2>1
  <2> QED BY <1>3, <2>1, <2>2
<1>10. Extended(c, b, i, np, e)
  BY <1>2, <1>4, <1>6, <1>8, <1>9 DEF Extended
<1> QED BY <1>10 DEF c, at, s

-----------------------------------------------------------------------------
(* Entries of n bytes that start at i and not at 0 have dropped others,    *)
(* and nearly fill the ring: what is still to be dropped is never all.     *)
Spaced(i, n) ==
  /\ i # 0 /\ i + n < HistorySize => HistorySize - n <= MaxLineLen
  /\ i + n >= HistorySize => HistorySize - n <= 2 * MaxLineLen

(* The ring holds the entries es, and always a free byte.                  *)
Ring(b, begin, end, es, pos) ==
  /\ DOMAIN b = 0 .. HistorySize /\ b[HistorySize] = 0
  /\ begin \in Bytes /\ Holds(Row(b, begin), es, pos)
  /\ pos[Len(es)] < HistorySize /\ end = Fwd(begin, pos[Len(es)])
  /\ pos[Len(es)] = 0 => begin = 0
  /\ Spaced(begin, pos[Len(es)])

(* What making room for size bytes leaves: the entries without the first d *)
(* of them, and room; it is used up only by entries that start at 0.       *)
Room(b, begin, w, size, p, n) ==
  /\ DOMAIN w.b = 0 .. HistorySize /\ w.b[HistorySize] = 0
  /\ p \in Bytes /\ w.begin = Fwd(begin, p)
  /\ \A o \in 1 .. HistorySize :
       Row(w.b, Fwd(begin, p))[o] = IF o + p <= n THEN Row(b, begin)[o + p] ELSE 0
  /\ n - p + size <= HistorySize
  /\ n - p + size = HistorySize => begin = 0 /\ p = 0
  /\ n - p + size < HistorySize => Spaced(Fwd(begin, p), n - p + size)

(* Room that is there already costs no entry.                              *)
LEMMA Kept0 ==
  ASSUME NEW b, NEW begin, NEW end, NEW es, NEW pos, Ring(b, begin, end, es, pos), NEW size \in Nat,
         pos[Len(es)] + size <= HistorySize,
         pos[Len(es)] + size = HistorySize => begin = 0,
         pos[Len(es)] + size < HistorySize => Spaced(begin, pos[Len(es)] + size)
  PROVE  Room(b, begin, [b |-> b, begin |-> begin], size, pos[0], pos[Len(es)])
<1>1. PICK n \in Nat : n = pos[Len(es)]
  BY Places DEF Ring
<1>2. pos[0] = 0 /\ 0 \in Bytes /\ Fwd(begin, 0) = begin /\ begin \in Bytes
  BY Places, Circle, HistoryAssumption DEF Ring, Bytes
<1>3. \A o \in 1 .. HistorySize : Row(b, begin)[o] = IF o + 0 <= n THEN Row(b, begin)[o + 0] ELSE 0
  <2> TAKE o \in 1 .. HistorySize
  <2>1. o + 0 = o /\ (~(o <= n) => o > n)  BY <1>1
  <2>2. o > n => Row(b, begin)[o] = 0  BY <1>1 DEF Ring, Holds
  <2> QED BY <2>1, <2>2
<1>4. n - 0 + size = n + size  BY <1>1
<1> DEFINE w == [b |-> b, begin |-> begin]
<1>5. w.b = b /\ w.begin = begin  OBVIOUS
<1> HIDE DEF w
<1>6. DOMAIN b = 0 .. HistorySize /\ b[HistorySize] = 0  BY DEF Ring
<1>7. Room(b, begin, w, size, 0, n)
  BY <1>1, <1>2, <1>3, <1>4, <1>5, <1>6 DEF Room
<1> QED BY <1>1, <1>2, <1>7 DEF w

(* In each of its three cases: room, and whole entries after it.           *)
LEMMA RoomMade ==
  ASSUME NEW es, NEW pos, Ring(hist_buf, hist_begin, hist_end, es, pos), NEW size \in 2 .. MaxLineLen
  PROVE  \E d \in 0 .. Len(es) :
           Room(hist_buf, hist_begin, MakeRoom(size), size, pos[d], pos[Len(es)])
<1>1. /\ HistorySize \in Nat /\ MaxLineLen \in Nat /\ MaxLineLen >= 2 /\ HistorySize >= 3 * MaxLineLen
      /\ size \in Nat /\ size <= MaxLineLen
  BY HistoryAssumption
<1>2. PICK n \in Nat : n = pos[Len(es)] /\ n < HistorySize
  BY Places DEF Ring
<1>3. PICK i \in Nat : i = hist_begin /\ i < HistorySize
  BY <1>1 DEF Ring, Bytes
<1>4. n \in 0 .. HistorySize /\ i \in Bytes /\ n \in Bytes
  BY <1>1, <1>2, <1>3 DEF Bytes
<1>5. PICK e \in Nat : e = hist_end /\ e = IF i + n < HistorySize THEN i + n ELSE i + n - HistorySize
  <2>1. hist_end = IF i + n < HistorySize THEN i + n ELSE i + n - HistorySize
    BY <1>2, <1>3, <1>4, Around DEF Ring
  <2>2. (IF i + n < HistorySize THEN i + n ELSE i + n - HistorySize) \in Nat
    BY <1>1, <1>2, <1>3
  <2> QED BY <2>1, <2>2
<1>6. /\ n = 0 => i = 0
      /\ i # 0 /\ i + n < HistorySize => HistorySize - n <= MaxLineLen
      /\ i + n >= HistorySize => HistorySize - n <= 2 * MaxLineLen
  BY <1>2, <1>3 DEF Ring, Spaced
<1>7. 0 \in 0 .. Len(es)  BY Places DEF Ring
<1> DEFINE keep == [b |-> hist_buf, begin |-> hist_begin]
<1>8. ASSUME n + size <= HistorySize, n + size = HistorySize => i = 0,
             n + size < HistorySize => Spaced(i, n + size)
      PROVE  Room(hist_buf, hist_begin, keep, size, pos[0], n)
  BY <1>1, <1>2, <1>3, <1>8, Kept0
<1> HIDE DEF keep
<1>9. ASSUME NEW m \in Nat, m < size, m + MaxLineLen < n,
             \A p \in Nat : m < p /\ p <= m + MaxLineLen /\ p < n =>
               n - p + size < HistorySize /\ Spaced(Fwd(i, p), n - p + size)
      PROVE  \E d \in 0 .. Len(es) : Room(hist_buf, hist_begin, history_delete(hist_buf, hist_begin, m), size, pos[d], n)
  <2>1. PICK d \in 1 .. Len(es) - 1 : pos[d - 1] <= m /\ m < pos[d] /\ pos[d] <= m + MaxLineLen
    BY <1>2, <1>9, EntryToFree DEF Ring
  <2>2. d \in 0 .. Len(es)  BY Places DEF Ring
  <2> DEFINE w == history_delete(hist_buf, hist_begin, m)
  <2>3. w.b = Deleted(hist_buf, hist_begin, m) /\ w.begin = AfterDeleted(hist_buf, hist_begin, m)
    BY DEF history_delete
  <2> HIDE DEF w
  <2>4. PICK p \in Nat : p = pos[d] /\ p < n
    <3>1. Len(es) \in 0 .. Len(es) /\ d < Len(es)  BY Places DEF Ring
    <3>2. pos[d] \in 0 .. n /\ pos[d] < pos[Len(es)]  BY <1>2, <2>2, <3>1, Places DEF Ring
    <3> QED BY <1>2, <3>2
  <2>5. n - p + size < HistorySize /\ Spaced(Fwd(i, p), n - p + size)
    BY <1>9, <2>1, <2>4
  <2>6. /\ DOMAIN w.b = 0 .. HistorySize /\ w.b[HistorySize] = 0
        /\ p \in Bytes /\ w.begin = Fwd(hist_begin, p)
        /\ \A o \in 1 .. HistorySize :
             Row(w.b, Fwd(hist_begin, p))[o] = IF o + p <= n THEN Row(hist_buf, hist_begin)[o + p] ELSE 0
    <3>1. hist_begin \in Bytes /\ Holds(Row(hist_buf, hist_begin), es, pos)
          /\ DOMAIN hist_buf = 0 .. HistorySize /\ hist_buf[HistorySize] = 0
      BY DEF Ring
    <3>2. pos[d - 1] <= m /\ m < pos[d]  BY <2>1
    <3>3. Frees(hist_buf, hist_begin, m, pos[d], pos[Len(es)])
      BY <3>1, <3>2, DeleteIs
    <3>4. Frees(hist_buf, hist_begin, m, p, n)  BY <1>2, <2>4, <3>3
    <3> QED BY <2>3, <3>4 DEF Frees
  <2>7. n - p + size <= HistorySize /\ n - p + size # HistorySize
    BY <1>1, <1>2, <2>4, <2>5
  <2>8. Room(hist_buf, hist_begin, w, size, p, n)
    BY <1>3, <2>5, <2>6, <2>7 DEF Room
  <2> QED BY <2>2, <2>4, <2>8 DEF w
<1>10. CASE n = 0
  <2>1. i = e  BY <1>1, <1>3, <1>5, <1>10
  <2>2. MakeRoom(size) = keep  BY <1>3, <1>5, <2>1 DEF MakeRoom, keep
  <2>3. n + size < HistorySize /\ i = 0 /\ i + (n + size) < HistorySize  BY <1>1, <1>6, <1>10
  <2>4. Spaced(i, n + size)  BY <1>1, <1>2, <2>3 DEF Spaced
  <2>5. n + size <= HistorySize /\ n + size # HistorySize  BY <1>1, <2>3
  <2>6. Room(hist_buf, hist_begin, keep, size, pos[0], n)  BY <1>8, <2>4, <2>5
  <2> QED BY <1>2, <1>7, <2>2, <2>6
<1>11. CASE n > 0 /\ i + n < HistorySize
  <2>1. e = i + n /\ i < e /\ i # e  BY <1>5, <1>11
  <2>2. CASE HistorySize - e >= size
    <3>1. MakeRoom(size) = keep  BY <1>3, <1>5, <2>1, <2>2 DEF MakeRoom, keep
    <3>2. n + size <= HistorySize /\ (n + size = HistorySize => i = 0)  BY <1>1, <2>1, <2>2
    <3>3. n + size < HistorySize => Spaced(i, n + size)
      <4>1. CASE i = 0  BY <1>1, <1>2, <4>1 DEF Spaced
      <4>2. CASE i # 0
        <5>1. HistorySize - (n + size) <= MaxLineLen  BY <1>1, <1>2, <1>6, <1>11, <4>2
        <5> QED BY <1>1, <1>2, <5>1 DEF Spaced
      <4> QED BY <4>1, <4>2
    <3>4. Room(hist_buf, hist_begin, keep, size, pos[0], n)  BY <1>8, <3>2, <3>3
    <3> QED BY <1>2, <1>7, <3>1, <3>4
  <2>3. CASE ~(HistorySize - e >= size)
    <3>1. PICK m \in Nat : m = size - (HistorySize - e) /\ m >= 1 /\ m < size
      BY <1>1, <1>11, <2>1, <2>3
    <3>2. MakeRoom(size) = history_delete(hist_buf, hist_begin, m)
      BY <1>3, <1>5, <2>1, <2>3, <3>1 DEF MakeRoom, Missing
    <3>3. m + MaxLineLen < n  BY <1>1, <1>6, <1>11, <2>1, <3>1
    <3>4. ASSUME NEW p \in Nat, m < p, p <= m + MaxLineLen, p < n
          PROVE  n - p + size < HistorySize /\ Spaced(Fwd(i, p), n - p + size)
      <4>1. p \in 0 .. HistorySize /\ i + p < HistorySize  BY <1>1, <1>11, <3>4
      <4>2. Fwd(i, p) = i + p  BY <1>4, <4>1, Around
      <4>3. n - p + size < HistorySize  BY <1>1, <2>1, <3>1, <3>4
      <4>4. HistorySize - (n - p + size) <= 2 * MaxLineLen  BY <1>1, <1>6, <1>11, <2>1, <3>1, <3>4
      <4>5. i + p + (n - p + size) >= HistorySize  BY <1>1, <2>1, <3>1
      <4> QED BY <1>1, <4>2, <4>3, <4>4, <4>5 DEF Spaced
    <3> QED BY <1>2, <1>9, <3>1, <3>2, <3>3, <3>4
  <2> QED BY <2>2, <2>3
<1>12. CASE n > 0 /\ i + n >= HistorySize
  <2>1. e = i + n - HistorySize /\ ~(i < e) /\ i # e /\ i - e = HistorySize - n
    BY <1>1, <1>2, <1>5, <1>12
  <2>2. CASE i - e <= size
    <3>1. PICK m \in Nat : m = size - (i - e) /\ m < size  BY <1>1, <1>2, <2>1, <2>2
    <3>2. MakeRoom(size) = history_delete(hist_buf, hist_begin, m)
      BY <1>3, <1>5, <2>1, <2>2, <3>1 DEF MakeRoom, Missing
    <3>3. m + MaxLineLen < n  BY <1>1, <2>1, <3>1
    <3>4. ASSUME NEW p \in Nat, m < p, p <= m + MaxLineLen, p < n
          PROVE  n - p + size < HistorySize /\ Spaced(Fwd(i, p), n - p + size)
      <4>1. n - p + size < HistorySize /\ HistorySize - (n - p + size) <= MaxLineLen
        BY <1>1, <2>1, <3>1, <3>4
      <4> QED BY <1>1, <4>1 DEF Spaced
    <3> QED BY <1>2, <1>9, <3>1, <3>2, <3>3, <3>4
  <2>3. CASE ~(i - e <= size)
    <3>1. MakeRoom(size) = keep  BY <1>3, <1>5, <2>1, <2>3 DEF MakeRoom, keep
    <3>2. n + size < HistorySize  BY <1>1, <1>2, <2>1, <2>3
    <3>3. Spaced(i, n + size)
      BY <1>1, <1>2, <1>3, <1>6, <1>12 DEF Spaced
    <3>4. n + size <= HistorySize /\ n + size # HistorySize  BY <1>1, <3>2
    <3>5. Room(hist_buf, hist_begin, keep, size, pos[0], n)  BY <1>8, <3>3, <3>4
    <3> QED BY <1>2, <1>7, <3>1, <3>5
  <2> QED BY <2>2, <2>3
<1>13. n = 0 \/ (n > 0 /\ i + n < HistorySize) \/ (n > 0 /\ i + n >= HistorySize)
  BY <1>1, <1>2, <1>3
<1> QED BY <1>10, <1>11, <1>12, <1>13

-----------------------------------------------------------------------------
(* The C string e with its zero.                                           *)
Char(e, j) == IF j < Len(e) THEN e[j + 1] ELSE 0

(* The bytes of the k-th entry, from its first one on.                     *)
LEMMA EntryBytes ==
  ASSUME NEW b, NEW i \in Bytes, NEW es, NEW pos, Holds(Row(b, i), es, pos), pos[Len(es)] < HistorySize,
         NEW k \in 1 .. Len(es), NEW l \in Nat, l = Len(es[k])
  PROVE  /\ pos[k - 1] \in Bytes /\ Fwd(i, pos[k - 1]) \in Bytes /\ pos[k - 1] + l + 1 < HistorySize
         /\ pos[k] = pos[k - 1] + l + 1 /\ pos[k] \in Bytes
         /\ \A j \in 0 .. l :
              /\ b[Fwd(i, pos[k - 1] + j)] = Char(es[k], j)
              /\ Fwd(i, pos[k - 1] + j) = Fwd(Fwd(i, pos[k - 1]), j)
<1>1. HistorySize \in Nat /\ k \in 0 .. Len(es) /\ k - 1 \in 0 .. Len(es) /\ Len(es) \in 0 .. Len(es)
  BY Places, HistoryAssumption
<1>2. PICK p, q \in Nat : p = pos[k - 1] /\ q = pos[k] /\ q = p + l + 1 /\ q < HistorySize
  <2>1. pos[k - 1] \in Nat /\ pos[k] = pos[k - 1] + l + 1  BY EntryIs DEF Holds
  <2>2. pos[k] \in 0 .. pos[Len(es)] /\ pos[Len(es)] \in 0 .. HistorySize  BY <1>1, Places
  <2>3. pos[k] \in Nat /\ pos[k] < HistorySize  BY <1>1, <2>2
  <2> QED BY <2>1, <2>3
<1>3. q = p + l + 1 /\ q < HistorySize
  BY <1>2
<1>4. p \in Bytes /\ q \in Bytes /\ p \in 0 .. HistorySize
  BY <1>1, <1>3 DEF Bytes
<1>5. Fwd(i, p) \in Bytes
  BY <1>4, Circle
<1>6. ASSUME NEW j \in 0 .. l PROVE b[Fwd(i, p + j)] = Char(es[k], j) /\ Fwd(i, p + j) = Fwd(Fwd(i, p), j)
  <2>1. PICK m \in Bytes : m = p + j /\ m + 1 = p + (j + 1)
    BY <1>1, <1>3 DEF Bytes
  <2>2. j \in 0 .. HistorySize /\ p + j < HistorySize  BY <1>1, <1>3
  <2>3. Fwd(i, p + j) = Fwd(Fwd(i, p), j)  BY <1>4, <2>2, Circle
  <2>4. b[Fwd(i, p + j)] = Row(b, i)[p + (j + 1)]
    <3>1. b[Fwd(i, m)] = Row(b, i)[m + 1]  BY ByteAt
    <3> QED BY <2>1, <3>1
  <2>5. CASE j < l
    <3>1. j + 1 \in 1 .. Len(es[k])  BY <2>5
    <3>2. Row(b, i)[p + (j + 1)] = es[k][j + 1]
      <4>1. \A x \in 1 .. Len(es[k]) : Row(b, i)[pos[k - 1] + x] = es[k][x]  BY EntryIs DEF Holds
      <4> QED BY <1>2, <3>1, <4>1
    <3> QED BY <2>3, <2>4, <2>5, <3>2 DEF Char
  <2>6. CASE j = l
    <3>1. p + (j + 1) = q /\ ~(j < l)  BY <1>3, <2>6
    <3>2. Row(b, i)[pos[k]] = 0  BY EntryIs DEF Holds
    <3> QED BY <1>2, <2>3, <2>4, <3>1, <3>2 DEF Char
  <2>7. j < l \/ j = l  OBVIOUS
  <2> QED BY <2>5, <2>6, <2>7
<1> QED BY <1>2, <1>3, <1>4, <1>5, <1>6

(* The first zero ends the string.                                         *)
LEMMA StrlenIs ==
  ASSUME NEW b, NEW i \in Nat, NEW m \in Nat, i + m <= HistorySize, b[i + m] = 0,
         \A j \in 0 .. m - 1 : b[i + j] # 0
  PROVE  strlen(b, i) = m
<1>1. HistorySize \in Nat  BY HistoryAssumption
<1> DEFINE S == {k \in 0 .. HistorySize : i + k <= HistorySize /\ b[i + k] = 0}
<1>2. m \in S  BY <1>1
<1>3. ASSUME NEW k \in S PROVE m <= k /\ k \in Int
  <2>1. k \in Nat /\ b[i + k] = 0  BY <1>1
  <2>2. k < m => k \in 0 .. m - 1  BY <2>1
  <2> QED BY <2>1, <2>2
<1> HIDE DEF S
<1>4. Min(S) = m  BY <1>2, <1>3, LeastIs
<1> QED BY <1>4 DEF strlen, S

(* A line followed by its zero is read back as that line.                  *)
LEMMA CStringIs ==
  ASSUME NEW b, NEW i \in Nat, NEW m \in Nat, strlen(b, i) = m,
         NEW u \in Seq(1 .. 255), Len(u) = m, \A j \in 0 .. m - 1 : b[i + j] = u[j + 1]
  PROVE  CString(b, i) = u
<1> DEFINE c == [j \in 1 .. m |-> b[i + j - 1]]
<1>1. \A j \in 1 .. m : c[j] = u[j]
  <2> TAKE j \in 1 .. m
  <2>1. PICK x \in 0 .. m - 1 : j = x + 1 /\ i + j - 1 = i + x
    <3>1. j - 1 \in 0 .. m - 1 /\ j = j - 1 + 1 /\ i + j - 1 = i + (j - 1)  OBVIOUS
    <3> QED BY <3>1
  <2>2. b[i + x] = u[x + 1]  BY <2>1
  <2>3. c[j] = b[i + j - 1]  OBVIOUS
  <2> QED BY <2>1, <2>2, <2>3
<1>2. c = [j \in 1 .. m |-> u[j]]
  BY <1>1
<1>3. u = [j \in 1 .. m |-> u[j]]
  BY LenProperties
<1>4. CString(b, i) = c
  BY DEF CString
<1> HIDE DEF c
<1> QED BY <1>2, <1>3, <1>4

(* A sequence cut in two: what SMT knows of each part.                     *)
LEMMA Parts ==
  ASSUME NEW S, NEW e \in Seq(S), NEW m \in 0 .. Len(e)
  PROVE  /\ SubSeq(e, 1, m) \in Seq(S) /\ Len(SubSeq(e, 1, m)) = m
         /\ \A j \in 1 .. m : SubSeq(e, 1, m)[j] = e[j]
         /\ SubSeq(e, m + 1, Len(e)) \in Seq(S) /\ Len(SubSeq(e, m + 1, Len(e))) = Len(e) - m
         /\ \A j \in 1 .. Len(e) - m : SubSeq(e, m + 1, Len(e))[j] = e[m + j]
         /\ SubSeq(e, 1, m) \o SubSeq(e, m + 1, Len(e)) = e
<1> DEFINE u == SubSeq(e, 1, m)
           v == SubSeq(e, m + 1, Len(e))
<1>1. u \in Seq(S) /\ Len(u) = m /\ \A j \in 1 .. m : u[j] = e[j]
  OBVIOUS
<1>2. v \in Seq(S) /\ Len(v) = Len(e) - m /\ \A j \in 1 .. Len(e) - m : v[j] = e[m + j]
  OBVIOUS
<1> HIDE DEF u, v
<1>3. u \o v \in Seq(S) /\ Len(u \o v) = Len(e) /\ \A j \in 1 .. Len(e) : (u \o v)[j] = e[j]
  <2>1. u \o v \in Seq(S) /\ Len(u \o v) = Len(u) + Len(v)
        /\ \A j \in 1 .. Len(u) + Len(v) : (u \o v)[j] = IF j <= Len(u) THEN u[j] ELSE v[j - Len(u)]
    BY <1>1, <1>2, ConcatProperties
  <2>2. Len(u) + Len(v) = Len(e)  BY <1>1, <1>2
  <2>3. ASSUME NEW j \in 1 .. Len(e) PROVE (u \o v)[j] = e[j]
    <3>1. CASE j <= m
      <4>1. j \in 1 .. m  BY <3>1
      <4> QED BY <1>1, <2>1, <2>2, <4>1
    <3>2. CASE ~(j <= m)
      <4>1. j - m \in 1 .. Len(e) - m /\ m + (j - m) = j  BY <3>2
      <4>2. v[j - m] = e[j]  BY <1>2, <4>1
      <4> QED BY <1>1, <2>1, <2>2, <3>2, <4>2
    <3> QED BY <3>1, <3>2
  <2> QED BY <2>1, <2>2, <2>3
<1>4. u \o v = e
  BY <1>3, SeqEqual
<1> QED BY <1>1, <1>2, <1>4 DEF u, v

(* The same of a line.                                                     *)
LEMMA LineParts ==
  ASSUME NEW e \in Seq(1 .. 255), NEW m \in 0 .. Len(e)
  PROVE  /\ SubSeq(e, 1, m) \in Seq(1 .. 255) /\ Len(SubSeq(e, 1, m)) = m
         /\ \A j \in 1 .. m : SubSeq(e, 1, m)[j] = e[j]
         /\ SubSeq(e, m + 1, Len(e)) \in Seq(1 .. 255) /\ Len(SubSeq(e, m + 1, Len(e))) = Len(e) - m
         /\ \A j \in 1 .. Len(e) - m : SubSeq(e, m + 1, Len(e))[j] = e[m + j]
         /\ SubSeq(e, 1, m) \o SubSeq(e, m + 1, Len(e)) = e
<1>1. PICK S : S = 1 .. 255  OBVIOUS
<1>2. e \in Seq(S)  BY <1>1
<1>3. /\ SubSeq(e, 1, m) \in Seq(S) /\ Len(SubSeq(e, 1, m)) = m
      /\ \A j \in 1 .. m : SubSeq(e, 1, m)[j] = e[j]
      /\ SubSeq(e, m + 1, Len(e)) \in Seq(S) /\ Len(SubSeq(e, m + 1, Len(e))) = Len(e) - m
      /\ \A j \in 1 .. Len(e) - m : SubSeq(e, m + 1, Len(e))[j] = e[m + j]
      /\ SubSeq(e, 1, m) \o SubSeq(e, m + 1, Len(e)) = e
  BY <1>2, Parts
<1> QED BY <1>1, <1>3

(* An entry as C strings: one, or when it reaches the end of the ring two. *)
LEMMA EntryShown ==
  ASSUME NEW b, b[HistorySize] = 0, NEW i \in Bytes, NEW es, NEW pos, Holds(Row(b, i), es, pos),
         pos[Len(es)] < HistorySize, NEW k \in 1 .. Len(es),
         NEW e, e = es[k], NEW at, at = Fwd(i, pos[k - 1])
  PROVE  /\ e \in Seq(1 .. 255) /\ Len(e) \in 1 .. MaxLineLen - 1 /\ at \in Bytes
         /\ at + Len(e) <= HistorySize => strlen(b, at) = Len(e) /\ CString(b, at) = e
         /\ at + Len(e) >= HistorySize =>
              /\ i # 0 /\ HistorySize - at \in 1 .. Len(e)
              /\ strlen(b, at) = HistorySize - at
              /\ CString(b, at) = SubSeq(e, 1, HistorySize - at)
              /\ CString(b, 0) = SubSeq(e, HistorySize - at + 1, Len(e))
<1>1. HistorySize \in Nat /\ HistorySize \in 0 .. HistorySize
  BY HistoryAssumption
<1>2. e \in Seq(1 .. 255) /\ Len(e) \in 1 .. MaxLineLen - 1
  BY EntryIs DEF Holds
<1>3. PICK l \in Nat : l = Len(e) /\ l >= 1
  BY <1>2
<1>4. PICK p \in Bytes : p = pos[k - 1] /\ p + l + 1 < HistorySize
  BY <1>3, EntryBytes
<1>5. at \in Bytes
  <2>1. p \in 0 .. HistorySize  BY <1>1 DEF Bytes
  <2>2. Fwd(i, p) \in Bytes  BY <2>1, Circle
  <2> QED BY <1>4, <2>2
<1>6. PICK a \in Nat : a = at /\ a < HistorySize
  BY <1>1, <1>5 DEF Bytes
<1>7. ASSUME NEW j \in 0 .. l
      PROVE  /\ a + j < HistorySize => b[a + j] = Char(e, j)
             /\ a + j >= HistorySize => b[a + j - HistorySize] = Char(e, j)
  <2>1. b[Fwd(i, p + j)] = Char(e, j) /\ Fwd(i, p + j) = Fwd(Fwd(i, p), j)
    BY <1>3, <1>4, EntryBytes
  <2>2. j \in 0 .. HistorySize
    <3>1. p \in Nat /\ p + l + 1 < HistorySize  BY <1>1, <1>4 DEF Bytes
    <3> QED BY <1>1, <3>1
  <2>3. Fwd(a, j) = IF a + j < HistorySize THEN a + j ELSE a + j - HistorySize
    BY <1>5, <1>6, <2>2, Around
  <2>4. b[Fwd(a, j)] = Char(e, j)
    BY <1>4, <1>6, <2>1
  <2>5. CASE a + j < HistorySize
    BY <1>1, <2>3, <2>4, <2>5
  <2>6. CASE a + j >= HistorySize
    <3>1. ~(a + j < HistorySize)  BY <1>1, <2>6
    <3> QED BY <2>3, <2>4, <3>1
  <2> QED BY <2>5, <2>6
<1>8. Char(e, l) = 0 /\ \A j \in 0 .. l - 1 : Char(e, j) = e[j + 1] /\ Char(e, j) # 0
  <2>1. ASSUME NEW j \in 0 .. l - 1 PROVE Char(e, j) = e[j + 1] /\ Char(e, j) # 0
    <3>1. j + 1 \in 1 .. Len(e) /\ j < Len(e)  BY <1>3
    <3>2. e[j + 1] # 0  BY <1>2, <3>1, NoZeroIn
    <3> QED BY <3>1, <3>2 DEF Char
  <2>2. Char(e, l) = 0  BY <1>3 DEF Char
  <2> QED BY <2>1, <2>2
<1>9. ASSUME a + l <= HistorySize PROVE strlen(b, a) = l /\ CString(b, a) = e
  <2>1. b[a + l] = 0
    <3>1. CASE a + l < HistorySize  BY <1>7, <1>8, <3>1
    <3>2. CASE a + l = HistorySize  BY <3>2
    <3> QED BY <1>1, <1>9, <3>1, <3>2
  <2>2. \A j \in 0 .. l - 1 : b[a + j] = e[j + 1] /\ b[a + j] # 0
    <3> TAKE j \in 0 .. l - 1
    <3>1. j \in 0 .. l /\ a + j < HistorySize  BY <1>1, <1>9
    <3> QED BY <1>7, <1>8, <3>1
  <2>3. strlen(b, a) = l
    BY <1>9, <2>1, <2>2, StrlenIs
  <2>4. CString(b, a) = e
    BY <1>2, <1>3, <2>2, <2>3, CStringIs
  <2> QED BY <2>3, <2>4
<1>10. ASSUME a + l >= HistorySize
       PROVE  /\ i # 0 /\ HistorySize - a \in 1 .. l
              /\ strlen(b, a) = HistorySize - a
              /\ CString(b, a) = SubSeq(e, 1, HistorySize - a)
              /\ CString(b, 0) = SubSeq(e, HistorySize - a + 1, Len(e))
  <2>1. PICK m \in Nat : m = HistorySize - a /\ m >= 1 /\ m <= l /\ a + m = HistorySize
    <3>1. HistorySize - a \in Nat /\ HistorySize - a >= 1 /\ HistorySize - a <= l /\ a + (HistorySize - a) = HistorySize
      BY <1>1, <1>6, <1>10
    <3> QED BY <3>1
  <2>2. i # 0
    <3> SUFFICES ASSUME i = 0 PROVE FALSE
      OBVIOUS
    <3>1. p \in Nat /\ p \in 0 .. HistorySize /\ 0 + p < HistorySize  BY <1>1, <1>4 DEF Bytes
    <3>2. Fwd(i, p) = 0 + p  BY <3>1, Around
    <3>3. a = p  BY <1>4, <1>6, <3>1, <3>2
    <3>4. p + l + 1 < HistorySize  BY <1>4
    <3> QED BY <1>1, <1>10, <3>1, <3>3, <3>4
  <2> DEFINE u == SubSeq(e, 1, m)
             v == SubSeq(e, m + 1, Len(e))
  <2>3. m \in 0 .. Len(e)  BY <1>3, <2>1
  <2>4. /\ u \in Seq(1 .. 255) /\ Len(u) = m /\ \A j \in 1 .. m : u[j] = e[j]
        /\ v \in Seq(1 .. 255) /\ Len(v) = l - m /\ \A j \in 1 .. l - m : v[j] = e[m + j]
    <3>1. /\ u \in Seq(1 .. 255) /\ Len(u) = m /\ \A j \in 1 .. m : u[j] = e[j]
          /\ v \in Seq(1 .. 255) /\ Len(v) = Len(e) - m /\ \A j \in 1 .. Len(e) - m : v[j] = e[m + j]
      <4>1. PICK S : S = 1 .. 255  OBVIOUS
      <4>2. e \in Seq(S)  BY <1>2, <4>1
      <4>3. /\ u \in Seq(S) /\ Len(u) = m /\ \A j \in 1 .. m : u[j] = e[j]
            /\ v \in Seq(S) /\ Len(v) = Len(e) - m /\ \A j \in 1 .. Len(e) - m : v[j] = e[m + j]
        BY <2>3, <4>2, Parts
      <4> HIDE DEF u, v
      <4> QED BY <4>1, <4>3
    <3> HIDE DEF u, v
    <3> QED BY <1>3, <3>1
  <2> HIDE DEF u, v
  <2>5. \A j \in 0 .. m - 1 : b[a + j] = u[j + 1] /\ b[a + j] # 0
    <3> TAKE j \in 0 .. m - 1
    <3>1. j \in 0 .. l /\ j \in 0 .. l - 1 /\ a + j < HistorySize /\ j + 1 \in 1 .. m  BY <1>1, <2>1
    <3> QED BY <1>7, <1>8, <2>4, <3>1
  <2>6. strlen(b, a) = m
    <3>1. a + m <= HistorySize /\ b[a + m] = 0  BY <1>1, <2>1
    <3> QED BY <2>5, <3>1, StrlenIs
  <2>7. CString(b, a) = u
    BY <2>4, <2>5, <2>6, CStringIs
  <2>8. \A j \in 0 .. l - m : b[0 + j] = Char(e, m + j)
    <3> TAKE j \in 0 .. l - m
    <3>1. m + j \in 0 .. l /\ a + (m + j) >= HistorySize /\ a + (m + j) - HistorySize = 0 + j
      BY <1>1, <2>1
    <3>2. b[a + (m + j) - HistorySize] = Char(e, m + j)  BY <1>7, <3>1
    <3> QED BY <3>1, <3>2
  <2>9. strlen(b, 0) = l - m
    <3>1. l - m \in Nat /\ m + (l - m) = l /\ 0 + (l - m) <= HistorySize /\ l - m \in 0 .. l - m
      <4>1. p \in Nat /\ p + l + 1 < HistorySize  BY <1>1, <1>4 DEF Bytes
      <4> QED BY <1>1, <2>1, <4>1
    <3>2. b[0 + (l - m)] = 0  BY <1>8, <2>8, <3>1
    <3>3. \A j \in 0 .. l - m - 1 : b[0 + j] # 0
      <4> TAKE j \in 0 .. l - m - 1
      <4>1. j \in 0 .. l - m /\ m + j \in 0 .. l - 1  BY <2>1
      <4> QED BY <1>8, <2>8, <4>1
    <3> QED BY <3>1, <3>2, <3>3, StrlenIs
  <2>10. \A j \in 0 .. l - m - 1 : b[0 + j] = v[j + 1]
    <3> TAKE j \in 0 .. l - m - 1
    <3>1. j \in 0 .. l - m /\ m + j \in 0 .. l - 1 /\ j + 1 \in 1 .. l - m /\ m + j + 1 = m + (j + 1)
      BY <2>1
    <3>2. Char(e, m + j) = e[m + j + 1]  BY <1>8, <3>1
    <3>3. v[j + 1] = e[m + (j + 1)]  BY <2>4, <3>1
    <3> QED BY <2>8, <3>1, <3>2, <3>3
  <2>11. CString(b, 0) = v
    <3>1. l - m \in Nat  BY <2>1
    <3> QED BY <2>4, <2>9, <2>10, <3>1, CStringIs
  <2> QED BY <2>1, <2>2, <2>6, <2>7, <2>11 DEF u, v
<1> QED BY <1>2, <1>3, <1>5, <1>6, <1>9, <1>10

-----------------------------------------------------------------------------
(* Live and Cursor, of any state of the ring.                              *)
LiveOf(b, begin, end) == [o \in 1 .. Back(end, begin) |-> b[Fwd(begin, o - 1)]]

CursorOf(b, begin, end, step) ==
  IF step = -1 THEN 0
    ELSE 1 + Cardinality({o \in 1 .. Back(step, begin) : LiveOf(b, begin, end)[o] = 0})

(* Cutting the live bytes at their zeros gives the entries.                *)
LEMMA RingRead ==
  ASSUME NEW b, NEW begin, NEW end, NEW es, NEW pos, Ring(b, begin, end, es, pos)
  PROVE  /\ Cut(LiveOf(b, begin, end)) = es
         /\ \A o \in 1 .. pos[Len(es)] : LiveOf(b, begin, end)[o] = Row(b, begin)[o]
         /\ begin \in Bytes /\ end \in Bytes /\ pos[Len(es)] \in Bytes
<1>1. PICK n \in Nat : n = pos[Len(es)] /\ n < HistorySize
  BY Places DEF Ring
<1>2. n \in Bytes /\ n \in 0 .. HistorySize /\ begin \in Bytes /\ HistorySize \in Nat
  BY <1>1, HistoryAssumption DEF Ring, Bytes
<1>3. end = Fwd(begin, n) /\ end \in Bytes
  BY <1>1, <1>2, Circle DEF Ring
<1>4. Back(end, begin) = n
  BY <1>2, <1>3, Circle
<1> DEFINE s == LiveOf(b, begin, end)
           r == Row(b, begin)
<1>5. s = [o \in 1 .. n |-> b[Fwd(begin, o - 1)]]
  BY <1>4 DEF LiveOf
<1>6. Len(s) = n
  BY <1>5
<1>7. \A o \in 1 .. n : s[o] = r[o]
  <2> TAKE o \in 1 .. n
  <2>1. o \in 1 .. HistorySize  BY <1>1, <1>2
  <2>2. r[o] = b[Fwd(begin, o - 1)]  BY <1>2, <2>1, RowAt
  <2>3. s[o] = b[Fwd(begin, o - 1)]  BY <1>5
  <2> QED BY <2>2, <2>3
<1> HIDE DEF s, r
<1>8. Layout(r, es, pos)
  BY DEF Ring, Holds, r
<1>9. ASSUME NEW k \in 1 .. Len(es)
      PROVE  /\ s[pos[k]] = 0 /\ pos[k] = pos[k - 1] + Len(es[k]) + 1
             /\ \A j \in 1 .. Len(es[k]) : s[pos[k - 1] + j] = es[k][j]
  <2>1. PICK l \in Nat : l = Len(es[k])  BY <1>8, EntryIs
  <2>2. PICK p \in Nat : p = pos[k - 1]  BY <1>8, EntryIs
  <2>3. pos[k] = p + l + 1 /\ r[p + l + 1] = 0 /\ \A j \in 1 .. l : r[p + j] = es[k][j]
    BY <1>8, <2>1, <2>2, EntryIs
  <2>4. p + l + 1 <= n
    <3>1. k \in 0 .. Len(es)  BY Places DEF Ring
    <3>2. pos[k] \in 0 .. n  BY <1>1, <3>1, Places DEF Ring
    <3> QED BY <2>3, <3>2
  <2>5. s[p + l + 1] = 0
    <3>1. p + l + 1 \in 1 .. n  BY <2>4
    <3> QED BY <1>7, <2>3, <3>1
  <2>6. \A j \in 1 .. l : s[p + j] = es[k][j]
    <3> TAKE j \in 1 .. l
    <3>1. p + j \in 1 .. n  BY <2>4
    <3> QED BY <1>7, <2>3, <3>1
  <2> QED BY <2>1, <2>2, <2>3, <2>5, <2>6
<1>10. Layout(s, es, pos)
  BY <1>8, <1>9 DEF Layout
<1>11. Cut(s) = es
  BY <1>1, <1>6, <1>10, CutIs
<1> QED BY <1>1, <1>2, <1>3, <1>7, <1>11 DEF s, r

(* The zeros before the k-th entry are those of the entries before it.     *)
LEMMA CursorRead ==
  ASSUME NEW b, NEW begin, NEW end, NEW es, NEW pos, Ring(b, begin, end, es, pos),
         NEW k \in 1 .. Len(es) + 1
  PROVE  CursorOf(b, begin, end, Fwd(begin, pos[k - 1])) = k
<1>1. Len(es) \in Nat /\ k - 1 \in 0 .. Len(es) /\ Len(es) \in 0 .. Len(es) /\ k - 1 \in Nat
  BY Places DEF Ring
<1>2. \A x \in 0 .. Len(es) : pos[x] \in 0 .. pos[Len(es)] /\ pos[x] \in Nat
  BY Places DEF Ring
<1>3. begin \in Bytes /\ pos[Len(es)] \in Bytes /\ HistorySize \in Nat
  BY RingRead, HistoryAssumption
<1>4. PICK p, n \in Nat : p = pos[k - 1] /\ n = pos[Len(es)] /\ p <= n /\ n < HistorySize
  BY <1>1, <1>2, <1>3 DEF Bytes
<1>5. p \in Bytes /\ p \in 0 .. HistorySize
  BY <1>3, <1>4 DEF Bytes
<1> DEFINE step == Fwd(begin, p)
           r == Row(b, begin)
           Z == {o \in 1 .. p : r[o] = 0}
           f == [x \in 1 .. k - 1 |-> pos[x]]
<1>6. step \in Bytes /\ Back(step, begin) = p /\ step # -1
  <2>1. step \in Bytes /\ Back(step, begin) = p  BY <1>3, <1>5, Circle
  <2>2. \A x \in Bytes : x # -1  BY DEF Bytes
  <2> QED BY <2>1, <2>2
<1>7. {o \in 1 .. p : LiveOf(b, begin, end)[o] = 0} = Z
  <2>1. \A o \in 1 .. p : LiveOf(b, begin, end)[o] = r[o]
    <3> TAKE o \in 1 .. p
    <3>1. o \in 1 .. n  BY <1>4
    <3> QED BY <1>4, <3>1, RingRead
  <2> QED BY <2>1
<1>8. Holds(r, es, pos) /\ Layout(r, es, pos)
  BY DEF Ring, Holds
<1>9. \A x, y \in 0 .. Len(es) : x < y => pos[x] < pos[y]
  BY Places DEF Ring
<1> HIDE DEF r
<1>10. \A x \in 1 .. k - 1 : pos[x] \in Z
  <2> TAKE x \in 1 .. k - 1
  <2>1. x \in 1 .. Len(es) /\ x \in 0 .. Len(es) /\ 0 \in 0 .. Len(es)  BY <1>1
  <2>2. r[pos[x]] = 0  BY <1>8, <2>1, EntryIs
  <2>3. pos[x] \in Nat /\ pos[0] \in Nat /\ pos[0] < pos[x]  BY <1>2, <1>9, <2>1
  <2>4. x = k - 1 \/ pos[x] < pos[k - 1]  BY <1>1, <1>9, <2>1
  <2> QED BY <1>4, <2>2, <2>3, <2>4
<1>11. \A o \in Z : \E x \in 1 .. k - 1 : o = pos[x]
  <2> TAKE o \in Z
  <2>1. o \in 1 .. p /\ r[o] = 0 /\ o \in 0 .. n  BY <1>4
  <2>2. PICK x \in 0 .. Len(es) : pos[x] <= o /\ (x < Len(es) => o < pos[x + 1])
    BY <1>4, <1>8, <2>1, Whose
  <2>3. PICK q \in Nat : q = pos[x]  BY <1>2
  <2>4. o = q
    <3> SUFFICES ASSUME o # q PROVE FALSE
      OBVIOUS
    <3>1. x < Len(es)
      <4> SUFFICES ASSUME x = Len(es) PROVE FALSE
        BY <1>1
      <4>1. n <= o  BY <1>4, <2>2
      <4> QED BY <1>4, <2>1, <2>3, <4>1
    <3>2. PICK y \in 1 .. Len(es) : y = x + 1 /\ y - 1 = x  BY <1>1, <3>1
    <3>3. PICK l \in Nat : l = Len(es[y])  BY <1>8, EntryIs
    <3>4. pos[y] = q + l + 1 /\ \A j \in 1 .. l : r[q + j] # 0
      <4>1. pos[y] = pos[y - 1] + Len(es[y]) + 1
            /\ \A j \in 1 .. Len(es[y]) : r[pos[y - 1] + j] # 0
        BY <1>8, EntryIs
      <4>2. pos[y - 1] = q  BY <2>3, <3>2
      <4> QED BY <3>3, <4>1, <4>2
    <3>5. o - q \in 1 .. l /\ q + (o - q) = o
      <4>1. q <= o /\ o < q + l + 1 /\ o \in Nat  BY <2>1, <2>2, <2>3, <3>1, <3>2, <3>4
      <4> QED BY <4>1
    <3> QED BY <2>1, <3>4, <3>5
  <2>5. x # 0  BY <2>1, <2>3, <2>4, Places DEF Ring
  <2>6. x <= k - 1
    <3> SUFFICES ASSUME k - 1 < x PROVE FALSE
      BY <1>1
    <3>1. p < q  BY <1>1, <1>4, <1>9, <2>3
    <3> QED BY <1>4, <2>1, <2>4, <3>1
  <2>7. x \in 1 .. k - 1  BY <1>1, <2>5, <2>6
  <2> QED BY <2>3, <2>4, <2>7
<1>12. \A x, y \in 1 .. k - 1 : pos[x] = pos[y] => x = y
  <2> TAKE x, y \in 1 .. k - 1
  <2>1. x \in 0 .. Len(es) /\ y \in 0 .. Len(es)  BY <1>1
  <2>2. pos[x] \in Nat /\ pos[y] \in Nat  BY <1>2, <2>1
  <2>3. (x < y => pos[x] < pos[y]) /\ (y < x => pos[y] < pos[x])  BY <1>9, <2>1
  <2> QED BY <2>2, <2>3
<1>13. ExistsBijection(1 .. k - 1, Z)
  <2> HIDE DEF Z
  <2>1. f \in [1 .. k - 1 -> Z]  BY <1>10
  <2>2. f \in Bijection(1 .. k - 1, Z)
    BY <1>11, <1>12, <2>1 DEF Bijection, Injection, Surjection, IsInjective
  <2> QED BY <2>2 DEF ExistsBijection
<1>14. Cardinality(Z) = k - 1
  BY <1>1, <1>13, FS_CountingElements
<1> HIDE DEF Z
<1>15. CursorOf(b, begin, end, step) = 1 + (k - 1)
  BY <1>6, <1>7, <1>14 DEF CursorOf
<1>16. 1 + (k - 1) = k
  BY <1>1
<1> QED BY <1>4, <1>15, <1>16

-----------------------------------------------------------------------------
(* Back over the entry before.                                             *)
LEMMA PreviousIs ==
  ASSUME NEW es, NEW pos, Ring(hist_buf, hist_begin, hist_end, es, pos), NEW k \in 1 .. Len(es) + 1
  PROVE  history_previous(Fwd(hist_begin, pos[k - 1])) = IF k = 1 THEN -1 ELSE Fwd(hist_begin, pos[k - 2])
<1>1. Len(es) \in Nat /\ hist_begin \in Bytes /\ HistorySize \in Nat \ {0} /\ 0 \in Bytes
  BY RingRead, Places, HistoryAssumption DEF Ring, Bytes
<1>2. CASE k = 1
  <2>1. Fwd(hist_begin, pos[k - 1]) = hist_begin
    <3>1. pos[0] = 0  BY Places DEF Ring
    <3>2. Fwd(hist_begin, 0) = hist_begin  BY <1>1, Circle
    <3> QED BY <1>2, <3>1, <3>2
  <2> QED BY <1>2, <2>1 DEF history_previous
<1>3. CASE k # 1
  <2>1. PICK m \in 1 .. Len(es) : m = k - 1 /\ m - 1 = k - 2 /\ m - 1 \in 0 .. Len(es)
    BY <1>1, <1>3
  <2>2. PICK l \in Nat : l = Len(es[m])  BY EntryIs DEF Ring, Holds
  <2> DEFINE r == Row(hist_buf, hist_begin)
  <2>3. Layout(r, es, pos) /\ Holds(r, es, pos) /\ pos[Len(es)] < HistorySize
    BY DEF Ring, Holds
  <2> HIDE DEF r
  <2>4. PICK p, q \in Bytes : p = pos[k - 1] /\ q = pos[k - 2] /\ p = q + l + 1
    <3>1. pos[m - 1] \in Bytes /\ pos[m] \in Bytes /\ pos[m] = pos[m - 1] + l + 1
      BY <1>1, <2>2, <2>3, EntryBytes DEF r
    <3> QED BY <2>1, <3>1
  <2>5. p = q + l + 1 /\ p \in Nat /\ q \in Nat /\ p < HistorySize /\ p \in 0 .. HistorySize
    BY <1>1, <2>4 DEF Bytes
  <2>6. \A j \in 1 .. l : r[q + j] # 0
    <3>1. \A j \in 1 .. Len(es[m]) : r[pos[m - 1] + j] # 0  BY <2>3, EntryIs
    <3> QED BY <2>1, <2>2, <2>4, <3>1
  <2> DEFINE at == Fwd(hist_begin, p)
             S == {j \in 0 .. HistorySize : hist_buf[Back(at, 2 + j)] = 0}
  <2>7. at # hist_begin
    <3>1. Back(Fwd(hist_begin, p), hist_begin) = p  BY <1>1, Circle
    <3>2. Back(Fwd(hist_begin, 0), hist_begin) = 0 /\ Fwd(hist_begin, 0) = hist_begin  BY <1>1, Circle
    <3>3. p # 0  BY <2>5
    <3> QED BY <3>1, <3>2, <3>3
  <2>8. \A x \in 0 .. HistorySize :
          /\ x <= p => Back(at, x) = Fwd(hist_begin, p - x)
          /\ x > p => Back(at, x) = Fwd(hist_begin, p - x + HistorySize)
    BY <1>1, BackFrom
  <2> HIDE DEF at
  <2>9. ASSUME NEW j \in 0 .. l - 1 PROVE hist_buf[Back(at, 2 + j)] # 0
    <3>1. PICK y \in Bytes : y = p - (2 + j) /\ y + 1 = q + (l - j)
      <4>1. p - (2 + j) \in 0 .. HistorySize - 1 /\ p - (2 + j) + 1 = q + (l - j)  BY <1>1, <2>5
      <4> QED BY <4>1 DEF Bytes
    <3>2. 2 + j \in 0 .. HistorySize /\ 2 + j <= p /\ l - j \in 1 .. l  BY <1>1, <2>5
    <3>3. Back(at, 2 + j) = Fwd(hist_begin, y)  BY <2>8, <3>1, <3>2
    <3>4. hist_buf[Fwd(hist_begin, y)] = r[y + 1]  BY <1>1, ByteAt DEF r
    <3>5. r[y + 1] # 0  BY <2>6, <3>1, <3>2
    <3> QED BY <3>3, <3>4, <3>5
  <2>10. hist_buf[Back(at, 2 + l)] = 0
    <3>1. 2 + l \in 0 .. HistorySize  BY <1>1, <2>5
    <3>2. CASE q # 0
      <4>1. PICK y \in Bytes : y = p - (2 + l) /\ y + 1 = q
        <5>1. p - (2 + l) \in 0 .. HistorySize - 1 /\ p - (2 + l) + 1 = q  BY <1>1, <2>5, <3>2
        <5> QED BY <5>1 DEF Bytes
      <4>2. 2 + l <= p  BY <2>5, <3>2
      <4>3. Back(at, 2 + l) = Fwd(hist_begin, y)  BY <2>8, <3>1, <4>1, <4>2
      <4>4. hist_buf[Fwd(hist_begin, y)] = r[y + 1]  BY <1>1, ByteAt DEF r
      <4>5. r[q] = 0
        <5>1. m - 1 # 0  BY <2>1, <2>4, <3>2, Places DEF Ring
        <5>2. m - 1 \in 1 .. Len(es)  BY <1>1, <2>1, <5>1
        <5>3. r[pos[m - 1]] = 0  BY <2>3, <5>2, EntryIs
        <5> QED BY <2>1, <2>4, <5>3
      <4> QED BY <4>1, <4>3, <4>4, <4>5
    <3>3. CASE q = 0
      <4>1. PICK y \in Bytes : y = p - (2 + l) + HistorySize /\ y + 1 = HistorySize
        <5>1. p - (2 + l) + HistorySize \in 0 .. HistorySize - 1 /\ p - (2 + l) + HistorySize + 1 = HistorySize
          BY <1>1, <2>5, <3>3
        <5> QED BY <5>1 DEF Bytes
      <4>2. 2 + l > p  BY <2>5, <3>3
      <4>3. Back(at, 2 + l) = Fwd(hist_begin, y)  BY <2>8, <3>1, <4>1, <4>2
      <4>4. hist_buf[Fwd(hist_begin, y)] = r[y + 1]  BY <1>1, ByteAt DEF r
      <4>5. r[HistorySize] = 0
        <5>1. HistorySize \in 1 .. HistorySize  BY <1>1
        <5>2. HistorySize > pos[Len(es)]  BY <2>3
        <5> QED BY <2>3, <5>1, <5>2 DEF Holds
      <4> QED BY <4>1, <4>3, <4>4, <4>5
    <3> QED BY <3>2, <3>3
  <2>11. l \in S  BY <1>1, <2>5, <2>10
  <2>12. ASSUME NEW j \in S PROVE l <= j /\ j \in Int
    <3>1. j \in Nat /\ hist_buf[Back(at, 2 + j)] = 0  BY <1>1
    <3>2. j < l => j \in 0 .. l - 1  BY <3>1
    <3> QED BY <2>9, <3>1, <3>2
  <2>13. history_previous(at) = Back(at, 1 + Min(S))
    BY <2>7 DEF history_previous
  <2> HIDE DEF S
  <2>14. Min(S) = l  BY <2>11, <2>12, LeastIs
  <2>15. Back(at, 1 + l) = Fwd(hist_begin, q)
    <3>1. 1 + l \in 0 .. HistorySize /\ 1 + l <= p /\ p - (1 + l) = q  BY <1>1, <2>5
    <3> QED BY <2>8, <3>1
  <2> QED BY <1>3, <2>4, <2>13, <2>14, <2>15 DEF at
<1> QED BY <1>2, <1>3

(* And over the entry shown.                                               *)
LEMMA NextEntryIs ==
  ASSUME NEW es, NEW pos, Ring(hist_buf, hist_begin, hist_end, es, pos), NEW k \in 1 .. Len(es)
  PROVE  NextEntry(Fwd(hist_begin, pos[k - 1])) = Fwd(hist_begin, pos[k])
<1>1. hist_begin \in Bytes /\ HistorySize \in Nat /\ Holds(Row(hist_buf, hist_begin), es, pos)
      /\ pos[Len(es)] < HistorySize
  BY RingRead, HistoryAssumption DEF Ring
<1>2. PICK l \in Nat : l = Len(es[k])  BY <1>1, EntryIs DEF Holds
<1>3. PICK e : e = es[k]  OBVIOUS
<1>4. e \in Seq(1 .. 255) /\ Len(e) = l
  BY <1>1, <1>2, <1>3, EntryIs DEF Holds
<1>5. PICK p \in Bytes : p = pos[k - 1] /\ p + l + 1 < HistorySize /\ pos[k] = p + l + 1
  BY <1>1, <1>2, EntryBytes
<1>6. p \in Nat /\ p + l + 1 < HistorySize
  BY <1>1, <1>5 DEF Bytes
<1> DEFINE at == Fwd(hist_begin, p)
           S == {j \in 0 .. HistorySize : hist_buf[Fwd(at, j)] = 0}
<1>7. \A j \in 0 .. l : hist_buf[Fwd(at, j)] = Char(e, j)
  BY <1>1, <1>2, <1>3, <1>5, EntryBytes
<1>8. l \in S
  <2>1. Char(e, l) = 0  BY <1>4 DEF Char
  <2> HIDE DEF at
  <2> QED BY <1>1, <1>6, <1>7, <2>1
<1>9. ASSUME NEW j \in S PROVE l <= j /\ j \in Int
  <2> HIDE DEF at
  <2>1. j \in Nat /\ hist_buf[Fwd(at, j)] = 0  BY <1>1
  <2> SUFFICES ASSUME j < l PROVE FALSE
    BY <2>1
  <2>2. j + 1 \in 1 .. Len(e) /\ j \in 0 .. l  BY <1>4, <2>1
  <2>3. e[j + 1] # 0  BY <1>4, <2>2, NoZeroIn
  <2>4. Char(e, j) = e[j + 1]  BY <1>4 DEF Char
  <2> QED BY <1>7, <2>1, <2>2, <2>3, <2>4
<1>10. NextEntry(at) = Fwd(at, 1 + Min(S))
  BY DEF NextEntry
<1>11. Fwd(at, 1 + l) = Fwd(hist_begin, p + (1 + l))
  <2>1. 1 + l \in 0 .. HistorySize /\ p + (1 + l) < HistorySize  BY <1>1, <1>6
  <2> QED BY <1>1, <2>1, Circle
<1>12. p + (1 + l) = pos[k]
  BY <1>5, <1>6
<1> HIDE DEF S
<1>13. Min(S) = l  BY <1>8, <1>9, LeastIs
<1> QED BY <1>5, <1>10, <1>11, <1>12, <1>13

(* Up shows the whole entry.                                               *)
LEMMA UpShows ==
  ASSUME NEW es, NEW pos, Ring(hist_buf, hist_begin, hist_end, es, pos), NEW k \in 1 .. Len(es)
  PROVE  ShownByUp(Fwd(hist_begin, pos[k - 1])) = es[k]
<1>1. hist_begin \in Bytes /\ HistorySize \in Nat /\ MaxLineLen \in Nat
      /\ Holds(Row(hist_buf, hist_begin), es, pos)
      /\ pos[Len(es)] < HistorySize /\ hist_buf[HistorySize] = 0
  BY RingRead, HistoryAssumption DEF Ring
<1>2. PICK e, at : e = es[k] /\ at = Fwd(hist_begin, pos[k - 1])  OBVIOUS
<1>3. /\ e \in Seq(1 .. 255) /\ Len(e) \in 1 .. MaxLineLen - 1 /\ at \in Bytes
      /\ at + Len(e) <= HistorySize => strlen(hist_buf, at) = Len(e) /\ CString(hist_buf, at) = e
      /\ at + Len(e) >= HistorySize =>
           /\ hist_begin # 0 /\ HistorySize - at \in 1 .. Len(e)
           /\ strlen(hist_buf, at) = HistorySize - at
           /\ CString(hist_buf, at) = SubSeq(e, 1, HistorySize - at)
           /\ CString(hist_buf, 0) = SubSeq(e, HistorySize - at + 1, Len(e))
  BY <1>1, <1>2, EntryShown
<1>4. PICK l, a \in Nat : l = Len(e) /\ a = at /\ l < MaxLineLen /\ a < HistorySize
  BY <1>1, <1>3 DEF Bytes
<1>5. CASE a + l < HistorySize
  <2>1. strlen(hist_buf, at) = l /\ CString(hist_buf, at) = e  BY <1>1, <1>3, <1>4, <1>5
  <2>2. ~RunsOver(at)  BY <1>1, <1>4, <1>5, <2>1 DEF RunsOver
  <2>3. set_line(<< >>, e) = e
    <3>1. ~(Len(e) > MaxLineLen - 1)  BY <1>1, <1>4
    <3> QED BY <1>3, <3>1, ConcatEmptySeq DEF set_line
  <2> QED BY <1>2, <2>1, <2>2, <2>3 DEF ShownByUp
<1>6. CASE a + l >= HistorySize
  <2>1. PICK m \in 1 .. l : m = HistorySize - a
    BY <1>3, <1>4, <1>6
  <2>2. /\ hist_begin # 0 /\ strlen(hist_buf, at) = HistorySize - a
        /\ CString(hist_buf, at) = SubSeq(e, 1, m)
        /\ CString(hist_buf, 0) = SubSeq(e, m + 1, Len(e))
    BY <1>3, <1>4, <1>6, <2>1
  <2>3. RunsOver(at)  BY <1>1, <1>4, <2>2 DEF RunsOver
  <2> DEFINE u == SubSeq(e, 1, m)
             v == SubSeq(e, m + 1, Len(e))
  <2>4. u \in Seq(1 .. 255) /\ Len(u) = m /\ Len(v) = Len(e) - m /\ u \o v = e
    <3>1. m \in 0 .. Len(e)  BY <1>4
    <3>2. e \in Seq(1 .. 255)  BY <1>3
    <3> QED BY <3>1, <3>2, LineParts, Zenon
  <2> HIDE DEF u, v
  <2>5. ~(Len(u) > MaxLineLen - 1) /\ ~(Len(v) > MaxLineLen - 1)
    BY <1>1, <1>4, <2>4
  <2>6. set_line(<< >>, u) = u  BY <2>4, <2>5, ConcatEmptySeq DEF set_line
  <2>7. set_line(u, v) = e  BY <2>4, <2>5 DEF set_line
  <2>8. ShownByUp(at) = set_line(set_line(<< >>, u), v)
    BY <2>2, <2>3 DEF ShownByUp, u, v
  <2> QED BY <1>2, <2>6, <2>7, <2>8
<1> QED BY <1>1, <1>4, <1>5, <1>6

(* Down shows the entry, or the part of it before the end of the ring.     *)
LEMMA DownShows ==
  ASSUME NEW es, NEW pos, Ring(hist_buf, hist_begin, hist_end, es, pos), NEW k \in 1 .. Len(es)
  PROVE  \E m \in 1 .. Len(es[k]) :
           set_line(<< >>, CString(hist_buf, Fwd(hist_begin, pos[k - 1]))) = SubSeq(es[k], 1, m)
<1>1. hist_begin \in Bytes /\ HistorySize \in Nat /\ MaxLineLen \in Nat
      /\ Holds(Row(hist_buf, hist_begin), es, pos)
      /\ pos[Len(es)] < HistorySize /\ hist_buf[HistorySize] = 0
  BY RingRead, HistoryAssumption DEF Ring
<1>2. PICK e, at : e = es[k] /\ at = Fwd(hist_begin, pos[k - 1])  OBVIOUS
<1>3. /\ e \in Seq(1 .. 255) /\ Len(e) \in 1 .. MaxLineLen - 1 /\ at \in Bytes
      /\ at + Len(e) <= HistorySize => CString(hist_buf, at) = e
      /\ at + Len(e) >= HistorySize =>
           /\ HistorySize - at \in 1 .. Len(e)
           /\ CString(hist_buf, at) = SubSeq(e, 1, HistorySize - at)
  BY <1>1, <1>2, EntryShown
<1>4. PICK l, a \in Nat : l = Len(e) /\ a = at /\ l < MaxLineLen /\ l >= 1
  BY <1>1, <1>3 DEF Bytes
<1>5. PICK m \in 1 .. l : CString(hist_buf, at) = SubSeq(e, 1, m)
  <2>1. CASE a + l <= HistorySize
    <3>1. l \in 1 .. l /\ CString(hist_buf, at) = e  BY <1>3, <1>4, <2>1
    <3>2. e = SubSeq(e, 1, l)  BY <1>3, <1>4, PrefixFacts
    <3> QED BY <3>1, <3>2
  <2>2. CASE a + l >= HistorySize
    BY <1>3, <1>4, <2>2
  <2> QED BY <1>1, <1>4, <2>1, <2>2
<1>6. SubSeq(e, 1, m) \in Seq(1 .. 255) /\ Len(SubSeq(e, 1, m)) = m
  <2>1. m \in 0 .. Len(e)  BY <1>4
  <2> QED BY <1>3, <2>1, LineParts
<1>7. set_line(<< >>, SubSeq(e, 1, m)) = SubSeq(e, 1, m)
  <2>1. ~(Len(SubSeq(e, 1, m)) > MaxLineLen - 1)  BY <1>1, <1>4, <1>6
  <2> QED BY <1>6, <2>1, ConcatEmptySeq DEF set_line
<1> QED BY <1>2, <1>4, <1>5, <1>7

-----------------------------------------------------------------------------
(* Dropping the oldest and adding the newest, in either order.             *)
LEMMA AppendToSuffix ==
  ASSUME NEW S, NEW es \in Seq(S), NEW e \in S, NEW d \in 0 .. Len(es)
  PROVE  /\ Append(SubSeq(es, d + 1, Len(es)), e) = SubSeq(Append(es, e), d + 1, Len(es) + 1)
         /\ Len(SubSeq(es, d + 1, Len(es))) = Len(es) - d /\ SubSeq(es, d + 1, Len(es)) \in Seq(S)
         /\ Append(es, e) \in Seq(S) /\ Len(Append(es, e)) = Len(es) + 1
<1> DEFINE n == Len(es)
           u == SubSeq(es, d + 1, n)
           w == Append(es, e)
           v == SubSeq(w, d + 1, n + 1)
<1>1. n \in Nat /\ n - d \in Nat
  OBVIOUS
<1>2. u \in Seq(S) /\ Len(u) = n - d /\ \A k \in 1 .. n - d : u[k] = es[d + k]
  OBVIOUS
<1>3. w \in Seq(S) /\ Len(w) = n + 1 /\ w[n + 1] = e /\ \A k \in 1 .. n : w[k] = es[k]
  OBVIOUS
<1>4. v \in Seq(S) /\ Len(v) = n + 1 - d /\ \A k \in 1 .. n + 1 - d : v[k] = w[d + k]
  <2> HIDE DEF w
  <2> QED BY <1>1, <1>3
<1> HIDE DEF u, w, v, n
<1>5. Append(u, e) \in Seq(S) /\ Len(Append(u, e)) = n - d + 1
      /\ \A k \in 1 .. n - d + 1 : Append(u, e)[k] = IF k <= n - d THEN u[k] ELSE e
  BY <1>1, <1>2
<1>6. ASSUME NEW k \in 1 .. n - d + 1 PROVE Append(u, e)[k] = v[k]
  <2>1. k \in 1 .. n + 1 - d /\ d \in Nat  BY <1>1 DEF n
  <2>2. CASE k <= n - d
    <3>1. k \in 1 .. n - d /\ d + k \in 1 .. n  BY <1>1, <2>1, <2>2
    <3> QED BY <1>2, <1>3, <1>4, <1>5, <2>1, <2>2, <3>1
  <2>3. CASE ~(k <= n - d)
    <3>1. d + k = n + 1  BY <1>1, <2>1, <2>3
    <3> QED BY <1>3, <1>4, <1>5, <2>1, <2>3, <3>1
  <2> QED BY <2>2, <2>3
<1>7. n - d + 1 = n + 1 - d
  BY <1>1 DEF n
<1>8. Append(u, e) = v
  BY <1>4, <1>5, <1>6, <1>7, SeqEqual
<1> QED BY <1>2, <1>3, <1>8 DEF u, w, v, n

(* Dropped, for some places.                                               *)
LEMMA DroppedTo ==
  ASSUME NEW r, NEW es, NEW pos, Holds(r, es, pos), NEW d \in 0 .. Len(es), NEW q,
         \A o \in 1 .. HistorySize :
           q[o] = IF o + pos[d] <= pos[Len(es)] THEN r[o + pos[d]] ELSE 0
  PROVE  \E at : /\ Holds(q, SubSeq(es, d + 1, Len(es)), at)
                 /\ at[Len(SubSeq(es, d + 1, Len(es)))] = pos[Len(es)] - pos[d]
<1> DEFINE at == [k \in 0 .. Len(es) - d |-> pos[k + d] - pos[d]]
<1>1. Holds(q, SubSeq(es, d + 1, Len(es)), at)
  BY Dropped
<1>2. Len(es) \in Nat /\ es \in Seq(Kept)
  BY Places
<1>3. Len(SubSeq(es, d + 1, Len(es))) = Len(es) - d
  BY <1>2
<1>4. Len(es) - d \in 0 .. Len(es) - d /\ Len(es) - d + d = Len(es)
  BY <1>2
<1>5. at[Len(es) - d] = pos[Len(es)] - pos[d]
  BY <1>4
<1> HIDE DEF at
<1> QED BY <1>1, <1>3, <1>5

(* Added, for some places.                                                 *)
LEMMA AddedTo ==
  ASSUME NEW r, NEW es, NEW pos, Holds(r, es, pos), NEW e \in Kept, NEW q,
         pos[Len(es)] + Len(e) + 1 <= HistorySize,
         \A o \in 1 .. HistorySize : o <= pos[Len(es)] \/ o > pos[Len(es)] + Len(e) + 1 => q[o] = r[o],
         \A j \in 1 .. Len(e) : q[pos[Len(es)] + j] = e[j],
         q[pos[Len(es)] + Len(e) + 1] = 0
  PROVE  \E at : /\ Holds(q, Append(es, e), at)
                 /\ at[Len(Append(es, e))] = pos[Len(es)] + Len(e) + 1
<1> DEFINE at == [k \in 0 .. Len(es) + 1 |-> IF k <= Len(es) THEN pos[k] ELSE pos[Len(es)] + Len(e) + 1]
<1>1. Holds(q, Append(es, e), at)
  BY Added
<1>2. Len(es) \in Nat /\ es \in Seq(Kept)
  BY Places
<1>3. Len(Append(es, e)) = Len(es) + 1
  BY <1>2
<1>4. at[Len(es) + 1] = pos[Len(es)] + Len(e) + 1
  BY <1>2
<1> HIDE DEF at
<1> QED BY <1>1, <1>3, <1>4

(* A ring filled to the last byte by entries from 0 on loses the oldest.   *)
LEMMA FullRing ==
  ASSUME NEW b, DOMAIN b = 0 .. HistorySize, b[HistorySize] = 0,
         NEW es, NEW pos, Holds(Row(b, 0), es, pos), pos[Len(es)] = HistorySize
  PROVE  \E at : /\ Len(es) \in Nat /\ Len(es) >= 2
                 /\ Ring(Deleted(b, 0, strlen(b, 0)), AfterDeleted(b, 0, strlen(b, 0)), 0,
                         SubSeq(es, 2, Len(es)), at)
<1>1. /\ HistorySize \in Nat /\ MaxLineLen \in Nat /\ MaxLineLen >= 2 /\ HistorySize >= 3 * MaxLineLen
      /\ 0 \in Bytes
  BY HistoryAssumption DEF Bytes
<1>2. Len(es) \in Nat /\ pos[0] = 0
  BY Places
<1> DEFINE r == Row(b, 0)
<1>3. Layout(r, es, pos)
  BY DEF Holds
<1> HIDE DEF r
<1>4. Len(es) # 0
  BY <1>1, <1>2
<1>5. 1 \in 1 .. Len(es) /\ 0 \in 0 .. Len(es) /\ 1 \in 0 .. Len(es)
  BY <1>2, <1>4
<1>6. PICK l \in Nat : l = Len(es[1]) /\ l < MaxLineLen
  <2>1. Len(es[1]) \in 1 .. MaxLineLen - 1  BY <1>3, <1>5, EntryIs
  <2> QED BY <1>1, <2>1
<1>7. pos[1] = l + 1 /\ r[l + 1] = 0 /\ \A j \in 1 .. l : r[j] # 0
  <2>1. /\ pos[1] = pos[1 - 1] + Len(es[1]) + 1 /\ r[pos[1]] = 0
        /\ \A j \in 1 .. Len(es[1]) : r[pos[1 - 1] + j] # 0
    BY <1>3, <1>5, EntryIs
  <2>2. pos[1 - 1] = 0  BY <1>2
  <2>3. pos[1] = l + 1  BY <1>6, <2>1, <2>2
  <2>4. \A j \in 1 .. l : r[0 + j] # 0  BY <1>6, <2>1, <2>2
  <2>5. \A j \in 1 .. l : r[j] # 0  BY <2>4
  <2> QED BY <2>1, <2>3, <2>5
<1>8. \A k \in Bytes : b[k] = r[k + 1]
  <2> TAKE k \in Bytes
  <2>1. k \in 0 .. HistorySize /\ 0 + k = k /\ k < HistorySize  BY <1>1 DEF Bytes
  <2>2. Fwd(0, k) = k  BY <1>1, <2>1, Around
  <2>3. b[Fwd(0, k)] = r[k + 1]  BY <1>1, ByteAt DEF r
  <2> QED BY <2>2, <2>3
<1>9. strlen(b, 0) = l
  <2>1. b[0 + l] = 0
    <3>1. l \in Bytes /\ 0 + l = l  BY <1>1, <1>6 DEF Bytes
    <3> QED BY <1>7, <1>8, <3>1
  <2>2. \A j \in 0 .. l - 1 : b[0 + j] # 0
    <3> TAKE j \in 0 .. l - 1
    <3>1. j \in Bytes /\ 0 + j = j /\ j + 1 \in 1 .. l  BY <1>1, <1>6 DEF Bytes
    <3> QED BY <1>7, <1>8, <3>1
  <2>3. 0 + l <= HistorySize  BY <1>1, <1>6
  <2>4. PICK z \in Nat : z = 0  OBVIOUS
  <2>5. z + l <= HistorySize /\ b[z + l] = 0 /\ \A j \in 0 .. l - 1 : b[z + j] # 0
    BY <2>1, <2>2, <2>3, <2>4
  <2>6. strlen(b, z) = l  BY <2>5, StrlenIs
  <2> QED BY <2>4, <2>6
<1>10. Len(es) >= 2 /\ 1 \in 1 .. Len(es) - 1
  <2>1. l + 1 # HistorySize  BY <1>1, <1>6
  <2>2. Len(es) # 1  BY <1>7, <2>1
  <2>3. PICK n \in Nat : n = Len(es)  BY <1>2
  <2>4. n # 0 /\ n # 1  BY <1>4, <2>2, <2>3
  <2>5. n >= 2 /\ 1 \in 1 .. n - 1  BY <2>4
  <2> QED BY <2>3, <2>5
<1>11. Frees(b, 0, l, pos[1], pos[Len(es)])
  <2>1. pos[1 - 1] <= l /\ l < pos[1]  BY <1>2, <1>7
  <2> QED BY <1>1, <1>10, <2>1, DeleteIs
<1>12. PICK p \in Nat : p = l + 1 /\ p = pos[1] /\ p <= MaxLineLen /\ p \in Bytes
  BY <1>1, <1>6, <1>7, <1>11 DEF Frees
<1> DEFINE D == Deleted(b, 0, l)
           us == SubSeq(es, 1 + 1, Len(es))
<1>13. /\ DOMAIN D = 0 .. HistorySize /\ D[HistorySize] = 0 /\ AfterDeleted(b, 0, l) = Fwd(0, p)
       /\ \A o \in 1 .. HistorySize : Row(D, Fwd(0, p))[o] = IF o + pos[1] <= pos[Len(es)] THEN r[o + pos[1]] ELSE 0
  BY <1>11, <1>12 DEF Frees, r
<1>14. PICK at : Holds(Row(D, Fwd(0, p)), us, at) /\ at[Len(us)] = HistorySize - p
  <2>1. Holds(r, es, pos)  BY DEF r
  <2>2. PICK q : q = Row(D, Fwd(0, p))  OBVIOUS
  <2> HIDE DEF D
  <2>3. \A o \in 1 .. HistorySize : q[o] = IF o + pos[1] <= pos[Len(es)] THEN r[o + pos[1]] ELSE 0
    BY <1>13, <2>2
  <2>4. PICK at : Holds(q, us, at) /\ at[Len(us)] = pos[Len(es)] - pos[1]
    BY <1>5, <2>1, <2>3, DroppedTo
  <2> HIDE DEF us
  <2>5. pos[Len(es)] - pos[1] = HistorySize - p  BY <1>12
  <2> QED BY <2>2, <2>4, <2>5
<1> HIDE DEF D, us
<1>15. Fwd(0, p) = p /\ Fwd(p, HistorySize - p) = 0
  <2>1. p \in 0 .. HistorySize /\ 0 + p < HistorySize /\ HistorySize - p \in 0 .. HistorySize
        /\ p + (HistorySize - p) - HistorySize = 0 /\ ~(p + (HistorySize - p) < HistorySize)
    BY <1>1, <1>12
  <2> QED BY <1>1, <1>12, <2>1, Around
<1>16. Spaced(p, HistorySize - p) /\ HistorySize - p < HistorySize /\ HistorySize - p # 0
  BY <1>1, <1>12 DEF Spaced
<1>17. Ring(D, p, 0, us, at)
  BY <1>12, <1>13, <1>14, <1>15, <1>16 DEF Ring
<1> QED BY <1>2, <1>9, <1>10, <1>13, <1>15, <1>17 DEF D, us

(* What fits after the entries left, in the room made for it.              *)
LEMMA CopiedIn ==
  ASSUME NEW b, NEW i \in Bytes, NEW es, NEW pos, Holds(Row(b, i), es, pos), NEW e \in Kept,
         NEW w, NEW d \in 0 .. Len(es), pos[Len(es)] < HistorySize,
         Room(b, i, w, Len(e) + 1, pos[d], pos[Len(es)]),
         NEW end, end = Fwd(i, pos[Len(es)])
  PROVE  LET c == Copied(w.b, end, Append(e, 0))
         IN  /\ DOMAIN c = 0 .. HistorySize /\ c[HistorySize] = 0
             /\ w.begin \in Bytes
             /\ \E at : /\ Holds(Row(c, w.begin), SubSeq(Append(es, e), d + 1, Len(es) + 1), at)
                        /\ at[Len(SubSeq(Append(es, e), d + 1, Len(es) + 1))] =
                             pos[Len(es)] - pos[d] + Len(e) + 1
             /\ end = Fwd(w.begin, pos[Len(es)] - pos[d]) /\ pos[Len(es)] - pos[d] \in Bytes
<1>1. /\ HistorySize \in Nat /\ Len(es) \in Nat /\ es \in Seq(Kept) /\ Len(es) \in 0 .. Len(es)
      /\ \A k \in 0 .. Len(es) : pos[k] \in 0 .. pos[Len(es)] /\ pos[k] \in Nat
  BY Places, HistoryAssumption
<1>2. PICK p, n, l \in Nat : p = pos[d] /\ n = pos[Len(es)] /\ l = Len(e) /\ p <= n /\ n < HistorySize
  BY <1>1 DEF Kept
<1>3. /\ DOMAIN w.b = 0 .. HistorySize /\ w.b[HistorySize] = 0
      /\ p \in Bytes /\ w.begin = Fwd(i, p)
      /\ \A o \in 1 .. HistorySize :
           Row(w.b, Fwd(i, p))[o] = IF o + p <= n THEN Row(b, i)[o + p] ELSE 0
      /\ n - p + (l + 1) <= HistorySize
  BY <1>2 DEF Room
<1>4. p <= n /\ n < HistorySize /\ n - p + (l + 1) <= HistorySize
  BY <1>2, <1>3
<1>5. PICK m \in Nat : m = n - p /\ m + l + 1 <= HistorySize /\ m < HistorySize /\ p + m = n
  <2>1. n - p \in Nat /\ n - p + l + 1 <= HistorySize /\ n - p < HistorySize /\ p + (n - p) = n
    BY <1>1, <1>4
  <2> QED BY <2>1
<1>6. m \in Bytes /\ m \in 0 .. HistorySize /\ p \in 0 .. HistorySize
  BY <1>1, <1>4, <1>5 DEF Bytes
<1>7. PICK j \in Bytes : j = Fwd(i, p) /\ j = w.begin
  BY <1>3, <1>6, Circle
<1>8. end = Fwd(j, m)
  <2>1. Fwd(Fwd(i, p), m) = Fwd(i, p + m)
    <3>1. p + m < HistorySize  BY <1>4, <1>5
    <3> QED BY <1>3, <1>6, <3>1, Circle
  <2> QED BY <1>2, <1>5, <1>7, <2>1
<1>9. PICK us, at : us = SubSeq(es, d + 1, Len(es)) /\ Holds(Row(w.b, j), us, at) /\ at[Len(us)] = m
  <2>1. PICK q, r : q = Row(w.b, j) /\ r = Row(b, i)  OBVIOUS
  <2>2. \A o \in 1 .. HistorySize : q[o] = IF o + pos[d] <= pos[Len(es)] THEN r[o + pos[d]] ELSE 0
    BY <1>2, <1>3, <1>7, <2>1
  <2>3. Holds(r, es, pos)  BY <2>1
  <2>4. PICK at : /\ Holds(q, SubSeq(es, d + 1, Len(es)), at)
                  /\ at[Len(SubSeq(es, d + 1, Len(es)))] = pos[Len(es)] - pos[d]
    BY <2>2, <2>3, DroppedTo
  <2> QED BY <1>2, <1>5, <2>1, <2>4
<1>10. PICK c : c = Copied(w.b, end, Append(e, 0))  OBVIOUS
<1>11. /\ DOMAIN c = 0 .. HistorySize /\ c[HistorySize] = 0
       /\ \A o \in 1 .. HistorySize : o <= m \/ o > m + Len(e) + 1 => Row(c, j)[o] = Row(w.b, j)[o]
       /\ \A x \in 1 .. Len(e) : Row(c, j)[m + x] = e[x]
       /\ Row(c, j)[m + Len(e) + 1] = 0
  <2>1. m + Len(e) + 1 <= HistorySize  BY <1>2, <1>5
  <2>2. PICK x : x = w.b  OBVIOUS
  <2>3. DOMAIN x = 0 .. HistorySize /\ x[HistorySize] = 0  BY <1>3, <2>2
  <2>4. Extended(Copied(x, Fwd(j, m), Append(e, 0)), x, j, m, e)  BY <1>6, <2>1, <2>3, CopyIs
  <2> QED BY <1>8, <1>10, <2>2, <2>4 DEF Extended
<1>12. PICK q : q = Row(c, j)  OBVIOUS
<1>13. PICK bt : Holds(q, Append(us, e), bt) /\ bt[Len(Append(us, e))] = at[Len(us)] + Len(e) + 1
  <2>1. PICK r : r = Row(w.b, j)  OBVIOUS
  <2>2. /\ Holds(r, us, at) /\ at[Len(us)] + Len(e) + 1 <= HistorySize
        /\ \A o \in 1 .. HistorySize : o <= at[Len(us)] \/ o > at[Len(us)] + Len(e) + 1 => q[o] = r[o]
        /\ \A x \in 1 .. Len(e) : q[at[Len(us)] + x] = e[x]
        /\ q[at[Len(us)] + Len(e) + 1] = 0
    BY <1>2, <1>5, <1>9, <1>11, <1>12, <2>1
  <2> QED BY <2>2, AddedTo
<1>14. Append(us, e) = SubSeq(Append(es, e), d + 1, Len(es) + 1)
  BY <1>1, <1>9, AppendToSuffix
<1>15. m + Len(e) + 1 = pos[Len(es)] - pos[d] + Len(e) + 1 /\ m = pos[Len(es)] - pos[d]
  BY <1>2, <1>5
<1> QED BY <1>6, <1>7, <1>8, <1>9, <1>10, <1>11, <1>12, <1>13, <1>14, <1>15

(* history_add leaves the newest entries, the new one the last.            *)
LEMMA AddKeeps ==
  ASSUME NEW es, NEW pos, Ring(hist_buf, hist_begin, hist_end, es, pos), NEW e \in Kept, history_add(e)
  PROVE  \E d \in 0 .. Len(es) : \E at :
           Ring(hist_buf', hist_begin', hist_end', SubSeq(Append(es, e), d + 1, Len(es) + 1), at)
<1>1. /\ HistorySize \in Nat /\ MaxLineLen \in Nat /\ MaxLineLen >= 2 /\ HistorySize >= 3 * MaxLineLen
      /\ 0 \in Bytes
  BY HistoryAssumption DEF Bytes
<1>2. PICK l \in Nat : l = Len(e) /\ l + 1 \in 2 .. MaxLineLen
  BY <1>1 DEF Kept
<1>3. /\ Holds(Row(hist_buf, hist_begin), es, pos) /\ hist_begin \in Bytes
      /\ pos[Len(es)] < HistorySize /\ hist_end = Fwd(hist_begin, pos[Len(es)])
      /\ (pos[Len(es)] = 0 => hist_begin = 0)
      /\ pos[Len(es)] \in Bytes /\ hist_end \in Bytes
  BY RingRead DEF Ring
<1>4. PICK w : w = MakeRoom(l + 1)  OBVIOUS
<1>5. PICK d \in 0 .. Len(es) : Room(hist_buf, hist_begin, w, l + 1, pos[d], pos[Len(es)])
  BY <1>2, <1>4, RoomMade
<1>6. PICK c, j, us, m : /\ c = Copied(w.b, hist_end, Append(e, 0)) /\ j = w.begin
                         /\ us = SubSeq(Append(es, e), d + 1, Len(es) + 1)
                         /\ m = pos[Len(es)] - pos[d]
  OBVIOUS
<1>7. /\ DOMAIN c = 0 .. HistorySize /\ c[HistorySize] = 0 /\ j \in Bytes /\ m \in Bytes
      /\ hist_end = Fwd(j, m)
      /\ \E at : Holds(Row(c, j), us, at) /\ at[Len(us)] = m + Len(e) + 1
  BY <1>2, <1>3, <1>5, <1>6, CopiedIn
<1>8. PICK at : Holds(Row(c, j), us, at) /\ at[Len(us)] = m + l + 1
  BY <1>2, <1>7
<1>9. /\ m + (l + 1) <= HistorySize
      /\ m + (l + 1) = HistorySize => hist_begin = 0 /\ pos[d] = 0
      /\ m + (l + 1) < HistorySize => Spaced(j, m + (l + 1))
      /\ j = Fwd(hist_begin, pos[d])
  BY <1>5, <1>6 DEF Room
<1>10. m \in Nat /\ m < HistorySize /\ m + l + 1 = m + (l + 1) /\ l + 1 \in 0 .. HistorySize
  BY <1>1, <1>2, <1>7 DEF Bytes
<1>11. PICK end : end = EndAfter(l + 1)  OBVIOUS
<1>12. (IF hist_begin = hist_end THEN 0 ELSE hist_end) = hist_end
  <2> SUFFICES ASSUME hist_begin = hist_end PROVE hist_end = 0
    OBVIOUS
  <2>1. Back(hist_end, hist_begin) = pos[Len(es)]  BY <1>3, Circle
  <2>2. Fwd(hist_begin, 0) = hist_begin /\ Back(Fwd(hist_begin, 0), hist_begin) = 0  BY <1>1, <1>3, Circle
  <2> QED BY <1>3, <2>1, <2>2
<1>13. /\ hist_end' = end
       /\ hist_buf' = IF j = end THEN Deleted(c, j, strlen(c, j)) ELSE c
       /\ hist_begin' = IF j = end THEN AfterDeleted(c, j, strlen(c, j)) ELSE j
  BY <1>2, <1>4, <1>6, <1>11, <1>12 DEF history_add, history_delete
<1>14. CASE m + (l + 1) < HistorySize
  <2>1. PICK n \in Bytes : n = m + (l + 1) /\ n # 0
    BY <1>1, <1>10, <1>14 DEF Bytes
  <2>2. end = Fwd(j, n)
    BY <1>7, <1>10, <1>11, <1>14, <2>1, Circle DEF EndAfter
  <2>3. end # j
    <3>1. Back(Fwd(j, n), j) = n /\ Fwd(j, 0) = j /\ Back(Fwd(j, 0), j) = 0  BY <1>1, <1>7, Circle
    <3> QED BY <2>1, <2>2, <3>1
  <2>4. hist_buf' = c /\ hist_begin' = j /\ hist_end' = end  BY <1>13, <2>3
  <2>5. at[Len(us)] = n /\ n < HistorySize /\ Spaced(j, n)  BY <1>8, <1>9, <1>10, <1>14, <2>1
  <2>6. Ring(c, j, end, us, at)  BY <1>7, <1>8, <2>1, <2>2, <2>5 DEF Ring
  <2> QED BY <1>6, <2>4, <2>6
<1>15. CASE m + (l + 1) = HistorySize
  <2>1. hist_begin = 0 /\ pos[d] = 0 /\ j = 0
    <3>1. Fwd(hist_begin, 0) = hist_begin  BY <1>3, Circle
    <3> QED BY <1>9, <1>15, <3>1
  <2>2. d = 0
    <3>1. 0 < d => pos[0] < pos[d]  BY <1>3, Places
    <3>2. pos[0] = 0  BY <1>3, Places
    <3> QED BY <2>1, <3>1, <3>2
  <2>3. end = 0
    <3>1. Fwd(Fwd(j, m), l + 1) = Fwd(j, m + (l + 1) - HistorySize)
      BY <1>7, <1>10, <1>15, Circle
    <3>2. Fwd(j, 0) = j  BY <1>7, Circle
    <3>3. m + (l + 1) - HistorySize = 0
      <4>1. m \in Nat /\ l \in Nat  BY <1>2, <1>10
      <4> QED BY <1>1, <1>15, <4>1
    <3> QED BY <1>7, <1>11, <2>1, <3>1, <3>2, <3>3 DEF EndAfter
  <2>4. /\ hist_buf' = Deleted(c, 0, strlen(c, 0)) /\ hist_begin' = AfterDeleted(c, 0, strlen(c, 0))
        /\ hist_end' = 0
    BY <1>13, <2>1, <2>3
  <2>5. at[Len(us)] = HistorySize  BY <1>8, <1>10, <1>15
  <2>6. PICK bt : /\ Len(us) \in Nat /\ Len(us) >= 2
                  /\ Ring(hist_buf', hist_begin', hist_end', SubSeq(us, 2, Len(us)), bt)
    BY <1>7, <1>8, <2>1, <2>4, <2>5, FullRing
  <2>7. us = Append(es, e) /\ Len(us) = Len(es) + 1 /\ Len(es) \in Nat
    <3>1. es \in Seq(Kept) /\ Len(es) \in Nat  BY <1>3, Places
    <3>2. Append(es, e) \in Seq(Kept) /\ Len(Append(es, e)) = Len(es) + 1
      BY <3>1, AppendToSuffix
    <3>3. SubSeq(Append(es, e), 1, Len(es) + 1) = Append(es, e)
      BY <3>2, PrefixFacts
    <3> QED BY <1>6, <2>2, <3>1, <3>2, <3>3
  <2>8. 1 \in 0 .. Len(es)  BY <2>6, <2>7
  <2>9. Ring(hist_buf', hist_begin', hist_end', SubSeq(Append(es, e), 1 + 1, Len(es) + 1), bt)
    BY <2>6, <2>7
  <2> QED BY <2>8, <2>9
<1> QED BY <1>1, <1>9, <1>10, <1>14, <1>15

-----------------------------------------------------------------------------
(* What the ring and the cursor show: the entries es, and the c-th shown.  *)
Shows(b, begin, end, step, es, pos, c) ==
  /\ Ring(b, begin, end, es, pos)
  /\ \/ c = 0 /\ step = -1
     \/ c \in 1 .. Len(es) + 1 /\ step = Fwd(begin, pos[c - 1])

HistInv ==
  /\ buf \in Text
  /\ \E es, pos, c : Shows(hist_buf, hist_begin, hist_end, hist_step, es, pos, c)

(* What the refinement mapping reads off such a ring and position ...      *)
LEMMA ShowsIs ==
  ASSUME NEW b, NEW begin, NEW end, NEW step, NEW es, NEW pos, NEW c, Shows(b, begin, end, step, es, pos, c)
  PROVE  Cut(LiveOf(b, begin, end)) = es /\ CursorOf(b, begin, end, step) = c /\ es \in Seq(Kept)
<1>1. Ring(b, begin, end, es, pos)
  BY DEF Shows
<1>2. Cut(LiveOf(b, begin, end)) = es /\ es \in Seq(Kept)
  BY <1>1, RingRead, Places DEF Ring
<1>3. CASE c = 0 /\ step = -1
  BY <1>2, <1>3 DEF CursorOf
<1>4. CASE c \in 1 .. Len(es) + 1 /\ step = Fwd(begin, pos[c - 1])
  BY <1>1, <1>2, <1>4, CursorRead
<1> QED BY <1>3, <1>4 DEF Shows

(* ... in this state ...                                                   *)
LEMMA ShownNow ==
  ASSUME NEW es, NEW pos, NEW c, Shows(hist_buf, hist_begin, hist_end, hist_step, es, pos, c)
  PROVE  Entries = es /\ Cursor = c /\ es \in Seq(Kept)
<1>1. Entries = Cut(LiveOf(hist_buf, hist_begin, hist_end))
  BY DEF Entries, Live, Used, LiveOf
<1>2. Cursor = CursorOf(hist_buf, hist_begin, hist_end, hist_step)
  BY DEF Cursor, CursorOf, Live, Used, LiveOf
<1> QED BY <1>1, <1>2, ShowsIs

(* ... and in the next.                                                    *)
LEMMA ShownNext ==
  ASSUME NEW es, NEW pos, NEW c, Shows(hist_buf', hist_begin', hist_end', hist_step', es, pos, c)
  PROVE  Entries' = es /\ Cursor' = c
<1>1. Entries' = Cut(LiveOf(hist_buf', hist_begin', hist_end'))
  BY DEF Entries, Live, Used, LiveOf
<1>2. Cursor' = CursorOf(hist_buf', hist_begin', hist_end', hist_step')
  BY DEF Cursor, CursorOf, Live, Used, LiveOf
<1> QED BY <1>1, <1>2, ShowsIs

(* The empty ring.                                                         *)
LEMMA EditStarts == EditInit => HistInv /\ UserHistory!HistoryInit
<1> SUFFICES ASSUME EditInit PROVE HistInv /\ UserHistory!HistoryInit
  OBVIOUS
<1>1. HistorySize \in Nat /\ HistorySize \in 0 .. HistorySize /\ 0 \in Bytes /\ 0 < HistorySize
      /\ MaxLineLen \in Nat /\ MaxLineLen >= 2
  BY HistoryAssumption DEF Bytes
<1> DEFINE pos == [k \in 0 .. 0 |-> 0]
           es == << >>
<1>2. Layout(Row(hist_buf, 0), es, pos) /\ pos[Len(es)] = 0
  BY DEF Layout
<1>3. \A o \in 1 .. HistorySize : Row(hist_buf, 0)[o] = 0
  <2> TAKE o \in 1 .. HistorySize
  <2>1. o - 1 \in 0 .. HistorySize /\ o - 1 < HistorySize /\ 0 + (o - 1) = o - 1  BY <1>1
  <2>2. Fwd(0, o - 1) = o - 1  BY <1>1, <2>1, Around
  <2>3. Row(hist_buf, 0)[o] = hist_buf[Fwd(0, o - 1)]  BY <1>1, RowAt
  <2> QED BY <2>1, <2>2, <2>3 DEF EditInit
<1> HIDE DEF pos, es
<1>4. Holds(Row(hist_buf, 0), es, pos)
  BY <1>1, <1>2, <1>3 DEF Holds
<1>5. Fwd(0, 0) = 0
  BY <1>1, Circle
<1>6. Ring(hist_buf, hist_begin, hist_end, es, pos)
  BY <1>1, <1>2, <1>4, <1>5 DEF Ring, Spaced, EditInit
<1>7. Shows(hist_buf, hist_begin, hist_end, hist_step, es, pos, 0)
  BY <1>6 DEF Shows, EditInit
<1>8. Entries = es /\ Cursor = 0
  BY <1>7, ShownNow
<1>9. buf = << >> /\ << >> \in Text
  BY <1>1, EmptySeq DEF EditInit, Text
<1> QED BY <1>7, <1>8, <1>9 DEF HistInv, es, UserHistory!HistoryInit, UserHistory!Empty

(* Each key is the step of the same name of the history: typing,           *)
LEMMA TypedStep ==
  ASSUME HistInv, PrintingKey
  PROVE  HistInv' /\ UserHistory!Type
<1>1. PICK es, pos, c : Shows(hist_buf, hist_begin, hist_end, hist_step, es, pos, c)
  BY DEF HistInv
<1>2. Shows(hist_buf', hist_begin', hist_end', hist_step', es, pos, 0)
  BY <1>1 DEF Shows, PrintingKey
<1>3. buf' \in Text
  BY HistoryAssumption DEF PrintingKey, Text
<1>4. Entries' = es /\ Cursor' = 0 /\ Entries = es
  BY <1>1, <1>2, ShownNow, ShownNext
<1> QED BY <1>2, <1>3, <1>4 DEF HistInv, PrintingKey, UserHistory!Type

(* Ctrl-C,                                                                 *)
LEMMA CancelledStep ==
  ASSUME HistInv, CtrlC
  PROVE  HistInv' /\ UserHistory!Cancel
<1>1. PICK es, pos, c : Shows(hist_buf, hist_begin, hist_end, hist_step, es, pos, c)
  BY DEF HistInv
<1>2. Shows(hist_buf', hist_begin', hist_end', hist_step', es, pos, 0)
  BY <1>1 DEF Shows, CtrlC
<1>3. buf' \in Text
  BY HistoryAssumption, EmptySeq DEF CtrlC, Text
<1>4. Entries' = es /\ Cursor' = 0 /\ Entries = es
  BY <1>1, <1>2, ShownNow, ShownNext
<1> QED BY <1>2, <1>3, <1>4 DEF HistInv, CtrlC, UserHistory!Cancel, UserHistory!Empty

(* the deleting keys,                                                      *)
LEMMA ShortenedStep ==
  ASSUME HistInv, Shorten
  PROVE  HistInv' /\ UserHistory!Erase
<1>1. PICK es, pos, c : Shows(hist_buf, hist_begin, hist_end, hist_step, es, pos, c)
  BY DEF HistInv
<1>2. Shows(hist_buf', hist_begin', hist_end', hist_step', es, pos, c)
  BY <1>1 DEF Shows, Shorten
<1>3. buf \in Seq(1 .. 255) /\ buf # << >> /\ Len(buf) < MaxLineLen /\ MaxLineLen \in Nat
  BY HistoryAssumption DEF HistInv, Text, Shorten
<1>4. PICK m \in Nat : Len(buf) = m + 1
  <2>1. Len(buf) \in Nat \ {0}  BY <1>3, EmptySeq
  <2>2. Len(buf) - 1 \in Nat /\ Len(buf) = Len(buf) - 1 + 1  BY <2>1
  <2> QED BY <2>2
<1>5. buf' = SubSeq(buf, 1, m)
  <2>1. Len(buf) - 1 = m  BY <1>4
  <2> QED BY <2>1 DEF Shorten, Front
<1>6. buf' \in Seq(1 .. 255) /\ Len(buf') = m
  <2>1. m \in 0 .. Len(buf)  BY <1>4
  <2>2. SubSeq(buf, 1, m) \in Seq(1 .. 255) /\ Len(SubSeq(buf, 1, m)) = m
    BY <1>3, <2>1, LineParts
  <2> QED BY <1>5, <2>2
<1>7. buf' \in Text
  BY <1>3, <1>4, <1>6 DEF Text
<1>8. Len(buf') <= Len(buf) /\ buf' # buf /\ SubSeq(buf, 1, Len(buf')) = buf'
  <2>1. m <= Len(buf) /\ m # Len(buf)  BY <1>4
  <2> QED BY <1>5, <1>6, <2>1
<1>9. Entries' = Entries /\ Cursor' = Cursor
  BY <1>1, <1>2, ShownNow, ShownNext
<1> QED BY <1>2, <1>7, <1>8, <1>9 DEF HistInv, UserHistory!Erase, UserHistory!IsPrefixOf

(* Enter,                                                                  *)
LEMMA EnteredStep ==
  ASSUME HistInv, process_line
  PROVE  HistInv' /\ UserHistory!Enter
<1>1. PICK es, pos, c : Shows(hist_buf, hist_begin, hist_end, hist_step, es, pos, c)
  BY DEF HistInv
<1>2. Entries = es /\ es \in Seq(Kept) /\ Ring(hist_buf, hist_begin, hist_end, es, pos)
  BY <1>1, ShownNow DEF Shows
<1>3. buf' = << >> /\ hist_step' = -1 /\ buf' \in Text
  BY HistoryAssumption, EmptySeq DEF process_line, Text
<1>4. CASE buf = << >>
  <2>1. Shows(hist_buf', hist_begin', hist_end', hist_step', es, pos, 0)
    BY <1>2, <1>3, <1>4 DEF Shows, process_line
  <2>2. Entries' = es /\ Cursor' = 0
    BY <2>1, ShownNext
  <2> QED BY <1>2, <1>3, <1>4, <2>1, <2>2 DEF HistInv, UserHistory!Enter, UserHistory!Empty
<1>5. CASE buf # << >>
  <2>1. PICK e : e = buf  OBVIOUS
  <2>2. e \in Kept
    <3>1. e \in Seq(1 .. 255) /\ Len(e) < MaxLineLen /\ MaxLineLen \in Nat
      BY <2>1, HistoryAssumption DEF HistInv, Text
    <3>2. Len(e) \in Nat \ {0}  BY <1>5, <2>1, <3>1, EmptySeq
    <3>3. Len(e) \in 1 .. MaxLineLen - 1  BY <3>1, <3>2
    <3> QED BY <3>1, <3>3 DEF Kept
  <2>3. history_add(e)  BY <1>5, <2>1 DEF process_line
  <2>4. PICK d \in 0 .. Len(es) :
          \E at : Ring(hist_buf', hist_begin', hist_end', SubSeq(Append(es, e), d + 1, Len(es) + 1), at)
    BY <1>2, <2>2, <2>3, AddKeeps
  <2> PICK at : Ring(hist_buf', hist_begin', hist_end', SubSeq(Append(es, e), d + 1, Len(es) + 1), at)
    BY <2>4
  <2>5. Shows(hist_buf', hist_begin', hist_end', hist_step', SubSeq(Append(es, e), d + 1, Len(es) + 1), at, 0)
    BY <1>3 DEF Shows
  <2>6. Entries' = SubSeq(Append(es, e), d + 1, Len(es) + 1) /\ Cursor' = 0
    BY <2>5, ShownNext
  <2>7. Len(es) \in Nat /\ Len(Append(es, e)) = Len(es) + 1  BY <1>2
  <2>8. PICK n \in Nat : n = Len(es)  BY <2>7
  <2>9. PICK k \in 1 .. n + 1 : n + 1 - k + 1 = d + 1
    <3>1. n + 1 - d \in 1 .. n + 1 /\ n + 1 - (n + 1 - d) + 1 = d + 1  BY <2>8
    <3> QED BY <3>1
  <2>10. UserHistory!Suffix(Append(es, e), k) = SubSeq(Append(es, e), d + 1, Len(es) + 1)
    BY <2>7, <2>8, <2>9 DEF UserHistory!Suffix
  <2>11. \E x \in 1 .. Len(Entries) + 1 : Entries' = UserHistory!Suffix(Append(Entries, buf), x)
    BY <1>2, <2>1, <2>6, <2>8, <2>10
  <2> QED BY <1>3, <1>5, <2>5, <2>6, <2>11 DEF HistInv, UserHistory!Enter, UserHistory!Empty
<1> QED BY <1>4, <1>5

(* Up,                                                                     *)
LEMMA UpStep ==
  ASSUME HistInv, history_up
  PROVE  HistInv' /\ UserHistory!Up
<1>1. PICK es, pos, c : Shows(hist_buf, hist_begin, hist_end, hist_step, es, pos, c)
  BY DEF HistInv
<1>2. /\ Entries = es /\ Cursor = c /\ es \in Seq(Kept) /\ Len(es) \in Nat
      /\ Ring(hist_buf, hist_begin, hist_end, es, pos)
  <2>1. Entries = es /\ Cursor = c /\ es \in Seq(Kept)  BY <1>1, ShownNow
  <2>2. Ring(hist_buf, hist_begin, hist_end, es, pos)  BY <1>1 DEF Shows
  <2>3. Len(es) \in Nat  BY <2>1
  <2> QED BY <2>1, <2>2, <2>3
<1>3. /\ hist_begin \in Bytes /\ hist_end = Fwd(hist_begin, pos[Len(es)])
      /\ \A k \in 0 .. Len(es) : Fwd(hist_begin, pos[k]) \in Bytes
  <2>1. hist_begin \in Bytes /\ Holds(Row(hist_buf, hist_begin), es, pos)
        /\ hist_end = Fwd(hist_begin, pos[Len(es)])
    BY <1>2 DEF Ring
  <2>2. \A k \in 0 .. Len(es) : pos[k] \in 0 .. HistorySize  BY <2>1, Places
  <2> QED BY <2>1, <2>2, Circle
<1>4. \A i \in Bytes : i # -1
  BY HistoryAssumption DEF Bytes
<1>5. PICK from \in 1 .. Len(es) + 1 : from = IF c = 0 THEN Len(es) + 1 ELSE c
  <2>1. Len(es) + 1 \in 1 .. Len(es) + 1  BY <1>2
  <2> QED BY <1>1, <2>1 DEF Shows
<1>6. (IF hist_step = -1 THEN hist_end ELSE hist_step) = Fwd(hist_begin, pos[from - 1])
  <2>1. CASE c = 0 /\ hist_step = -1
    <3>1. from - 1 = Len(es)  BY <1>2, <1>5, <2>1
    <3> QED BY <1>3, <2>1, <3>1
  <2>2. CASE c \in 1 .. Len(es) + 1 /\ hist_step = Fwd(hist_begin, pos[c - 1])
    <3>1. c # 0 /\ c - 1 \in 0 .. Len(es)  BY <1>2, <2>2
    <3>2. hist_step # -1  BY <1>3, <1>4, <2>2, <3>1
    <3> QED BY <1>5, <2>2, <3>1, <3>2
  <2> QED BY <1>1, <2>1, <2>2 DEF Shows
<1>7. history_previous(Fwd(hist_begin, pos[from - 1])) =
        IF from = 1 THEN -1 ELSE Fwd(hist_begin, pos[from - 2])
  BY <1>2, PreviousIs
<1>8. PICK entry : /\ entry = IF from = 1 THEN -1 ELSE Fwd(hist_begin, pos[from - 2])
                   /\ entry # -1 /\ buf' = ShownByUp(entry) /\ hist_step' = entry
  BY <1>6, <1>7 DEF history_up
<1>9. PICK k \in 1 .. Len(es) : k = from - 1 /\ k - 1 = from - 2 /\ k \in 1 .. Len(es) + 1 /\ from > 1
  BY <1>2, <1>5, <1>8
<1>10. hist_step' = Fwd(hist_begin, pos[k - 1]) /\ buf' = ShownByUp(Fwd(hist_begin, pos[k - 1]))
  BY <1>8, <1>9
<1>11. buf' = es[k]
  BY <1>2, <1>10, UpShows
<1>12. buf' \in Text
  <2>1. es[k] \in Kept  BY <1>2
  <2> QED BY <1>11, <2>1, HistoryAssumption DEF Kept, Text
<1>13. Shows(hist_buf', hist_begin', hist_end', hist_step', es, pos, k)
  BY <1>2, <1>9, <1>10 DEF Shows, history_up
<1>14. Entries' = es /\ Cursor' = k
  BY <1>13, ShownNext
<1> QED BY <1>2, <1>5, <1>9, <1>11, <1>12, <1>13, <1>14 DEF HistInv, UserHistory!Up

(* Below the newest entry there is nothing to show.                        *)
LEMMA NothingBelow ==
  ASSUME NEW es, NEW pos, Ring(hist_buf, hist_begin, hist_end, es, pos)
  PROVE  set_line(<< >>, CString(hist_buf, hist_end)) = << >>
<1>1. /\ HistorySize \in Nat /\ hist_begin \in Bytes /\ Holds(Row(hist_buf, hist_begin), es, pos)
      /\ pos[Len(es)] < HistorySize /\ hist_end = Fwd(hist_begin, pos[Len(es)])
      /\ pos[Len(es)] \in Bytes /\ hist_end \in Bytes /\ MaxLineLen \in Nat /\ MaxLineLen >= 2
  BY RingRead, HistoryAssumption DEF Ring
<1>2. PICK p \in Bytes : p = pos[Len(es)] /\ p \in Nat /\ p < HistorySize
  BY <1>1, Circle
<1>3. hist_buf[hist_end] = 0
  <2>1. p + 1 \in 1 .. HistorySize /\ p + 1 > p  BY <1>1, <1>2
  <2>2. Row(hist_buf, hist_begin)[p + 1] = 0  BY <1>1, <1>2, <2>1 DEF Holds
  <2>3. hist_buf[Fwd(hist_begin, p)] = Row(hist_buf, hist_begin)[p + 1]  BY <1>1, ByteAt
  <2> QED BY <1>1, <1>2, <2>2, <2>3
<1>4. hist_end \in Nat /\ hist_end < HistorySize
  BY <1>1, Circle
<1>5. hist_end + 0 <= HistorySize /\ hist_buf[hist_end + 0] = 0 /\ 0 \in Nat
  BY <1>1, <1>3, <1>4
<1>6. \A j \in 0 .. 0 - 1 : hist_buf[hist_end + j] # 0
  OBVIOUS
<1>7. strlen(hist_buf, hist_end) = 0
  BY <1>4, <1>5, <1>6, StrlenIs
<1>8. << >> \in Seq(1 .. 255) /\ Len(<< >>) = 0
  OBVIOUS
<1>9. CString(hist_buf, hist_end) = << >>
  <2>1. \A j \in 0 .. 0 - 1 : hist_buf[hist_end + j] = << >>[j + 1]  OBVIOUS
  <2> QED BY <1>4, <1>5, <1>7, <1>8, <2>1, CStringIs
<1>10. ~(Len(<< >>) > MaxLineLen - 1)
  BY <1>1, <1>8
<1> QED BY <1>8, <1>9, <1>10, ConcatEmptySeq DEF set_line

(* and Down.                                                               *)
LEMMA DownStep ==
  ASSUME HistInv, history_down
  PROVE  HistInv' /\ UserHistory!Down
<1>1. PICK es, pos, c : Shows(hist_buf, hist_begin, hist_end, hist_step, es, pos, c)
  BY DEF HistInv
<1>2. /\ Entries = es /\ Cursor = c /\ es \in Seq(Kept) /\ Len(es) \in Nat
      /\ Ring(hist_buf, hist_begin, hist_end, es, pos)
  <2>1. Entries = es /\ Cursor = c /\ es \in Seq(Kept)  BY <1>1, ShownNow
  <2>2. Ring(hist_buf, hist_begin, hist_end, es, pos)  BY <1>1 DEF Shows
  <2>3. Len(es) \in Nat  BY <2>1
  <2> QED BY <2>1, <2>2, <2>3
<1>3. c \in 1 .. Len(es) + 1 /\ hist_step = Fwd(hist_begin, pos[c - 1]) /\ c # 0
  BY <1>1, <1>2 DEF Shows, history_down
<1>4. << >> \in Text
  BY HistoryAssumption, EmptySeq DEF Text
<1>5. /\ hist_begin \in Bytes /\ hist_end = Fwd(hist_begin, pos[Len(es)])
      /\ \A k \in 0 .. Len(es) : pos[k] \in Bytes /\ pos[k] \in Nat
      /\ \A i, k \in 0 .. Len(es) : i < k => pos[i] < pos[k]
  <2>1. hist_begin \in Bytes /\ Holds(Row(hist_buf, hist_begin), es, pos)
        /\ hist_end = Fwd(hist_begin, pos[Len(es)]) /\ pos[Len(es)] < HistorySize
    BY <1>2 DEF Ring
  <2>2. ASSUME NEW k \in 0 .. Len(es) PROVE pos[k] \in Bytes /\ pos[k] \in Nat
    <3>1. PICK p, n \in Nat : p = pos[k] /\ n = pos[Len(es)] /\ p <= n
      <4>1. pos[k] \in 0 .. pos[Len(es)] /\ pos[Len(es)] \in 0 .. HistorySize /\ HistorySize \in Nat
        BY <1>2, <2>1, Places
      <4> QED BY <4>1
    <3>2. HistorySize \in Nat /\ p < HistorySize  BY <2>1, <3>1, HistoryAssumption
    <3> QED BY <3>1, <3>2 DEF Bytes
  <2> QED BY <2>1, <2>2, Places
<1>6. CASE hist_step = hist_end
  <2>1. c = Len(es) + 1
    <3> SUFFICES ASSUME c # Len(es) + 1 PROVE FALSE
      OBVIOUS
    <3>1. c - 1 \in 0 .. Len(es) /\ Len(es) \in 0 .. Len(es) /\ c - 1 < Len(es)  BY <1>2, <1>3
    <3>2. PICK p, n \in Bytes : p = pos[c - 1] /\ n = pos[Len(es)] /\ p < n /\ p \in Nat
      BY <1>5, <3>1
    <3>3. Back(Fwd(hist_begin, p), hist_begin) = p /\ Back(Fwd(hist_begin, n), hist_begin) = n
      BY <1>5, Circle
    <3>4. p = n  BY <1>3, <1>5, <1>6, <3>2, <3>3
    <3> QED BY <3>2, <3>4
  <2>2. buf' = << >> /\ hist_step' = -1
    BY <1>6 DEF history_down
  <2>3. Shows(hist_buf', hist_begin', hist_end', hist_step', es, pos, 0)
    BY <1>2, <2>2 DEF Shows, history_down
  <2>4. Entries' = es /\ Cursor' = 0
    BY <2>3, ShownNext
  <2>5. c > Len(es)
    BY <1>2, <2>1
  <2> QED BY <1>2, <1>3, <1>4, <2>2, <2>3, <2>4, <2>5 DEF HistInv, UserHistory!Down, UserHistory!Empty
<1>7. CASE hist_step # hist_end
  <2>1. PICK k \in 1 .. Len(es) : k = c
    <3>1. c # Len(es) + 1
      <4>1. c = Len(es) + 1 => c - 1 = Len(es)  BY <1>2
      <4> QED BY <1>3, <1>5, <1>7, <4>1
    <3>2. c \in 1 .. Len(es)  BY <1>2, <1>3, <3>1
    <3> QED BY <3>2
  <2>2. NextEntry(hist_step) = Fwd(hist_begin, pos[k])
    BY <1>2, <1>3, <2>1, NextEntryIs
  <2>3. buf' = set_line(<< >>, CString(hist_buf, Fwd(hist_begin, pos[k]))) /\ hist_step' = Fwd(hist_begin, pos[k])
    BY <1>7, <2>2 DEF history_down
  <2>4. k + 1 \in 1 .. Len(es) + 1 /\ k + 1 - 1 = k /\ ~(k > Len(es)) /\ k \in 0 .. Len(es)
    BY <1>2
  <2>5. Shows(hist_buf', hist_begin', hist_end', hist_step', es, pos, k + 1)
    BY <1>2, <2>3, <2>4 DEF Shows, history_down
  <2>6. Entries' = es /\ Cursor' = k + 1
    BY <2>5, ShownNext
  <2>7. CASE k = Len(es)
    <3>1. buf' = << >>  BY <1>2, <1>5, <2>3, <2>7, NothingBelow
    <3>2. k + 1 > Len(es)  BY <1>2, <2>7
    <3> QED BY <1>2, <1>3, <1>4, <2>1, <2>4, <2>5, <2>6, <3>1, <3>2
      DEF HistInv, UserHistory!Down, UserHistory!Empty
  <2>8. CASE k # Len(es)
    <3>1. PICK n \in 1 .. Len(es) : n = k + 1 /\ n - 1 = k /\ ~(n > Len(es))
      <4>1. k + 1 \in 1 .. Len(es) /\ ~(k + 1 > Len(es))  BY <1>2, <2>8
      <4> QED BY <2>4, <4>1
    <3>2. PICK m \in 1 .. Len(es[n]) : buf' = SubSeq(es[n], 1, m)
      <4>1. \E m \in 1 .. Len(es[n]) :
              set_line(<< >>, CString(hist_buf, Fwd(hist_begin, pos[n - 1]))) = SubSeq(es[n], 1, m)
        BY <1>2, DownShows
      <4> QED BY <2>3, <3>1, <4>1
    <3>3. PICK e : e = es[n]  OBVIOUS
    <3>4. e \in Seq(1 .. 255) /\ Len(e) \in Nat /\ MaxLineLen \in Nat /\ Len(e) < MaxLineLen
      <4>1. e \in Kept  BY <1>2, <3>3
      <4> QED BY <4>1, HistoryAssumption DEF Kept
    <3>5. PICK l \in Nat : l = Len(e) /\ m <= l /\ m \in 0 .. l /\ m # 0 /\ m \in Nat
      BY <3>2, <3>3, <3>4
    <3>6. buf' \in Seq(1 .. 255) /\ Len(buf') = m
      <4>1. SubSeq(e, 1, m) \in Seq(1 .. 255) /\ Len(SubSeq(e, 1, m)) = m
        BY <3>4, <3>5, LineParts
      <4> QED BY <3>2, <3>3, <4>1
    <3>7. buf' \in Text
      BY <3>4, <3>5, <3>6 DEF Text
    <3>8. buf' # << >>
      <4>1. Len(<< >>) = 0  OBVIOUS
      <4> QED BY <3>5, <3>6, <4>1
    <3>9. UserHistory!IsPrefixOf(buf', es[n])
      BY <3>2, <3>3, <3>5, <3>6 DEF UserHistory!IsPrefixOf
    <3>10. Cursor' = n /\ ~(Cursor' > Len(es)) /\ ~(Cursor > Len(es)) /\ Cursor # 0 /\ Cursor' = Cursor + 1
      BY <1>2, <1>3, <2>1, <2>4, <2>6, <3>1
    <3> QED BY <1>2, <2>5, <2>6, <3>7, <3>8, <3>9, <3>10 DEF HistInv, UserHistory!Down, UserHistory!Empty
  <2> QED BY <2>7, <2>8
<1> QED BY <1>6, <1>7

(* Every step keeps the ring, and is a step of the user's history.         *)
LEMMA HistInvKept ==
  ASSUME HistInv, [EditNext]_editVars
  PROVE  HistInv' /\ [UserHistory!HistoryNext]_(UserHistory!historyVars)
<1>1. CASE EditNext
  BY <1>1, TypedStep, ShortenedStep, CancelledStep, EnteredStep, UpStep, DownStep
  DEF EditNext, UserHistory!HistoryNext
<1>2. CASE UNCHANGED editVars
  <2>1. PICK es, pos, c : Shows(hist_buf, hist_begin, hist_end, hist_step, es, pos, c)
    BY DEF HistInv
  <2>2. Shows(hist_buf', hist_begin', hist_end', hist_step', es, pos, c) /\ buf' = buf
    BY <1>2, <2>1 DEF editVars
  <2>3. Entries' = Entries /\ Cursor' = Cursor
    BY <2>1, <2>2, ShownNow, ShownNext
  <2> QED BY <2>2, <2>3 DEF HistInv, UserHistory!historyVars
<1> QED BY <1>1, <1>2

(* The ring always holds whole entries, oldest first, and the step shown   *)
(* is one of them, the end below the newest, or none: history_add and      *)
(* history_delete never leave part of an entry, whatever wraps.            *)
THEOREM RingHolds == EditSpec => []HistInv
<1>1. EditInit => HistInv
  BY EditStarts
<1>2. HistInv /\ [EditNext]_editVars => HistInv'
  BY HistInvKept
<1> QED BY <1>1, <1>2, PTL DEF EditSpec

(* The ring of tokenline_int.c implements the history the user sees, for   *)
(* every size of the ring and of a line, and every set of lines.           *)
THEOREM RingIsHistory == EditSpec => ImplementsHistory
<1>1. EditInit => UserHistory!HistoryInit
  BY EditStarts
<1>2. HistInv /\ [EditNext]_editVars => [UserHistory!HistoryNext]_(UserHistory!historyVars)
  BY HistInvKept
<1> QED BY <1>1, <1>2, RingHolds, PTL DEF EditSpec, ImplementsHistory, UserHistory!HistorySpec

-----------------------------------------------------------------------------
(* TextLine again: the walk of a line, command by command.                 *)
(* A walk by nxt until Stop.                                               *)
Chain(f, M, Stop, val, nxt) ==
  f = [k \in 0 .. M |-> IF k \in Stop THEN val[k] ELSE f[nxt[k]]]

(* A walk upwards has a value at each place.                               *)
LEMMA ChainExists ==
  ASSUME NEW M \in Nat, NEW Stop, NEW val, NEW nxt,
         \A k \in 0 .. M : k \notin Stop => nxt[k] \in k + 1 .. M
  PROVE  \E f : Chain(f, M, Stop, val, nxt)
<1> DEFINE Step(f, k) == f[k] = IF k \in Stop THEN val[k] ELSE f[nxt[k]]
           Has(m) == \E f : /\ f = [k \in 0 .. M |-> f[k]]
                            /\ \A k \in 0 .. M : k + m > M => Step(f, k)
           S == {m \in 0 .. M + 1 : ~Has(m)}
<1>1. Has(0)
  <2> DEFINE f == [k \in 0 .. M |-> 0]
  <2>1. f = [k \in 0 .. M |-> f[k]]  OBVIOUS
  <2>2. \A k \in 0 .. M : ~(k + 0 > M)  OBVIOUS
  <2> HIDE DEF f
  <2> QED BY <2>1, <2>2
<1>2. ASSUME NEW m \in 0 .. M, Has(m) PROVE Has(m + 1)
  <2>1. PICK f : /\ f = [k \in 0 .. M |-> f[k]]
                 /\ \A k \in 0 .. M : k + m > M => Step(f, k)
    BY <1>2
  <2>2. PICK j \in 0 .. M : j = M - m
    <3>1. M - m \in 0 .. M  OBVIOUS
    <3> QED BY <3>1
  <2> DEFINE x == IF j \in Stop THEN val[j] ELSE f[nxt[j]]
             g == [k \in 0 .. M |-> IF k = j THEN x ELSE f[k]]
  <2>3. ASSUME NEW k \in 0 .. M, k + (m + 1) > M PROVE Step(g, k)
    <3>1. k \notin Stop => nxt[k] \in 0 .. M /\ nxt[k] > k  OBVIOUS
    <3>2. k = j \/ (k > j /\ k + m > M)  BY <2>2, <2>3
    <3>3. CASE k = j
      <4>1. g[k] = x  BY <3>3
      <4>2. k \notin Stop => g[nxt[k]] = f[nxt[k]]  BY <3>1, <3>3
      <4> QED BY <3>3, <4>1, <4>2
    <3>4. CASE k > j /\ k + m > M
      <4>1. g[k] = f[k]  BY <3>4
      <4>2. k \notin Stop => g[nxt[k]] = f[nxt[k]]  BY <3>1, <3>4
      <4>3. Step(f, k)  BY <2>1, <3>4
      <4> QED BY <4>1, <4>2, <4>3
    <3> QED BY <3>2, <3>3, <3>4
  <2>4. g = [k \in 0 .. M |-> g[k]]  OBVIOUS
  <2> HIDE DEF g, Step
  <2> QED BY <2>3, <2>4
<1>3. Has(M + 1)
  <2> HIDE DEF Has
  <2> SUFFICES ASSUME ~Has(M + 1) PROVE FALSE
    OBVIOUS
  <2>1. M + 1 \in Nat /\ S \in SUBSET (0 .. M + 1) /\ S # {}  OBVIOUS
  <2>2. PICK m \in S : \A i \in S : m <= i
    <3> HIDE DEF S
    <3> QED BY <2>1, LeastNat
  <2>3. m \in 0 .. M + 1 /\ ~Has(m)  OBVIOUS
  <2>4. m # 0  BY <1>1, <2>3
  <2>5. PICK i \in 0 .. M : i + 1 = m
    <3>1. m - 1 \in 0 .. M /\ m - 1 + 1 = m  BY <2>3, <2>4
    <3> QED BY <3>1
  <2>6. i \notin S /\ i \in 0 .. M + 1  BY <2>2, <2>5
  <2> QED BY <1>2, <2>3, <2>5, <2>6
<1>4. PICK f : /\ f = [k \in 0 .. M |-> f[k]]
               /\ \A k \in 0 .. M : k + (M + 1) > M => Step(f, k)
  BY <1>3
<1>5. \A k \in 0 .. M : Step(f, k)
  <2>1. \A k \in 0 .. M : k + (M + 1) > M  OBVIOUS
  <2> QED BY <1>4, <2>1
<1>6. [k \in 0 .. M |-> f[k]] = [k \in 0 .. M |-> IF k \in Stop THEN val[k] ELSE f[nxt[k]]]
  BY <1>5
<1> QED BY <1>4, <1>6 DEF Chain

(* And within R it ends at q, or where it stops before.                    *)
LEMMA ChainEnds ==
  ASSUME NEW M \in Nat, NEW Stop, NEW val, NEW nxt, NEW f,
         Chain(f, M, Stop, val, nxt), NEW q \in 0 .. M, q \in Stop, val[q] = q,
         NEW R \in SUBSET (0 .. q), NEW p \in R,
         \A r \in R \ {q} : r \notin Stop => nxt[r] \in R /\ nxt[r] > r
  PROVE  f[p] = q \/ \E r \in R \ {q} : r \in Stop /\ f[p] = val[r]
<1> DEFINE Good(k) == f[k] = q \/ \E r \in R \ {q} : r \in Stop /\ f[k] = val[r]
           S == {x \in 0 .. q : q - x \in R /\ ~Good(q - x)}
<1> SUFFICES ASSUME ~Good(p) PROVE FALSE
  OBVIOUS
<1> HIDE DEF Good
<1>0. \A k \in 0 .. M : f[k] = IF k \in Stop THEN val[k] ELSE f[nxt[k]]
  <2> DEFINE h == [k \in 0 .. M |-> IF k \in Stop THEN val[k] ELSE f[nxt[k]]]
  <2>1. \A k \in 0 .. M : h[k] = IF k \in Stop THEN val[k] ELSE f[nxt[k]]  OBVIOUS
  <2>2. f = h  BY DEF Chain
  <2> HIDE DEF h
  <2> QED BY <2>1, <2>2
<1>1. q \in Nat /\ S \in SUBSET (0 .. q) /\ S # {}
  <2>1. p \in 0 .. q  OBVIOUS
  <2>2. PICK y \in 0 .. q : q - y = p
    <3>1. q - p \in 0 .. q /\ q - (q - p) = p  BY <2>1
    <3> QED BY <3>1
  <2>3. y \in S  BY <2>2
  <2>4. S \subseteq 0 .. q  OBVIOUS
  <2> HIDE DEF S
  <2> QED BY <2>3, <2>4
<1>2. PICK x \in S : \A y \in S : x <= y
  <2> HIDE DEF S
  <2> QED BY <1>1, LeastNat
<1>3. PICK r \in R : r = q - x /\ ~Good(r) /\ r \in 0 .. M /\ r \in 0 .. q
  <2>1. q - x \in R /\ q - x \in 0 .. M /\ q - x \in 0 .. q /\ ~Good(q - x)  BY <1>2
  <2> QED BY <2>1
<1>4. r # q
  BY <1>0, <1>3 DEF Good
<1>5. r \notin Stop
  BY <1>0, <1>3, <1>4 DEF Good
<1>6. nxt[r] \in R /\ nxt[r] > r /\ f[r] = f[nxt[r]]
  BY <1>0, <1>3, <1>4, <1>5
<1>7. Good(nxt[r])
  <2>1. PICK y \in 0 .. q : y = q - nxt[r] /\ q - y = nxt[r] /\ ~(x <= y)
    <3>1. PICK n \in 0 .. q : n = nxt[r]  BY <1>6
    <3>2. x \in 0 .. q /\ r = q - x /\ n > r  BY <1>2, <1>3, <1>6, <3>1
    <3>3. q - n \in 0 .. q /\ q - (q - n) = n /\ ~(x <= q - n)  BY <3>2
    <3> QED BY <3>1, <3>3
  <2>2. y \notin S  BY <1>2, <2>1
  <2> QED BY <1>6, <2>1, <2>2
<1> QED BY <1>3, <1>6, <1>7 DEF Good

(* The tokens the walk reads are those of the line, ended by a 0.          *)
Laid ==
  /\ line.tokens \in Seq(STRING) /\ Len(line.tokens) < Words
  /\ \A p \in 0 .. Len(line.tokens) : tokens[p] = Word(line, p)

(* Past one number the code and the grammar are at the same place.         *)
LEMMA NumberStep ==
  ASSUME Laid, NEW q \in 0 .. Len(line.tokens), NEW r \in Nat, r < q,
         NumberOver(line, r) <= q
  PROVE  AfterNumber(r) = NumberOver(line, r) /\ NumberOver(line, r) > r
<1>1. /\ Len(line.tokens) \in Nat
      /\ \A p \in 0 .. Len(line.tokens) : tokens[p] = Word(line, p)
  BY DEF Laid
<1>2. ASSUME NEW p \in Nat, CountOver(line, p) <= q
      PROVE  AfterCount(p) = CountOver(line, p) /\ CountOver(line, p) >= p
  <2>1. p \in 0 .. Len(line.tokens)  BY <1>1, <1>2 DEF CountOver
  <2>2. tokens[p] = Word(line, p)  BY <1>1, <2>1
  <2> QED BY <2>2 DEF AfterCount, CountOver
<1>3. tokens[r] = Word(line, r)  BY <1>1
<1>4. PICK p \in {r + 1, r + 2} :
        AfterNumber(r) = AfterCount(p) /\ NumberOver(line, r) = CountOver(line, p)
  BY <1>3 DEF AfterNumber, NumberOver
<1>5. p \in Nat /\ p > r
  BY <1>4
<1>6. AfterCount(p) = CountOver(line, p) /\ CountOver(line, p) >= p
  BY <1>2, <1>4, <1>5
<1>7. CountOver(line, p) \in Nat
  BY <1>5 DEF CountOver
<1> QED BY <1>4, <1>5, <1>6, <1>7

(* chomp_integers stops where the numbers typed in a row end.              *)
LEMMA ChompIs ==
  ASSUME Laid, NEW p \in Nat, NEW q \in 0 .. Len(line.tokens), Numbers(line, p, q)
  PROVE  Chomp(p) = q
<1> DEFINE M == Words + 3
           Over(k) == k >= Words \/ tokens[k] \notin Numeric
           Stop == {k \in 0 .. M : Over(k)}
           val == [k \in 0 .. M |-> k]
           nxt == [k \in 0 .. M |-> AfterNumber(k)]
           Is(f) == f = [k \in 0 .. M |-> IF Over(k) THEN k ELSE f[AfterNumber(k)]]
<1>0. /\ M \in Nat /\ Words \in Nat /\ q \in 0 .. M /\ q < Words /\ Len(line.tokens) \in Nat
      /\ \A k \in 0 .. Len(line.tokens) : tokens[k] = Word(line, k)
  BY TextAssumption DEF Laid
<1>1. \A f : Is(f) <=> Chain(f, M, Stop, val, nxt)
  <2> HIDE DEF Over
  <2> QED BY DEF Chain
<1>2. \A k \in 0 .. M : k \notin Stop => nxt[k] \in k + 1 .. M
  BY <1>0 DEF AfterNumber, AfterCount
<1>3. \E f : Chain(f, M, Stop, val, nxt)
  <2> HIDE DEF M, Stop, val, nxt
  <2> QED BY <1>0, <1>2, ChainExists
<1> DEFINE f == CHOOSE g : Is(g)
<1>4. Chain(f, M, Stop, val, nxt)
  <2> HIDE DEF Is, M, Stop, val, nxt
  <2> QED BY <1>1, <1>3
<1>5. Chomp(p) = f[p]
  BY DEF Chomp
<1>6. PICK R \in SUBSET (p .. q) :
        p \in R /\ \A r \in R \ {q} : Word(line, r) \in Numeric /\ NumberOver(line, r) \in R
  BY DEF Numbers
<1>7. q \in Stop /\ val[q] = q
  BY <1>0 DEF Numbers
<1>8. ASSUME NEW r \in R \ {q}
      PROVE  /\ nxt[r] \in R /\ nxt[r] > r /\ ~Over(r)
  <2>1. r \in Nat /\ r < q /\ r \in 0 .. Len(line.tokens) /\ r \in 0 .. M  BY <1>0, <1>6
  <2>2. NumberOver(line, r) \in R /\ NumberOver(line, r) <= q
    <3>1. NumberOver(line, r) \in R  BY <1>6
    <3>2. \A x \in R : x <= q  BY <1>6
    <3> QED BY <3>1, <3>2
  <2>3. AfterNumber(r) = NumberOver(line, r) /\ NumberOver(line, r) > r
    BY <2>1, <2>2, NumberStep
  <2>4. tokens[r] \in Numeric  BY <1>0, <1>6, <2>1
  <2> QED BY <1>0, <2>1, <2>2, <2>3, <2>4
<1>9. \A r \in R \ {q} : r \notin Stop
  BY <1>8
<1>10. R \in SUBSET (0 .. q) /\ p \in R
  BY <1>0, <1>6
<1>11. f[p] = q \/ \E r \in R \ {q} : r \in Stop /\ f[p] = val[r]
  <2> HIDE DEF M, Stop, val, nxt, f
  <2> QED BY <1>0, <1>4, <1>7, <1>8, <1>10, ChainEnds
<1> HIDE DEF f, val, Stop
<1> QED BY <1>5, <1>9, <1>11

(* cmd_trigger stops where its own commands end.                           *)
LEMMA TriggerEndIs ==
  ASSUME Laid, NEW p \in Nat, NEW q \in 0 .. Len(line.tokens), TriggersOwn(line, p, q)
  PROVE  TriggerEnd(p) = q
<1> DEFINE M == Words + 3
           Stop == {k \in 0 .. M : k >= Words \/ tokens[k] \notin {"START", "SHOW"}}
           val == [k \in 0 .. M |-> k]
           nxt == [k \in 0 .. M |-> AfterOwn(k)]
           Is(f) == f = [k \in 0 .. M |->
                           IF k >= Words \/ tokens[k] \notin {"START", "SHOW"} THEN k
                             ELSE f[AfterOwn(k)]]
<1>0. /\ M \in Nat /\ Words \in Nat /\ q \in 0 .. M /\ q < Words /\ Len(line.tokens) \in Nat
      /\ \A k \in 0 .. Len(line.tokens) : tokens[k] = Word(line, k)
  BY TextAssumption DEF Laid
<1>1. \A f : Is(f) <=> Chain(f, M, Stop, val, nxt)
  BY DEF Chain
<1>2. \A k \in 0 .. M : k \notin Stop => nxt[k] \in k + 1 .. M
  BY <1>0 DEF AfterOwn
<1>3. \E f : Chain(f, M, Stop, val, nxt)
  <2> HIDE DEF M, Stop, val, nxt
  <2> QED BY <1>0, <1>2, ChainExists
<1> DEFINE f == CHOOSE g : Is(g)
<1>4. Chain(f, M, Stop, val, nxt)
  <2> HIDE DEF Is, M, Stop, val, nxt
  <2> QED BY <1>1, <1>3
<1>5. TriggerEnd(p) = f[p]
  BY DEF TriggerEnd
<1>6. PICK R \in SUBSET (p .. q) :
        p \in R /\ \A r \in R \ {q} : Word(line, r) \in {"START", "SHOW"} /\ OwnOver(line, r) \in R
  BY DEF TriggersOwn
<1>7. q \in Stop /\ val[q] = q
  BY <1>0 DEF TriggersOwn
<1>8. ASSUME NEW r \in R \ {q}
      PROVE  nxt[r] \in R /\ nxt[r] > r /\ r \notin Stop
  <2>1. r \in Nat /\ r < q /\ r \in 0 .. Len(line.tokens) /\ r \in 0 .. M  BY <1>0, <1>6
  <2>2. OwnOver(line, r) \in R  BY <1>6
  <2>3. tokens[r] = Word(line, r) /\ tokens[r + 1] = Word(line, r + 1)  BY <1>0, <2>1
  <2>4. AfterOwn(r) = OwnOver(line, r) /\ OwnOver(line, r) > r
    BY <2>1, <2>3 DEF AfterOwn, OwnOver
  <2>5. tokens[r] \in {"START", "SHOW"}  BY <1>6, <2>3
  <2> QED BY <1>0, <2>1, <2>2, <2>4, <2>5
<1>10. R \in SUBSET (0 .. q) /\ p \in R
  BY <1>0, <1>6
<1>11. f[p] = q \/ \E r \in R \ {q} : r \in Stop /\ f[p] = val[r]
  <2> HIDE DEF M, Stop, val, nxt, f
  <2> QED BY <1>0, <1>4, <1>7, <1>8, <1>10, ChainEnds
<1> HIDE DEF f, val, Stop
<1> QED BY <1>5, <1>8, <1>11

(* No mode knows the closing 0, or the word pins.                          *)
LEMMA NotKnown ==
  ASSUME NEW m \in DOMAIN Exec
  PROVE  KnownTo(m) \cap {"0", "PINS"} = {}
<1>0. DOMAIN None = {}  BY DEF None
<1> DEFINE Words2 == {"0", "PINS"}
           Quiet2(X) == /\ X.flag \cap Words2 = {} /\ X.choice \cap Words2 = {}
                        /\ DOMAIN X.value \cap Words2 = {}
                        /\ DOMAIN X.sub \cap Words2 = {} /\ DOMAIN X.pin \cap Words2 = {}
<1>1. Quiet2(SpiExec)  BY <1>0 DEF SpiExec
<1>2. Quiet2(I2cExec)  BY <1>0 DEF I2cExec
<1>3. Quiet2(UartExec)  BY <1>0 DEF UartExec
<1>4. Quiet2(LinExec)  BY <1>0 DEF LinExec
<1>5. Quiet2(SmartcardExec)  BY <1>0 DEF SmartcardExec
<1>6. Quiet2(OneWireExec)  BY <1>0 DEF OneWireExec
<1>7. Quiet2(TwoWireExec)  BY <1>0 DEF TwoWireExec
<1>8. Quiet2(ThreeWireExec)  BY <1>0 DEF ThreeWireExec
<1>9. Quiet2(WiegandExec)  BY <1>0 DEF WiegandExec
<1>10. Quiet2(FlashExec)  BY <1>0 DEF FlashExec
<1>11. Quiet2(JtagExec)  BY <1>0 DEF JtagExec
<1>12. Exec[m] \in {SpiExec, I2cExec, UartExec, LinExec, SmartcardExec, OneWireExec, TwoWireExec,
                    ThreeWireExec, WiegandExec, FlashExec, JtagExec}
  BY DEF Exec
<1>13. Quiet2(Exec[m])
  <2> HIDE DEF Quiet2
  <2> QED BY <1>1, <1>2, <1>3, <1>4, <1>5, <1>6, <1>7, <1>8, <1>9, <1>10, <1>11, <1>12
<1> QED BY <1>13 DEF KnownTo

-----------------------------------------------------------------------------
(* The walk starts at the first command, or behind the name of the mode.   *)
First == IF entering THEN 2 ELSE 1

KnownHere == IF entering THEN Known ELSE ByLine \cup Known

(* The line being walked is one the tokenizer accepted for the mode.       *)
Typed ==
  /\ exec_mode \in Modes /\ Laid
  /\ Parsed(exec_mode, line, First, KnownHere)
  /\ entering => EndOf(line, 1) = 1

(* The walk stands at the start of command k, which the mode's exec has    *)
(* not looked at in vain, or past the last of them.                        *)
Standing(k) ==
  /\ t \in Nat /\ (phase = "exec" => token_pos \in Nat)
  /\ IF k <= Len(line.starts)
       THEN /\ t = line.starts[k]
            /\ phase = "exec" => token_pos <= t /\ (token_pos = t => tokens[t] \in Known)
       ELSE tokens[t] \in {"0", "PINS"}

(* What has been carried out are the commands before.                      *)
InStep ==
  phase \in {"line", "exec"} /\ ~upset =>
    Typed /\ \E k \in First .. Len(line.starts) + 1 :
               Standing(k) /\ ran = SubSeq(line.starts, First, k - 1)

(* While the line and the mode stay, so does what was accepted.            *)
LEMMA SameLine ==
  ASSUME UNCHANGED <<parsed, exec_mode, entering>>
  PROVE  /\ Typed => Typed'
         /\ First' = First
         /\ \A p : Word(line, p)' = Word(line, p)
<1>1. UNCHANGED <<tokens, line, exec_mode, entering>>
  BY DEF parsed
<1> QED BY <1>1 DEF Typed, First, KnownHere, Known, Laid, Word, EndOf

(* Carrying out one command more.                                          *)
LEMMA OneMore ==
  ASSUME NEW s \in Seq(Nat), NEW f \in {1, 2}, NEW k \in f .. Len(s)
  PROVE  Append(SubSeq(s, f, k - 1), s[k]) = SubSeq(s, f, k)
OBVIOUS

LEMMA AllOfThem ==
  ASSUME NEW s \in Seq(Nat), s # << >>
  PROVE  SubSeq(s, 1, Len(s)) = s /\ SubSeq(s, 2, Len(s)) = Tail(s)
OBVIOUS

(* Command k, and where it ends.                                           *)
LEMMA CommandIs ==
  ASSUME Typed, NEW k \in First .. Len(line.starts)
  PROVE  /\ CommandAt(exec_mode, line, line.starts[k], EndOf(line, k))
         /\ Word(line, line.starts[k]) \in KnownHere
         /\ line.starts[k] \in Nat /\ line.starts[k] < Len(line.tokens)
         /\ tokens[line.starts[k]] = Word(line, line.starts[k])
         /\ EndOf(line, k) \in line.starts[k] + 1 .. Len(line.tokens)
         /\ Word(line, line.starts[k]) # "0"
<1>1. Parsed(exec_mode, line, First, KnownHere) /\ Laid
  BY DEF Typed
<1>2. /\ CommandAt(exec_mode, line, line.starts[k], EndOf(line, k))
      /\ Word(line, line.starts[k]) \in KnownHere
  BY <1>1 DEF Parsed
<1>3. /\ EndOf(line, k) \in line.starts[k] + 1 .. Len(line.tokens)
      /\ Word(line, line.starts[k]) # "0"
  BY <1>2 DEF CommandAt
<1>4. line.starts \in Seq(Nat) /\ k \in 1 .. Len(line.starts)
  BY <1>1 DEF Parsed, First
<1>5. line.starts[k] \in Nat
  BY <1>4
<1>6. Len(line.tokens) \in Nat /\ \A p \in 0 .. Len(line.tokens) : tokens[p] = Word(line, p)
  BY <1>1 DEF Laid
<1>7. line.starts[k] < Len(line.tokens) /\ line.starts[k] \in 0 .. Len(line.tokens)
  BY <1>3, <1>5, <1>6
<1> QED BY <1>2, <1>3, <1>5, <1>6, <1>7

(* Where the walk is when it has a command before it.                      *)
Here ==
  /\ exec_mode \in Modes /\ Laid /\ t \in Nat /\ t < Len(line.tokens)
  /\ tokens[t] = Word(line, t)

(* What carries out the command there gets to its end, or, after the       *)
(* last, on to the word pins.                                              *)
Leads(p) ==
  \A q \in 0 .. Len(line.tokens) :
    CommandAt(exec_mode, line, t, q) =>
      p = q \/ (q = Len(line.tokens) /\ p \in Nat /\ tokens[p] = "PINS")

(* A command carried out leaves the walk in step.                          *)
LEMMA Carrying ==
  ASSUME InStep, phase \in {"line", "exec"}, NEW p, GoOn(p) \/ phase' = "hung", Ran,
         UNCHANGED <<parsed, exec_mode>>, tokens[t] \notin {"0", "PINS"},
         Here => Leads(p)
  PROVE  InStep'
<1> SUFFICES ASSUME phase' \in {"line", "exec"}, ~upset'
             PROVE  (Typed /\ \E k \in First .. Len(line.starts) + 1 :
                       Standing(k) /\ ran = SubSeq(line.starts, First, k - 1))'
  BY DEF InStep
<1>1. /\ t' = p /\ UNCHANGED <<phase, token_pos, entering, parsed, exec_mode>>
      /\ ran' = Append(ran, t) /\ ~upset
  BY DEF GoOn, Ran
<1>2. Typed
  BY <1>1 DEF InStep
<1>3. PICK k \in First .. Len(line.starts) + 1 :
        Standing(k) /\ ran = SubSeq(line.starts, First, k - 1)
  BY <1>1 DEF InStep
<1>4. line.starts \in Seq(Nat) /\ First \in {1, 2} /\ Len(line.starts) \in Nat
  BY <1>2 DEF Typed, Parsed, First
<1>5. k \in First .. Len(line.starts)
  BY <1>3, <1>4 DEF Standing
<1>6. t = line.starts[k] /\ (phase = "exec" => token_pos \in Nat /\ token_pos <= t)
  BY <1>3, <1>5 DEF Standing
<1> DEFINE q == EndOf(line, k)
<1>7. /\ CommandAt(exec_mode, line, t, q) /\ Here /\ q \in t + 1 .. Len(line.tokens)
      /\ t \in Nat /\ Len(line.tokens) \in Nat
  BY <1>2, <1>5, <1>6, CommandIs DEF Here, Typed, Laid
<1>8. p = q \/ (q = Len(line.tokens) /\ p \in Nat /\ tokens[p] = "PINS")
  BY <1>7 DEF Leads
<1>9. q = Len(line.tokens) => k = Len(line.starts)
  <2> SUFFICES ASSUME q = Len(line.tokens), k # Len(line.starts) PROVE FALSE
    OBVIOUS
  <2>1. k + 1 \in First .. Len(line.starts)  BY <1>4, <1>5
  <2>2. q = line.starts[k + 1]  BY <1>4, <1>5 DEF EndOf
  <2>3. line.starts[k + 1] < Len(line.tokens)  BY <1>2, <2>1, CommandIs
  <2> QED BY <1>7, <2>2, <2>3
<1>10. ran' = SubSeq(line.starts, First, k)
  BY <1>1, <1>3, <1>4, <1>5, <1>6, OneMore
<1>11. Typed' /\ First' = First /\ line' = line /\ tokens' = tokens
  BY <1>1, <1>2, SameLine DEF parsed
<1>12. k + 1 \in First .. Len(line.starts) + 1 /\ (k + 1) - 1 = k
  BY <1>4, <1>5
<1>13. Standing(k + 1)'
  <2>1. p \in Nat /\ (phase' = "exec" => token_pos' \in Nat)  BY <1>1, <1>6, <1>7, <1>8
  <2>2. CASE k < Len(line.starts)
    <3>1. k + 1 <= Len(line.starts) /\ p = line.starts[k + 1] /\ p > t
      <4>1. k + 1 <= Len(line.starts)  BY <1>4, <1>5, <2>2
      <4>2. q # Len(line.tokens)  BY <1>4, <1>9, <2>2
      <4>3. p = q /\ q > t  BY <1>7, <1>8, <4>2
      <4>4. q = line.starts[k + 1]  BY <2>2 DEF EndOf
      <4> HIDE DEF q
      <4> QED BY <4>1, <4>3, <4>4
    <3>2. phase' = "exec" => token_pos' < t'  BY <1>1, <1>6, <1>7, <2>1, <3>1
    <3> QED BY <1>1, <1>6, <1>7, <1>11, <2>1, <3>1, <3>2 DEF Standing
  <2>3. CASE k = Len(line.starts)
    <3>1. q = Len(line.tokens)  BY <2>3 DEF EndOf
    <3>2. tokens[q] = "0"  BY <1>2, <1>7, <3>1 DEF Typed, Laid, Word
    <3>3. tokens[p] \in {"0", "PINS"}  BY <1>8, <3>2
    <3>4. ~(k + 1 <= Len(line.starts))  BY <1>4, <2>3
    <3> QED BY <1>1, <1>11, <2>1, <3>3, <3>4 DEF Standing
  <2> QED BY <1>4, <1>5, <2>2, <2>3
<1> QED BY <1>10, <1>11, <1>12, <1>13

-----------------------------------------------------------------------------
(* Typing a line starts its walk at the first command.                     *)
LEMMA LaidOut ==
  ASSUME IInv, NEW l, Store(l, TRUE), l.tokens \in Seq(STRING), Len(l.tokens) < Words
  PROVE  Laid' /\ line' = l
<1>1. /\ DOMAIN tokens = 0 .. Words - 1 /\ line' = l
      /\ tokens' = [p \in DOMAIN tokens |->
                      IF p < Len(l.tokens) THEN l.tokens[p + 1]
                      ELSE IF p = Len(l.tokens) THEN "0" ELSE tokens[p]]
  BY DEF IInv, OnTheLine, Store
<1>2. Len(l.tokens) \in Nat /\ Words \in Nat
  BY TextAssumption
<1>3. \A p \in 0 .. Len(l.tokens) : tokens'[p] = Word(l, p)
  <2> SUFFICES ASSUME NEW p \in 0 .. Len(l.tokens) PROVE tokens'[p] = Word(l, p)
    OBVIOUS
  <2>1. p \in DOMAIN tokens  BY <1>1, <1>2
  <2>2. p < Len(l.tokens) \/ p = Len(l.tokens)  BY <1>2
  <2> QED BY <1>1, <1>2, <2>1, <2>2 DEF Word
<1> QED BY <1>1, <1>3 DEF Laid, Word

LEMMA TypingStarts ==
  ASSUME IInv, TypeLine
  PROVE  InStep'
<1>0. ~entering
  BY InLine DEF TypeLine, TypeRejected, TypeInMode, TypeAtTop
<1>1. CASE TypeRejected
  <2>1. phase' = "idle"  BY <1>1 DEF TypeRejected
  <2> QED BY <2>1 DEF InStep
<1>2. CASE TypeInMode
  <2>1. PICK l \in ModeLines[console_mode] : Store(l, TRUE)
    BY <1>2 DEF TypeInMode
  <2>2. /\ console_mode \in Modes /\ phase' = "line" /\ t' = 0
        /\ UNCHANGED <<token_pos, entering, modes>>
    BY <1>2 DEF TypeInMode
  <2>3. exec_mode' = console_mode /\ exec_mode' = exec_mode
    BY <2>2, TopIsNoMode DEF IInv, Ready, modes
  <2>4. Parsed(console_mode, l, 1, ByLine \cup KnownTo(console_mode))
    BY <2>1, <2>2, GrammarAssumption
  <2>5. Laid' /\ line' = l /\ ran' = << >>
    <3>1. l.tokens \in Seq(STRING) /\ Len(l.tokens) < Words  BY <2>4 DEF Parsed
    <3> QED BY <2>1, <3>1, LaidOut DEF Store
  <2>6. First' = 1 /\ KnownHere' = (ByLine \cup KnownTo(console_mode)) /\ ~entering'
    BY <1>0, <2>2, <2>3 DEF First, KnownHere, Known
  <2>7. Typed'
    BY <2>2, <2>3, <2>4, <2>5, <2>6 DEF Typed
  <2>8. /\ l.starts \in Seq(Nat) /\ l.starts # << >> /\ l.starts[1] = 0
    BY <2>4 DEF Parsed
  <2>9. Len(l.starts) \in Nat /\ 1 <= Len(l.starts) /\ SubSeq(l.starts, 1, 0) = << >>
    BY <2>8
  <2>10. Standing(1)'
    BY <2>2, <2>5, <2>8, <2>9 DEF Standing
  <2> QED BY <2>5, <2>6, <2>7, <2>9, <2>10 DEF InStep
<1>3. CASE TypeAtTop
  <2>1. PICK m \in Modes : \E l \in TopLines[m] : Store(l, TRUE) /\ exec_mode' = m
    BY <1>3 DEF TypeAtTop
  <2>2. PICK l \in TopLines[m] : Store(l, TRUE)
    BY <2>1
  <2>3. phase' = "exec" /\ t' = 1 /\ token_pos' = 1 /\ entering' = TRUE
    BY <1>3 DEF TypeAtTop
  <2>4. Parsed(m, l, 2, KnownTo(m)) /\ EndOf(l, 1) = 1
    BY <2>2, GrammarAssumption
  <2>5. Laid' /\ line' = l /\ ran' = << >>
    <3>1. l.tokens \in Seq(STRING) /\ Len(l.tokens) < Words  BY <2>4 DEF Parsed
    <3> QED BY <2>2, <3>1, LaidOut DEF Store
  <2>6. First' = 2 /\ KnownHere' = KnownTo(m) /\ Known' = KnownTo(m)
    BY <2>1, <2>3 DEF First, KnownHere, Known
  <2>7. Typed'
    BY <2>1, <2>3, <2>4, <2>5, <2>6 DEF Typed
  <2>8. l.starts \in Seq(Nat) /\ l.starts # << >> /\ Len(l.tokens) \in Nat
    BY <2>4 DEF Parsed
  <2>9. Len(l.starts) \in Nat /\ 2 <= Len(l.starts) + 1 /\ SubSeq(l.starts, 2, 1) = << >>
    BY <2>8
  <2>10. CASE 2 <= Len(l.starts)
    <3>1. l.starts[2] = 1  BY <2>4, <2>9, <2>10 DEF EndOf
    <3>2. Word(l, 1) \in KnownTo(m) /\ 1 < Len(l.tokens)
      <4>1. /\ CommandAt(m, l, l.starts[2], EndOf(l, 2))
            /\ Word(l, l.starts[2]) \in KnownTo(m)
        BY <2>4, <2>9, <2>10 DEF Parsed
      <4> QED BY <2>8, <3>1, <4>1 DEF CommandAt
    <3>3. tokens'[1] = Word(l, 1)
      BY <2>5, <2>8, <3>2 DEF Laid, Word
    <3>4. Standing(2)'
      BY <2>3, <2>5, <2>6, <2>10, <3>1, <3>2, <3>3 DEF Standing
    <3> QED BY <2>5, <2>6, <2>7, <2>9, <3>4 DEF InStep
  <2>11. CASE ~(2 <= Len(l.starts))
    <3>1. Len(l.tokens) = 1  BY <2>4, <2>8, <2>9, <2>11 DEF EndOf
    <3>2. tokens'[1] = "0"  BY <2>5, <3>1 DEF Laid, Word
    <3>4. Standing(2)'
      BY <2>3, <2>5, <2>11, <3>2 DEF Standing
    <3> QED BY <2>5, <2>6, <2>7, <2>9, <3>4 DEF InStep
  <2> QED BY <2>10, <2>11
<1> QED BY <1>1, <1>2, <1>3 DEF TypeLine

(* Each command of cmd_mode_exec moves to where the next one starts.       *)
LEMMA NextWord ==
  ASSUME Here
  PROVE  tokens[t + 1] = Word(line, t + 1) /\ t + 1 \in 0 .. Len(line.tokens)
                                           /\ Len(line.tokens) \in Nat
<1>1. t + 1 \in 0 .. Len(line.tokens) /\ Len(line.tokens) \in Nat
  BY DEF Here, Laid
<1> QED BY <1>1 DEF Here, Laid

LEMMA WriteStays ==
  ASSUME IInv, InStep, Write
  PROVE  InStep'
<1>1. PICK p \in {t, t + 1} :
        WriteAt(p) /\ tokens[t] \in {"WRITE"} \cup Numeric
                   /\ p = (IF tokens[t] = "WRITE" THEN t + 1 ELSE t)
  BY DEF Write, AtLine, Numeric
<1>2. phase = "line" /\ UNCHANGED <<parsed, exec_mode>>
  BY DEF Write, AtLine, modes
<1>3. CASE upset'
  BY <1>1, <1>3 DEF InStep
<1>4. CASE ~upset'
  <2>1. Finish(Chomp(p)) /\ Ran /\ Chomp(p) # p  BY <1>1, <1>4 DEF WriteAt, NoByte
  <2>2. GoOn(Chomp(p)) \/ phase' = "hung"  BY <2>1 DEF Finish
  <2>3. ASSUME Here PROVE Leads(Chomp(p))
    <3> SUFFICES ASSUME NEW q \in 0 .. Len(line.tokens), CommandAt(exec_mode, line, t, q)
                 PROVE  Chomp(p) = q
      BY DEF Leads
    <3>1. Laid /\ p \in Nat  BY <1>1, <2>3 DEF Here
    <3>2. CASE tokens[p] \in Numeric
      <4>1. Numbers(line, p, q)
        BY <1>1, <2>3, <3>2, NextWord DEF Here, CommandAt, Numeric
      <4> QED BY <3>1, <4>1, ChompIs
    <3>3. CASE tokens[p] \notin Numeric
      <4>1. p = t + 1 /\ p \in 0 .. Len(line.tokens) /\ Word(line, p) \notin Numeric
        BY <1>1, <2>3, <3>3, NextWord
      <4>2. Numbers(line, p, p)
        <5>1. {p} \in SUBSET (p .. p)  BY <3>1
        <5>2. \A r \in {p} \ {p} : FALSE  OBVIOUS
        <5> QED BY <4>1, <5>1, <5>2 DEF Numbers
      <4> QED BY <2>1, <3>1, <4>1, <4>2, ChompIs
    <3> QED BY <3>2, <3>3
  <2>4. tokens[t] \notin {"0", "PINS"}  BY <1>1 DEF Numeric
  <2> QED BY <1>2, <2>1, <2>2, <2>3, <2>4, Carrying
<1> QED BY <1>3, <1>4

LEMMA LineStaysInStep ==
  ASSUME IInv, InStep, LineStep
  PROVE  InStep'
<1>1. CASE LineOver
  <2>1. phase' = "idle"  BY <1>1 DEF LineOver, EndLine
  <2> QED BY <2>1 DEF InStep
<1>2. CASE Mark \/ Exit
  <2>1. /\ phase = "line" /\ tokens[t] \in Marks \cup {"EXIT"} /\ Ran
        /\ GoOn(t + 1) \/ phase' = "hung"
        /\ UNCHANGED <<parsed, exec_mode>>
    BY <1>2 DEF Mark, Exit, AtLine, Finish, modes
  <2>2. Here => Leads(t + 1)
    BY <2>1 DEF Here, Leads, CommandAt
  <2>3. tokens[t] \notin {"0", "PINS"}  BY <2>1 DEF Marks
  <2> QED BY <2>1, <2>2, <2>3, Carrying
<1>3. CASE ReadOrDelay
  <2>1. /\ phase = "line" /\ tokens[t] \in Counted /\ Ran
        /\ GoOn(AfterCount(t + 1)) \/ phase' = "hung"
        /\ UNCHANGED <<parsed, exec_mode>>
    BY <1>3 DEF ReadOrDelay, AtLine, Finish, modes
  <2>2. ASSUME Here PROVE Leads(AfterCount(t + 1))
    <3>1. AfterCount(t + 1) = CountOver(line, t + 1)
      BY <2>2, NextWord DEF AfterCount, CountOver
    <3> QED BY <2>1, <2>2, <3>1 DEF Here, Leads, CommandAt
  <2>3. tokens[t] \notin {"0", "PINS"}  BY <2>1 DEF Counted
  <2> QED BY <2>1, <2>2, <2>3, Carrying
<1>4. CASE Write
  BY <1>4, WriteStays
<1>5. CASE Trigger
  <2>1. /\ phase = "line" /\ tokens[t] = "TRIGGER" /\ Ran /\ GoOn(TriggerEnd(t + 1))
        /\ UNCHANGED <<parsed, exec_mode>>
    BY <1>5 DEF Trigger, AtLine, modes
  <2>2. ASSUME Here PROVE Leads(TriggerEnd(t + 1))
    <3> SUFFICES ASSUME NEW q \in 0 .. Len(line.tokens), CommandAt(exec_mode, line, t, q)
                 PROVE  \E r \in 0 .. Len(line.tokens) :
                          /\ TriggerEnd(t + 1) = r /\ tokens[r] = Word(line, r)
                          /\ r = q \/ (q = Len(line.tokens) /\ Word(line, r) = "PINS")
      BY DEF Leads
    <3>1. PICK r \in t + 1 .. q :
            /\ TriggersOwn(line, t + 1, r)
            /\ r = q \/ (q = Len(line.tokens) /\ Word(line, r) = "PINS")
      BY <2>1, <2>2 DEF Here, CommandAt
    <3>2. Laid /\ t + 1 \in Nat /\ r \in 0 .. Len(line.tokens)
      BY <2>2, <3>1 DEF Here, Laid
    <3>3. TriggerEnd(t + 1) = r  BY <3>1, <3>2, TriggerEndIs
    <3> QED BY <3>1, <3>2, <3>3 DEF Laid
  <2> QED BY <2>1, <2>2, Carrying
<1>6. CASE CallExec
  <2> SUFFICES ASSUME ~upset'
               PROVE  (Typed /\ \E k \in First .. Len(line.starts) + 1 :
                         Standing(k) /\ ran = SubSeq(line.starts, First, k - 1))'
    BY DEF InStep
  <2>1. /\ phase = "line" /\ phase' = "exec" /\ token_pos' = t
        /\ UNCHANGED <<parsed, exec_mode, t, entering, ran, upset>>
        /\ tokens[t] \notin {"0", "WRITE", "TRIGGER", "EXIT"} \cup Marks \cup Counted \cup Numeric
    BY <1>6 DEF CallExec, modes
  <2>2. ~entering /\ First = 1 /\ KnownHere = ByLine \cup Known
    BY <2>1, InLine DEF First, KnownHere
  <2>3. Typed /\ \E k \in First .. Len(line.starts) + 1 :
                   Standing(k) /\ ran = SubSeq(line.starts, First, k - 1)
    BY <2>1 DEF InStep
  <2>4. PICK k \in First .. Len(line.starts) + 1 :
          Standing(k) /\ ran = SubSeq(line.starts, First, k - 1)
    BY <2>3
  <2>5. Typed' /\ First' = First /\ line' = line /\ tokens' = tokens /\ Known' = Known
    BY <2>1, <2>3, SameLine DEF parsed, Known
  <2>6. k <= Len(line.starts) => tokens[t] \in Known
    <3> SUFFICES ASSUME k <= Len(line.starts) PROVE tokens[t] \in Known
      OBVIOUS
    <3>1. k \in First .. Len(line.starts)
      <4>1. line.starts \in Seq(Nat)  BY <2>3 DEF Typed, Parsed
      <4> QED BY <2>2, <4>1
    <3>2. tokens[t] \in ByLine \cup Known  BY <2>2, <2>3, <2>4, <3>1, CommandIs DEF Standing
    <3> QED BY <2>1, <3>2 DEF ByLine
  <2>7. Standing(k)'
    BY <2>1, <2>4, <2>5, <2>6 DEF Standing
  <2> QED BY <2>1, <2>4, <2>5, <2>7
<1> QED BY <1>1, <1>2, <1>3, <1>4, <1>5, <1>6 DEF LineStep

(* So does each command of a mode's exec; what does not is refused.        *)
LEMMA ShowStays ==
  ASSUME InStep, Show
  PROVE  InStep'
<1> DEFINE p == IF tokens[1] = "PINS" THEN t + 2 ELSE t + 1
<1>1. /\ phase = "exec" /\ tokens[t] = "SHOW" /\ Ran /\ GoOn(p)
      /\ UNCHANGED <<parsed, exec_mode>>
  BY DEF Show, AtExec, modes
<1>2. ASSUME Here PROVE Leads(p)
  <2> SUFFICES ASSUME NEW q \in 0 .. Len(line.tokens), CommandAt(exec_mode, line, t, q)
               PROVE  p = q \/ (q = Len(line.tokens) /\ p \in Nat /\ tokens[p] = "PINS")
    BY DEF Leads
  <2>1. PinsShown(line, t, q) /\ q > t  BY <1>1, <1>2 DEF Here, CommandAt
  <2>2. /\ Len(line.tokens) \in Nat /\ t \in Nat /\ t < Len(line.tokens)
        /\ tokens[t + 1] = Word(line, t + 1)
    BY <1>2, NextWord DEF Here
  <2>3. tokens[1] = Word(line, 1)
    <3>1. 1 \in 0 .. Len(line.tokens)  BY <2>2
    <3> QED BY <1>2, <3>1 DEF Here, Laid
  <2>4. Word(line, 1) = "PINS" => 1 < Len(line.tokens)  BY DEF Word
  <2> HIDE DEF p
  <2>5. CASE tokens[1] = "PINS"
    <3>1. p = t + 2  BY <2>5 DEF p
    <3>2. t = 0 /\ q = Len(line.tokens) /\ q > 1
      BY <2>1, <2>3, <2>4, <2>5 DEF PinsShown
    <3>3. CASE q = 2
      BY <3>1, <3>2, <3>3
    <3>4. CASE q > 2
      <4>1. 2 \in t + 1 .. q - 1 /\ 2 \in 0 .. Len(line.tokens)  BY <2>2, <3>2, <3>4
      <4>2. Word(line, 2) = "PINS"  BY <2>1, <4>1 DEF PinsShown
      <4>3. tokens[2] = "PINS"  BY <1>2, <4>1, <4>2 DEF Here, Laid
      <4> QED BY <3>1, <3>2, <4>3
    <3>5. q \in Nat  BY <2>2, <3>2
    <3>6. q > 1  BY <3>2
    <3>7. q = 2 \/ q > 2  BY <3>5, <3>6
    <3> QED BY <3>3, <3>4, <3>7
  <2>6. CASE tokens[1] # "PINS"
    <3>1. p = t + 1  BY <2>6 DEF p
    <3>2. CASE q = t + 1
      BY <3>1, <3>2
    <3>3. CASE q > t + 1
      <4>1. t + 1 \in t + 1 .. q - 1 /\ q = Len(line.tokens)
        BY <2>1, <2>2, <3>3 DEF PinsShown
      <4>2. Word(line, t + 1) = "PINS"  BY <2>1, <4>1 DEF PinsShown
      <4> QED BY <2>2, <3>1, <4>1, <4>2
    <3> QED BY <2>1, <2>2, <3>2, <3>3
  <2> QED BY <2>5, <2>6
<1> HIDE DEF p
<1> QED BY <1>1, <1>2, Carrying

LEMMA OverStays ==
  ASSUME InStep, ExecOver
  PROVE  InStep'
<1> SUFFICES ASSUME phase' \in {"line", "exec"}, ~upset'
             PROVE  (Typed /\ \E k \in First .. Len(line.starts) + 1 :
                       Standing(k) /\ ran = SubSeq(line.starts, First, k - 1))'
  BY DEF InStep
<1>1. /\ phase = "exec" /\ Return(t - token_pos) /\ UNCHANGED <<parsed, ran, upset>>
  BY DEF ExecOver
<1>2. /\ ~entering /\ UNCHANGED <<entering, modes>>
      /\ phase' = "line" /\ t' = token_pos + (t - token_pos)
  BY <1>1 DEF Return, EndLine, GivesUp, Resume
<1>3. Typed
  BY <1>1 DEF InStep
<1>4. PICK k \in First .. Len(line.starts) + 1 :
        Standing(k) /\ ran = SubSeq(line.starts, First, k - 1)
  BY <1>1 DEF InStep
<1>5. Typed' /\ First' = First /\ line' = line /\ tokens' = tokens
  BY <1>1, <1>2, <1>3, SameLine DEF parsed, modes
<1>6. t' = t
  BY <1>1, <1>2, <1>4 DEF Standing
<1>7. Standing(k)'
  BY <1>2, <1>4, <1>5, <1>6 DEF Standing
<1> QED BY <1>1, <1>4, <1>5, <1>7

LEMMA ExecStaysInStep ==
  ASSUME IInv, InStep, ExecStep
  PROVE  InStep'
<1>0. ASSUME NEW p, Refuse(p) PROVE InStep'
  BY <1>0 DEF Refuse, InStep
<1>1. CASE ExecOver
  BY <1>1, OverStays
<1>2. CASE Show
  BY <1>2, ShowStays
<1> DEFINE Own == E.flag \cup E.choice \cup DOMAIN E.value \cup DOMAIN E.sub
<1>a. ASSUME tokens[t] \in Own, InStep, ~upset, phase = "exec"
      PROVE  tokens[t] \notin {"0", "PINS"}
  <2>1. exec_mode \in DOMAIN Exec  BY <1>a, TextAssumption DEF InStep, Typed
  <2>2. Own \subseteq KnownTo(exec_mode)  BY DEF KnownTo, E
  <2> QED BY <1>a, <2>1, <2>2, NotKnown
<1>b. ASSUME NEW p, phase = "exec", GoOn(p) \/ phase' = "hung", Ran,
             UNCHANGED <<parsed, exec_mode>>, tokens[t] \in Own, Here => Leads(p)
      PROVE  InStep'
  <2>1. CASE upset
    BY <1>b, <2>1 DEF Ran, InStep
  <2>2. CASE ~upset
    <3>1. tokens[t] \notin {"0", "PINS"}  BY <1>a, <1>b, <2>2
    <3> HIDE DEF Own
    <3> QED BY <1>b, <3>1, Carrying
  <2> QED BY <2>1, <2>2
<1>3. CASE FlagOrChoice
  <2>1. /\ phase = "exec" /\ Ran /\ UNCHANGED <<parsed, exec_mode>>
        /\ \/ tokens[t] \in E.flag /\ Finish(t + 1)
           \/ tokens[t] \in E.choice /\ Finish(t + 2)
    BY <1>3 DEF FlagOrChoice, AtExec, modes
  <2>2. CASE tokens[t] \in E.flag /\ Finish(t + 1)
    <3>1. Here => Leads(t + 1)  BY <2>2 DEF Here, Leads, CommandAt, E
    <3> QED BY <1>b, <2>1, <2>2, <3>1 DEF Finish
  <2>3. CASE tokens[t] \in E.choice /\ Finish(t + 2)
    <3>1. Here => Leads(t + 2)  BY <2>3 DEF Here, Leads, CommandAt, E
    <3> QED BY <1>b, <2>1, <2>3, <3>1 DEF Finish
  <2> QED BY <2>1, <2>2, <2>3
<1>4. CASE Value \/ ChooseDevice
  <2>1. /\ phase = "exec" /\ tokens[t] \in DOMAIN E.value
        /\ \/ Refuse(t + 2)
           \/ /\ GoOn(t + 3) \/ phase' = "hung"
              /\ Ran /\ UNCHANGED <<parsed, exec_mode>>
    BY <1>4 DEF Value, ChooseDevice, AtExec, Finish, modes
  <2>2. Here => Leads(t + 3)
    BY <2>1 DEF Here, Leads, CommandAt, E
  <2> QED BY <1>0, <1>b, <2>1, <2>2
<1>5. CASE Sub
  <2>1. /\ phase = "exec" /\ tokens[t] \in DOMAIN E.sub
        /\ \/ Refuse(t)
           \/ /\ GoOn(t + 4) \/ phase' = "hung"
              /\ Ran /\ UNCHANGED <<parsed, exec_mode>>
    BY <1>5 DEF Sub, AtExec, Finish, modes
  <2>2. Here => Leads(t + 4)
    BY <2>1 DEF Here, Leads, CommandAt, E
  <2> QED BY <1>0, <1>b, <2>1, <2>2
<1>6. CASE Pin \/ LinTrigger
  <2>1. upset' = TRUE  BY <1>6 DEF Pin, LinTrigger, Refuse
  <2> QED BY <2>1 DEF InStep
<1> QED BY <1>1, <1>2, <1>3, <1>4, <1>5, <1>6 DEF ExecStep

(* Every step keeps the walk in step.                                      *)
LEMMA InStepKept == IInv /\ InStep /\ [Next]_vars => InStep'
<1> SUFFICES ASSUME IInv, InStep, [Next]_vars PROVE InStep'
  OBVIOUS
<1>1. CASE TypeLine  BY <1>1, TypingStarts
<1>2. CASE LineStep  BY <1>2, LineStaysInStep
<1>3. CASE ExecStep  BY <1>3, ExecStaysInStep
<1>4. CASE PowerUp
  <2>1. phase' = "idle"  BY <1>4 DEF PowerUp, EndLine
  <2> QED BY <2>1 DEF InStep
<1>5. CASE UNCHANGED vars
  <2>1. UNCHANGED <<parsed, tokens, line, phase, t, token_pos, entering, exec_mode, ran, upset>>
    BY <1>5 DEF vars, modes, parsed
  <2>2. (Typed => Typed') /\ First' = First
    BY <2>1, SameLine
  <2>3. \A k : Standing(k)' = Standing(k)
    BY <2>1 DEF Standing, Known
  <2> HIDE DEF Typed, First, Standing
  <2> QED BY <2>1, <2>2, <2>3 DEF InStep
<1> QED BY <1>1, <1>2, <1>3, <1>4, <1>5 DEF Next

(* At the end of a line its commands have all been carried out.            *)
LEMMA AllRan ==
  ASSUME IInv, InStep, [Next]_vars, phase' = "idle", phase \in {"line", "exec"}, ~upset'
  PROVE  ran' = IF entering THEN Tail(line.starts) ELSE line.starts
<1>1. ~upset /\ ran' = ran /\ (\/ phase = "line" /\ tokens[t] = "0"
                               \/ phase = "exec" /\ tokens[t] \notin Known
                                                 /\ (entering \/ t - token_pos = 0))
  <2>1. CASE LineOver
    BY <2>1 DEF LineOver, AtLine
  <2>2. CASE ExecOver
    BY <2>2 DEF ExecOver, Return, Resume
  <2>3. ~Mark /\ ~ReadOrDelay /\ ~Trigger /\ ~Exit /\ ~CallExec
    BY DEF Mark, ReadOrDelay, Trigger, Exit, CallExec, AtLine, Finish, GoOn
  <2>4. ~Write
    BY DEF Write, WriteAt, AtLine, Finish, GoOn
  <2>5. ~Show /\ ~FlagOrChoice /\ ~LinTrigger /\ ~Pin
    BY DEF Show, FlagOrChoice, LinTrigger, Pin, AtExec, Finish, GoOn, Refuse
  <2>6. ~Value /\ ~ChooseDevice /\ ~Sub
    BY DEF Value, ChooseDevice, Sub, AtExec, Finish, GoOn, Refuse
  <2>7. ~TypeLine /\ ~PowerUp /\ ~UNCHANGED vars
    BY DEF TypeLine, TypeRejected, TypeInMode, TypeAtTop, PowerUp, vars
  <2> QED BY <2>1, <2>2, <2>3, <2>4, <2>5, <2>6, <2>7 DEF Next, LineStep, ExecStep
<1>2. Typed
  BY <1>1 DEF InStep
<1>3. PICK k \in First .. Len(line.starts) + 1 :
        Standing(k) /\ ran = SubSeq(line.starts, First, k - 1)
  BY <1>1 DEF InStep
<1>4. line.starts \in Seq(Nat) /\ line.starts # << >> /\ Len(line.starts) \in Nat
      /\ First \in {1, 2}
  BY <1>2 DEF Typed, Parsed, First
<1>5. ~(k <= Len(line.starts))
  <2> SUFFICES ASSUME k <= Len(line.starts) PROVE FALSE
    OBVIOUS
  <2>1. k \in First .. Len(line.starts)  BY <1>4
  <2>2. /\ t = line.starts[k] /\ Word(line, t) # "0" /\ tokens[t] = Word(line, t)
        /\ Word(line, t) \in KnownHere /\ t \in Nat
    BY <1>2, <1>3, <2>1, CommandIs DEF Standing
  <2>3. CASE phase = "line"  BY <1>1, <2>2, <2>3
  <2>4. CASE phase = "exec" /\ entering
    BY <1>1, <2>2, <2>4 DEF KnownHere
  <2>5. CASE phase = "exec" /\ ~entering
    <3>1. token_pos \in Nat /\ t - token_pos = 0 /\ (token_pos = t => tokens[t] \in Known)
      BY <1>1, <1>3, <2>5 DEF Standing
    <3>2. token_pos = t  BY <2>2, <3>1
    <3> QED BY <1>1, <2>5, <3>1, <3>2
  <2> QED BY <2>3, <2>4, <2>5
<1>6. k = Len(line.starts) + 1 /\ k - 1 = Len(line.starts)
  <2>1. PICK n \in Nat : n = Len(line.starts)  BY <1>4
  <2>2. k \in First .. n + 1 /\ ~(k <= n) /\ First \in {1, 2}  BY <1>4, <1>5, <2>1
  <2>3. k = n + 1 /\ k - 1 = n
    <3> HIDE DEF First
    <3> QED BY <2>2
  <2> QED BY <2>1, <2>3
<1> QED BY <1>1, <1>3, <1>4, <1>6, AllOfThem DEF First

(* At every point of a line what was carried out are the commands before   *)
(* the one the two loops of cmd_mode_exec and exec stand at.               *)
THEOREM WalkInStep == Spec => []InStep
<1>1. Init => InStep
  BY DEF Init, InStep
<1>2. []IInv /\ InStep /\ [][Next]_vars => []InStep
  <2>1. IInv /\ InStep /\ [Next]_vars => InStep'  BY InStepKept
  <2> QED BY <2>1, PTL
<1> QED BY <1>1, <1>2, WalkCorrect, PTL DEF Spec

(* Each command of a line is carried out once and in order, whatever       *)
(* earlier lines left in p->tokens: cmd_mode_exec and the exec it calls    *)
(* hand over to each other at the start of a command, and only there.      *)
THEOREM CommandsOnce == Spec => EveryCommandOnce
<1> DEFINE Once == phase' = "idle" /\ phase \in {"line", "exec"} /\ ~upset' =>
                     ran' = IF entering THEN Tail(line.starts) ELSE line.starts
<1>1. IInv /\ InStep /\ [Next]_vars => [Once]_vars
  BY AllRan
<1>2. [][Once]_vars => EveryCommandOnce
  BY DEF EveryCommandOnce
<1> HIDE DEF Once
<1>3. []IInv /\ []InStep /\ [][Next]_vars => [][Once]_vars
  BY <1>1, PTL
<1> QED BY <1>2, <1>3, WalkCorrect, WalkInStep, PTL DEF Spec
=============================================================================
