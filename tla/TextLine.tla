------------------------------- MODULE TextLine ------------------------------
(***************************************************************************)
(* How a line of commands runs in the text modes.  The tokenizer           *)
(* (tokenline.c) leaves the line in p->tokens, ended by a 0, over whatever *)
(* earlier lines left there; cmd_mode_exec (hydrabus_mode.c) walks it,     *)
(* handing each token it does not know to the exec of the mode             *)
(* (hydrabus_mode_*.c), which walks on from there and says how far it got. *)
(*                                                                         *)
(* Tokens are strings.  An argument is a token that says so and its offset *)
(* in p->buf; the words are four bytes wide, so that the offsets are 0,    *)
(* which ends a line, 4, which is T_CLEAR, 8, T_MEMORY, and so on.         *)
(***************************************************************************)
EXTENDS Naturals, Sequences, SequencesExt, FiniteSets

CONSTANTS
  Words,             (* length of p->tokens                                *)
  Modes,             (* the modes of this instance                         *)
  Commands,          (* the commands typed in a mode, as [words, args]     *)
  Parameters,        (* those that may follow its name at the top          *)
  Tails,             (* those that must be last: show, trigger, brute      *)
  MaxCommands,       (* bound on the commands of a line                    *)
  MaxLines           (* bound on the lines since power-up                  *)

OffsetToken == <<"0", "CLEAR", "MEMORY", "UMOUNT", "CAT", "TESTPERF">>
ArgTokens == {"UINT", "FLOAT", "SUFFIX"}
Legal == 0 .. 30000
Illegal == 30001     (* a value every check refuses                        *)
BufferSize == 256    (* bytes of a write                                   *)

-----------------------------------------------------------------------------
(* The commands each mode's exec knows: flag takes no argument, choice a   *)
(* token, value a number of those it is mapped to; sub and pin read the    *)
(* number three tokens on.  configures: the driver is set up again.        *)
None == [c \in {} |-> {}]

SpiExec ==
  [flag |-> {"MSB_FIRST", "LSB_FIRST"}, choice |-> {"PULL", "MODE"},
   value |-> [DEVICE |-> 1 .. 3, FREQUENCY |-> {1}, POLARITY |-> 0 .. 1,
              PHASE |-> 0 .. 1, BIDIR |-> 0 .. 1],
   sub |-> None, pin |-> None,
   configures |-> {"MSB_FIRST", "LSB_FIRST", "PULL", "MODE", "FREQUENCY",
                   "POLARITY", "PHASE", "BIDIR"}]

I2cExec ==
  [flag |-> {"SCAN", "SNIFF"}, choice |-> {"PULL"},
   value |-> [DEVICE |-> 1 .. 3, FREQUENCY |-> {1}, CLOCK_STRETCH |-> Legal],
   sub |-> None, pin |-> None,
   configures |-> {"SNIFF", "PULL", "FREQUENCY", "CLOCK_STRETCH"}]

UartExec ==
  [flag |-> {"BRIDGE", "SCAN"}, choice |-> {"PARITY"},
   value |-> [DEVICE |-> 1 .. 3, SPEED |-> Legal, STOP_BITS |-> 1 .. 2,
              TIMEOUT |-> 1 .. 30000],
   sub |-> None, pin |-> None,
   configures |-> {"BRIDGE", "PARITY", "SPEED", "STOP_BITS"}]

LinExec ==
  [flag |-> {}, choice |-> {},
   value |-> [DEVICE |-> 1 .. 2, TIMEOUT |-> 1 .. 30000],
   sub |-> None, pin |-> None, configures |-> {}]

SmartcardExec ==
  [flag |-> {"QUERY", "ATR"}, choice |-> {"PARITY"},
   value |-> [DEVICE |-> {1}, SPEED |-> Legal, GUARDTIME |-> Legal,
              PRESCALER |-> Legal, POLARITY |-> 0 .. 1, PHASE |-> 0 .. 1,
              STOP_BITS |-> 0 .. 1, CONVENTION |-> 0 .. 1, TIMEOUT |-> 1 .. 30000],
   sub |-> None, pin |-> None,
   configures |-> {"ATR", "PARITY", "SPEED", "GUARDTIME", "PRESCALER", "POLARITY",
                   "PHASE", "STOP_BITS", "CONVENTION"}]

OneWireExec ==
  [flag |-> {"MSB_FIRST", "LSB_FIRST", "SCAN", "DEBUG"}, choice |-> {"PULL"},
   value |-> None, sub |-> None, pin |-> None, configures |-> {}]

TwoWireExec ==
  [flag |-> {"MSB_FIRST", "LSB_FIRST", "IDCODE"}, choice |-> {"PULL"},
   value |-> [FREQUENCY |-> Legal \cup {Illegal}, BRUTE |-> 1 .. 12, POLARITY |-> 0 .. 1],
   sub |-> None, pin |-> None, configures |-> {}]

ThreeWireExec ==
  [flag |-> {"MSB_FIRST", "LSB_FIRST"}, choice |-> {"PULL"},
   value |-> [FREQUENCY |-> Legal \cup {Illegal}, POLARITY |-> 0 .. 1],
   sub |-> None, pin |-> None, configures |-> {}]

WiegandExec ==
  [flag |-> {}, choice |-> {"PULL"},
   value |-> None, sub |-> None, pin |-> None, configures |-> {}]

FlashExec ==
  [flag |-> {"MSB_FIRST", "LSB_FIRST", "ID"}, choice |-> {"PULL"},
   value |-> None, sub |-> None, pin |-> None, configures |-> {}]

JtagExec ==
  [flag |-> {"MSB_FIRST", "LSB_FIRST", "BYPASS", "IDCODE", "OOCD"}, choice |-> {"PULL"},
   value |-> [FREQUENCY |-> Legal \cup {Illegal}],
   sub |-> [BRUTE |-> 1 .. 12],
   pin |-> [TCK |-> 0 .. 12, TMS |-> 0 .. 12, TDI |-> 0 .. 12, TDO |-> 0 .. 12,
            TRST |-> 0 .. 12],
   configures |-> {}]

Exec ==
  [spi |-> SpiExec, i2c |-> I2cExec, uart |-> UartExec, lin |-> LinExec,
   smartcard |-> SmartcardExec, onewire |-> OneWireExec, twowire |-> TwoWireExec,
   threewire |-> ThreeWireExec, wiegand |-> WiegandExec, flash |-> FlashExec,
   jtag |-> JtagExec]

ASSUME TextAssumption ==
  /\ Words \in Nat /\ Modes \subseteq DOMAIN Exec
  /\ MaxCommands \in Nat /\ MaxLines \in Nat

(* The driver of a mode's peripheral; the other modes move pins.           *)
Driver == [spi |-> "spi", i2c |-> "i2c", uart |-> "uart", lin |-> "uart",
           smartcard |-> "smartcard"]

(* Modes whose clock edges wait for TIM4, and those that stop it.          *)
Clocked == {"twowire", "threewire", "jtag"}
StopsTimer == {"twowire", "threewire"}

(* The tokens cmd_mode_exec knows: without and with a repeat count.        *)
Marks == {"START", "STOP", "CARET", "AUX_ON", "AUX_READ"}
Counted == {"READ", "HD", "AMPERSAND", "PERCENT"}
Numeric == {"UINT", "TILDE"}

(* Those that clock the bus: for certain more than one edge, or just one.  *)
Edges == {"UINT", "TILDE", "WRITE", "READ", "HD", "CARET", "BYPASS", "IDCODE",
          "BRUTE"}
OneEdge == {"POLARITY"}

-----------------------------------------------------------------------------
(* Tokens of a sequence of commands, and where its commands start: numbers *)
(* in a row, also after write, are one write.                              *)
TokensOf(words) ==
  LET put(acc, w) ==
        IF w \in ArgTokens
        THEN [toks |-> acc.toks \o <<w, OffsetToken[acc.n]>>, n |-> acc.n + 1]
        ELSE [acc EXCEPT !.toks = Append(@, w)]
  IN  FoldLeft(put, [toks |-> <<>>, n |-> 1], words).toks

WordsOf(cmds) == FlattenSeq([i \in 1 .. Len(cmds) |-> cmds[i].words])

Joined(cmds, i) ==
  /\ i > 1 /\ cmds[i].words[1] \in Numeric
  /\ cmds[i - 1].words[1] \in Numeric \cup {"WRITE"}

Line(cmds) ==
  [tokens |-> TokensOf(WordsOf(cmds)),
   args   |-> FlattenSeq([i \in 1 .. Len(cmds) |-> cmds[i].args]),
   starts |-> LET heads == SelectSeq([i \in 1 .. Len(cmds) |-> i],
                                     LAMBDA i : ~Joined(cmds, i))
              IN  [k \in 1 .. Len(heads) |->
                     Len(TokensOf(WordsOf(SubSeq(cmds, 1, heads[k] - 1))))]]

Cmd(words, args) == [words |-> words, args |-> args]

UpTo(S, n) == UNION {[1 .. k -> S] : k \in 0 .. n}

(* The lines the tokenizer accepts; at the top, the name of a mode first.  *)
ModeLines ==
  [m \in Modes |->
     {Line(cmds) : cmds \in {b \o e : b \in UpTo(Commands[m], MaxCommands),
                                     e \in UpTo(Tails[m], 1)} \ {<<>>}}]
TopLines ==
  [m \in Modes |->
     {Line(<<Cmd(<<m>>, <<>>)>> \o ps) : ps \in UpTo(Parameters[m], 1)}]

(* The modes that wait for the timer take at the top only a bit order and  *)
(* a pull with its word: nothing that clocks the bus before the timer runs.*)
BitOrders == {"MSB_FIRST", "LSB_FIRST"}
Pulls == {"UP", "DOWN", "FLOATING"}

Quiet(toks) ==
  /\ toks \in Seq(STRING) /\ Len(toks) < Words
  /\ \A k \in 2 .. Len(toks) :
       \/ toks[k] \in BitOrders \cup Pulls
       \/ toks[k] = "PULL" /\ k < Len(toks) /\ toks[k + 1] \in Pulls

ASSUME ParametersAssumption ==
  \A m \in Modes \cap Clocked : \A l \in TopLines[m] : l.tokens # <<>> /\ Quiet(l.tokens)

(* What the exec of a mode knows, and what cmd_mode_exec does itself.      *)
KnownTo(m) ==
  LET X == Exec[m]
  IN  X.flag \cup X.choice \cup DOMAIN X.value \cup DOMAIN X.sub \cup DOMAIN X.pin
        \cup {"SHOW"} \cup IF m = "lin" THEN {"TRIGGER"} ELSE {}

ByLine == Marks \cup Counted \cup Numeric \cup {"WRITE", "TRIGGER", "EXIT"}

(* How the tables of commands.c make a line: the word at p; where a count, *)
(* a number, a command of the trigger end; and the lengths of commands:    *)
(* one runs from p to q, where the next one starts.                        *)
Word(l, p) == IF p < Len(l.tokens) THEN l.tokens[p + 1] ELSE "0"

CountOver(l, p) == IF Word(l, p) = "SUFFIX" THEN p + 2 ELSE p
NumberOver(l, p) == CountOver(l, IF Word(l, p) = "TILDE" THEN p + 1 ELSE p + 2)
OwnOver(l, p) == IF Word(l, p) = "SHOW" /\ Word(l, p + 1) = "PINS" THEN p + 2 ELSE p + 1

Numbers(l, p, q) ==
  /\ Word(l, q) \notin Numeric
  /\ \E R \in SUBSET (p .. q) :
       p \in R /\ \A r \in R \ {q} : Word(l, r) \in Numeric /\ NumberOver(l, r) \in R

TriggersOwn(l, p, q) ==
  /\ Word(l, q) \notin {"START", "SHOW"}
  /\ \E R \in SUBSET (p .. q) :
       p \in R /\ \A r \in R \ {q} : Word(l, r) \in {"START", "SHOW"} /\ OwnOver(l, r) \in R

PinsShown(l, p, q) ==
  /\ q = Len(l.tokens) /\ (Word(l, 1) = "PINS" => p = 0)
  /\ \A r \in p + 1 .. q - 1 : Word(l, r) = "PINS"

CommandAt(m, l, p, q) ==
  LET w == Word(l, p)
      X == Exec[m]
  IN  /\ w # "0" /\ q \in p + 1 .. Len(l.tokens)
      /\ w \in Marks \cup {"EXIT"} \cup X.flag => q = p + 1
      /\ w \in Counted => q = CountOver(l, p + 1)
      /\ w = "WRITE" /\ Word(l, p + 1) \in Numeric => Numbers(l, p + 1, q)
      /\ w \in Numeric => Numbers(l, p, q)
      /\ w = "TRIGGER" =>
           \E r \in p + 1 .. q : /\ TriggersOwn(l, p + 1, r)
                                 /\ r = q \/ (q = Len(l.tokens) /\ Word(l, r) = "PINS")
      /\ w = "SHOW" => PinsShown(l, p, q)
      /\ w \in X.choice => q = p + 2
      /\ w \in DOMAIN X.value => q = p + 3
      /\ w \in DOMAIN X.sub => q = p + 4

EndOf(l, k) == IF k < Len(l.starts) THEN l.starts[k + 1] ELSE Len(l.tokens)

Parsed(m, l, first, known) ==
  /\ l.tokens \in Seq(STRING) /\ l.starts \in Seq(Nat) /\ l.starts # <<>>
  /\ l.starts[1] = 0 /\ Len(l.tokens) < Words
  /\ \A k \in first .. Len(l.starts) :
       CommandAt(m, l, l.starts[k], EndOf(l, k)) /\ Word(l, l.starts[k]) \in known

(* Every command has the length its table gives it, and what may start one *)
(* is known to the loop that will walk it: in a mode, cmd_mode_exec and    *)
(* exec; behind the mode's name at the top, exec alone.                    *)
ASSUME GrammarAssumption ==
  \A m \in Modes :
    /\ \A l \in ModeLines[m] : Parsed(m, l, 1, ByLine \cup KnownTo(m))
    /\ \A l \in TopLines[m] : Parsed(m, l, 2, KnownTo(m)) /\ EndOf(l, 1) = 1

VARIABLES
  tokens, args,      (* p->tokens, and the words of p->buf                 *)
  phase,             (* idle, line (cmd_mode_exec), exec, or hung          *)
  t, token_pos,      (* the positions of the two loops                     *)
  entering,          (* exec was called by the mode's init                 *)
  console_mode, exec_mode, level, dev_num,
  on, tim,           (* the drivers initialised; TIM4 runs                 *)
  line,              (* the line typed last                                *)
  ran,               (* the positions of it carried out, in order          *)
  upset,             (* something in it that loses count                   *)
  stray,             (* what device, or a command after exit, left on      *)
  lines

parsed == <<tokens, args, line, lines>>
modes == <<console_mode, exec_mode, level, dev_num>>
hardware == <<on, tim, stray>>
vars == <<parsed, phase, t, token_pos, entering, modes, hardware, ran, upset>>

-----------------------------------------------------------------------------
(* What is read through a token as if it were an offset: an argument, or   *)
(* bytes of p->buf nothing is known of.                                    *)
ArgAt(p) ==
  IF \E k \in DOMAIN OffsetToken : OffsetToken[k] = tokens[p]
  THEN {args[CHOOSE k \in DOMAIN OffsetToken : OffsetToken[k] = tokens[p]]}
  ELSE {0, Illegal}

(* tokenize: the line goes over the earlier ones.  A word no table knows   *)
(* ends it without the 0 and without a call.                               *)
Store(l, complete) ==
  /\ tokens' = [p \in DOMAIN tokens |->
                  IF p < Len(l.tokens) THEN l.tokens[p + 1]
                  ELSE IF p = Len(l.tokens) /\ complete THEN "0" ELSE tokens[p]]
  /\ args' = [k \in DOMAIN args |-> IF k <= Len(l.args) THEN l.args[k] ELSE args[k]]
  /\ line' = l /\ lines' = lines + 1 /\ ran' = <<>> /\ upset' = FALSE

TypeRejected ==
  /\ phase = "idle" /\ lines < MaxLines /\ console_mode \in Modes
  /\ \E l \in ModeLines[console_mode] : Store(l, FALSE)
  /\ UNCHANGED <<phase, t, token_pos, entering, modes, hardware>>

TypeInMode ==
  /\ phase = "idle" /\ lines < MaxLines /\ console_mode \in Modes
  /\ \E l \in ModeLines[console_mode] : Store(l, TRUE)
  /\ phase' = "line" /\ t' = 0
  /\ UNCHANGED <<token_pos, entering, modes, hardware>>

(* cmd_mode_init as far as the call of exec in the mode's init.            *)
TypeAtTop ==
  /\ phase = "idle" /\ lines < MaxLines /\ console_mode = "top"
  /\ \E m \in Modes : \E l \in TopLines[m] : Store(l, TRUE) /\ exec_mode' = m
  /\ dev_num' = 0 /\ entering' = TRUE
  /\ phase' = "exec" /\ token_pos' = 1 /\ t' = 1
  /\ UNCHANGED <<console_mode, level, hardware>>

-----------------------------------------------------------------------------
(* The driver of device d of the mode in use, if it has one.               *)
Device(d) == IF exec_mode \in DOMAIN Driver THEN {<<Driver[exec_mode], d>>} ELSE {}

AfterExit == console_mode = "top" /\ ~entering

SetUp(d) ==
  /\ on' = on \cup Device(d)
  /\ stray' = stray \cup (IF AfterExit THEN Device(d) ELSE {})
                    \cup (IF d # dev_num THEN on \cap Device(dev_num) ELSE {})

EndLine == phase' = "idle" /\ t' = 0 /\ token_pos' = 0 /\ entering' = FALSE

(* Fault: a command that took no token is tried again.                     *)
TriesAgain == phase' = "line" /\ token_pos' = 0 /\ UNCHANGED <<t, entering>>

GivesUp == EndLine

GoOn(p) == t' = p /\ UNCHANGED <<phase, token_pos, entering>>

Ran == ran' = Append(ran, t) /\ UNCHANGED upset

(* A command that waits for edges of a stopped timer never comes back.     *)
MustHang(c) == exec_mode \in Clocked /\ ~tim /\ c \in Edges
MayHang(c) == exec_mode \in Clocked /\ ~tim /\ c \in Edges \cup OneEdge

Finish(p) ==
  \/ ~MustHang(tokens[t]) /\ GoOn(p)
  \/ MayHang(tokens[t]) /\ phase' = "hung" /\ UNCHANGED <<t, token_pos, entering>>

-----------------------------------------------------------------------------
(* cmd_mode_exec.                                                          *)
AtLine(S) == phase = "line" /\ tokens[t] \in S

LineOver ==
  /\ AtLine({"0"}) /\ EndLine
  /\ UNCHANGED <<parsed, modes, hardware, ran, upset>>

Mark ==
  /\ AtLine(Marks) /\ Finish(t + 1) /\ Ran
  /\ UNCHANGED <<parsed, modes, hardware>>

AfterCount(p) == IF tokens[p] = "SUFFIX" THEN p + 2 ELSE p

ReadOrDelay ==
  /\ AtLine(Counted) /\ Finish(AfterCount(t + 1)) /\ Ran
  /\ UNCHANGED <<parsed, modes, hardware>>

(* chomp_integers: where the numbers from p on end.                        *)
AfterNumber(p) == AfterCount(IF tokens[p] = "TILDE" THEN p + 1 ELSE p + 2)

Chomp(p) ==
  LET end[k \in 0 .. Words + 3] ==
        IF k >= Words \/ tokens[k] \notin Numeric THEN k ELSE end[AfterNumber(k)]
  IN  end[p]

TooBig(p) == tokens[p] = "UINT" /\ \A v \in ArgAt(p + 1) : v > 255

(* The repeat count behind the number at p, if there is one.               *)
Repeats(p) ==
  LET q == IF tokens[p] = "TILDE" THEN p + 1 ELSE p + 2
  IN  IF tokens[q] = "SUFFIX" THEN ArgAt(q + 1) ELSE {}

(* It gives up at a number above 255, and at a repeat count for which the  *)
(* buffer has no room behind the number itself and the n bytes before it.  *)
ChompFits(p) ==
  LET fits[k \in 0 .. Words + 3, n \in 0 .. BufferSize + Words] ==
        IF k >= Words \/ tokens[k] \notin Numeric THEN TRUE
        ELSE /\ ~TooBig(k)
             /\ Repeats(k) = {} => fits[AfterNumber(k), n + 1]
             /\ \A c \in Repeats(k) :
                  n + 1 + c <= BufferSize /\ fits[AfterNumber(k), n + Max({1, c})]
  IN  fits[p, 0]

NoByte(p) == Chomp(p) = p \/ TooBig(p)

(* hydrabus_mode_write at p.  Without a byte, or when the rest of the row  *)
(* does not fit, the line is lost; in the second case after the bytes      *)
(* before have been written.                                               *)
WriteAt(p) ==
  \/ NoByte(p) /\ GivesUp /\ upset' = TRUE /\ UNCHANGED ran
  \/ /\ ~NoByte(p) /\ ~ChompFits(p)
     /\ \/ ~MustHang(tokens[t]) /\ GivesUp
        \/ MayHang(tokens[t]) /\ phase' = "hung" /\ UNCHANGED <<t, token_pos, entering>>
     /\ upset' = TRUE /\ UNCHANGED ran
  \/ ~NoByte(p) /\ ChompFits(p) /\ Finish(Chomp(p)) /\ Ran

Write ==
  /\ \/ AtLine({"WRITE"}) /\ WriteAt(t + 1)
     \/ AtLine(Numeric) /\ WriteAt(t)
  /\ UNCHANGED <<parsed, modes, hardware>>

(* cmd_trigger: the first position from p on that is not its own.          *)
AfterOwn(p) == IF tokens[p] = "SHOW" /\ tokens[p + 1] = "PINS" THEN p + 2 ELSE p + 1

TriggerEnd(p) ==
  LET end[k \in 0 .. Words + 3] ==
        IF k >= Words \/ tokens[k] \notin {"START", "SHOW"} THEN k ELSE end[AfterOwn(k)]
  IN  end[p]

Trigger ==
  /\ AtLine({"TRIGGER"}) /\ GoOn(TriggerEnd(t + 1)) /\ Ran
  /\ UNCHANGED <<parsed, modes, hardware>>

mode_exit == console_mode' = "top" /\ level' = IF level = 0 THEN 0 ELSE level - 1

(* Fault: the mode's first device is switched off, whichever is in use.    *)
CleansFirst == on' = on \ Device(0) /\ UNCHANGED tim

Cleanup ==
  /\ on' = on \ Device(dev_num)
  /\ tim' = (tim /\ exec_mode \notin StopsTimer)

(* The loop goes on after it.                                              *)
Exit ==
  /\ AtLine({"EXIT"}) /\ Cleanup /\ mode_exit /\ GoOn(t + 1) /\ Ran
  /\ UNCHANGED <<parsed, exec_mode, dev_num, stray>>

CallExec ==
  /\ phase = "line"
  /\ tokens[t] \notin {"0", "WRITE", "TRIGGER", "EXIT"} \cup Marks \cup Counted \cup Numeric
  /\ phase' = "exec" /\ token_pos' = t
  /\ UNCHANGED <<parsed, t, entering, modes, hardware, ran, upset>>

-----------------------------------------------------------------------------
(* The mode's exec.                                                        *)
E == Exec[exec_mode]
AtExec(S) == phase = "exec" /\ tokens[t] \in S

(* Fault: the token exec stopped at is skipped.                            *)
SkipsOne(n) == phase' = "line" /\ t' = token_pos + n + 1

Resume(n) == phase' = "line" /\ t' = token_pos + n

(* Fault: the timer is left for the first frequency command to start.      *)
SetsNoTimer == on' = on \cup Device(dev_num) /\ UNCHANGED tim

InitHardware ==
  /\ on' = on \cup Device(dev_num)
  /\ tim' = (tim \/ exec_mode \in Clocked)

(* exec returns n: to the mode's init, which sets up the hardware, pushes  *)
(* the mode's tokens and shows its prompt, or to cmd_mode_exec, which ends *)
(* the line on 0.                                                          *)
Return(n) ==
  IF entering
  THEN /\ EndLine /\ InitHardware
       /\ console_mode' = exec_mode /\ level' = level + 1
       /\ UNCHANGED <<exec_mode, dev_num, stray>>
  ELSE /\ IF n = 0 THEN GivesUp ELSE Resume(n) /\ token_pos' = 0 /\ UNCHANGED entering
       /\ UNCHANGED <<modes, hardware>>

(* A refused value: the position is returned, not the number of tokens.    *)
Refuse(p) == Return(p) /\ upset' = TRUE /\ UNCHANGED ran

Known == KnownTo(exec_mode)

ExecOver ==
  /\ phase = "exec" /\ tokens[t] \notin Known /\ Return(t - token_pos)
  /\ UNCHANGED <<parsed, ran, upset>>

Show ==
  /\ AtExec({"SHOW"}) /\ GoOn(IF tokens[1] = "PINS" THEN t + 2 ELSE t + 1) /\ Ran
  /\ UNCHANGED <<parsed, modes, hardware>>

Configure(c) ==
  IF c \in E.configures THEN SetUp(dev_num) ELSE UNCHANGED <<on, stray>>

FlagOrChoice ==
  /\ \/ AtExec(E.flag) /\ Finish(t + 1)
     \/ AtExec(E.choice) /\ Finish(t + 2)
  /\ Configure(tokens[t]) /\ Ran
  /\ UNCHANGED <<parsed, modes, tim>>

(* The prescaler is set by starting the timer anew.                        *)
Value ==
  /\ AtExec(DOMAIN E.value \ {"DEVICE"})
  /\ \E v \in ArgAt(t + 2) :
       IF v \notin E.value[tokens[t]]
       THEN Refuse(t + 2)
       ELSE /\ Finish(t + 3) /\ Configure(tokens[t]) /\ Ran
            /\ tim' = (tim \/ (exec_mode \in Clocked /\ tokens[t] = "FREQUENCY" /\ v # Illegal))
            /\ UNCHANGED modes
  /\ UNCHANGED parsed

(* Fault: the driver is set up before the number is taken over.            *)
SetsUpFirst(d) == SetUp(dev_num) /\ dev_num' = d

Select(d) == SetUp(d) /\ dev_num' = d

ChooseDevice ==
  /\ AtExec({"DEVICE"} \cap DOMAIN E.value)
  /\ \E v \in ArgAt(t + 2) :
       IF v \notin E.value.DEVICE
       THEN Refuse(t + 2)
       ELSE /\ Select(v - 1) /\ GoOn(t + 3) /\ Ran
            /\ UNCHANGED <<console_mode, exec_mode, level, tim>>
  /\ UNCHANGED parsed

(* brute: its kind and a number follow.                                    *)
Sub ==
  /\ AtExec(DOMAIN E.sub)
  /\ \E v \in ArgAt(t + 3) :
       IF v \notin E.sub[tokens[t]]
       THEN Refuse(t)
       ELSE Finish(t + 4) /\ Ran /\ UNCHANGED <<modes, hardware>>
  /\ UNCHANGED parsed

(* tck and its like take only a number, but it is looked for where that of *)
(* brute is.                                                               *)
Pin ==
  /\ AtExec(DOMAIN E.pin)
  /\ \E v \in ArgAt(t + 3) :
       IF v \notin E.pin[tokens[t]]
       THEN Refuse(t)
       ELSE /\ GoOn(t + 4) /\ ran' = Append(ran, t) /\ upset' = TRUE
            /\ UNCHANGED <<modes, hardware>>
  /\ UNCHANGED parsed

(* The token after the trigger's own is skipped.                           *)
LinTrigger ==
  /\ AtExec({"TRIGGER"} \cap Known) /\ GoOn(TriggerEnd(t + 1) + 1)
  /\ ran' = Append(ran, t) /\ upset' = TRUE
  /\ UNCHANGED <<parsed, modes, hardware>>

-----------------------------------------------------------------------------
Init ==
  /\ tokens = [p \in 0 .. Words - 1 |-> "0"]
  /\ args = [k \in DOMAIN OffsetToken |-> 0]
  /\ phase = "idle" /\ t = 0 /\ token_pos = 0 /\ entering = FALSE
  /\ console_mode = "top" /\ exec_mode = "none" /\ level = 0 /\ dev_num = 0
  /\ on = {} /\ tim = FALSE /\ stray = {}
  /\ line = Line(<<>>) /\ ran = <<>> /\ upset = FALSE /\ lines = 0

(* Nothing but a reset helps a board that waits for a stopped timer.       *)
PowerUp ==
  /\ phase = "hung"
  /\ tokens' = [p \in DOMAIN tokens |-> "0"] /\ args' = [k \in DOMAIN args |-> 0]
  /\ EndLine
  /\ console_mode' = "top" /\ exec_mode' = "none" /\ level' = 0 /\ dev_num' = 0
  /\ on' = {} /\ tim' = FALSE /\ stray' = {}
  /\ line' = Line(<<>>) /\ ran' = <<>> /\ upset' = FALSE /\ lines' = 0

TypeLine == TypeRejected \/ TypeInMode \/ TypeAtTop

LineStep == LineOver \/ Mark \/ ReadOrDelay \/ Write \/ Trigger \/ Exit \/ CallExec

ExecStep == ExecOver \/ Show \/ FlagOrChoice \/ Value \/ ChooseDevice \/ Sub \/ Pin \/ LinTrigger

Next == TypeLine \/ LineStep \/ ExecStep \/ PowerUp

(* The walk is a loop of the console thread; nothing makes a user type.    *)
Spec == Init /\ [][Next]_vars /\ WF_vars(LineStep \/ ExecStep)

-----------------------------------------------------------------------------
(* Each command of a line is carried out once and in order, across all the *)
(* changes between the two loops; only a refused value, a repeat count     *)
(* over the buffer, a pin of JTAG or a trigger within LIN's own loop upset *)
(* this.                                                                   *)
EveryCommandOnce ==
  [][phase' = "idle" /\ phase \in {"line", "exec"} /\ ~upset' =>
       ran' = IF entering THEN Tail(line.starts) ELSE line.starts]_vars

(* The token level follows the prompt, whatever was run after exit; while  *)
(* the prompt of a mode waits, the device it names is set up, and the      *)
(* timer runs if the mode needs it.                                        *)
PromptIsReady ==
  phase = "idle" =>
    IF console_mode = "top" THEN level = 0
    ELSE /\ level = 1 /\ exec_mode = console_mode /\ Device(dev_num) \subseteq on
         /\ exec_mode \in Clocked => tim

(* At the top nothing is on but what a device command moved away from, or  *)
(* what was set up again after exit in the same line.                      *)
ExitSwitchesOff == phase = "idle" /\ console_mode = "top" => on \subseteq stray

(* The board waits for a stopped timer only when a command that clocks the *)
(* bus follows exit in its line.                                           *)
HangsOnlyAfterExit == phase = "hung" => AfterExit

(* Every line comes to its end, unless the board hangs.                    *)
LineEnds == phase \in {"line", "exec"} ~> phase \in {"idle", "hung"}
=============================================================================
