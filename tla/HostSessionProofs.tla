-------------------------- MODULE HostSessionProofs --------------------------
(***************************************************************************)
(* The console's counter of NULs, for every choice of the three counts.    *)
(* The console under the tools of HostSession is the console of Console:   *)
(* what is proved of it for every sequence of bytes holds for every set of *)
(* tools, whatever faults they meet.  Then the session itself: SInv says   *)
(* what is on the line and where the firmware is at every step of a run,   *)
(* and gives SessionInStep, HangsOnlyInMode and BackAtPrompt for every     *)
(* banner, identification, count of NULs and set of runs.                  *)
(***************************************************************************)
EXTENDS HostSession, SequenceTheorems, TLAPS

(* The counter never falls behind the run of NULs and never passes the     *)
(* largest count; both need each other, and the types of what is compared. *)
IInv == TypeOK /\ NulsReachBbio

(* No byte other than the NUL itself prolongs a run.                       *)
LEMMA MarksEndRuns ==
  ASSUME NEW c \in {SumpByte, SerprogByte}
  PROVE  Run(c) = 0
BY DEF Run, Nul, SumpByte, SerprogByte

(* Before the console has a thread both counts are 0.                      *)
LEMMA InitIInv == Init => IInv
<1> SUFFICES ASSUME Init PROVE IInv
  OBVIOUS
<1>1. BbioNuls \in Nat /\ BbioNuls > 0
  BY NulsAssumption
<1>2. usb \in BOOLEAN /\ at \in {"none", "prompt", "bbio", "sump", "serprog"}
  BY DEF Init
<1>3. i \in 0 .. (BbioNuls - 1) /\ nuls \in Nat /\ nuls < BbioNuls /\ nuls <= i
  BY <1>1 DEF Init
<1>4. QED
  BY <1>2, <1>3 DEF IInv, TypeOK, NulsReachBbio

(* Every step keeps the count ahead of the run and below its mark.         *)
LEMMA NextIInv == IInv /\ [Next]_vars => IInv'
<1> SUFFICES ASSUME IInv, [Next]_vars PROVE IInv'
  OBVIOUS
<1> USE DEF IInv, TypeOK, NulsReachBbio
<1>1. BbioNuls \in Nat /\ BbioNuls > 0
  BY NulsAssumption
<1>2. CASE UNCHANGED vars
  BY <1>2 DEF vars
<1>3. CASE Spawn
  BY <1>1, <1>3 DEF Spawn
<1>4. CASE ReadNul
  <2>1. CASE i + 1 = BbioNuls
    BY <1>1, <1>4, <2>1 DEF ReadNul, ResetCount, Enter
  <2>2. CASE i + 1 # BbioNuls
    BY <1>1, <1>4, <2>2 DEF ReadNul, Run
  <2>3. QED
    BY <2>1, <2>2
<1>5. CASE ReadSump
  <2>1. i' = i /\ usb' = usb /\ at' \in {at, "sump"} /\ nuls' = 0
    BY <1>5, MarksEndRuns DEF ReadSump, ReadMark, Enter
  <2>2. QED
    BY <1>1, <2>1
<1>6. CASE ReadSerprog
  <2>1. i' = i /\ usb' = usb /\ at' \in {at, "serprog"} /\ nuls' = 0
    BY <1>6, MarksEndRuns DEF ReadSerprog, ReadMark, Enter
  <2>2. QED
    BY <1>1, <2>1
<1>7. CASE ReadText \/ ReadSumpCommand
  BY <1>1, <1>7 DEF ReadText, ReadSumpCommand, Enter
<1>8. CASE Leave
  BY <1>1, <1>8 DEF Leave
<1>9. CASE Usb
  BY <1>9 DEF Usb
<1>10. QED
  BY <1>2, <1>3, <1>4, <1>5, <1>6, <1>7, <1>8, <1>9 DEF Next, ReadByte

(* Twenty NULs in a row reach BBIO whatever was read before, and would     *)
(* with any other three counts in this order.                              *)
THEOREM BbioWithinReach == Spec => []NulsReachBbio
<1>1. IInv => NulsReachBbio
  BY DEF IInv
<1>2. QED
  BY <1>1, InitIInv, NextIInv, PTL DEF Spec

(* The counter stays below the largest count: it never wraps.              *)
THEOREM TypeCorrect == Spec => []TypeOK
<1>1. IInv => TypeOK
  BY DEF IInv
<1>2. QED
  BY <1>1, InitIInv, NextIInv, PTL DEF Spec

-----------------------------------------------------------------------------

(* Each action of the composition is a step of the console or leaves it    *)
(* alone.                                                                  *)
LEMMA DeviceStep == Device => [Next]_vars
<1> SUFFICES ASSUME Device PROVE [Next]_vars
  OBVIOUS
<1>1. CASE SpawnConsole
  BY <1>1 DEF SpawnConsole, Next
<1>2. CASE ConsoleReads
  BY <1>2 DEF ConsoleReads, Next, ReadByte
<1>3. CASE DetachedReads
  BY <1>3 DEF DetachedReads, Next, ReadByte
<1>4. CASE MenuReads
  BY <1>4 DEF MenuReads, firmware, Next, vars
<1>5. CASE SpiReads \/ WriteRead \/ Payload \/ OtherReads
  BY <1>5 DEF SpiReads, WriteRead, Payload, OtherReads, firmware, vars
<1>6. QED
  BY <1>1, <1>2, <1>3, <1>4, <1>5 DEF Device

(* The tools touch the console only through the queues.                    *)
LEMMA SessionStep == [SessionNext]_allVars => [Next]_vars
<1> SUFFICES ASSUME [SessionNext]_allVars PROVE [Next]_vars
  OBVIOUS
<1>1. CASE UNCHANGED allVars
  BY <1>1 DEF allVars, firmware, vars
<1>2. CASE Device
  BY <1>2, DeviceStep
<1>3. CASE Open \/ HostStep
  BY <1>3 DEF Open, HostStep, Write, Flush, Read, NextPhase, firmware, vars
<1>4. CASE Raise \/ Kill \/ Types
  BY <1>4 DEF Raise, Kill, Types, firmware, vars
<1>5. CASE UsbEvent
  BY <1>5 DEF UsbEvent, Next
<1>6. CASE Button \/ ButtonInSniffer
  BY <1>6 DEF Button, ButtonInSniffer, Next, vars
<1>7. CASE BusTraffic
  BY <1>7 DEF BusTraffic, firmware, vars
<1>8. QED
  BY <1>1, <1>2, <1>3, <1>4, <1>5, <1>6, <1>7 DEF SessionNext

(* Whatever the tools do and however they die, the console only takes its  *)
(* own steps.                                                              *)
THEOREM ConsoleUnderTools == SessionSpec => Init /\ [][Next]_vars
<1>1. SessionInit => Init
  BY DEF SessionInit
<1>2. QED
  BY <1>1, SessionStep, PTL DEF SessionSpec

(* With any tools and faults, the NULs of BBIO are never missed.           *)
THEOREM NulsReachBbioInSession == SessionSpec => []NulsReachBbio
<1>1. IInv => NulsReachBbio
  BY DEF IInv
<1>2. SessionSpec => []IInv
  BY ConsoleUnderTools, InitIInv, NextIInv, PTL
<1>3. QED
  BY <1>1, <1>2, PTL
-----------------------------------------------------------------------------
(* The line and both its ends.  First the types.                           *)
SessionTypes ==
  /\ toDev \in Seq(Nat) /\ toHost \in Seq(Said)
  /\ fw \in {"menu", "spi", "sniff"} /\ need \in Nat /\ rx \in Nat
  /\ tool \in Tools /\ params \in [pol : 0 .. 1, pha : 0 .. 1] /\ body \in Seq(Commands)
  /\ phase \in {"off", "enter", "body", "cleanup"} /\ cmd \in Nat \ {0} /\ pc \in Nat \ {0}
  /\ result \in {"none", "done", "failed"}

(* What the firmware and a run are in goes together.                       *)
Control ==
  /\ at # "bbio" => fw = "menu" /\ need = 0
  /\ need > 0 => fw = "spi"
  /\ at = "bbio" => i = 0
  /\ phase # "off" => usb
  /\ phase \in {"enter", "body"} => result = "none"
  /\ result = "done" => phase = "off" /\ usb

(* Where the identification of SPI mode begins, all of it follows.         *)
WholeIds == \A p \in 1 .. Len(toHost) : toHost[p] = Id[1] => p + Len(Id) - 1 <= Len(toHost)

NoId == \A p \in 1 .. Len(toHost) : toHost[p] # Id[1]

(* Of the NULs sent, the first u bytes under way are unread; the console   *)
(* has counted the others, or is out of its prompt.                        *)
Knocked(sent, u) ==
  /\ u \in 0 .. sent
  /\ \A k \in 1 .. u : toDev[k] = 0
  /\ at = "prompt" => i + u >= sent
  /\ at = "none" => u = sent

(* The NULs are being sent, or the banner is waited for: what is left of   *)
(* an earlier run is too short for an identification behind a banner.  The *)
(* sniffer leaves the NULs where they are.                                 *)
Knocking ==
  /\ fw = "sniff" \/ Knocked(pc - 1, Len(toDev))
  /\ \A p \in 1 .. Len(toHost) : toHost[p] = Id[1] => p <= Len(Banner)
  /\ at = "bbio" /\ fw = "menu" => Len(toDev) = pc - 1 \/ Len(toHost) >= Len(Banner)

(* A banner was read, fresh or stale.                                      *)
Heard == (fw = "sniff" \/ Knocked(HostNuls, Len(toDev))) /\ NoId

(* SPI mode was asked for: its identification, when there is one, is the   *)
(* last that the board said, and nothing else is under way.  The sniffer   *)
(* says none.                                                              *)
Asked ==
  \/ fw = "sniff" /\ NoId
  \/ /\ Len(toDev) > 0 /\ toDev[Len(toDev)] = 1
     /\ Knocked(HostNuls, Len(toDev) - 1) /\ NoId
  \/ /\ Len(toDev) = 0 /\ (fw = "spi" \/ at \in {"sump", "serprog"})
     /\ \A p \in 1 .. Len(toHost) : toHost[p] = Id[1] => InSpi /\ p = Len(toHost) - Len(Id) + 1

(* Nothing under way and the firmware waits for a command ...              *)
Quiet == InSpi /\ Len(toDev) = 0 /\ Len(toHost) = 0

(* ... or the byte of one, or its answer, is under way ...                 *)
Acked(b) == b \in {2, 3} \/ b \in 96 .. 103 \/ b >= 128

Answering ==
  /\ InSpi
  /\ \/ /\ Len(toDev) = 1 /\ Len(toHost) = 0
        /\ Acked(toDev[1])
     \/ Len(toDev) = 0 /\ Len(toHost) = 1 /\ toHost[1] = "ok"

(* ... or a WRITE_READ of which p bytes of payload were sent: it was not   *)
(* taken up yet, or waits for what is still to come, or is answered ...    *)
Sending(c, p) ==
  /\ at = "bbio" /\ fw = "spi"
  /\ \/ /\ need = 0 /\ Len(toHost) = 0 /\ Len(toDev) = 3 + p
        /\ toDev[1] = 4 /\ toDev[2] = c.tx + c.data /\ toDev[3] = c.rx
     \/ need > 0 /\ Len(toHost) = 0 /\ need + p = c.tx + c.data + Len(toDev) /\ rx = c.rx
     \/ /\ need = 0 /\ Len(toDev) = 0 /\ p = c.tx + c.data
        /\ Len(toHost) = 1 + c.rx /\ toHost[1] = "ok" /\ \A k \in 2 .. 1 + c.rx : toHost[k] = "d"

(* ... or what the chip sent.                                              *)
Receiving(c) == InSpi /\ Len(toDev) = 0 /\ Len(toHost) = c.rx /\ \A k \in 1 .. c.rx : toHost[k] = "d"

(* What __enter__ and setup have left at each of their steps.              *)
Entering ==
  phase = "enter" =>
    /\ pc <= HostNuls + IF tool = "HydraSPI" THEN 11 ELSE 7
    /\ pc <= HostNuls + 1 => Knocking
    /\ pc \in {HostNuls + 2, HostNuls + 3} => Heard
    /\ pc = HostNuls + 4 => Asked
    /\ pc \in {HostNuls + 5, HostNuls + 7, HostNuls + 9, HostNuls + 11} => Quiet
    /\ pc \in {HostNuls + 6, HostNuls + 8, HostNuls + 10} => Answering

(* What a command has left at each of its steps.                           *)
InCommand(c) ==
  IF c.tx = 0 THEN pc <= 3 /\ (pc = 2 => Answering) /\ (pc = 3 => Quiet)
  ELSE /\ pc <= 6
       /\ pc = 2 => Sending(c, 0)
       /\ pc = 3 => Sending(c, c.tx)
       /\ pc = 4 => Sending(c, c.tx + c.data)
       /\ pc = 5 => Receiving(c)
       /\ pc = 6 => Quiet

Commanding ==
  phase = "body" =>
    /\ pc = 1 => Quiet
    /\ cmd \in 1 .. Len(body) + 1
    /\ IF cmd <= Len(body) THEN InCommand(body[cmd]) ELSE pc = 1

(* The bytes of one or two cleanups: how many the steps before p have      *)
(* sent, and where the firmware is when it has read all but the last.      *)
Farewell == <<0, 15, 10, 0, 15, 10>>
SentBefore(p) == <<0, 1, IF tool = "HydraSPI" THEN 2 ELSE 3, 4, 6>>[p]
LastStep == Len(Leaving(tool, body)) + 1

Left(sent) ==
  /\ Len(toDev) <= sent
  /\ \A k \in 1 .. Len(toDev) : toDev[k] = Farewell[sent - Len(toDev) + k]
  /\ sent - Len(toDev) = 0 => InSpi
  /\ sent - Len(toDev) = 1 => at = "bbio" /\ fw = "menu"
  /\ sent - Len(toDev) \in {2, 3, 5, 6} => at = "prompt" /\ i = 0
  /\ sent - Len(toDev) = 4 => at = "prompt" \/ (at = "bbio" /\ fw = "menu")

Parting ==
  /\ phase = "cleanup" /\ result = "none" => pc <= LastStep /\ Left(SentBefore(pc))
  /\ result = "done" => Left(SentBefore(LastStep))

SInv ==
  /\ IInv /\ SessionTypes /\ Control /\ WholeIds
  /\ Entering /\ Commanding /\ Parting

-----------------------------------------------------------------------------
(* The line.  What is left when n bytes were taken from the front ...      *)
LEMMA Rest ==
  ASSUME NEW S, NEW q \in Seq(S), NEW n \in 0 .. Len(q)
  PROVE  /\ SubSeq(q, n + 1, Len(q)) \in Seq(S)
         /\ Len(SubSeq(q, n + 1, Len(q))) = Len(q) - n
         /\ \A k \in 1 .. Len(q) - n : SubSeq(q, n + 1, Len(q))[k] = q[k + n]
<1>1. Len(q) \in Nat /\ \A k \in n + 1 .. Len(q) : q[k] \in S
  OBVIOUS
<1>2. n + 1 \in Int /\ Len(q) \in Int
  BY <1>1
<1>3. /\ SubSeq(q, n + 1, Len(q)) \in Seq(S)
      /\ Len(SubSeq(q, n + 1, Len(q))) = IF n + 1 <= Len(q) THEN Len(q) - (n + 1) + 1 ELSE 0
      /\ \A k \in 1 .. Len(q) - (n + 1) + 1 : SubSeq(q, n + 1, Len(q))[k] = q[(n + 1) + k - 1]
  BY <1>1, <1>2, SubSeqProperties
<1>4. \A k \in Int : (n + 1) + k - 1 = k + n
  BY <1>1
<1>5. Len(q) - (n + 1) + 1 = Len(q) - n
  BY <1>1
<1>6. ASSUME NEW k \in 1 .. Len(q) - n PROVE SubSeq(q, n + 1, Len(q))[k] = q[k + n]
  <2>1. k \in 1 .. Len(q) - (n + 1) + 1 /\ (n + 1) + k - 1 = k + n
    BY <1>1, <1>4, <1>5
  <2>2. SubSeq(q, n + 1, Len(q))[k] = q[(n + 1) + k - 1]
    BY <1>3, <2>1
  <2>3. QED
    BY <2>1, <2>2
<1>7. Len(SubSeq(q, n + 1, Len(q))) = Len(q) - n
  BY <1>1, <1>3
<1>8. QED
  BY <1>3, <1>6, <1>7

(* ... the bytes that were taken ...                                       *)
LEMMA Taken ==
  ASSUME NEW S, NEW q \in Seq(S), NEW n \in 0 .. Len(q)
  PROVE  /\ SubSeq(q, 1, n) \in Seq(S) /\ Len(SubSeq(q, 1, n)) = n
         /\ \A k \in 1 .. n : SubSeq(q, 1, n)[k] = q[k]
<1>1. Len(q) \in Nat /\ \A k \in 1 .. n : q[k] \in S
  OBVIOUS
<1>2. /\ SubSeq(q, 1, n) \in Seq(S)
      /\ Len(SubSeq(q, 1, n)) = IF 1 <= n THEN n - 1 + 1 ELSE 0
      /\ \A k \in 1 .. n - 1 + 1 : SubSeq(q, 1, n)[k] = q[1 + k - 1]
  BY <1>1, SubSeqProperties
<1>3. (\A k \in Int : 1 + k - 1 = k) /\ n - 1 + 1 = n
  BY <1>1
<1>4. QED
  BY <1>1, <1>2, <1>3

(* ... and what follows it when more is put at the end.                    *)
LEMMA Joined ==
  ASSUME NEW S, NEW q \in Seq(S), NEW w \in Seq(S)
  PROVE  /\ q \o w \in Seq(S) /\ Len(q \o w) = Len(q) + Len(w)
         /\ \A k \in 1 .. Len(q) : (q \o w)[k] = q[k]
         /\ \A k \in 1 .. Len(w) : (q \o w)[Len(q) + k] = w[k]
<1>1. Len(q) \in Nat /\ Len(w) \in Nat
  OBVIOUS
<1>2. /\ q \o w \in Seq(S) /\ Len(q \o w) = Len(q) + Len(w)
      /\ \A k \in 1 .. Len(q) + Len(w) : (q \o w)[k] = IF k <= Len(q) THEN q[k] ELSE w[k - Len(q)]
  BY ConcatProperties
<1>3. ASSUME NEW k \in 1 .. Len(w) PROVE (q \o w)[Len(q) + k] = w[k]
  <2>1. Len(q) + k \in 1 .. Len(q) + Len(w) /\ ~(Len(q) + k <= Len(q)) /\ Len(q) + k - Len(q) = k
    BY <1>1
  <2>2. QED
    BY <1>2, <2>1
<1>4. QED
  BY <1>1, <1>2, <1>3

(* An empty line is the empty sequence.                                    *)
LEMMA NoBytes ==
  ASSUME NEW S, NEW q \in Seq(S)
  PROVE  q = <<>> <=> Len(q) = 0
OBVIOUS

Shifted(n) ==
  /\ toDev' \in Seq(Nat) /\ Len(toDev) >= n /\ Len(toDev') = Len(toDev) - n
  /\ \A k \in 1 .. Len(toDev) - n : toDev'[k] = toDev[k + n]

Added(w) ==
  /\ toHost' \in Seq(Said) /\ Len(toHost') = Len(toHost) + Len(w)
  /\ \A k \in 1 .. Len(toHost) : toHost'[k] = toHost[k]
  /\ \A k \in 1 .. Len(w) : toHost'[Len(toHost) + k] = w[k]

(* The firmware takes from the front of one queue ...                      *)
LEMMA TakeShifts ==
  ASSUME toDev \in Seq(Nat), NEW n \in Nat \ {0}, Take(n)
  PROVE  Shifted(n) /\ toDev # <<>> /\ Head(toDev) = toDev[1] /\ toDev[1] \in Nat
<1>1. n \in 0 .. Len(toDev) /\ toDev' = SubSeq(toDev, n + 1, Len(toDev))
  BY DEF Take
<1>2. toDev # <<>> /\ Head(toDev) = toDev[1] /\ toDev[1] \in Nat
  BY <1>1
<1>3. QED
  BY <1>1, <1>2, Rest DEF Shifted

(* ... and adds to the end of the other.                                   *)
LEMMA SayAdds ==
  ASSUME toHost \in Seq(Said), NEW w \in Seq(Said), Say(w)
  PROVE  Added(w)
<1>1. toHost' = toHost \o w
  BY DEF Say
<1>2. QED
  BY <1>1, Joined DEF Added

(* What can be said.                                                       *)
LEMMA Utterances ==
  /\ Banner \in Seq(Said) /\ Id \in Seq(Said) /\ <<>> \in Seq(Said)
  /\ <<"t">> \in Seq(Said) /\ <<"h">> \in Seq(Said) /\ Ok \in Seq(Said)
<1>1. {"ok", "d", "t", "h", "s"} \subseteq Said
  BY DEF Said
<1>2. QED
  BY <1>1, SessionAssumption DEF Ok

(* The chip's bytes.                                                       *)
LEMMA DataSaid ==
  ASSUME NEW n \in Nat
  PROVE  Data(n) \in Seq(Said) /\ Len(Data(n)) = n /\ \A k \in 1 .. n : Data(n)[k] = "d"
<1>1. "d" \in Said
  BY DEF Said
<1>2. QED
  BY <1>1 DEF Data

(* The answer of a WRITE_READ: ok and the chip's bytes.                    *)
LEMMA AnswerSaid ==
  ASSUME NEW n \in Nat
  PROVE  /\ Ok \o Data(n) \in Seq(Said) /\ Len(Ok \o Data(n)) = n + 1
         /\ (Ok \o Data(n))[1] = "ok"
         /\ \A k \in 2 .. n + 1 : (Ok \o Data(n))[k] = "d"
<1>1. Ok \in Seq(Said) /\ Len(Ok) = 1 /\ Ok[1] = "ok"
  BY Utterances DEF Ok
<1>2. /\ Ok \o Data(n) \in Seq(Said) /\ Len(Ok \o Data(n)) = 1 + n
      /\ \A k \in 1 .. 1 : (Ok \o Data(n))[k] = Ok[k]
      /\ \A k \in 1 .. n : (Ok \o Data(n))[1 + k] = Data(n)[k]
  BY <1>1, DataSaid, Joined
<1>3. ASSUME NEW k \in 2 .. n + 1 PROVE (Ok \o Data(n))[k] = "d"
  <2>1. k - 1 \in 1 .. n /\ 1 + (k - 1) = k
    OBVIOUS
  <2>2. QED
    BY <1>2, <2>1, DataSaid
<1>4. QED
  BY <1>1, <1>2, <1>3

-----------------------------------------------------------------------------
(* What a step of the firmware does, in positions of the queues.           *)
Same == UNCHANGED <<usb, fw, need, rx>>

Starts == at = "none" /\ at' = "prompt" /\ i' = 0 /\ Same /\ UNCHANGED <<toDev, toHost>>

Announces ==
  /\ at = "prompt" /\ toDev[1] = 0 /\ Shifted(1) /\ Added(Banner)
  /\ i + 1 = BbioNuls /\ at' = "bbio" /\ i' = 0 /\ Same

Counts ==
  /\ at = "prompt" /\ toDev[1] = 0 /\ Shifted(1) /\ UNCHANGED toHost
  /\ at' = "prompt" /\ i' = i + 1 /\ Same

Echoes ==
  /\ at = "prompt" /\ toDev[1] # 0 /\ Shifted(1) /\ Added(<<"t">>)
  /\ at' \in {"prompt", "sump", "serprog"} /\ Same
  /\ toDev[1] \in {1, 10, 15} => at' = "prompt" /\ i' = 0

Answers ==
  /\ at = "bbio" /\ need = 0 /\ Shifted(1) /\ UNCHANGED <<usb, i, need, rx>>
  /\ \/ fw = "menu" /\ toDev[1] = 0 /\ Added(Banner) /\ UNCHANGED <<at, fw>>
     \/ fw = "menu" /\ toDev[1] = 1 /\ Added(Id) /\ fw' = "spi" /\ UNCHANGED at
     \/ fw = "menu" /\ toDev[1] = 15 /\ Added(<<"h">>) /\ at' = "prompt" /\ UNCHANGED fw
     \/ fw = "spi" /\ toDev[1] = 0 /\ Added(Banner) /\ fw' = "menu" /\ UNCHANGED at
     \/ fw = "spi" /\ toDev[1] = 1 /\ Added(Id) /\ UNCHANGED <<at, fw>>
     \/ /\ fw = "spi" /\ Acked(toDev[1])
        /\ Added(Ok) /\ UNCHANGED <<at, fw>>
     \/ fw = "spi" /\ toDev[1] \in Sniffs /\ Added(Ok) /\ fw' = "sniff" /\ UNCHANGED at
     \/ /\ fw = "spi" /\ toDev[1] \notin {0, 1, 4} \cup Sniffs /\ ~Acked(toDev[1])
        /\ UNCHANGED <<at, fw, toHost>>

Begins ==
  /\ InSpi /\ toDev[1] = 4 /\ Shifted(3) /\ UNCHANGED <<usb, at, i, fw, toHost>>
  /\ need' = toDev[2] /\ rx' = toDev[3]

Fills ==
  /\ need > 0 /\ Shifted(1) /\ need' = need - 1 /\ UNCHANGED <<usb, at, i, fw, rx>>
  /\ IF need = 1 THEN Added(Ok \o Data(rx)) ELSE UNCHANGED toHost

Swallows ==
  /\ at \in {"sump", "serprog"} /\ Shifted(1) /\ UNCHANGED <<usb, at, i, toHost>> /\ Same

Effect == Starts \/ Announces \/ Counts \/ Echoes \/ Answers \/ Begins \/ Fills \/ Swallows

(* These are all the steps it takes, but for those on a lost USB.          *)
LEMMA DeviceEffect ==
  ASSUME SessionTypes, Control, Device, ~DetachedReads
  PROVE  Effect /\ UNCHANGED host
<1> USE DEF Same
<1>1. toDev \in Seq(Nat) /\ toHost \in Seq(Said) /\ rx \in Nat /\ need \in Nat /\ fw \in {"menu", "spi", "sniff"}
  BY DEF SessionTypes
<1>2. CASE SpawnConsole
  BY <1>2 DEF SpawnConsole, Spawn, Starts, Effect
<1>3. CASE ConsoleReads
  <2>1. Take(1) /\ Shifted(1) /\ toDev # <<>> /\ Head(toDev) = toDev[1] /\ toDev[1] \in Nat
    BY <1>1, <1>3, TakeShifts DEF ConsoleReads
  <2>2. Same /\ UNCHANGED host
    BY <1>3, <2>1 DEF ConsoleReads, ReadNul, ReadSump, ReadSerprog, ReadMark, ReadText, ReadSumpCommand
  <2>3. CASE toDev[1] = 0
    <3>1. AsByte(Head(toDev)) = Nul
      BY <2>1, <2>3 DEF AsByte, Nul
    <3>2. ReadNul
      BY <1>3, <3>1 DEF ConsoleReads, Nul, SumpByte, SerprogByte, Text, Command
    <3>3. CASE i + 1 = BbioNuls
      <4>1. at' = "bbio" /\ i' = 0 /\ at = "prompt"
        BY <3>2, <3>3 DEF ReadNul, ResetCount, Enter
      <4>2. Say(Banner)
        BY <1>3, <4>1 DEF ConsoleReads
      <4>3. Added(Banner)
        BY <1>1, <4>2, SayAdds, Utterances
      <4>4. QED
        BY <2>1, <2>2, <2>3, <3>3, <4>1, <4>3 DEF Announces, Effect
    <3>4. CASE i + 1 # BbioNuls
      <4>1. at' = "prompt" /\ i' = i + 1 /\ at = "prompt"
        BY <3>2, <3>4 DEF ReadNul
      <4>2. Say(<<>>)
        BY <1>3, <4>1, <2>1, <2>3 DEF ConsoleReads, Nul
      <4>3. toHost' = toHost
        BY <1>1, <4>2 DEF Say
      <4>4. QED
        BY <2>1, <2>2, <2>3, <4>1, <4>3 DEF Counts, Effect
    <3>5. QED
      BY <3>3, <3>4
  <2>4. CASE toDev[1] # 0
    <3>1. AsByte(Head(toDev)) # Nul /\ (toDev[1] \in {1, 10, 15} => AsByte(Head(toDev)) = Text)
      BY <2>1, <2>4 DEF AsByte, Nul, SumpByte, SerprogByte, Text, Command
    <3>2. \/ AsByte(Head(toDev)) = SumpByte /\ ReadSump
          \/ AsByte(Head(toDev)) = SerprogByte /\ ReadSerprog
          \/ AsByte(Head(toDev)) = Text /\ ReadText
          \/ AsByte(Head(toDev)) = Command /\ ReadSumpCommand
      BY <1>3, <3>1 DEF ConsoleReads
    <3>3. ASSUME ReadSump \/ ReadSerprog \/ ReadSumpCommand
          PROVE  at = "prompt" /\ at' \in {"prompt", "sump", "serprog"}
      BY <3>3 DEF ReadSump, ReadSerprog, ReadMark, ReadSumpCommand, Enter
    <3>4. ASSUME ReadText PROVE at = "prompt" /\ at' = "prompt" /\ i' = 0
      BY <3>4 DEF ReadText
    <3>5. /\ at = "prompt" /\ at' \in {"prompt", "sump", "serprog"}
          /\ toDev[1] \in {1, 10, 15} => at' = "prompt" /\ i' = 0
      BY <3>1, <3>2, <3>3, <3>4 DEF SumpByte, SerprogByte, Text, Command
    <3>6. Say(<<"t">>)
      BY <1>3, <3>5, <2>1, <2>4 DEF ConsoleReads, Nul
    <3>7. Added(<<"t">>)
      BY <1>1, <3>6, SayAdds, Utterances
    <3>8. QED
      BY <2>1, <2>2, <2>4, <3>5, <3>7 DEF Echoes, Effect
  <2>5. QED
    BY <2>3, <2>4
<1>5. CASE MenuReads
  <2>1. Take(1) /\ Shifted(1) /\ Head(toDev) = toDev[1] /\ at = "bbio" /\ fw = "menu" /\ need = 0 /\ UNCHANGED host
    BY <1>1, <1>5, TakeShifts DEF MenuReads, Control
  <2>2. CASE Head(toDev) = 0 /\ Say(Banner) /\ UNCHANGED firmware
    BY <1>1, <2>1, <2>2, SayAdds, Utterances DEF Answers, Effect, firmware
  <2>3. CASE /\ Head(toDev) = 1 /\ Say(Id)
             /\ fw' = "spi" /\ UNCHANGED <<usb, at, i, nuls, need, rx>>
    BY <1>1, <2>1, <2>3, SayAdds, Utterances DEF Answers, Effect
  <2>4. CASE Head(toDev) = 15 /\ Say(<<"h">>) /\ Leave /\ UNCHANGED <<fw, spi, need, rx>>
    BY <1>1, <2>1, <2>4, SayAdds, Utterances DEF Answers, Effect, Leave
  <2>5. QED
    BY <1>5, <2>2, <2>3, <2>4 DEF MenuReads
<1>6. CASE SpiReads
  <2> DEFINE b == Head(toDev)
  <2>1. /\ Take(1) /\ Shifted(1) /\ b = toDev[1] /\ b \in Nat /\ b # 4
        /\ at = "bbio" /\ fw = "spi" /\ need = 0
        /\ UNCHANGED <<usb, at, i, need, rx, host>>
        /\ fw' = CASE b = 0 -> "menu" [] b \in Sniffs -> "sniff" [] OTHER -> "spi"
    <3>1. Take(1)
      BY <1>6 DEF SpiReads
    <3>2. Shifted(1) /\ b = toDev[1] /\ b \in Nat
      BY <1>1, <3>1, TakeShifts
    <3> HIDE DEF b
    <3>3. QED
      BY <1>6, <3>1, <3>2 DEF SpiReads, InSpi, b
  <2>2. CASE b = 0
    <3>1. Say(Banner)
      BY <1>6, <2>2 DEF SpiReads, Sniffs
    <3>2. fw' = "menu"
      BY <2>1, <2>2 DEF Sniffs
    <3>3. QED
      BY <1>1, <2>1, <2>2, <3>1, <3>2, SayAdds, Utterances DEF Answers, Effect
  <2>3. CASE b = 1
    <3>1. Say(Id)
      BY <1>6, <2>3 DEF SpiReads, Sniffs
    <3>2. fw' = "spi"
      BY <2>1, <2>3 DEF Sniffs
    <3>3. QED
      BY <1>1, <2>1, <2>3, <3>1, <3>2, SayAdds, Utterances DEF Answers, Effect
  <2>4. CASE Acked(b) \/ b \in Sniffs
    <3>1. b # 0 /\ b # 1 /\ ~(Acked(b) /\ b \in Sniffs)
      BY <2>4 DEF Acked, Sniffs
    <3>2. Say(Ok)
      BY <1>6, <2>4, <3>1 DEF SpiReads, Acked
    <3>3. Added(Ok)
      BY <1>1, <3>2, SayAdds, Utterances
    <3>4. fw' = IF b \in Sniffs THEN "sniff" ELSE "spi"
      BY <2>1, <3>1
    <3>5. QED
      BY <2>1, <2>4, <3>1, <3>3, <3>4 DEF Answers, Effect
  <2>5. CASE b # 0 /\ b # 1 /\ ~Acked(b) /\ b \notin Sniffs
    <3>1. Say(<<>>)
      BY <1>6, <2>5 DEF SpiReads, Acked
    <3>2. toHost' = toHost
      BY <1>1, <3>1 DEF Say
    <3>3. fw' = "spi"
      BY <2>1, <2>5
    <3>4. QED
      BY <2>1, <2>5, <3>2, <3>3 DEF Answers, Effect
  <2>6. QED
    BY <2>2, <2>3, <2>4, <2>5
<1>7. CASE WriteRead
  <2>1. Take(3) /\ Shifted(3) /\ Head(toDev) = toDev[1]
    BY <1>1, <1>7, TakeShifts DEF WriteRead
  <2>2. QED
    BY <1>7, <2>1 DEF WriteRead, Begins, Effect
<1>8. CASE Payload
  <2>1. Shifted(1)
    BY <1>1, <1>8, TakeShifts DEF Payload
  <2>2. IF need = 1 THEN Added(Ok \o Data(rx)) ELSE UNCHANGED toHost
    BY <1>1, <1>8, SayAdds, AnswerSaid DEF Payload
  <2>3. QED
    BY <1>8, <2>1, <2>2 DEF Payload, Fills, Effect
<1>9. CASE OtherReads
  <2>1. Shifted(1)
    BY <1>1, <1>9, TakeShifts DEF OtherReads
  <2>2. QED
    BY <1>9, <2>1 DEF OtherReads, Swallows, Effect, firmware
<1>10. QED
  BY <1>2, <1>3, <1>5, <1>6, <1>7, <1>8, <1>9 DEF Device

-----------------------------------------------------------------------------
(* Nothing that begins an identification was said ...                      *)
Plain ==
  /\ toHost' \in Seq(Said) /\ Len(toHost') >= Len(toHost)
  /\ \A p \in 1 .. Len(toHost') : toHost'[p] = Id[1] => p \in 1 .. Len(toHost) /\ toHost[p] = Id[1]

(* ... or one identification was.                                          *)
SaysId ==
  /\ toHost' \in Seq(Said) /\ Len(toHost') = Len(toHost) + Len(Id)
  /\ \A p \in 1 .. Len(toHost') : toHost'[p] = Id[1] =>
       (p \in 1 .. Len(toHost) /\ toHost[p] = Id[1]) \/ p = Len(toHost) + 1

(* What has no first byte of the identification adds none.                 *)
LEMMA AddsPlain ==
  ASSUME toHost \in Seq(Said), NEW w \in Seq(Said), Added(w), \A k \in 1 .. Len(w) : w[k] # Id[1]
  PROVE  Plain
<1>1. Len(toHost) \in Nat /\ Len(w) \in Nat
  OBVIOUS
<1>2. ASSUME NEW p \in 1 .. Len(toHost'), toHost'[p] = Id[1]
      PROVE  p \in 1 .. Len(toHost) /\ toHost[p] = Id[1]
  <2>1. p \in 1 .. Len(toHost) + Len(w)
    BY <1>2 DEF Added
  <2>2. ASSUME p > Len(toHost) PROVE FALSE
    <3>1. p - Len(toHost) \in 1 .. Len(w) /\ Len(toHost) + (p - Len(toHost)) = p
      BY <1>1, <2>1, <2>2
    <3>2. toHost'[Len(toHost) + (p - Len(toHost))] = w[p - Len(toHost)]
      BY <3>1 DEF Added
    <3>3. toHost'[p] = w[p - Len(toHost)]
      BY <3>1, <3>2
    <3>4. QED
      BY <1>2, <3>1, <3>3
  <2>3. p \in 1 .. Len(toHost)
    BY <1>1, <2>1, <2>2
  <2>4. QED
    BY <1>2, <2>3 DEF Added
<1>3. QED
  BY <1>1, <1>2 DEF Added, Plain

(* The banner has none ...                                                 *)
LEMMA BannerPlain == ASSUME toHost \in Seq(Said), Added(Banner) PROVE Plain
<1>1. \A k \in 1 .. Len(Banner) : Banner[k] # Id[1]
  BY SessionAssumption
<1>2. QED
  BY <1>1, AddsPlain, Utterances

(* ... nor has an echo, an answer or what BBIO says when it is left ...    *)
LEMMA EchoPlain == ASSUME toHost \in Seq(Said), Added(<<"t">>) \/ Added(<<"h">>) \/ Added(Ok) PROVE Plain
<1>1. Id[1] \notin {"ok", "d", "t", "h", "s"}
  BY SessionAssumption
<1>2. CASE Added(<<"t">>)
  <2>1. \A k \in 1 .. Len(<<"t">>) : <<"t">>[k] # Id[1]
    BY <1>1
  <2>2. QED
    BY <1>2, <2>1, AddsPlain, Utterances
<1>3. CASE Added(<<"h">>)
  <2>1. \A k \in 1 .. Len(<<"h">>) : <<"h">>[k] # Id[1]
    BY <1>1
  <2>2. QED
    BY <1>3, <2>1, AddsPlain, Utterances
<1>4. CASE Added(Ok)
  <2>1. \A k \in 1 .. Len(Ok) : Ok[k] # Id[1]
    BY <1>1 DEF Ok
  <2>2. QED
    BY <1>4, <2>1, AddsPlain, Utterances
<1>5. QED
  BY <1>2, <1>3, <1>4

(* ... nor has what the sniffer prints ...                                 *)
LEMMA SniffedPlain == ASSUME toHost \in Seq(Said), Added(<<"s">>) PROVE Plain
<1>1. \A k \in 1 .. Len(<<"s">>) : <<"s">>[k] # Id[1]
  BY SessionAssumption
<1>2. <<"s">> \in Seq(Said)
  BY DEF Said
<1>3. QED
  BY <1>1, <1>2, AddsPlain

(* ... nor has what the chip sends.                                        *)
LEMMA AnswerPlain == ASSUME toHost \in Seq(Said), NEW n \in Nat, Added(Ok \o Data(n)) PROVE Plain
<1>1. Id[1] \notin {"ok", "d", "t", "h", "s"}
  BY SessionAssumption
<1> DEFINE w == Ok \o Data(n)
<1>2. w \in Seq(Said) /\ Len(w) = n + 1 /\ w[1] = "ok" /\ \A k \in 2 .. n + 1 : w[k] = "d"
  BY AnswerSaid
<1>3. Added(w)
  OBVIOUS
<1> HIDE DEF w
<1>4. \A k \in 1 .. Len(w) : w[k] # Id[1]
  BY <1>1, <1>2
<1>5. QED
  BY <1>2, <1>3, <1>4, AddsPlain

(* The identification adds one, at its beginning.                          *)
LEMMA IdSays == ASSUME toHost \in Seq(Said), Added(Id) PROVE SaysId
<1>1. Len(toHost) \in Nat /\ Len(Id) \in Nat
  BY Utterances
<1>2. ASSUME NEW p \in 1 .. Len(toHost'), toHost'[p] = Id[1]
      PROVE  (p \in 1 .. Len(toHost) /\ toHost[p] = Id[1]) \/ p = Len(toHost) + 1
  <2>1. p \in 1 .. Len(toHost) + Len(Id)
    BY <1>2 DEF Added
  <2>2. CASE p \in 1 .. Len(toHost)
    BY <1>2, <2>2 DEF Added
  <2>3. CASE p > Len(toHost) + 1
    <3>1. p - Len(toHost) \in 1 .. Len(Id) /\ Len(toHost) + (p - Len(toHost)) = p
      BY <1>1, <2>1, <2>3
    <3>2. Id[p - Len(toHost)] = Id[1]
      BY <1>2, <3>1 DEF Added
    <3>3. p - Len(toHost) \in 2 .. Len(Id)
      BY <1>1, <2>1, <2>3
    <3>4. QED
      BY <3>2, <3>3, SessionAssumption
  <2>4. QED
    BY <1>1, <2>1, <2>2, <2>3
<1>3. QED
  BY <1>1, <1>2 DEF Added, SaysId

(* Every step of the firmware says one or the other, and the               *)
(* identification only when it takes a 1 and is in SPI mode then.          *)
LEMMA DeviceSays ==
  ASSUME SessionTypes, Effect
  PROVE  \/ Plain
         \/ SaysId /\ Answers /\ toDev[1] = 1 /\ fw' = "spi" /\ at' = "bbio"
<1>1. toHost \in Seq(Said) /\ rx \in Nat
  BY DEF SessionTypes
<1>2. ASSUME UNCHANGED toHost PROVE Plain
  BY <1>1, <1>2 DEF Plain
<1>3. CASE Starts \/ Counts \/ Begins \/ Swallows
  BY <1>2, <1>3 DEF Starts, Counts, Begins, Swallows
<1>4. CASE Announces \/ Echoes
  BY <1>1, <1>4, BannerPlain, EchoPlain DEF Announces, Echoes
<1>5. CASE Fills
  BY <1>1, <1>2, <1>5, AnswerPlain DEF Fills
<1>6. CASE Answers
  <2>1. CASE Added(Id) /\ toDev[1] = 1 /\ fw' = "spi" /\ at' = "bbio"
    BY <1>1, <1>6, <2>1, IdSays
  <2>2. CASE Added(Banner) \/ Added(<<"h">>) \/ Added(Ok) \/ UNCHANGED toHost
    BY <1>1, <1>2, <2>2, BannerPlain, EchoPlain
  <2>3. QED
    BY <1>6, <2>1, <2>2 DEF Answers
<1>7. QED
  BY <1>3, <1>4, <1>5, <1>6 DEF Effect

-----------------------------------------------------------------------------
(* The firmware keeps the types and its own places.                        *)
LEMMA DeviceControl ==
  ASSUME IInv, IInv', SessionTypes, Control, Effect, UNCHANGED host
  PROVE  SessionTypes' /\ Control'
<1> USE DEF Same
<1>1. toDev \in Seq(Nat) /\ toHost \in Seq(Said) /\ rx \in Nat /\ need \in Nat /\ fw \in {"menu", "spi", "sniff"}
  BY DEF SessionTypes
<1>2. UNCHANGED <<tool, params, body, phase, cmd, pc, result>>
  BY DEF host, run
<1>3. toHost' \in Seq(Said)
  BY DeviceSays DEF Plain, SaysId
<1>4. usb' = usb
  BY DEF Effect, Starts, Announces, Counts, Echoes, Answers, Begins, Fills, Swallows
<1>5. toDev' \in Seq(Nat)
  BY <1>1 DEF Effect, Starts, Announces, Counts, Echoes, Answers, Begins, Fills, Swallows, Shifted
<1>6. /\ need' \in Nat /\ rx' \in Nat /\ fw' \in {"menu", "spi", "sniff"}
      /\ at' # "bbio" => fw' = "menu" /\ need' = 0
      /\ need' > 0 => fw' = "spi"
      /\ at' = "bbio" => i' = 0
  <2>1. CASE Starts \/ Counts \/ Swallows \/ Echoes \/ Announces
    BY <1>1, <2>1 DEF Starts, Counts, Swallows, Echoes, Announces, Control
  <2>2. CASE Answers
    BY <1>1, <2>2 DEF Answers, Control
  <2>3. CASE Begins
    <3>1. toDev[2] \in Nat /\ toDev[3] \in Nat
      BY <1>1, <2>3 DEF Begins, Shifted
    <3>2. QED
      BY <1>1, <2>3, <3>1 DEF Begins, InSpi, Control
  <2>4. CASE Fills
    BY <1>1, <2>4 DEF Fills, Control
  <2>5. QED
    BY <2>1, <2>2, <2>3, <2>4 DEF Effect
<1>7. SessionTypes'
  BY <1>2, <1>3, <1>5, <1>6 DEF SessionTypes
<1>8. Control'
  BY <1>2, <1>4, <1>6 DEF Control
<1>9. QED
  BY <1>7, <1>8

(* An identification is said whole.                                        *)
LEMMA SaidWhole ==
  ASSUME toHost \in Seq(Said), WholeIds, Plain \/ SaysId
  PROVE  WholeIds'
<1>1. Len(toHost) \in Nat /\ Len(toHost') \in Nat /\ Len(Id) \in Nat /\ Len(Id) > 0
  BY SessionAssumption DEF Plain, SaysId
<1>2. Len(toHost') >= Len(toHost)
  BY <1>1 DEF Plain, SaysId
<1>3. ASSUME NEW p \in 1 .. Len(toHost'), toHost'[p] = Id[1]
      PROVE  p + Len(Id) - 1 <= Len(toHost')
  <2>1. CASE p \in 1 .. Len(toHost) /\ toHost[p] = Id[1]
    <3>1. p + Len(Id) - 1 <= Len(toHost)
      BY <2>1 DEF WholeIds
    <3>2. QED
      BY <1>1, <1>2, <3>1
  <2>2. CASE SaysId /\ p = Len(toHost) + 1
    BY <1>1, <2>2 DEF SaysId
  <2>3. QED
    BY <1>3, <2>1, <2>2 DEF Plain, SaysId
<1>4. QED
  BY <1>3 DEF WholeIds

(* What is left after a read or a flush begins no identification that it   *)
(* does not hold whole.                                                    *)
LEMMA TakenWhole ==
  ASSUME toHost \in Seq(Said), WholeIds, NEW n \in 0 .. Len(toHost),
         toHost' = SubSeq(toHost, n + 1, Len(toHost))
  PROVE  /\ toHost' \in Seq(Said) /\ Len(toHost') = Len(toHost) - n
         /\ \A p \in 1 .. Len(toHost') : p + n \in 1 .. Len(toHost) /\ toHost'[p] = toHost[p + n]
         /\ WholeIds'
<1>1. Len(toHost) \in Nat /\ Len(Id) \in Nat
  BY Utterances
<1>2. /\ toHost' \in Seq(Said) /\ Len(toHost') = Len(toHost) - n
      /\ \A p \in 1 .. Len(toHost) - n : toHost'[p] = toHost[p + n]
  BY Rest
<1>3. \A p \in 1 .. Len(toHost') : p + n \in 1 .. Len(toHost) /\ toHost'[p] = toHost[p + n]
  BY <1>1, <1>2
<1>4. ASSUME NEW p \in 1 .. Len(toHost'), toHost'[p] = Id[1]
      PROVE  p + Len(Id) - 1 <= Len(toHost')
  <2>1. (p + n) + Len(Id) - 1 <= Len(toHost)
    BY <1>3, <1>4 DEF WholeIds
  <2>2. QED
    BY <1>1, <1>2, <2>1
<1>5. QED
  BY <1>2, <1>3, <1>4 DEF WholeIds

-----------------------------------------------------------------------------
(* The sniffer reads nothing.                                              *)
LEMMA SnifferIsDeaf ==
  ASSUME SessionTypes, Control, fw = "sniff"
  PROVE  ~Effect
<1>1. at = "bbio" /\ need = 0
  BY DEF Control, SessionTypes
<1>2. QED
  BY <1>1 DEF Effect, Starts, Announces, Counts, Echoes, Answers, Begins, Fills, Swallows, InSpi

(* The knocks: a NUL more is counted, or takes the console out of its      *)
(* prompt with a banner.                                                   *)
LEMMA KnockingHeard ==
  ASSUME IInv, IInv', SessionTypes, Control, Effect, UNCHANGED host, NEW sent \in Nat, Knocked(sent, Len(toDev))
  PROVE  /\ Knocked(sent, Len(toDev))' /\ Plain
         /\ at' = "bbio" /\ fw' = "menu" =>
              (at = "bbio" /\ fw = "menu" /\ Len(toDev') = Len(toDev)) \/ Len(toHost') >= Len(Banner)
<1> USE DEF Same
<1>1. /\ toDev \in Seq(Nat) /\ toHost \in Seq(Said) /\ need \in Nat /\ fw \in {"menu", "spi", "sniff"}
      /\ i \in Nat /\ Len(toDev) \in Nat /\ Len(toHost) \in Nat /\ Len(Banner) \in Nat
  BY Utterances, NulsAssumption DEF SessionTypes, IInv, TypeOK
<1>2. Len(toDev) > 0 => toDev[1] = 0
  BY <1>1 DEF Knocked
<1>3. Plain
  <2>1. Answers => Len(toDev) > 0
    BY <1>1 DEF Answers, Shifted
  <2>2. QED
    BY <1>2, <2>1, DeviceSays
<1>4. CASE Starts
  BY <1>1, <1>3, <1>4 DEF Starts, Knocked
<1>5. ASSUME Shifted(1) PROVE /\ Len(toDev) > 0 /\ toDev[1] = 0 /\ Len(toDev') = Len(toDev) - 1
                              /\ Len(toDev') \in 0 .. sent
                              /\ \A k \in 1 .. Len(toDev') : toDev'[k] = 0
  <2>1. Len(toDev) > 0 /\ Len(toDev') = Len(toDev) - 1 /\ Len(toDev) <= sent
    BY <1>1, <1>5 DEF Shifted, Knocked
  <2>2. ASSUME NEW k \in 1 .. Len(toDev') PROVE toDev'[k] = 0
    <3>1. k + 1 \in 1 .. Len(toDev) /\ k \in 1 .. Len(toDev) - 1
      BY <1>1, <2>1
    <3>2. QED
      BY <1>5, <3>1 DEF Shifted, Knocked
  <2>3. QED
    BY <1>1, <1>2, <2>1, <2>2
<1>6. CASE Announces
  <2>1. Len(toHost') >= Len(Banner)
    BY <1>1, <1>6 DEF Announces, Added
  <2>2. QED
    BY <1>3, <1>5, <1>6, <2>1 DEF Announces, Knocked
<1>7. CASE Counts
  BY <1>1, <1>3, <1>5, <1>7 DEF Counts, Knocked
<1>8. CASE Answers
  <2>1. Shifted(1) /\ toDev[1] = 0
    BY <1>5, <1>8 DEF Answers
  <2>2. at = "bbio" /\ at' = "bbio" /\ Added(Banner)
    BY <1>8, <2>1 DEF Answers, Acked, Sniffs
  <2>3. Len(toHost') >= Len(Banner)
    BY <1>1, <2>2 DEF Added
  <2>4. QED
    BY <1>3, <1>5, <2>1, <2>2, <2>3 DEF Knocked
<1>9. CASE Fills \/ Swallows
  BY <1>1, <1>3, <1>5, <1>9 DEF Fills, Swallows, Knocked, Control
<1>10. CASE Echoes
  BY <1>5, <1>10 DEF Echoes
<1>11. CASE Begins
  BY <1>1, <1>2, <1>11 DEF Begins, Shifted
<1>12. QED
  BY <1>4, <1>6, <1>7, <1>8, <1>9, <1>10, <1>11 DEF Effect

(* Every step but the start of the console takes what is first on the      *)
(* line.                                                                   *)
LEMMA EffectTakes ==
  ASSUME Effect, ~Starts
  PROVE  /\ Begins \/ Shifted(1)
         /\ toDev[1] = 0 => Announces \/ Counts \/ Answers \/ Fills \/ Swallows
         /\ toDev[1] # 0 => Echoes \/ Answers \/ Begins \/ Fills \/ Swallows
<1>1. Begins => toDev[1] = 4
  BY DEF Begins
<1>2. Echoes => toDev[1] # 0
  BY DEF Echoes
<1>3. Announces \/ Counts => toDev[1] = 0
  BY DEF Announces, Counts
<1>4. Announces \/ Counts \/ Echoes \/ Answers \/ Fills \/ Swallows => Shifted(1)
  BY DEF Announces, Counts, Echoes, Answers, Fills, Swallows
<1>5. QED
  BY <1>1, <1>2, <1>3, <1>4 DEF Effect

(* Where the console is after it took a NUL.                               *)
LEMMA NulTaken ==
  ASSUME Control, Effect, ~Starts, toDev[1] = 0
  PROVE  /\ at' # "none"
         /\ at' = "prompt" => Counts
<1>1. Announces \/ Counts \/ Answers \/ Fills \/ Swallows
  BY EffectTakes
<1>2. CASE Announces
  BY <1>2 DEF Announces
<1>3. CASE Counts
  BY <1>3 DEF Counts
<1>4. CASE Answers
  <2>1. at' = "bbio"
    BY <1>4 DEF Answers
  <2>2. QED
    BY <2>1
<1>5. CASE Fills
  <2>1. at = "bbio" /\ at' = at
    BY <1>5 DEF Fills, Control
  <2>2. QED
    BY <2>1
<1>6. CASE Swallows
  BY <1>6 DEF Swallows
<1>7. QED
  BY <1>1, <1>2, <1>3, <1>4, <1>5, <1>6

(* The three stages of entering that the firmware can move on in.          *)
LEMMA DeviceKnocking ==
  ASSUME IInv, IInv', SessionTypes, Control, Effect, UNCHANGED host, Knocking
  PROVE  Knocking'
<1>1. pc' = pc /\ pc - 1 \in Nat
  BY DEF host, SessionTypes
<1>2. toHost \in Seq(Said) /\ Len(toHost) \in Nat /\ Len(Banner) \in Nat
  BY Utterances DEF SessionTypes
<1> DEFINE sent == pc - 1
<1>3. Knocked(sent, Len(toDev))
  BY SnifferIsDeaf DEF Knocking
<1>4. sent \in Nat
  BY <1>1
<1>5. Knocked(pc - 1, Len(toDev))' /\ Plain
      /\ (at' = "bbio" /\ fw' = "menu" =>
            (at = "bbio" /\ fw = "menu" /\ Len(toDev') = Len(toDev)) \/ Len(toHost') >= Len(Banner))
  BY <1>1, <1>3, <1>4, KnockingHeard DEF Knocked
<1>6. \A p \in 1 .. Len(toHost') : toHost'[p] = Id[1] => p <= Len(Banner)
  BY <1>5 DEF Plain, Knocking
<1>7. at' = "bbio" /\ fw' = "menu" => Len(toDev') = pc' - 1 \/ Len(toHost') >= Len(Banner)
  BY <1>1, <1>2, <1>5 DEF Knocking, Plain
<1>8. QED
  BY <1>5, <1>6, <1>7 DEF Knocking

(* A banner was read, and the other NULs are read as they come.            *)
LEMMA DeviceHeard ==
  ASSUME IInv, IInv', SessionTypes, Control, Effect, UNCHANGED host, Heard
  PROVE  Heard'
<1>1. HostNuls \in Nat
  BY SessionAssumption
<1>2. Knocked(HostNuls, Len(toDev))' /\ Plain
  BY <1>1, SnifferIsDeaf, KnockingHeard DEF Heard
<1>3. NoId'
  BY <1>2 DEF Heard, NoId, Plain
<1>4. QED
  BY <1>2, <1>3 DEF Heard

(* The 1 finds the dispatcher, SPI mode or the payload of a command, but   *)
(* never the prompt: the NULs before it have been counted to the last.     *)
LEMMA DeviceAsked ==
  ASSUME IInv, IInv', SessionTypes, Control, WholeIds, Effect, UNCHANGED host, Asked
  PROVE  Asked'
<1> USE DEF Same
<1>1. /\ toDev \in Seq(Nat) /\ toHost \in Seq(Said) /\ need \in Nat /\ rx \in Nat /\ fw \in {"menu", "spi", "sniff"}
      /\ i \in Nat /\ i < BbioNuls /\ BbioNuls \in Nat /\ HostNuls \in Nat /\ HostNuls >= BbioNuls
      /\ Len(toDev) \in Nat /\ Len(toHost) \in Nat /\ Len(Id) \in Nat /\ Len(Id) > 0
  BY SessionAssumption, NulsAssumption DEF SessionTypes, IInv, TypeOK
<1>2. CASE Len(toDev) = 0
  <2>1. fw = "spi" \/ at \in {"sump", "serprog"}
    BY <1>2, SnifferIsDeaf DEF Asked
  <2>2. ~Starts
    BY <2>1 DEF Starts, Control
  <2>3. Shifted(1) \/ Shifted(3)
    BY <2>2, EffectTakes DEF Begins
  <2>4. QED
    BY <1>2, <2>3 DEF Shifted
<1>3. CASE Len(toDev) > 0
  <2> DEFINE u == Len(toDev) - 1
  <2>1. toDev[Len(toDev)] = 1 /\ Knocked(HostNuls, u) /\ NoId
    BY <1>1, <1>3, SnifferIsDeaf DEF Asked
  <2>2. toDev[1] \in {0, 1} /\ (toDev[1] = 1 => Len(toDev) = 1)
    <3>1. CASE Len(toDev) = 1
      BY <2>1, <3>1
    <3>2. CASE Len(toDev) > 1
      <4>1. 1 \in 1 .. u
        BY <1>1, <3>2
      <4>2. toDev[1] = 0
        BY <2>1, <4>1 DEF Knocked
      <4>3. QED
        BY <4>2
    <3>3. Len(toDev) = 1 \/ Len(toDev) > 1
      <4>1. \A n \in Nat : n > 0 => n = 1 \/ n > 1
        OBVIOUS
      <4>2. Len(toDev) \in Nat
        BY <1>1
      <4>3. QED
        BY <1>3, <4>1, <4>2
    <3>4. QED
      BY <3>1, <3>2, <3>3
  <2>3. CASE Starts
    <3>1. Knocked(HostNuls, u)'
      BY <1>1, <2>1, <2>3 DEF Starts, Knocked
    <3>2. toDev' = toDev /\ toHost' = toHost /\ NoId'
      BY <2>1, <2>3 DEF Starts, NoId
    <3>3. QED
      BY <1>3, <2>1, <3>1, <3>2 DEF Asked
  <2>4. ASSUME Shifted(1)
        PROVE  /\ Len(toDev') = Len(toDev) - 1 /\ Len(toDev') \in Nat
               /\ Len(toDev) > 1 => /\ toDev'[Len(toDev')] = 1 /\ Len(toDev') > 0
                                    /\ Len(toDev') - 1 \in 0 .. HostNuls
                                    /\ \A k \in 1 .. Len(toDev') - 1 : toDev'[k] = 0
    <3>1. Len(toDev') = Len(toDev) - 1 /\ Len(toDev') \in Nat /\ u <= HostNuls
      BY <1>1, <1>3, <2>1, <2>4 DEF Shifted, Knocked
    <3>2. ASSUME Len(toDev) > 1
          PROVE  /\ toDev'[Len(toDev')] = 1 /\ Len(toDev') > 0
                 /\ Len(toDev') - 1 \in 0 .. HostNuls
      <4>1. Len(toDev') \in 1 .. Len(toDev) - 1 /\ Len(toDev') + 1 = Len(toDev)
        BY <1>1, <3>1, <3>2
      <4>2. toDev'[Len(toDev')] = 1
        BY <2>1, <2>4, <4>1 DEF Shifted
      <4>3. QED
        BY <1>1, <3>1, <4>1, <4>2
    <3>3. ASSUME NEW k \in 1 .. Len(toDev') - 1 PROVE toDev'[k] = 0
      <4>1. k \in 1 .. Len(toDev) - 1 /\ k + 1 \in 1 .. u
        BY <1>1, <3>1
      <4>2. QED
        BY <2>1, <2>4, <4>1 DEF Shifted, Knocked
    <3>4. QED
      BY <3>1, <3>2, <3>3
  <2>5. CASE toDev[1] = 0 /\ ~Starts
    <3>1. Len(toDev) > 1
      BY <1>1, <1>3, <2>1, <2>5
    <3>2. Shifted(1)
      BY <2>5, EffectTakes DEF Begins
    <3>3. Plain
      BY <2>5, DeviceSays
    <3>4. NoId'
      BY <2>1, <3>3 DEF NoId, Plain
    <3>5. at' = "none" => Len(toDev') - 1 = HostNuls
      BY <2>5, NulTaken
    <3>6. at' = "prompt" => i' + (Len(toDev') - 1) >= HostNuls
      <4>1. at' = "prompt" => Counts
        BY <2>5, NulTaken
      <4>2. at = "prompt" => i + u >= HostNuls
        BY <2>1 DEF Knocked
      <4>3. QED
        BY <1>1, <2>4, <3>2, <4>1, <4>2 DEF Counts
    <3>7. Knocked(HostNuls, Len(toDev) - 1)'
      BY <2>4, <3>1, <3>2, <3>5, <3>6 DEF Knocked
    <3>8. QED
      BY <2>4, <3>1, <3>2, <3>4, <3>7 DEF Asked
  <2>6. CASE toDev[1] = 1 /\ ~Starts
    <3>1. Len(toDev) = 1 /\ at # "prompt"
      <4>1. Len(toDev) = 1
        BY <2>2, <2>6
      <4>2. at = "prompt" => i >= HostNuls
        BY <1>1, <2>1, <4>1 DEF Knocked
      <4>3. QED
        BY <1>1, <4>1, <4>2
    <3>2. Shifted(1) /\ (Answers \/ Fills \/ Swallows)
      <4>1. ~Echoes /\ ~Begins
        <5>1. Echoes => at = "prompt"
          BY DEF Echoes
        <5>2. Begins => toDev[1] = 4
          BY DEF Begins
        <5>3. QED
          BY <2>6, <3>1, <5>1, <5>2
      <4>2. QED
        BY <2>6, <4>1, EffectTakes
    <3>3. Len(toDev') = 0
      BY <2>4, <3>1, <3>2
    <3>4. fw' = "spi" \/ at' \in {"sump", "serprog"}
      <4>1. CASE Answers
        BY <2>6, <4>1 DEF Answers, Acked, Sniffs
      <4>2. CASE Fills
        BY <4>2 DEF Fills, Control
      <4>3. CASE Swallows
        BY <4>3 DEF Swallows
      <4>4. QED
        BY <3>2, <4>1, <4>2, <4>3
    <3>5. CASE Plain
      <4>1. NoId'
        BY <2>1, <3>5 DEF NoId, Plain
      <4>2. QED
        BY <3>3, <3>4, <4>1 DEF Asked, NoId
    <3>6. CASE SaysId /\ Answers /\ toDev[1] = 1 /\ fw' = "spi" /\ at' = "bbio"
      <4>1. InSpi'
        BY <3>6 DEF Answers, InSpi
      <4>2. ASSUME NEW p \in 1 .. Len(toHost'), toHost'[p] = Id[1]
            PROVE  p = Len(toHost') - Len(Id) + 1
        <5>1. \/ p \in 1 .. Len(toHost) /\ toHost[p] = Id[1]
              \/ p = Len(toHost) + 1
          BY <3>6, <4>2 DEF SaysId
        <5>2. p = Len(toHost) + 1
          BY <2>1, <5>1 DEF NoId
        <5>3. Len(toHost') = Len(toHost) + Len(Id)
          BY <3>6 DEF SaysId
        <5>4. QED
          BY <1>1, <5>2, <5>3
      <4>3. QED
        BY <3>3, <3>4, <4>1, <4>2 DEF Asked
    <3>7. QED
      BY <3>5, <3>6, DeviceSays
  <2>7. QED
    BY <2>2, <2>3, <2>5, <2>6
<1>4. QED
  BY <1>1, <1>2, <1>3

(* With nothing on the line, only the console's start is left to do.       *)
LEMMA NothingToTake ==
  ASSUME SessionTypes, Len(toDev) = 0, at # "none"
  PROVE  ~Effect
<1>1. ~Shifted(1) /\ ~Shifted(3)
  BY DEF Shifted
<1>2. ~Starts
  BY DEF Starts
<1>3. Begins => Shifted(3)
  BY DEF Begins
<1>4. QED
  BY <1>1, <1>2, <1>3, EffectTakes

(* A command byte is answered.                                             *)
LEMMA DeviceAnswering ==
  ASSUME IInv, SessionTypes, Control, Effect, Answering
  PROVE  Answering'
<1> USE DEF Same
<1>1. toDev \in Seq(Nat) /\ toHost \in Seq(Said) /\ Len(toDev) \in Nat /\ Len(toHost) \in Nat
  BY DEF SessionTypes
<1>2. at = "bbio" /\ fw = "spi" /\ need = 0
  BY DEF Answering, InSpi
<1>3. Len(toDev) = 1 /\ Acked(toDev[1]) /\ Len(toHost) = 0
  BY <1>2, NothingToTake DEF Answering
<1>4. toDev[1] # 0 /\ toDev[1] # 1 /\ toDev[1] # 4 /\ toDev[1] \notin Sniffs
  BY <1>1, <1>3 DEF Acked, Sniffs
<1>5. Answers
  <2>1. Starts => at = "none"
    BY DEF Starts
  <2>2. Echoes => at = "prompt"
    BY DEF Echoes
  <2>3. Begins => toDev[1] = 4
    BY DEF Begins
  <2>4. Fills => need > 0
    BY DEF Fills
  <2>5. Swallows => at # "bbio"
    BY DEF Swallows
  <2>6. QED
    BY <1>2, <1>4, <2>1, <2>2, <2>3, <2>4, <2>5, EffectTakes
<1>6. Added(Ok) /\ at' = "bbio" /\ fw' = "spi" /\ need' = 0 /\ Shifted(1)
  BY <1>2, <1>3, <1>4, <1>5 DEF Answers
<1>7. Len(toHost') = 1 /\ toHost'[1] = "ok"
  <2>1. Len(Ok) = 1 /\ Ok[1] = "ok"
    BY DEF Ok
  <2>2. Len(toHost') = Len(toHost) + 1 /\ toHost'[Len(toHost) + 1] = "ok"
    BY <1>6, <2>1 DEF Added
  <2>3. QED
    BY <1>3, <2>2
<1>8. Len(toDev') = 0
  BY <1>3, <1>6 DEF Shifted
<1>9. QED
  BY <1>6, <1>7, <1>8 DEF Answering, InSpi

(* A WRITE_READ is taken up, filled, and answered when its payload is      *)
(* complete: never before, and with nothing of it left on the line.        *)
LEMMA DeviceSending ==
  ASSUME IInv, SessionTypes, Control, Effect,
         NEW c \in Commands, c.tx > 0, NEW p \in 0 .. c.tx + c.data, Sending(c, p)
  PROVE  Sending(c, p)'
<1> USE DEF Same
<1>1. /\ toDev \in Seq(Nat) /\ toHost \in Seq(Said) /\ Len(toDev) \in Nat /\ Len(toHost) \in Nat
      /\ need \in Nat /\ rx \in Nat /\ c.tx \in Nat /\ c.data \in Nat /\ c.rx \in Nat /\ p \in Nat
  BY DEF SessionTypes, Commands
<1>2. at = "bbio" /\ fw = "spi"
  BY DEF Sending
<1>3. ~Starts /\ ~Announces /\ ~Counts /\ ~Echoes /\ ~Swallows
  <2>1. Starts => at = "none"
    BY DEF Starts
  <2>2. Announces \/ Counts \/ Echoes => at = "prompt"
    BY DEF Announces, Counts, Echoes
  <2>3. Swallows => at # "bbio"
    BY DEF Swallows
  <2>4. QED
    BY <1>2, <2>1, <2>2, <2>3
<1>4. CASE /\ need = 0 /\ Len(toHost) = 0 /\ Len(toDev) = 3 + p
           /\ toDev[1] = 4 /\ toDev[2] = c.tx + c.data /\ toDev[3] = c.rx
  <2>1. ~Answers
    BY <1>2, <1>4 DEF Answers, Acked, Sniffs
  <2>2. ~Fills
    BY <1>4 DEF Fills
  <2>3. Begins
    BY <1>3, <2>1, <2>2 DEF Effect
  <2>4. at' = "bbio" /\ fw' = "spi" /\ need' = c.tx + c.data /\ rx' = c.rx /\ toHost' = toHost
    BY <1>2, <1>4, <2>3 DEF Begins
  <2>5. Len(toDev') = p
    BY <1>1, <1>4, <2>3 DEF Begins, Shifted
  <2>6. need' > 0 /\ Len(toHost') = 0 /\ need' + p = c.tx + c.data + Len(toDev')
    BY <1>1, <1>4, <2>4, <2>5
  <2>7. QED
    BY <2>4, <2>6 DEF Sending
<1>5. CASE need > 0 /\ Len(toHost) = 0 /\ need + p = c.tx + c.data + Len(toDev) /\ rx = c.rx
  <2>1. ~Answers
    BY <1>5, <1>1 DEF Answers
  <2>2. ~Begins
    BY <1>5, <1>1 DEF Begins, InSpi
  <2>3. Fills
    BY <1>3, <2>1, <2>2 DEF Effect
  <2>4. at' = "bbio" /\ fw' = "spi" /\ need' = need - 1 /\ rx' = c.rx
    BY <1>2, <1>5, <2>3 DEF Fills
  <2>5. Len(toDev) > 0 /\ Len(toDev') = Len(toDev) - 1
    BY <1>1, <2>3 DEF Fills, Shifted
  <2>6. CASE need = 1
    <3>1. p = c.tx + c.data /\ Len(toDev') = 0 /\ need' = 0
      BY <1>1, <1>5, <2>4, <2>5, <2>6
    <3>2. Added(Ok \o Data(c.rx))
      BY <1>5, <2>3, <2>6 DEF Fills
    <3> DEFINE w == Ok \o Data(c.rx)
    <3>3. w \in Seq(Said) /\ Len(w) = c.rx + 1 /\ w[1] = "ok" /\ \A k \in 2 .. c.rx + 1 : w[k] = "d"
      BY <1>1, AnswerSaid
    <3>4. Added(w)
      BY <3>2
    <3> HIDE DEF w
    <3>5. /\ Len(toHost') = 0 + Len(w)
          /\ \A k \in 1 .. Len(w) : toHost'[0 + k] = w[k]
      BY <1>5, <3>4 DEF Added
    <3>6. \A k \in 1 .. c.rx + 1 : 0 + k = k
      OBVIOUS
    <3>7. Len(toHost') = 1 + c.rx /\ \A k \in 1 .. c.rx + 1 : toHost'[k] = w[k]
      BY <1>1, <3>3, <3>5, <3>6
    <3>8. 1 \in 1 .. c.rx + 1 /\ \A k \in 2 .. 1 + c.rx : k \in 1 .. c.rx + 1 /\ k \in 2 .. c.rx + 1
      BY <1>1
    <3>9. toHost'[1] = "ok" /\ \A k \in 2 .. 1 + c.rx : toHost'[k] = "d"
      BY <3>3, <3>7, <3>8
    <3>10. QED
      BY <2>4, <3>1, <3>7, <3>9 DEF Sending
  <2>7. CASE need # 1
    <3>1. toHost' = toHost
      BY <2>3, <2>7 DEF Fills
    <3>2. need' > 0 /\ need' + p = c.tx + c.data + Len(toDev') /\ Len(toHost') = 0
      <4>1. \A n \in Nat : n > 0 /\ n # 1 => n - 1 > 0
        OBVIOUS
      <4>2. need' > 0
        BY <1>1, <1>5, <2>4, <2>7, <4>1
      <4>3. need' + p = c.tx + c.data + Len(toDev')
        <5>1. \A a, b, d, l \in Int : a + b = d + l => (a - 1) + b = d + (l - 1)
          OBVIOUS
        <5>2. c.tx + c.data \in Int /\ need \in Int /\ p \in Int /\ Len(toDev) \in Int
          BY <1>1
        <5>3. (need - 1) + p = c.tx + c.data + (Len(toDev) - 1)
          BY <1>5, <5>1, <5>2
        <5>4. QED
          BY <2>4, <2>5, <5>3
      <4>4. QED
        BY <1>5, <3>1, <4>2, <4>3
    <3>3. QED
      BY <2>4, <3>2 DEF Sending
  <2>8. QED
    BY <2>6, <2>7
<1>6. CASE Len(toDev) = 0 /\ need = 0
  BY <1>2, <1>6, NothingToTake
<1>7. QED
  BY <1>4, <1>5, <1>6 DEF Sending

(* The bytes of a cleanup: out of SPI mode, out of the binary mode, and    *)
(* the prompt forgets what it counted.  The second 0 of nor_dump counts as *)
(* a knock, which the byte after it takes back.                            *)
LEMMA DeviceLeft ==
  ASSUME IInv, IInv', SessionTypes, Control, Effect, NEW sent \in 0 .. 6, Left(sent)
  PROVE  Left(sent)'
<1> USE DEF Same
<1> DEFINE done == sent - Len(toDev)
<1>1. /\ toDev \in Seq(Nat) /\ Len(toDev) \in Nat /\ Len(toDev) <= sent
      /\ need \in Nat /\ i \in Nat /\ BbioNuls \in Nat /\ sent \in Nat /\ sent <= 6
      /\ done \in 0 .. 6
  <2>1. toDev \in Seq(Nat) /\ need \in Nat /\ Len(toDev) <= sent
    BY DEF SessionTypes, Left
  <2>2. i \in Nat /\ BbioNuls \in Nat
    BY NulsAssumption DEF IInv, TypeOK
  <2>3. sent \in Nat /\ sent <= 6 /\ Len(toDev) \in Nat
    BY <2>1
  <2>4. done \in 0 .. 6
    BY <2>1, <2>3
  <2>5. QED
    BY <2>1, <2>2, <2>3, <2>4
<1>2. /\ done = 0 => InSpi
      /\ done = 1 => at = "bbio" /\ fw = "menu"
      /\ done \in {2, 3, 5, 6} => at = "prompt" /\ i = 0
      /\ done = 4 => at = "prompt" \/ (at = "bbio" /\ fw = "menu")
  BY DEF Left
<1>3. Len(toDev) > 0
  <2>1. at # "none"
    BY <1>1, <1>2 DEF InSpi
  <2>2. Len(toDev) # 0
    BY <2>1, NothingToTake
  <2>3. QED
    BY <1>1, <2>2
<1>4. done \in 0 .. 5 /\ done + 1 <= sent
  BY <1>1, <1>3
<1>5. toDev[1] = Farewell[done + 1]
  <2>1. 1 \in 1 .. Len(toDev)
    BY <1>1, <1>3
  <2>2. QED
    BY <2>1 DEF Left
<1>6. /\ done = 0 => toDev[1] = 0 /\ at = "bbio" /\ fw = "spi" /\ need = 0
      /\ done = 1 => toDev[1] = 15 /\ at = "bbio" /\ fw = "menu"
      /\ done = 2 => toDev[1] = 10 /\ at = "prompt" /\ i = 0
      /\ done = 3 => toDev[1] = 0 /\ at = "prompt" /\ i = 0
      /\ done = 4 => toDev[1] = 15 /\ (at = "prompt" \/ (at = "bbio" /\ fw = "menu"))
      /\ done = 5 => toDev[1] = 10 /\ at = "prompt" /\ i = 0
  <2>1. /\ Farewell[1] = 0 /\ Farewell[2] = 15 /\ Farewell[3] = 10
        /\ Farewell[4] = 0 /\ Farewell[5] = 15 /\ Farewell[6] = 10
    BY DEF Farewell
  <2> HIDE DEF done
  <2>2. /\ done = 0 => toDev[1] = 0
        /\ done = 1 => toDev[1] = 15
        /\ done = 2 => toDev[1] = 10
        /\ done = 3 => toDev[1] = 0
        /\ done = 4 => toDev[1] = 15
        /\ done = 5 => toDev[1] = 10
    BY <1>5, <2>1
  <2>3. QED
    BY <1>2, <2>2 DEF InSpi
<1>7. ~Starts /\ ~Begins /\ ~Swallows /\ ~Fills
  <2>1. Starts => at = "none"
    BY DEF Starts
  <2>2. Begins => toDev[1] = 4
    BY DEF Begins
  <2>3. Swallows => at \in {"sump", "serprog"}
    BY DEF Swallows
  <2>4. Fills => need > 0 /\ fw = "spi"
    BY DEF Fills, Control
  <2>5. Fills => at = "bbio"
    BY <2>4, <1>1 DEF Control
  <2>6. QED
    BY <1>4, <1>6, <2>1, <2>2, <2>3, <2>4, <2>5
<1>8. Shifted(1) /\ (Announces \/ Counts \/ Echoes \/ Answers)
  BY <1>7, EffectTakes
<1>9. /\ Len(toDev') = Len(toDev) - 1 /\ Len(toDev') \in Nat /\ sent - Len(toDev') = done + 1
      /\ Len(toDev') <= sent
  BY <1>1, <1>3, <1>8 DEF Shifted
<1>10. ASSUME NEW k \in 1 .. Len(toDev') PROVE toDev'[k] = Farewell[sent - Len(toDev') + k]
  <2>1. k \in 1 .. Len(toDev) - 1 /\ k + 1 \in 1 .. Len(toDev) /\ sent - Len(toDev') + k = sent - Len(toDev) + (k + 1)
    BY <1>1, <1>9
  <2>2. toDev'[k] = toDev[k + 1]
    BY <1>8, <2>1 DEF Shifted
  <2>3. toDev[k + 1] = Farewell[sent - Len(toDev) + (k + 1)]
    BY <2>1 DEF Left
  <2>4. QED
    BY <2>1, <2>2, <2>3
<1> DEFINE Stands == /\ done = 0 => at' = "bbio" /\ fw' = "menu"
                     /\ done \in {1, 2, 4, 5} => at' = "prompt" /\ i' = 0
                     /\ done = 3 => at' = "prompt" \/ (at' = "bbio" /\ fw' = "menu")
<1>11. ASSUME Stands PROVE Left(sent)'
  <2>1. /\ sent - Len(toDev') = 1 => done = 0
        /\ sent - Len(toDev') = 4 => done = 3
        /\ sent - Len(toDev') \in {2, 3, 5, 6} => done \in {1, 2, 4, 5}
        /\ sent - Len(toDev') # 0
    BY <1>1, <1>4, <1>9
  <2>2. QED
    BY <1>9, <1>10, <1>11, <2>1 DEF Left
<1> HIDE DEF done
<1>12. CASE done = 0
  <2>1. Answers
    BY <1>6, <1>8, <1>12 DEF Announces, Counts, Echoes
  <2>2. at' = "bbio" /\ fw' = "menu"
    BY <1>6, <1>12, <2>1 DEF Answers, Acked, Sniffs
  <2>3. QED
    BY <1>12, <1>11, <2>2
<1>13. CASE done = 1
  <2>1. Answers
    BY <1>6, <1>8, <1>13 DEF Announces, Counts, Echoes
  <2>2. at' = "prompt" /\ i' = 0
    BY <1>6, <1>13, <2>1 DEF Answers, Acked, Control
  <2>3. QED
    BY <1>13, <1>11, <2>2
<1>14. CASE done \in {2, 5}
  <2>1. Echoes
    BY <1>6, <1>8, <1>14 DEF Announces, Counts, Answers
  <2>2. at' = "prompt" /\ i' = 0
    BY <1>6, <1>14, <2>1 DEF Echoes
  <2>3. QED
    BY <1>14, <1>11, <2>2
<1>15. CASE done = 3
  <2>1. Announces \/ Counts
    BY <1>6, <1>8, <1>15 DEF Echoes, Answers
  <2>2. at' = "prompt" \/ (at' = "bbio" /\ fw' = "menu")
    <3>1. fw = "menu"
      BY <1>6, <1>15 DEF Control
    <3>2. QED
      BY <2>1, <3>1 DEF Announces, Counts
  <2>3. QED
    BY <1>15, <1>11, <2>2
<1>16. CASE done = 4
  <2>1. Echoes \/ Answers
    BY <1>6, <1>8, <1>16 DEF Announces, Counts
  <2>2. at' = "prompt" /\ i' = 0
    <3>1. CASE Echoes
      BY <1>6, <1>16, <3>1 DEF Echoes
    <3>2. CASE Answers
      <4>1. at = "bbio" /\ fw = "menu" /\ i = 0
        BY <1>6, <1>16, <3>2 DEF Answers, Control
      <4>2. QED
        BY <1>6, <1>16, <3>2, <4>1 DEF Answers
    <3>3. QED
      BY <2>1, <3>1, <3>2
  <2>3. QED
    BY <1>16, <1>11, <2>2
<1>17. QED
  BY <1>4, <1>12, <1>13, <1>14, <1>15, <1>16

-----------------------------------------------------------------------------
(* The scripts, step by step.                                              *)
LEMMA StepKinds ==
  /\ \A b : W(b).do = "write" /\ W(b).bytes = b
  /\ \A w : R(w).do = "read" /\ R(w).want = w
  /\ Reset.do = "flush"
BY DEF W, R, Reset

(* Two scripts in a row.                                                   *)
LEMMA Followed ==
  ASSUME NEW S, NEW a \in Seq(S), NEW b \in Seq(S), NEW c, c = a \o b
  PROVE  /\ c \in Seq(S) /\ Len(c) = Len(a) + Len(b)
         /\ \A k \in 1 .. Len(a) : c[k] = a[k]
         /\ \A k \in 1 .. Len(b) : c[Len(a) + k] = b[k]
<1>1. /\ a \o b \in Seq(S) /\ Len(a \o b) = Len(a) + Len(b)
      /\ \A k \in 1 .. Len(a) : (a \o b)[k] = a[k]
      /\ \A k \in 1 .. Len(b) : (a \o b)[Len(a) + k] = b[k]
  BY Joined
<1>2. QED
  BY <1>1

(* __enter__ and setup.                                                    *)
LEMMA EnterSteps ==
  ASSUME SessionTypes, phase = "enter"
  PROVE  LET n == HostNuls c == Configuration(tool, params) IN
         /\ Acked(c) /\ c \in Nat
         /\ Len(Steps) = n + IF tool = "HydraSPI" THEN 10 ELSE 6
         /\ \A k \in 1 .. n : Steps[k] = W(<<0>>)
         /\ Steps[n + 1] = R(Banner) /\ Steps[n + 2] = Reset
         /\ Steps[n + 3] = W(<<1>>) /\ Steps[n + 4] = R(Id)
         /\ Steps[n + 5] = W(<<c>>) /\ Steps[n + 6] = R(Ok)
         /\ tool = "HydraSPI" => /\ Steps[n + 7] = W(<<102>>) /\ Steps[n + 8] = R(Ok)
                                 /\ Steps[n + 9] = W(<<2>>) /\ Steps[n + 10] = R(Ok)
<1> DEFINE n == HostNuls
           c == Configuration(tool, params)
           nul == [k \in 1 .. HostNuls |-> W(<<0>>)]
           sw == Switch(tool, params)
           more == <<W(<<102>>), R(Ok), W(<<2>>), R(Ok)>>
           rest == IF tool = "HydraSPI" THEN sw \o more ELSE sw
           S == {W(<<0>>), W(<<1>>), W(<<2>>), W(<<102>>), W(<<c>>), R(Banner), R(Id), R(Ok), Reset}
<1>1. n \in Nat
  BY SessionAssumption
<1>2. c \in Nat /\ Acked(c)
  <2>1. params.pol \in 0 .. 1 /\ params.pha \in 0 .. 1
    BY DEF SessionTypes
  <2>2. CASE tool = "HydraSPI"
    <3>1. c = 128 + 8 * params.pol + 4 * params.pha + 1
      BY <2>2 DEF Configuration
    <3>2. c \in Nat /\ c >= 128
      BY <2>1, <3>1
    <3>3. QED
      BY <3>2 DEF Acked
  <2>3. CASE tool # "HydraSPI"
    BY <2>3 DEF Configuration, Acked
  <2>4. QED
    BY <2>2, <2>3
<1>3. Steps = nul \o rest
  BY DEF Steps, EnterMode
<1>4. /\ W(<<0>>) \in S /\ W(<<1>>) \in S /\ W(<<2>>) \in S /\ W(<<102>>) \in S /\ W(<<c>>) \in S
      /\ R(Banner) \in S /\ R(Id) \in S /\ R(Ok) \in S /\ Reset \in S
  OBVIOUS
<1> HIDE DEF S
<1>5. nul \in Seq(S) /\ Len(nul) = n /\ \A k \in 1 .. n : nul[k] = W(<<0>>)
  BY <1>1, <1>4
<1>6. sw = <<R(Banner), Reset, W(<<1>>), R(Id), W(<<c>>), R(Ok)>>
  BY DEF Switch
<1> HIDE DEF nul, sw, c
<1>7. sw \in Seq(S) /\ more \in Seq(S)
  BY <1>4, <1>6
<1>8. /\ Len(sw) = 6
      /\ sw[1] = R(Banner) /\ sw[2] = Reset /\ sw[3] = W(<<1>>)
      /\ sw[4] = R(Id) /\ sw[5] = W(<<c>>) /\ sw[6] = R(Ok)
  BY <1>6
<1>9. /\ Len(more) = 4
      /\ more[1] = W(<<102>>) /\ more[2] = R(Ok) /\ more[3] = W(<<2>>) /\ more[4] = R(Ok)
  OBVIOUS
<1> DEFINE both == sw \o more
<1> HIDE DEF more
<1>10. /\ both \in Seq(S) /\ Len(both) = Len(sw) + Len(more)
       /\ \A k \in 1 .. Len(sw) : both[k] = sw[k]
       /\ \A k \in 1 .. Len(more) : both[Len(sw) + k] = more[k]
  <2> HIDE DEF both
  <2>1. both = sw \o more
    BY DEF both
  <2>2. QED
    BY <1>7, <2>1, Followed
<1>11. rest = IF tool = "HydraSPI" THEN both ELSE sw
  OBVIOUS
<1> HIDE DEF both, rest
<1>12. /\ rest \in Seq(S) /\ Len(rest) = IF tool = "HydraSPI" THEN 10 ELSE 6
       /\ \A k \in 1 .. 6 : rest[k] = sw[k]
       /\ tool = "HydraSPI" => \A k \in 1 .. 4 : rest[6 + k] = more[k]
  <2>1. CASE tool = "HydraSPI"
    <3>1. rest = both
      BY <1>11, <2>1
    <3>2. /\ both \in Seq(S) /\ Len(both) = 10
          /\ \A k \in 1 .. 6 : both[k] = sw[k]
          /\ \A k \in 1 .. 4 : both[6 + k] = more[k]
      BY <1>8, <1>9, <1>10
    <3>3. QED
      BY <2>1, <3>1, <3>2
  <2>2. CASE tool # "HydraSPI"
    BY <1>7, <1>8, <1>11, <2>2
  <2>3. QED
    BY <2>1, <2>2
<1>13. /\ Len(Steps) = Len(nul) + Len(rest)
       /\ \A k \in 1 .. Len(nul) : Steps[k] = nul[k]
       /\ \A k \in 1 .. Len(rest) : Steps[Len(nul) + k] = rest[k]
  <2>1. nul \in Seq(S) /\ rest \in Seq(S)
    BY <1>5, <1>12
  <2>2. QED
    BY <1>3, <2>1, Followed
<1>14. /\ Len(Steps) = n + IF tool = "HydraSPI" THEN 10 ELSE 6
       /\ \A k \in 1 .. n : Steps[k] = W(<<0>>)
       /\ \A k \in 1 .. 6 : Steps[n + k] = sw[k]
       /\ tool = "HydraSPI" => \A k \in 1 .. 4 : Steps[n + (6 + k)] = more[k]
  <2>1. 1 .. 6 \subseteq 1 .. Len(rest)
    BY <1>12
  <2>2. tool = "HydraSPI" => \A k \in 1 .. 4 : 6 + k \in 1 .. Len(rest)
    BY <1>12
  <2>3. QED
    BY <1>5, <1>12, <1>13, <2>1, <2>2
<1>15. /\ Steps[n + 1] = sw[1] /\ Steps[n + 2] = sw[2] /\ Steps[n + 3] = sw[3]
       /\ Steps[n + 4] = sw[4] /\ Steps[n + 5] = sw[5] /\ Steps[n + 6] = sw[6]
  BY <1>14
<1>16. tool = "HydraSPI" => /\ Steps[n + 7] = more[1] /\ Steps[n + 8] = more[2]
                            /\ Steps[n + 9] = more[3] /\ Steps[n + 10] = more[4]
  <2>1. 6 + 1 = 7 /\ 6 + 2 = 8 /\ 6 + 3 = 9 /\ 6 + 4 = 10
    OBVIOUS
  <2>2. tool = "HydraSPI" => /\ Steps[n + (6 + 1)] = more[1] /\ Steps[n + (6 + 2)] = more[2]
                             /\ Steps[n + (6 + 3)] = more[3] /\ Steps[n + (6 + 4)] = more[4]
    BY <1>14
  <2>3. QED
    BY <2>1, <2>2
<1>17. QED
  BY <1>2, <1>8, <1>9, <1>14, <1>15, <1>16 DEF c

(* A command: two steps without a payload, five with one.                  *)
LEMMA BodySteps ==
  ASSUME SessionTypes, phase = "body"
  PROVE  /\ cmd > Len(body) => Len(Steps) = 0
         /\ cmd <= Len(body) =>
              /\ body[cmd] \in Commands
              /\ body[cmd].tx = 0 => Len(Steps) = 2 /\ Steps[1] = W(<<96>>) /\ Steps[2] = R(Ok)
              /\ body[cmd].tx # 0 =>
                   /\ Len(Steps) = 5 /\ Steps[1] = W(Lengths(body[cmd]))
                   /\ Steps[2] = W(Ones(body[cmd].tx)) /\ Steps[3] = W(Ones(body[cmd].data))
                   /\ Steps[4] = R(Ok) /\ Steps[5] = R(Data(body[cmd].rx))
<1>1. body \in Seq(Commands) /\ cmd \in Nat \ {0} /\ Len(body) \in Nat
  BY DEF SessionTypes
<1>2. ASSUME cmd > Len(body) PROVE Len(Steps) = 0
  BY <1>1, <1>2 DEF Steps
<1>3. ASSUME cmd <= Len(body)
      PROVE  body[cmd] \in Commands /\ Steps = Exchange(body[cmd])
  <2>1. cmd \in 1 .. Len(body)
    BY <1>1, <1>3
  <2>2. body[cmd] \in Commands
    BY <1>1, <2>1
  <2>3. QED
    BY <1>3, <2>2 DEF Steps
<1>4. ASSUME cmd <= Len(body), body[cmd].tx = 0
      PROVE  Len(Steps) = 2 /\ Steps[1] = W(<<96>>) /\ Steps[2] = R(Ok)
  BY <1>3, <1>4 DEF Exchange
<1>5. ASSUME cmd <= Len(body), body[cmd].tx # 0
      PROVE  /\ Len(Steps) = 5 /\ Steps[1] = W(Lengths(body[cmd]))
             /\ Steps[2] = W(Ones(body[cmd].tx)) /\ Steps[3] = W(Ones(body[cmd].data))
             /\ Steps[4] = R(Ok) /\ Steps[5] = R(Data(body[cmd].rx))
  BY <1>3, <1>5 DEF Exchange, WriteThenRead
<1>6. QED
  BY <1>2, <1>3, <1>4, <1>5

(* One cleanup or two.                                                     *)
LEMMA CleanupSteps ==
  ASSUME SessionTypes
  PROVE  LET last == W(IF tool = "HydraSPI" THEN <<15>> ELSE <<15, 10>>) IN
         /\ Len(Cleanup(tool)) = 2 /\ Cleanup(tool)[1] = W(<<0>>) /\ Cleanup(tool)[2] = last
         /\ LastStep \in {3, 5} /\ (LastStep = 5 => tool # "HydraSPI")
         /\ Len(Leaving(tool, body)) = LastStep - 1
         /\ Leaving(tool, body)[1] = W(<<0>>) /\ Leaving(tool, body)[2] = last
         /\ LastStep = 5 => Leaving(tool, body)[3] = W(<<0>>) /\ Leaving(tool, body)[4] = last
<1> DEFINE last == W(IF tool = "HydraSPI" THEN <<15>> ELSE <<15, 10>>)
           S == {W(<<0>>), last}
           C == Cleanup(tool)
<1>1. C = <<W(<<0>>), last>>
  BY DEF Cleanup
<1>2. W(<<0>>) \in S /\ last \in S
  OBVIOUS
<1> HIDE DEF S, last
<1>3. C \in Seq(S)
  BY <1>1, <1>2
<1>4. Len(C) = 2 /\ C[1] = W(<<0>>) /\ C[2] = last
  BY <1>1
<1> DEFINE CC == C \o C
<1> HIDE DEF C
<1>5. /\ Len(CC) = 4 /\ CC[1] = W(<<0>>) /\ CC[2] = last /\ CC[3] = W(<<0>>) /\ CC[4] = last
  <2> HIDE DEF CC
  <2>1. CC = C \o C
    BY DEF CC
  <2>2. /\ Len(CC) = Len(C) + Len(C)
        /\ \A k \in 1 .. Len(C) : CC[k] = C[k]
        /\ \A k \in 1 .. Len(C) : CC[Len(C) + k] = C[k]
    BY <1>3, <2>1, Followed
  <2>3. /\ Len(CC) = 2 + 2 /\ CC[1] = C[1] /\ CC[2] = C[2] /\ CC[2 + 1] = C[1] /\ CC[2 + 2] = C[2]
    BY <1>4, <2>2
  <2>4. QED
    BY <1>4, <2>3
<1>6. CASE tool = "nor_dump" /\ Len(body) > 1
  <2>1. Leaving(tool, body) = CC
    BY <1>6 DEF Leaving, C
  <2> HIDE DEF CC
  <2>2. LastStep = 5 /\ tool # "HydraSPI"
    <3>1. LastStep = Len(CC) + 1
      BY <2>1, Zenon DEF LastStep
    <3>2. LastStep = 5
      BY <1>5, <3>1
    <3>3. QED
      BY <1>6, <3>2
  <2>3. QED
    BY <1>4, <1>5, <2>1, <2>2 DEF C, last
<1>7. CASE ~(tool = "nor_dump" /\ Len(body) > 1)
  <2>1. Leaving(tool, body) = C
    BY <1>7 DEF Leaving, C
  <2>2. LastStep = 3
    <3>1. LastStep = Len(C) + 1
      BY <2>1, Zenon DEF LastStep
    <3>2. QED
      BY <1>4, <3>1
  <2>3. QED
    BY <1>4, <2>1, <2>2 DEF C, last
<1>8. QED
  BY <1>6, <1>7

(* The step a tool is at.                                                  *)
LEMMA EnterNow ==
  ASSUME SessionTypes, phase = "enter", pc <= Len(Steps)
  PROVE  \/ pc \in 1 .. HostNuls /\ Now = W(<<0>>)
         \/ pc = HostNuls + 1 /\ Now = R(Banner)
         \/ pc = HostNuls + 2 /\ Now = Reset
         \/ pc = HostNuls + 3 /\ Now = W(<<1>>)
         \/ pc = HostNuls + 4 /\ Now = R(Id)
         \/ /\ pc \in {HostNuls + 5, HostNuls + 7, HostNuls + 9}
            /\ pc # HostNuls + 5 => tool = "HydraSPI"
            /\ \E c \in Nat : Acked(c) /\ Now = W(<<c>>)
         \/ /\ pc \in {HostNuls + 6, HostNuls + 8, HostNuls + 10}
            /\ pc # HostNuls + 6 => tool = "HydraSPI"
            /\ Now = R(Ok)
<1> DEFINE n == HostNuls
           c == Configuration(tool, params)
<1>1. /\ Acked(c) /\ c \in Nat
      /\ Len(Steps) = n + IF tool = "HydraSPI" THEN 10 ELSE 6
      /\ \A k \in 1 .. n : Steps[k] = W(<<0>>)
      /\ Steps[n + 1] = R(Banner) /\ Steps[n + 2] = Reset
      /\ Steps[n + 3] = W(<<1>>) /\ Steps[n + 4] = R(Id)
      /\ Steps[n + 5] = W(<<c>>) /\ Steps[n + 6] = R(Ok)
      /\ tool = "HydraSPI" => /\ Steps[n + 7] = W(<<102>>) /\ Steps[n + 8] = R(Ok)
                              /\ Steps[n + 9] = W(<<2>>) /\ Steps[n + 10] = R(Ok)
  BY EnterSteps
<1>2. n \in Nat /\ pc \in Nat /\ pc >= 1
  BY SessionAssumption DEF SessionTypes
<1>3. Acked(102) /\ Acked(2) /\ 102 \in Nat /\ 2 \in Nat
  BY DEF Acked
<1> HIDE DEF c
<1>4. CASE pc <= n
  BY <1>1, <1>2, <1>4 DEF Now
<1>5. CASE pc > n /\ pc <= n + 6
  <2>1. pc \in {n + 1, n + 2, n + 3, n + 4, n + 5, n + 6}
    BY <1>2, <1>5
  <2>2. QED
    BY <1>1, <1>2, <2>1 DEF Now
<1>6. CASE pc > n + 6
  <2>1. tool = "HydraSPI" /\ pc <= n + 10
    BY <1>1, <1>2, <1>6
  <2>2. pc \in {n + 7, n + 8, n + 9, n + 10}
    BY <1>2, <1>6, <2>1
  <2>3. CASE pc = n + 7
    BY <1>1, <1>3, <2>1, <2>3 DEF Now
  <2>4. CASE pc = n + 8
    BY <1>1, <2>1, <2>4 DEF Now
  <2>5. CASE pc = n + 9
    BY <1>1, <1>3, <2>1, <2>5 DEF Now
  <2>6. CASE pc = n + 10
    BY <1>1, <2>1, <2>6 DEF Now
  <2>7. QED
    BY <2>2, <2>3, <2>4, <2>5, <2>6
<1>7. QED
  BY <1>2, <1>4, <1>5, <1>6

(* The step of a command that a tool is at.                                *)
LEMMA BodyNow ==
  ASSUME SessionTypes, phase = "body", pc <= Len(Steps)
  PROVE  /\ cmd <= Len(body) /\ body[cmd] \in Commands
         /\ body[cmd].tx = 0 =>
              \/ pc = 1 /\ Now = W(<<96>>)
              \/ pc = 2 /\ Now = R(Ok)
         /\ body[cmd].tx # 0 =>
              \/ pc = 1 /\ Now = W(Lengths(body[cmd]))
              \/ pc = 2 /\ Now = W(Ones(body[cmd].tx))
              \/ pc = 3 /\ Now = W(Ones(body[cmd].data))
              \/ pc = 4 /\ Now = R(Ok)
              \/ pc = 5 /\ Now = R(Data(body[cmd].rx))
<1>1. pc \in Nat /\ pc >= 1 /\ cmd \in Nat /\ Len(body) \in Nat
  BY DEF SessionTypes
<1>2. cmd <= Len(body)
  BY <1>1, BodySteps
<1>3. body[cmd] \in Commands
  BY <1>2, BodySteps
<1>4. ASSUME body[cmd].tx = 0 PROVE (pc = 1 /\ Now = W(<<96>>)) \/ (pc = 2 /\ Now = R(Ok))
  <2>1. Len(Steps) = 2 /\ Steps[1] = W(<<96>>) /\ Steps[2] = R(Ok)
    BY <1>2, <1>4, BodySteps
  <2>2. pc \in {1, 2}
    BY <1>1, <2>1
  <2>3. QED
    BY <2>1, <2>2 DEF Now
<1>5. ASSUME body[cmd].tx # 0
      PROVE  \/ pc = 1 /\ Now = W(Lengths(body[cmd]))
             \/ pc = 2 /\ Now = W(Ones(body[cmd].tx))
             \/ pc = 3 /\ Now = W(Ones(body[cmd].data))
             \/ pc = 4 /\ Now = R(Ok)
             \/ pc = 5 /\ Now = R(Data(body[cmd].rx))
  <2>1. /\ Len(Steps) = 5 /\ Steps[1] = W(Lengths(body[cmd]))
        /\ Steps[2] = W(Ones(body[cmd].tx)) /\ Steps[3] = W(Ones(body[cmd].data))
        /\ Steps[4] = R(Ok) /\ Steps[5] = R(Data(body[cmd].rx))
    BY <1>2, <1>5, BodySteps
  <2>2. pc \in {1, 2, 3, 4, 5}
    BY <1>1, <2>1
  <2>3. QED
    BY <2>1, <2>2 DEF Now
<1>6. QED
  BY <1>2, <1>3, <1>4, <1>5

(* The step of a cleanup that a tool is at.                                *)
LEMMA CleanupNow ==
  ASSUME SessionTypes, phase = "cleanup"
  PROVE  /\ result # "failed" => Len(Steps) = LastStep - 1
         /\ pc <= Len(Steps) =>
              \/ pc \in {1, 3} /\ Now = W(<<0>>)
              \/ pc \in {2, 4} /\ Now = W(IF tool = "HydraSPI" THEN <<15>> ELSE <<15, 10>>)
         /\ LastStep \in {3, 5} /\ (LastStep = 5 => tool # "HydraSPI")
<1> DEFINE last == W(IF tool = "HydraSPI" THEN <<15>> ELSE <<15, 10>>)
<1>1. /\ Len(Cleanup(tool)) = 2 /\ Cleanup(tool)[1] = W(<<0>>) /\ Cleanup(tool)[2] = last
      /\ LastStep \in {3, 5} /\ (LastStep = 5 => tool # "HydraSPI")
      /\ Len(Leaving(tool, body)) = LastStep - 1
      /\ Leaving(tool, body)[1] = W(<<0>>) /\ Leaving(tool, body)[2] = last
      /\ LastStep = 5 => Leaving(tool, body)[3] = W(<<0>>) /\ Leaving(tool, body)[4] = last
  BY CleanupSteps
<1>2. Steps = IF result = "failed" THEN Cleanup(tool) ELSE Leaving(tool, body)
  BY DEF Steps
<1>3. pc \in Nat /\ pc >= 1
  BY DEF SessionTypes
<1> HIDE DEF last
<1>4. ASSUME pc <= Len(Steps)
      PROVE  (pc \in {1, 3} /\ Now = W(<<0>>)) \/ (pc \in {2, 4} /\ Now = last)
  <2>1. CASE Len(Steps) = 2
    <3>1. pc \in {1, 2}
      BY <1>3, <1>4, <2>1
    <3>2. QED
      BY <1>1, <1>2, <3>1 DEF Now
  <2>2. CASE Len(Steps) # 2
    <3>1. Steps = Leaving(tool, body) /\ LastStep = 5 /\ Len(Steps) = 4
      <4>1. Steps = Cleanup(tool) \/ Steps = Leaving(tool, body)
        BY <1>2
      <4>2. Steps # Cleanup(tool)
        BY <1>1, <2>2
      <4>3. LastStep - 1 # 2
        BY <1>1, <2>2, <4>1, <4>2
      <4>4. LastStep = 5 /\ LastStep - 1 = 4
        BY <1>1, <4>3
      <4>5. QED
        BY <1>1, <4>1, <4>2, <4>4
    <3>2. pc \in {1, 2, 3, 4}
      BY <1>3, <1>4, <3>1
    <3>3. QED
      BY <1>1, <3>1, <3>2 DEF Now
  <2>3. QED
    BY <2>1, <2>2
<1>5. QED
  BY <1>1, <1>2, <1>4 DEF last

-----------------------------------------------------------------------------
(* What a tool writes is put behind what is under way.                     *)
Put(w) ==
  /\ toDev' \in Seq(Nat) /\ Len(toDev') = Len(toDev) + Len(w)
  /\ \A k \in 1 .. Len(toDev) : toDev'[k] = toDev[k]
  /\ \A k \in 1 .. Len(w) : toDev'[Len(toDev) + k] = w[k]

(* A write moves the queue and the step, and nothing else.                 *)
LEMMA WritePuts ==
  ASSUME SessionTypes, NEW w \in Seq(Nat), Write, Now = W(w)
  PROVE  /\ Put(w) /\ pc' = pc + 1
         /\ UNCHANGED <<usb, at, i, fw, need, rx, toHost, tool, params, body, phase, cmd, result>>
<1>1. toDev \in Seq(Nat)
  BY DEF SessionTypes
<1>2. toDev' = toDev \o w
  BY StepKinds DEF Write
<1>3. Put(w)
  BY <1>1, <1>2, Joined DEF Put
<1>4. QED
  BY <1>3 DEF Write, Onward, firmware, run

(* A write of one byte.                                                    *)
LEMMA PutOne ==
  ASSUME SessionTypes, NEW b \in Nat, Put(<<b>>)
  PROVE  /\ Len(toDev') = Len(toDev) + 1 /\ toDev'[Len(toDev')] = b
         /\ \A k \in 1 .. Len(toDev) : toDev'[k] = toDev[k]
<1>1. Len(<<b>>) = 1 /\ <<b>>[1] = b
  OBVIOUS
<1>2. QED
  BY <1>1 DEF Put

(* What a write may leave alone.                                           *)
LEMMA WriteKeeps ==
  ASSUME SessionTypes, Control, WholeIds, toDev' \in Seq(Nat), pc' = pc + 1,
         UNCHANGED <<usb, at, i, fw, need, rx, toHost, tool, params, body, phase, cmd, result>>
  PROVE  SessionTypes' /\ Control' /\ WholeIds'
<1>1. pc' \in Nat \ {0}
  BY DEF SessionTypes
<1>2. SessionTypes'
  BY <1>1 DEF SessionTypes
<1>3. Control' /\ WholeIds'
  BY DEF Control, WholeIds
<1>4. QED
  BY <1>2, <1>3

(* A NUL more is unread; the 1 comes behind all of them; a byte that is    *)
(* answered meets a firmware that waits for it.                            *)
LEMMA WriteEnter ==
  ASSUME IInv, SessionTypes, Control, WholeIds, Entering, phase = "enter", Write
  PROVE  SessionTypes' /\ Control' /\ WholeIds' /\ Entering'
<1> DEFINE n == HostNuls
<1>1. /\ n \in Nat /\ pc \in Nat /\ pc >= 1 /\ toDev \in Seq(Nat) /\ Len(toDev) \in Nat
      /\ toHost \in Seq(Said) /\ Len(toHost) \in Nat /\ Len(Banner) \in Nat
      /\ i \in Nat /\ BbioNuls \in Nat
  BY SessionAssumption, NulsAssumption DEF SessionTypes, IInv, TypeOK
<1>2. pc <= Len(Steps) /\ Now.do = "write"
  BY DEF Write, AtStep
<1>3. ASSUME NEW b \in Nat, Now = W(<<b>>)
      PROVE  /\ Put(<<b>>) /\ pc' = pc + 1 /\ SessionTypes' /\ Control' /\ WholeIds'
             /\ Len(toDev') = Len(toDev) + 1 /\ toDev'[Len(toDev')] = b
             /\ \A k \in 1 .. Len(toDev) : toDev'[k] = toDev[k]
             /\ UNCHANGED <<usb, at, i, fw, need, rx, toHost, tool, params, body, phase, cmd, result>>
  <2>1. <<b>> \in Seq(Nat)
    OBVIOUS
  <2>2. /\ Put(<<b>>) /\ pc' = pc + 1
        /\ UNCHANGED <<usb, at, i, fw, need, rx, toHost, tool, params, body, phase, cmd, result>>
    BY <1>3, <2>1, WritePuts
  <2>3. toDev' \in Seq(Nat)
    BY <2>2 DEF Put
  <2>4. QED
    BY <2>2, <2>3, WriteKeeps, PutOne
<1>4. CASE pc \in 1 .. n /\ Now = W(<<0>>)
  <2>1. /\ pc' = pc + 1 /\ SessionTypes' /\ Control' /\ WholeIds'
        /\ Len(toDev') = Len(toDev) + 1 /\ toDev'[Len(toDev')] = 0
        /\ \A k \in 1 .. Len(toDev) : toDev'[k] = toDev[k]
        /\ UNCHANGED <<usb, at, i, fw, need, rx, toHost, tool, params, body, phase, cmd, result>>
    BY <1>3, <1>4
  <2>2. Knocking
    BY <1>1, <1>4 DEF Entering
  <2>3. fw = "sniff" \/ \A k \in 1 .. Len(toDev') : toDev'[k] = 0
    <3>1. \A k \in 1 .. Len(toDev') : k \in 1 .. Len(toDev) \/ k = Len(toDev')
      BY <1>1, <2>1
    <3>2. QED
      BY <2>1, <2>2, <3>1 DEF Knocking, Knocked
  <2>4. fw' = "sniff" \/ Knocked(pc - 1, Len(toDev))'
    <3> SUFFICES ASSUME fw # "sniff" PROVE Knocked(pc - 1, Len(toDev))'
      BY <2>1
    <3>1. Len(toDev) \in 0 .. pc - 1 /\ (at = "prompt" => i + Len(toDev) >= pc - 1) /\ (at = "none" => Len(toDev) = pc - 1)
      BY <2>2 DEF Knocking, Knocked
    <3>2. /\ Len(toDev') \in 0 .. pc' - 1
          /\ (at' = "prompt" => i' + Len(toDev') >= pc' - 1)
          /\ (at' = "none" => Len(toDev') = pc' - 1)
      BY <1>1, <2>1, <3>1
    <3>3. QED
      BY <2>3, <3>2 DEF Knocked
  <2>5. Knocking'
    <3>1. at' = "bbio" /\ fw' = "menu" => Len(toDev') = pc' - 1 \/ Len(toHost') >= Len(Banner)
      BY <1>1, <2>1, <2>2 DEF Knocking
    <3>2. QED
      BY <2>1, <2>2, <2>4, <3>1 DEF Knocking
  <2>6. pc' \in Nat /\ pc' <= n + 1
    BY <1>1, <1>4, <2>1
  <2>7. Entering'
    BY <1>1, <2>5, <2>6 DEF Entering
  <2>8. QED
    BY <2>1, <2>7
<1>5. CASE pc = n + 3 /\ Now = W(<<1>>)
  <2>1. /\ pc' = pc + 1 /\ SessionTypes' /\ Control' /\ WholeIds'
        /\ Len(toDev') = Len(toDev) + 1 /\ toDev'[Len(toDev')] = 1
        /\ \A k \in 1 .. Len(toDev) : toDev'[k] = toDev[k]
        /\ UNCHANGED <<usb, at, i, fw, need, rx, toHost, tool, params, body, phase, cmd, result>>
    BY <1>3, <1>5
  <2>2. Heard
    BY <1>5 DEF Entering
  <2>3. Len(toDev') - 1 = Len(toDev) /\ Len(toDev') > 0
    BY <1>1, <2>1
  <2>4. fw' = "sniff" \/ Knocked(n, Len(toDev) - 1)'
    BY <2>1, <2>2, <2>3 DEF Heard, Knocked
  <2>5. NoId'
    BY <2>1, <2>2 DEF Heard, NoId
  <2>6. Asked'
    BY <2>1, <2>3, <2>4, <2>5 DEF Asked
  <2>7. pc' = n + 4
    BY <1>1, <1>5, <2>1
  <2>8. Entering'
    BY <1>1, <2>6, <2>7 DEF Entering
  <2>9. QED
    BY <2>1, <2>8
<1>6. CASE /\ pc \in {n + 5, n + 7, n + 9}
           /\ pc # n + 5 => tool = "HydraSPI"
           /\ \E c \in Nat : Acked(c) /\ Now = W(<<c>>)
  <2>1. PICK c \in Nat : Acked(c) /\ Now = W(<<c>>)
    BY <1>6
  <2>2. /\ pc' = pc + 1 /\ SessionTypes' /\ Control' /\ WholeIds'
        /\ Len(toDev') = Len(toDev) + 1 /\ toDev'[Len(toDev')] = c
        /\ UNCHANGED <<usb, at, i, fw, need, rx, toHost, tool, params, body, phase, cmd, result>>
    BY <1>3, <2>1
  <2>3. Quiet
    BY <1>1, <1>6 DEF Entering
  <2>4. Answering'
    BY <2>1, <2>2, <2>3 DEF Quiet, Answering, InSpi
  <2>5. pc' \in {n + 6, n + 8, n + 10} /\ (pc' # n + 6 => tool' = "HydraSPI")
    BY <1>1, <1>6, <2>2
  <2>6. Entering'
    BY <1>1, <2>4, <2>5 DEF Entering
  <2>7. QED
    BY <2>2, <2>6
<1>7. ~(\E w : Now = R(w)) /\ Now # Reset
  BY <1>2, StepKinds
<1>8. QED
  BY <1>2, <1>4, <1>5, <1>6, <1>7, EnterNow

(* More of a payload: it is added to what the firmware waits for.          *)
LEMMA SendingMore ==
  ASSUME SessionTypes, NEW c \in Commands, NEW p \in Nat, NEW w \in Seq(Nat),
         p + Len(w) <= c.tx + c.data, Sending(c, p), Put(w), UNCHANGED <<at, fw, need, rx, toHost>>
  PROVE  Sending(c, p + Len(w))'
<1>1. /\ Len(toDev) \in Nat /\ Len(toDev') = Len(toDev) + Len(w) /\ Len(w) \in Nat
      /\ need \in Nat /\ c.tx \in Nat /\ c.data \in Nat /\ c.rx \in Nat
      /\ \A k \in 1 .. Len(toDev) : toDev'[k] = toDev[k]
  BY DEF SessionTypes, Commands, Put
<1>2. CASE /\ need = 0 /\ Len(toHost) = 0 /\ Len(toDev) = 3 + p
           /\ toDev[1] = 4 /\ toDev[2] = c.tx + c.data /\ toDev[3] = c.rx
  <2>1. Len(toDev') = 3 + (p + Len(w)) /\ 1 \in 1 .. Len(toDev) /\ 2 \in 1 .. Len(toDev) /\ 3 \in 1 .. Len(toDev)
    BY <1>1, <1>2
  <2>2. toDev'[1] = 4 /\ toDev'[2] = c.tx + c.data /\ toDev'[3] = c.rx
    BY <1>1, <1>2, <2>1
  <2>3. QED
    BY <1>2, <2>1, <2>2 DEF Sending
<1>3. CASE need > 0 /\ Len(toHost) = 0 /\ need + p = c.tx + c.data + Len(toDev) /\ rx = c.rx
  <2>1. need' + (p + Len(w)) = c.tx + c.data + Len(toDev')
    BY <1>1, <1>3
  <2>2. QED
    BY <1>3, <2>1 DEF Sending
<1>4. CASE /\ need = 0 /\ Len(toDev) = 0 /\ p = c.tx + c.data
           /\ Len(toHost) = 1 + c.rx /\ toHost[1] = "ok" /\ \A k \in 2 .. 1 + c.rx : toHost[k] = "d"
  <2>1. Len(w) = 0 /\ Len(toDev') = 0 /\ p + Len(w) = c.tx + c.data
    BY <1>1, <1>4
  <2>2. QED
    BY <1>4, <2>1 DEF Sending
<1>5. QED
  BY <1>2, <1>3, <1>4 DEF Sending

(* The bytes of a command.                                                 *)
LEMMA CommandBytes ==
  ASSUME NEW c \in Commands
  PROVE  /\ c.tx \in Nat /\ c.data \in Nat /\ c.rx \in Nat
         /\ Lengths(c) \in Seq(Nat) /\ Len(Lengths(c)) = 3
         /\ Lengths(c)[1] = 4 /\ Lengths(c)[2] = c.tx + c.data /\ Lengths(c)[3] = c.rx
         /\ \A n \in Nat : Ones(n) \in Seq(Nat) /\ Len(Ones(n)) = n
<1>1. c.tx \in Nat /\ c.data \in Nat /\ c.rx \in Nat
  BY DEF Commands
<1>2. \A n \in Nat : Ones(n) \in Seq(Nat) /\ Len(Ones(n)) = n
  BY DEF Ones
<1>3. QED
  BY <1>1, <1>2 DEF Lengths

(* The first write of a command finds the firmware waiting for it; the     *)
(* others go on with what it has begun.                                    *)
LEMMA WriteBody ==
  ASSUME SessionTypes, Control, WholeIds, Commanding, phase = "body", Write
  PROVE  SessionTypes' /\ Control' /\ WholeIds' /\ Commanding'
<1> DEFINE kept == <<usb, at, i, fw, need, rx, toHost, tool, params, body, phase, cmd, result>>
<1>1. pc \in Nat /\ pc >= 1 /\ toDev \in Seq(Nat) /\ Len(toDev) \in Nat /\ cmd \in Nat /\ Len(body) \in Nat
  BY DEF SessionTypes
<1>2. pc <= Len(Steps) /\ Now.do = "write" /\ ~(\E w : Now = R(w))
  BY StepKinds DEF Write, AtStep
<1>0. cmd <= Len(body) /\ body[cmd] \in Commands
  BY <1>2, BodyNow
<1> PICK c \in Commands : c = body[cmd]
  BY <1>0
<1>3. /\ c.tx = 0 => pc = 1 /\ Now = W(<<96>>)
      /\ c.tx # 0 => \/ pc = 1 /\ Now = W(Lengths(c))
                     \/ pc = 2 /\ Now = W(Ones(c.tx))
                     \/ pc = 3 /\ Now = W(Ones(c.data))
  BY <1>2, BodyNow
<1>4. /\ c.tx \in Nat /\ c.data \in Nat /\ c.rx \in Nat
      /\ Lengths(c) \in Seq(Nat) /\ Len(Lengths(c)) = 3
      /\ Lengths(c)[1] = 4 /\ Lengths(c)[2] = c.tx + c.data /\ Lengths(c)[3] = c.rx
      /\ \A m \in Nat : Ones(m) \in Seq(Nat) /\ Len(Ones(m)) = m
  BY CommandBytes
<1>5. InCommand(c) /\ cmd \in 1 .. Len(body) + 1 /\ (pc = 1 => Quiet)
  BY <1>0 DEF Commanding
<1>6. ASSUME NEW w \in Seq(Nat), Now = W(w)
      PROVE  Put(w) /\ pc' = pc + 1 /\ SessionTypes' /\ Control' /\ WholeIds' /\ UNCHANGED kept
  <2>1. Put(w) /\ pc' = pc + 1 /\ UNCHANGED kept
    BY <1>6, WritePuts
  <2>2. toDev' \in Seq(Nat)
    BY <2>1 DEF Put
  <2>3. QED
    BY <2>1, <2>2, WriteKeeps
<1>7. ASSUME pc' = pc + 1, UNCHANGED kept, InCommand(c)' PROVE Commanding'
  <2>1. body'[cmd'] = c /\ pc' # 1 /\ cmd' \in 1 .. Len(body') + 1 /\ cmd' <= Len(body')
    BY <1>0, <1>1, <1>5, <1>7
  <2>2. QED
    BY <1>7, <2>1 DEF Commanding
<1>8. CASE c.tx = 0
  <2>1. pc = 1 /\ Now = W(<<96>>) /\ <<96>> \in Seq(Nat) /\ Len(<<96>>) = 1 /\ <<96>>[1] = 96
    BY <1>3, <1>8
  <2>2. Put(<<96>>) /\ pc' = pc + 1 /\ SessionTypes' /\ Control' /\ WholeIds' /\ UNCHANGED kept
    BY <1>6, <2>1
  <2>3. Quiet
    BY <1>5, <2>1
  <2>4. Len(toDev') = 1 /\ toDev'[1] = 96 /\ Acked(96)
    <3>1. Len(toDev) = 0
      BY <2>3 DEF Quiet
    <3>2. Len(toDev') = Len(toDev) + Len(<<96>>) /\ toDev'[Len(toDev) + 1] = <<96>>[1]
      BY <2>1, <2>2 DEF Put
    <3>3. QED
      BY <2>1, <3>1, <3>2 DEF Acked
  <2>5. Answering'
    BY <2>2, <2>3, <2>4 DEF Answering, Quiet, InSpi
  <2>6. InCommand(c)'
    BY <1>8, <2>1, <2>2, <2>5 DEF InCommand
  <2>7. QED
    BY <1>7, <2>2, <2>6
<1>9. CASE c.tx # 0 /\ pc = 1 /\ Now = W(Lengths(c))
  <2>1. Put(Lengths(c)) /\ pc' = pc + 1 /\ SessionTypes' /\ Control' /\ WholeIds' /\ UNCHANGED kept
    BY <1>4, <1>6, <1>9
  <2>2. Quiet
    BY <1>5, <1>9
  <2>3. Len(toDev') = 3 /\ toDev'[1] = 4 /\ toDev'[2] = c.tx + c.data /\ toDev'[3] = c.rx
    <3>1. Len(toDev) = 0
      BY <2>2 DEF Quiet
    <3>2. Len(toDev') = 3 /\ \A k \in 1 .. 3 : toDev'[0 + k] = Lengths(c)[k]
      BY <1>4, <2>1, <3>1 DEF Put
    <3>3. toDev'[0 + 1] = Lengths(c)[1] /\ toDev'[0 + 2] = Lengths(c)[2] /\ toDev'[0 + 3] = Lengths(c)[3]
      BY <3>2
    <3>4. 0 + 1 = 1 /\ 0 + 2 = 2 /\ 0 + 3 = 3
      OBVIOUS
    <3>5. QED
      BY <1>4, <3>2, <3>3, <3>4
  <2>4. Sending(c, 0)'
    <3>1. at' = "bbio" /\ fw' = "spi" /\ need' = 0 /\ Len(toHost') = 0
      BY <2>1, <2>2 DEF Quiet, InSpi
    <3>2. QED
      BY <2>3, <3>1 DEF Sending
  <2>5. pc' = 2
    BY <1>9, <2>1
  <2>6. InCommand(c)'
    BY <1>9, <2>4, <2>5 DEF InCommand
  <2>7. QED
    BY <1>7, <2>1, <2>6
<1>10. CASE c.tx # 0 /\ pc = 2 /\ Now = W(Ones(c.tx))
  <2>0. 0 + Len(Ones(c.tx)) = c.tx
    <3>1. \A k \in Nat : 0 + k = k
      OBVIOUS
    <3>2. Len(Ones(c.tx)) = c.tx /\ c.tx \in Nat
      BY <1>4
    <3>3. QED
      BY <3>1, <3>2
  <2>1. Put(Ones(c.tx)) /\ pc' = pc + 1 /\ SessionTypes' /\ Control' /\ WholeIds' /\ UNCHANGED kept
    BY <1>4, <1>6, <1>10
  <2>2. Sending(c, 0)
    BY <1>5, <1>10 DEF InCommand
  <2>3. Sending(c, 0 + Len(Ones(c.tx)))'
    <3>0. Ones(c.tx) \in Seq(Nat) /\ Len(Ones(c.tx)) = c.tx
      BY <1>4
    <3>1. 0 \in Nat /\ 0 + Len(Ones(c.tx)) <= c.tx + c.data
      <4>1. c.tx <= c.tx + c.data
        <5>1. \A a \in Nat : \A b \in Nat : a <= a + b
          OBVIOUS
        <5>2. QED
          BY <1>4, <5>1
      <4>2. QED
        BY <2>0, <4>1
    <3>2. UNCHANGED <<at, fw, need, rx, toHost>>
      BY <2>1
    <3>3. QED
      BY <2>1, <2>2, <3>0, <3>1, <3>2, SendingMore
  <2>5. Sending(c, c.tx)'
    BY <2>0, <2>3 DEF Sending
  <2>6. pc' = 3
    BY <1>10, <2>1
  <2>7. InCommand(c)'
    BY <1>10, <2>5, <2>6 DEF InCommand
  <2>8. QED
    BY <1>7, <2>1, <2>7
<1>11. CASE c.tx # 0 /\ pc = 3 /\ Now = W(Ones(c.data))
  <2>1. Put(Ones(c.data)) /\ pc' = pc + 1 /\ SessionTypes' /\ Control' /\ WholeIds' /\ UNCHANGED kept
    BY <1>4, <1>6, <1>11
  <2>2. Sending(c, c.tx)
    BY <1>5, <1>11 DEF InCommand
  <2>3. Sending(c, c.tx + Len(Ones(c.data)))'
    <3>0. Ones(c.data) \in Seq(Nat) /\ Len(Ones(c.data)) = c.data
      BY <1>4
    <3>1. c.tx + Len(Ones(c.data)) <= c.tx + c.data
      BY <1>4, <3>0
    <3>2. UNCHANGED <<at, fw, need, rx, toHost>>
      BY <2>1
    <3>3. QED
      BY <1>4, <2>1, <2>2, <3>0, <3>1, <3>2, SendingMore
  <2>4. c.tx + Len(Ones(c.data)) = c.tx + c.data
    BY <1>4
  <2>5. Sending(c, c.tx + c.data)'
    BY <2>3, <2>4 DEF Sending
  <2>6. pc' = 4
    BY <1>11, <2>1
  <2>7. InCommand(c)'
    BY <1>11, <2>4, <2>5, <2>6 DEF InCommand
  <2>8. QED
    BY <1>7, <2>1, <2>7
<1>12. QED
  BY <1>3, <1>8, <1>9, <1>10, <1>11

(* The goodbye goes on where it was.                                       *)
LEMMA LeftMore ==
  ASSUME SessionTypes, NEW sent \in Nat, NEW w \in Seq(Nat), Left(sent), Put(w),
         \A k \in 1 .. Len(w) : w[k] = Farewell[sent + k], UNCHANGED <<at, i, fw, need>>
  PROVE  Left(sent + Len(w))'
<1> DEFINE all == sent + Len(w)
<1>1. /\ Len(toDev) \in Nat /\ Len(w) \in Nat /\ Len(toDev') = Len(toDev) + Len(w)
      /\ Len(toDev) <= sent /\ all \in Nat
  BY DEF SessionTypes, Put, Left
<1>2. all - Len(toDev') = sent - Len(toDev) /\ Len(toDev') <= all
  BY <1>1
<1>3. ASSUME NEW k \in 1 .. Len(toDev') PROVE toDev'[k] = Farewell[all - Len(toDev') + k]
  <2>1. CASE k <= Len(toDev)
    <3>1. k \in 1 .. Len(toDev)
      BY <1>1, <2>1
    <3>2. toDev'[k] = toDev[k] /\ toDev[k] = Farewell[sent - Len(toDev) + k]
      BY <3>1 DEF Put, Left
    <3>3. QED
      BY <1>2, <3>2
  <2>2. CASE k > Len(toDev)
    <3>1. k - Len(toDev) \in 1 .. Len(w) /\ Len(toDev) + (k - Len(toDev)) = k
          /\ sent + (k - Len(toDev)) = sent - Len(toDev) + k
      BY <1>1, <2>2
    <3>2. toDev'[Len(toDev) + (k - Len(toDev))] = w[k - Len(toDev)]
      BY <3>1 DEF Put
    <3>3. w[k - Len(toDev)] = Farewell[sent + (k - Len(toDev))]
      BY <3>1
    <3>4. QED
      BY <1>2, <3>1, <3>2, <3>3
  <2>3. QED
    BY <1>1, <2>1, <2>2
<1>4. /\ sent - Len(toDev) = 0 => InSpi'
      /\ sent - Len(toDev) = 1 => at' = "bbio" /\ fw' = "menu"
      /\ sent - Len(toDev) \in {2, 3, 5, 6} => at' = "prompt" /\ i' = 0
      /\ sent - Len(toDev) = 4 => at' = "prompt" \/ (at' = "bbio" /\ fw' = "menu")
  BY DEF Left, InSpi
<1> HIDE DEF all
<1>5. Left(all)'
  BY <1>2, <1>3, <1>4 DEF Left
<1>6. QED
  BY <1>5 DEF all

(* The bytes of a cleanup's step are the next of the goodbye.              *)
LEMMA FarewellBytes ==
  ASSUME SessionTypes, LastStep \in {3, 5}, LastStep = 5 => tool # "HydraSPI"
  PROVE  /\ SentBefore(1) = 0 /\ SentBefore(2) = 1 /\ SentBefore(4) = 4 /\ SentBefore(5) = 6
         /\ SentBefore(3) = IF tool = "HydraSPI" THEN 2 ELSE 3
         /\ Farewell[1] = 0 /\ Farewell[2] = 15 /\ Farewell[3] = 10
         /\ Farewell[4] = 0 /\ Farewell[5] = 15 /\ Farewell[6] = 10
BY DEF SentBefore, Farewell

(* A run without an error parts as it should.                              *)
LEMMA WriteCleanup ==
  ASSUME SessionTypes, Control, WholeIds, Parting, phase = "cleanup", Write
  PROVE  SessionTypes' /\ Control' /\ WholeIds' /\ Parting'
<1> DEFINE kept == <<usb, at, i, fw, need, rx, toHost, tool, params, body, phase, cmd, result>>
           last == IF tool = "HydraSPI" THEN <<15>> ELSE <<15, 10>>
<1>1. pc \in Nat /\ pc >= 1 /\ toDev \in Seq(Nat) /\ Len(toDev) \in Nat
  BY DEF SessionTypes
<1>2. pc <= Len(Steps)
  BY DEF Write, AtStep
<1>3. /\ (pc \in {1, 3} /\ Now = W(<<0>>)) \/ (pc \in {2, 4} /\ Now = W(last))
      /\ result # "failed" => Len(Steps) = LastStep - 1
      /\ LastStep \in {3, 5} /\ (LastStep = 5 => tool # "HydraSPI")
  BY <1>2, CleanupNow
<1>4. ASSUME NEW w \in Seq(Nat), Now = W(w)
      PROVE  Put(w) /\ pc' = pc + 1 /\ SessionTypes' /\ Control' /\ WholeIds' /\ UNCHANGED kept
  <2>1. Put(w) /\ pc' = pc + 1 /\ UNCHANGED kept
    BY <1>4, WritePuts
  <2>2. toDev' \in Seq(Nat)
    BY <2>1 DEF Put
  <2>3. QED
    BY <2>1, <2>2, WriteKeeps
<1>5. <<0>> \in Seq(Nat) /\ <<15>> \in Seq(Nat) /\ <<15, 10>> \in Seq(Nat) /\ last \in {<<15>>, <<15, 10>>}
  OBVIOUS
<1>6. SessionTypes' /\ Control' /\ WholeIds' /\ pc' = pc + 1 /\ UNCHANGED kept
  <2>1. last \in Seq(Nat)
    BY <1>5
  <2>2. QED
    BY <1>3, <1>4, <1>5, <2>1
<1>7. result # "done" /\ phase' = "cleanup" /\ result' = result
  BY <1>6 DEF Control
<1>8. CASE result = "failed"
  BY <1>6, <1>7, <1>8 DEF Parting
<1>9. CASE result # "failed"
  <2>1. result = "none" /\ pc <= LastStep /\ Left(SentBefore(pc)) /\ pc + 1 <= LastStep
    <3>1. result = "none"
      BY <1>7, <1>9 DEF SessionTypes
    <3>2. pc + 1 <= LastStep
      BY <1>1, <1>2, <1>3, <1>9
    <3>3. QED
      BY <3>1, <3>2 DEF Parting
  <2>2. LastStep' = LastStep
    BY <1>6 DEF LastStep
  <2>3. UNCHANGED <<at, i, fw, need>>
    BY <1>6
  <2>4. ASSUME NEW sent \in Nat, NEW w \in Seq(Nat), Now = W(w), sent = SentBefore(pc),
               \A k \in 1 .. Len(w) : w[k] = Farewell[sent + k], SentBefore(pc + 1) = sent + Len(w)
        PROVE  Parting'
    <3>1. Left(sent + Len(w))'
      BY <1>4, <2>1, <2>3, <2>4, LeftMore
    <3>2. SentBefore(pc)' = sent + Len(w)
      <4>1. pc' = pc + 1 /\ tool' = tool
        BY <1>6
      <4>2. SentBefore(pc)' = SentBefore(pc + 1)
        BY <4>1 DEF SentBefore
      <4>3. QED
        BY <2>4, <4>2
    <3>3. pc' <= LastStep'
      BY <1>6, <2>1, <2>2
    <3>4. Left(SentBefore(pc))'
      <4> DEFINE all == sent + Len(w)
      <4> HIDE DEF all
      <4>1. Left(all)' /\ SentBefore(pc)' = all
        BY <3>1, <3>2 DEF all
      <4>2. QED
        BY <4>1 DEF Left
    <3>5. QED
      BY <1>7, <2>1, <3>3, <3>4 DEF Parting
  <2> DEFINE more == IF tool = "HydraSPI" THEN 2 ELSE 3
  <2>10. /\ SentBefore(1) = 0 /\ SentBefore(2) = 1 /\ SentBefore(3) = more
         /\ SentBefore(4) = 4 /\ SentBefore(5) = 6
         /\ Farewell[1] = 0 /\ Farewell[2] = 15 /\ Farewell[3] = 10
         /\ Farewell[4] = 0 /\ Farewell[5] = 15 /\ Farewell[6] = 10
    BY <1>3, FarewellBytes
  <2>11. /\ Len(<<0>>) = 1 /\ <<0>>[1] = 0 /\ Len(<<15>>) = 1 /\ <<15>>[1] = 15
         /\ Len(<<15, 10>>) = 2 /\ <<15, 10>>[1] = 15 /\ <<15, 10>>[2] = 10
    OBVIOUS
  <2>5. CASE pc = 1
    <3>1. Now = W(<<0>>)
      BY <1>3, <2>5
    <3>2. \A k \in 1 .. Len(<<0>>) : <<0>>[k] = Farewell[0 + k]
      BY <2>10, <2>11
    <3>3. SentBefore(pc) = 0 /\ SentBefore(pc + 1) = 0 + Len(<<0>>)
      BY <2>5, <2>10, <2>11
    <3>4. 0 \in Nat
      OBVIOUS
    <3>5. QED
      BY <1>5, <1>6, <2>4, <3>1, <3>2, <3>3, <3>4
  <2>6. CASE pc = 2
    <3>1. Now = W(last) /\ SentBefore(pc) = 1 /\ 1 \in Nat
      BY <1>3, <2>6, <2>10
    <3>2. CASE tool = "HydraSPI"
      <4>1. last = <<15>> /\ more = 2
        BY <3>2
      <4>2. \A k \in 1 .. Len(<<15>>) : <<15>>[k] = Farewell[1 + k]
        BY <2>10, <2>11
      <4>3. SentBefore(pc + 1) = 1 + Len(<<15>>)
        BY <2>6, <2>10, <2>11, <4>1
      <4>4. QED
        BY <1>5, <1>6, <2>4, <3>1, <4>1, <4>2, <4>3
    <3>3. CASE tool # "HydraSPI"
      <4>1. last = <<15, 10>> /\ more = 3
        BY <3>3
      <4>2. \A k \in 1 .. Len(<<15, 10>>) : <<15, 10>>[k] = Farewell[1 + k]
        BY <2>10, <2>11
      <4>3. SentBefore(pc + 1) = 1 + Len(<<15, 10>>)
        BY <2>6, <2>10, <2>11, <4>1
      <4>4. QED
        BY <1>5, <1>6, <2>4, <3>1, <4>1, <4>2, <4>3
    <3>4. QED
      BY <3>2, <3>3
  <2>12. ASSUME pc \in {3, 4} PROVE tool # "HydraSPI" /\ last = <<15, 10>> /\ more = 3
    BY <1>3, <2>1, <2>12
  <2>7. CASE pc = 3
    <3>1. Now = W(<<0>>) /\ more = 3
      BY <1>3, <2>7, <2>12
    <3>2. \A k \in 1 .. Len(<<0>>) : <<0>>[k] = Farewell[3 + k]
      BY <2>10, <2>11
    <3>3. SentBefore(pc) = 3 /\ SentBefore(pc + 1) = 3 + Len(<<0>>) /\ 3 \in Nat
      BY <2>7, <2>10, <2>11, <3>1
    <3>4. QED
      BY <1>5, <1>6, <2>4, <3>1, <3>2, <3>3
  <2>8. CASE pc = 4
    <3>1. Now = W(<<15, 10>>)
      BY <1>3, <2>8, <2>12
    <3>2. \A k \in 1 .. Len(<<15, 10>>) : <<15, 10>>[k] = Farewell[4 + k]
      BY <2>10, <2>11
    <3>3. SentBefore(pc) = 4 /\ SentBefore(pc + 1) = 4 + Len(<<15, 10>>) /\ 4 \in Nat
      BY <2>8, <2>10, <2>11
    <3>4. QED
      BY <1>5, <1>6, <2>4, <3>1, <3>2, <3>3
  <2>9. QED
    BY <1>3, <2>5, <2>6, <2>7, <2>8
<1>10. QED
  BY <1>6, <1>8, <1>9

-----------------------------------------------------------------------------
(* A run that is over, or that cleans up after an error, promises nothing. *)
LEMMA Aborted ==
  ASSUME \/ phase' = "off" /\ result' # "done"
         \/ phase' = "cleanup" /\ result' = "failed"
  PROVE  Entering' /\ Commanding' /\ Parting'
BY DEF Entering, Commanding, Parting

(* What the host does to its own end leaves the firmware where it is.      *)
LEMMA HostKeeps ==
  ASSUME SessionTypes, Control, UNCHANGED <<usb, at, i, fw, need, rx, tool, params, body>>,
         toDev' \in Seq(Nat), toHost' \in Seq(Said), cmd' \in Nat \ {0}, pc' \in Nat \ {0},
         phase' \in {"off", "enter", "body", "cleanup"}, result' \in {"none", "done", "failed"},
         phase # "off" \/ phase' = "off", phase' \in {"enter", "body"} => result' = "none",
         result' = "done" => phase' = "off" /\ usb
  PROVE  SessionTypes' /\ Control'
<1>1. SessionTypes'
  BY DEF SessionTypes
<1>2. Control'
  BY DEF Control
<1>3. QED
  BY <1>1, <1>2

(* Only __enter__ drops what has arrived, and only once.                   *)
LEMMA FlushesEntering ==
  ASSUME SessionTypes, Flush
  PROVE  phase = "enter" /\ pc = HostNuls + 2
<1>1. phase # "off" /\ pc <= Len(Steps) /\ Now.do = "flush"
  BY DEF Flush, AtStep
<1>2. ~(\E w : Now = W(w)) /\ ~(\E w : Now = R(w))
  BY <1>1, StepKinds
<1>3. phase # "body"
  BY <1>1, <1>2, BodyNow
<1>4. phase # "cleanup"
  BY <1>1, <1>2, CleanupNow
<1>5. phase = "enter"
  BY <1>1, <1>3, <1>4 DEF SessionTypes
<1>6. QED
  BY <1>1, <1>2, <1>5, EnterNow

(* What arrived before the flush and after it: a banner was read, so none  *)
(* of it begins an identification.                                         *)
LEMMA FlushKeeps ==
  ASSUME SessionTypes, Control, WholeIds, Entering, Flush
  PROVE  SessionTypes' /\ Control' /\ WholeIds' /\ Entering' /\ Commanding' /\ Parting'
<1>1. phase = "enter" /\ pc = HostNuls + 2 /\ HostNuls \in Nat
  BY FlushesEntering, SessionAssumption
<1>2. toHost \in Seq(Said) /\ toDev \in Seq(Nat) /\ cmd \in Nat \ {0} /\ result = "none"
  BY <1>1 DEF SessionTypes, Control
<1>3. /\ UNCHANGED <<usb, at, i, fw, need, rx, tool, params, body, phase, cmd, result, toDev>>
      /\ pc' = pc + 1
  BY DEF Flush, Onward, firmware, run
<1>4. PICK k \in 0 .. Len(toHost) : toHost' = SubSeq(toHost, k + 1, Len(toHost))
  BY DEF Flush, Flushed
<1>5. /\ toHost' \in Seq(Said) /\ Len(toHost') = Len(toHost) - k
      /\ \A p \in 1 .. Len(toHost') : p + k \in 1 .. Len(toHost) /\ toHost'[p] = toHost[p + k]
      /\ WholeIds'
  BY <1>2, <1>4, TakenWhole
<1>6. pc' \in Nat \ {0} /\ pc' = HostNuls + 3
  BY <1>1, <1>3
<1>7. SessionTypes' /\ Control'
  BY <1>1, <1>2, <1>3, <1>5, <1>6, HostKeeps
<1>8. Heard
  BY <1>1 DEF Entering
<1>9. fw' = "sniff" \/ Knocked(HostNuls, Len(toDev))'
  BY <1>3, <1>8 DEF Heard, Knocked
<1>10. NoId'
  BY <1>5, <1>8 DEF Heard, NoId
<1>11. Heard'
  BY <1>9, <1>10 DEF Heard
<1>12. Entering'
  BY <1>1, <1>6, <1>11 DEF Entering
<1>13. Commanding' /\ Parting'
  BY <1>1, <1>2, <1>3 DEF Commanding, Parting
<1>14. QED
  BY <1>5, <1>7, <1>12, <1>13

(* A read takes what it wants from the front, or gives the run up.         *)
LEMMA ReadTakes ==
  ASSUME SessionTypes, Control, WholeIds, NEW w \in Seq(Said), Read, Now = R(w)
  PROVE  /\ SessionTypes' /\ Control' /\ WholeIds'
         /\ Len(toHost) >= Len(w) /\ Len(toHost') = Len(toHost) - Len(w)
         /\ \A p \in 1 .. Len(toHost') : p + Len(w) \in 1 .. Len(toHost) /\ toHost'[p] = toHost[p + Len(w)]
         /\ UNCHANGED <<usb, at, i, fw, need, rx, tool, params, body, toDev>>
         /\ \/ Entering' /\ Commanding' /\ Parting'
            \/ /\ \A k \in 1 .. Len(w) : toHost[k] = w[k]
               /\ pc' = pc + 1 /\ UNCHANGED <<phase, cmd, result>>
<1>1. toHost \in Seq(Said) /\ toDev \in Seq(Nat) /\ pc \in Nat /\ cmd \in Nat \ {0} /\ Len(w) \in Nat
  BY DEF SessionTypes
<1>2. Now.want = w
  BY StepKinds
<1>3. /\ phase # "off" /\ Len(toHost) >= Len(w)
      /\ toHost' = SubSeq(toHost, Len(w) + 1, Len(toHost))
      /\ UNCHANGED <<usb, at, i, fw, need, rx, tool, params, body, toDev>>
      /\ \/ SubSeq(toHost, 1, Len(w)) = w /\ Onward
         \/ GiveUp
         \/ Off("failed")
  BY <1>2 DEF Read, AtStep, firmware, run
<1>4. Len(w) \in 0 .. Len(toHost)
  BY <1>1, <1>3
<1>5. /\ toHost' \in Seq(Said) /\ Len(toHost') = Len(toHost) - Len(w)
      /\ \A p \in 1 .. Len(toHost') : p + Len(w) \in 1 .. Len(toHost) /\ toHost'[p] = toHost[p + Len(w)]
      /\ WholeIds'
  BY <1>1, <1>3, <1>4, TakenWhole
<1>6. CASE SubSeq(toHost, 1, Len(w)) = w /\ Onward
  <2>1. \A k \in 1 .. Len(w) : toHost[k] = w[k]
    BY <1>1, <1>4, <1>6, Taken
  <2>2. pc' = pc + 1 /\ pc' \in Nat \ {0} /\ UNCHANGED <<phase, cmd, result>>
    BY <1>1, <1>6 DEF Onward
  <2>3. SessionTypes' /\ Control'
    <3>1. /\ phase \in {"off", "enter", "body", "cleanup"} /\ result \in {"none", "done", "failed"}
          /\ phase \in {"enter", "body"} => result = "none"
          /\ result = "done" => phase = "off" /\ usb
      BY DEF SessionTypes, Control
    <3>2. QED
      BY <1>1, <1>3, <1>5, <2>2, <3>1, HostKeeps
  <2>4. QED
    BY <1>3, <1>5, <2>1, <2>2, <2>3
<1>7. CASE GiveUp \/ Off("failed")
  <2>1. phase' \in {"off", "cleanup"} /\ result' = "failed" /\ cmd' = 1 /\ pc' = 1
    BY <1>7 DEF GiveUp, Off
  <2>2. SessionTypes' /\ Control'
    BY <1>1, <1>3, <1>5, <2>1, HostKeeps
  <2>3. Entering' /\ Commanding' /\ Parting'
    BY <2>1, Aborted
  <2>4. QED
    BY <1>3, <1>5, <2>2, <2>3
<1>8. QED
  BY <1>3, <1>6, <1>7

(* What is read while entering: a banner, maybe an old one; then an        *)
(* identification, which can only be the answer that was asked for; and    *)
(* the answers to the bytes that were sent.                                *)
LEMMA ReadEnter ==
  ASSUME SessionTypes, Control, WholeIds, Entering, phase = "enter", Read
  PROVE  SessionTypes' /\ Control' /\ WholeIds' /\ Entering' /\ Commanding' /\ Parting'
<1> DEFINE n == HostNuls
<1>1. /\ n \in Nat /\ pc \in Nat /\ Len(toHost) \in Nat /\ Len(toDev) \in Nat
      /\ Len(Banner) \in Nat /\ Len(Id) \in Nat /\ Len(Id) >= 1 /\ result = "none"
  BY SessionAssumption, Utterances DEF SessionTypes, Control
<1>2. /\ pc <= Len(Steps) /\ ~(\E w : Now = W(w)) /\ Now # Reset
  BY StepKinds DEF Read, AtStep
<1>3. ASSUME pc' = pc + 1, UNCHANGED <<phase, cmd, result>> PROVE phase' = "enter" /\ Commanding' /\ Parting'
  BY <1>1, <1>3 DEF Commanding, Parting
<1>4. CASE pc = n + 1 /\ Now = R(Banner)
  <2>1. Knocking
    BY <1>1, <1>4 DEF Entering
  <2>2. /\ SessionTypes' /\ Control' /\ WholeIds'
        /\ \A p \in 1 .. Len(toHost') : p + Len(Banner) \in 1 .. Len(toHost) /\ toHost'[p] = toHost[p + Len(Banner)]
        /\ UNCHANGED <<at, i, fw, tool, toDev>>
        /\ \/ Entering' /\ Commanding' /\ Parting'
           \/ pc' = pc + 1 /\ UNCHANGED <<phase, cmd, result>>
    BY <1>4, ReadTakes, Utterances
  <2>3. NoId'
    <3>1. ASSUME NEW p \in 1 .. Len(toHost'), toHost'[p] = Id[1] PROVE FALSE
      <4>1. p + Len(Banner) \in 1 .. Len(toHost) /\ toHost[p + Len(Banner)] = Id[1]
        BY <2>2, <3>1
      <4>2. p + Len(Banner) <= Len(Banner)
        BY <2>1, <4>1 DEF Knocking
      <4>3. QED
        BY <1>1, <4>2
    <3>2. QED
      BY <3>1 DEF NoId
  <2>4. fw' = "sniff" \/ Knocked(n, Len(toDev))'
    <3>1. pc - 1 = n
      BY <1>1, <1>4
    <3>2. fw = "sniff" \/ Knocked(n, Len(toDev))
      BY <2>1, <3>1 DEF Knocking
    <3>3. QED
      BY <2>2, <3>2 DEF Knocked
  <2>5. Heard'
    BY <2>3, <2>4 DEF Heard
  <2>6. ASSUME pc' = pc + 1, UNCHANGED <<phase, cmd, result>> PROVE Entering'
    <3>1. pc' = n + 2
      BY <1>1, <1>4, <2>6
    <3>2. QED
      BY <1>1, <2>5, <3>1 DEF Entering
  <2>7. QED
    BY <1>3, <2>2, <2>6
<1>5. CASE pc = n + 4 /\ Now = R(Id)
  <2>1. Asked
    BY <1>1, <1>5 DEF Entering
  <2>2. /\ SessionTypes' /\ Control' /\ WholeIds'
        /\ Len(toHost) >= Len(Id) /\ Len(toHost') = Len(toHost) - Len(Id)
        /\ UNCHANGED <<at, fw, need, tool, toDev>>
        /\ \/ Entering' /\ Commanding' /\ Parting'
           \/ /\ \A k \in 1 .. Len(Id) : toHost[k] = Id[k]
              /\ pc' = pc + 1 /\ UNCHANGED <<phase, cmd, result>>
    BY <1>5, ReadTakes, Utterances
  <2>3. CASE /\ \A k \in 1 .. Len(Id) : toHost[k] = Id[k]
             /\ pc' = pc + 1 /\ UNCHANGED <<phase, cmd, result>>
    <3>1. 1 \in 1 .. Len(toHost) /\ toHost[1] = Id[1]
      BY <1>1, <2>2, <2>3
    <3>2. ~NoId
      BY <3>1 DEF NoId
    <3>3. Len(toDev) = 0 /\ InSpi /\ 1 = Len(toHost) - Len(Id) + 1
      BY <2>1, <3>1, <3>2 DEF Asked
    <3>4. Len(toHost') = 0
      BY <1>1, <2>2, <3>3
    <3>5. Quiet'
      BY <2>2, <3>3, <3>4 DEF Quiet, InSpi
    <3>6. pc' = n + 5
      BY <1>1, <1>5, <2>3
    <3>7. Entering'
      BY <1>1, <3>5, <3>6 DEF Entering
    <3>8. QED
      BY <1>3, <2>2, <2>3, <3>7
  <2>4. QED
    BY <2>2, <2>3
<1>6. CASE /\ pc \in {n + 6, n + 8, n + 10} /\ (pc # n + 6 => tool = "HydraSPI")
           /\ Now = R(Ok)
  <2>1. Answering
    BY <1>1, <1>6 DEF Entering
  <2>2. /\ SessionTypes' /\ Control' /\ WholeIds'
        /\ Len(toHost) >= Len(Ok) /\ Len(toHost') = Len(toHost) - Len(Ok)
        /\ UNCHANGED <<at, fw, need, tool, toDev>>
        /\ \/ Entering' /\ Commanding' /\ Parting'
           \/ pc' = pc + 1 /\ UNCHANGED <<phase, cmd, result>>
    BY <1>6, ReadTakes, Utterances
  <2>3. Len(Ok) = 1
    BY DEF Ok
  <2>4. Quiet'
    <3>1. Len(toDev) = 0 /\ Len(toHost) = 1 /\ InSpi
      BY <1>1, <2>1, <2>2, <2>3 DEF Answering
    <3>2. Len(toHost') = 0
      BY <2>2, <2>3, <3>1
    <3>3. QED
      BY <2>2, <3>1, <3>2 DEF Quiet, InSpi
  <2>5. ASSUME pc' = pc + 1, UNCHANGED <<phase, cmd, result>> PROVE Entering'
    <3>1. pc' \in {n + 7, n + 9, n + 11} /\ (pc' # n + 7 => tool' = "HydraSPI")
      BY <1>1, <1>6, <2>2, <2>5
    <3>2. QED
      BY <1>1, <2>4, <3>1 DEF Entering
  <2>6. QED
    BY <1>3, <2>2, <2>5
<1>7. QED
  BY <1>2, <1>4, <1>5, <1>6, EnterNow

(* An answer is all there is on the line when it is read.                  *)
LEMMA ReadBody ==
  ASSUME SessionTypes, Control, WholeIds, Commanding, phase = "body", Read
  PROVE  SessionTypes' /\ Control' /\ WholeIds' /\ Entering' /\ Commanding' /\ Parting'
<1>1. /\ pc \in Nat /\ pc >= 1 /\ Len(toHost) \in Nat /\ Len(toDev) \in Nat /\ need \in Nat
      /\ cmd \in Nat /\ Len(body) \in Nat /\ result = "none"
  BY DEF SessionTypes, Control
<1>2. pc <= Len(Steps) /\ ~(\E w : Now = W(w))
  BY StepKinds DEF Read, AtStep
<1>3. cmd <= Len(body) /\ body[cmd] \in Commands
  BY <1>2, BodyNow
<1> PICK c \in Commands : c = body[cmd]
  BY <1>3
<1>4. /\ c.tx = 0 => pc = 2 /\ Now = R(Ok)
      /\ c.tx # 0 => (pc = 4 /\ Now = R(Ok)) \/ (pc = 5 /\ Now = R(Data(c.rx)))
  BY <1>2, BodyNow
<1>5. c.tx \in Nat /\ c.data \in Nat /\ c.rx \in Nat
  BY CommandBytes
<1>6. InCommand(c) /\ cmd \in 1 .. Len(body) + 1
  BY <1>3 DEF Commanding
<1>7. ASSUME pc' = pc + 1, UNCHANGED <<phase, cmd, result, body>>, InCommand(c)'
      PROVE  Entering' /\ Commanding' /\ Parting'
  <2>1. body'[cmd'] = c /\ pc' # 1 /\ cmd' \in 1 .. Len(body') + 1 /\ cmd' <= Len(body')
    BY <1>1, <1>3, <1>6, <1>7
  <2>2. Commanding'
    BY <1>7, <2>1 DEF Commanding
  <2>3. Entering' /\ Parting'
    BY <1>1, <1>7 DEF Entering, Parting
  <2>4. QED
    BY <2>2, <2>3
<1>8. ASSUME Now = R(Ok)
      PROVE  /\ SessionTypes' /\ Control' /\ WholeIds'
             /\ Len(toHost) >= 1 /\ Len(toHost') = Len(toHost) - 1
             /\ \A p \in 1 .. Len(toHost') : p + 1 \in 1 .. Len(toHost) /\ toHost'[p] = toHost[p + 1]
             /\ UNCHANGED <<at, fw, need, rx, body, toDev>>
             /\ \/ Entering' /\ Commanding' /\ Parting'
                \/ pc' = pc + 1 /\ UNCHANGED <<phase, cmd, result>>
  <2>1. Len(Ok) = 1
    BY DEF Ok
  <2>2. QED
    BY <1>8, <2>1, ReadTakes, Utterances
<1>9. CASE c.tx = 0
  <2>1. pc = 2 /\ Now = R(Ok) /\ Answering
    BY <1>4, <1>6, <1>9 DEF InCommand
  <2>2. Quiet'
    <3>1. Len(toDev) = 0 /\ Len(toHost) = 1 /\ InSpi
      BY <1>1, <1>8, <2>1 DEF Answering
    <3>2. Len(toHost') = 0
      BY <1>8, <2>1, <3>1
    <3>3. QED
      BY <1>8, <2>1, <3>1, <3>2 DEF Quiet, InSpi
  <2>3. ASSUME pc' = pc + 1 PROVE InCommand(c)'
    <3>1. pc' = 3
      BY <2>1, <2>3
    <3>2. QED
      BY <1>9, <2>2, <3>1 DEF InCommand
  <2>4. QED
    BY <1>7, <1>8, <2>1, <2>3
<1>10. CASE c.tx # 0 /\ pc = 4 /\ Now = R(Ok)
  <2>1. Sending(c, c.tx + c.data)
    BY <1>6, <1>10 DEF InCommand
  <2>2. /\ need = 0 /\ Len(toDev) = 0 /\ at = "bbio" /\ fw = "spi"
        /\ Len(toHost) = 1 + c.rx /\ \A k \in 2 .. 1 + c.rx : toHost[k] = "d"
    BY <1>1, <1>8, <1>10, <2>1 DEF Sending
  <2>3. Len(toHost') = c.rx
    BY <1>5, <1>8, <1>10, <2>2
  <2>4. ASSUME NEW k \in 1 .. c.rx PROVE toHost'[k] = "d"
    <3>1. k + 1 \in 2 .. 1 + c.rx
      BY <1>5
    <3>2. QED
      BY <1>8, <1>10, <2>2, <2>3, <3>1
  <2>5. Receiving(c)'
    BY <1>8, <1>10, <2>2, <2>3, <2>4 DEF Receiving, InSpi
  <2>6. ASSUME pc' = pc + 1 PROVE InCommand(c)'
    <3>1. pc' = 5
      BY <1>10, <2>6
    <3>2. QED
      BY <1>10, <2>5, <3>1 DEF InCommand
  <2>7. QED
    BY <1>7, <1>8, <1>10, <2>6
<1>11. CASE c.tx # 0 /\ pc = 5 /\ Now = R(Data(c.rx))
  <2>1. Receiving(c)
    BY <1>6, <1>11 DEF InCommand
  <2>2. Data(c.rx) \in Seq(Said) /\ Len(Data(c.rx)) = c.rx
    BY <1>5, DataSaid
  <2>3. /\ SessionTypes' /\ Control' /\ WholeIds'
        /\ Len(toHost') = Len(toHost) - c.rx
        /\ UNCHANGED <<at, fw, need, rx, body, toDev>>
        /\ \/ Entering' /\ Commanding' /\ Parting'
           \/ pc' = pc + 1 /\ UNCHANGED <<phase, cmd, result>>
    BY <1>11, <2>2, ReadTakes
  <2>4. Quiet'
    <3>1. Len(toDev) = 0 /\ Len(toHost) = c.rx /\ InSpi
      BY <2>1 DEF Receiving
    <3>2. Len(toHost') = 0
      BY <1>5, <2>3, <3>1
    <3>3. QED
      BY <2>3, <3>1, <3>2 DEF Quiet, InSpi
  <2>5. ASSUME pc' = pc + 1 PROVE InCommand(c)'
    <3>1. pc' = 6
      BY <1>11, <2>5
    <3>2. QED
      BY <1>11, <2>4, <3>1 DEF InCommand
  <2>6. QED
    BY <1>7, <2>3, <2>5
<1>12. QED
  BY <1>4, <1>9, <1>10, <1>11

(* A cleanup reads nothing.                                                *)
LEMMA ReadKeeps ==
  ASSUME SessionTypes, Control, WholeIds, Entering, Commanding, Read
  PROVE  SessionTypes' /\ Control' /\ WholeIds' /\ Entering' /\ Commanding' /\ Parting'
<1>1. phase # "off" /\ pc <= Len(Steps) /\ ~(\E w : Now = W(w))
  BY StepKinds DEF Read, AtStep
<1>2. phase # "cleanup"
  BY <1>1, CleanupNow
<1>3. phase \in {"enter", "body"}
  BY <1>1, <1>2 DEF SessionTypes
<1>4. QED
  BY <1>3, ReadEnter, ReadBody

(* A write, in every phase.                                                *)
LEMMA WriteHolds ==
  ASSUME IInv, SessionTypes, Control, WholeIds, Entering, Commanding, Parting, Write
  PROVE  SessionTypes' /\ Control' /\ WholeIds' /\ Entering' /\ Commanding' /\ Parting'
<1>1. phase \in {"enter", "body", "cleanup"} /\ phase' = phase /\ result' = result
  BY DEF Write, AtStep, Onward, SessionTypes
<1>2. result' # "done" /\ (phase \in {"enter", "body"} => result' = "none")
  BY <1>1 DEF Control
<1>3. CASE phase = "enter"
  <2>1. Commanding' /\ Parting'
    BY <1>1, <1>2, <1>3 DEF Commanding, Parting
  <2>2. QED
    BY <1>3, <2>1, WriteEnter
<1>4. CASE phase = "body"
  <2>1. Entering' /\ Parting'
    BY <1>1, <1>2, <1>4 DEF Entering, Parting
  <2>2. QED
    BY <1>4, <2>1, WriteBody
<1>5. CASE phase = "cleanup"
  <2>1. Entering' /\ Commanding'
    BY <1>1, <1>5 DEF Entering, Commanding
  <2>2. QED
    BY <1>5, <2>1, WriteCleanup
<1>6. QED
  BY <1>1, <1>3, <1>4, <1>5

(* At the end of entering and of each command the line is empty and the    *)
(* firmware waits.                                                         *)
LEMMA QuietAtTheEnd ==
  ASSUME SessionTypes, Entering, Commanding, phase \in {"enter", "body"}, pc > Len(Steps)
  PROVE  Quiet
<1> DEFINE n == HostNuls
<1>1. n \in Nat /\ pc \in Nat /\ pc >= 1 /\ cmd \in Nat /\ Len(body) \in Nat
  BY SessionAssumption DEF SessionTypes
<1>2. CASE phase = "enter"
  <2>1. Len(Steps) = n + IF tool = "HydraSPI" THEN 10 ELSE 6
    BY <1>2, EnterSteps
  <2>2. pc <= n + IF tool = "HydraSPI" THEN 11 ELSE 7
    BY <1>2 DEF Entering
  <2>3. pc \in {n + 7, n + 11}
    BY <1>1, <2>1, <2>2
  <2>4. QED
    BY <1>1, <1>2, <2>3 DEF Entering
<1>3. CASE phase = "body" /\ cmd > Len(body)
  <2>1. pc = 1
    BY <1>1, <1>3 DEF Commanding
  <2>2. QED
    BY <1>3, <2>1 DEF Commanding
<1>4. CASE phase = "body" /\ cmd <= Len(body)
  <2>1. body[cmd] \in Commands /\ InCommand(body[cmd])
    BY <1>4, BodySteps DEF Commanding
  <2>2. Len(Steps) = IF body[cmd].tx = 0 THEN 2 ELSE 5
    BY <1>4, BodySteps
  <2>3. CASE body[cmd].tx = 0
    <3>1. pc <= 3 /\ pc > 2 /\ (pc = 3 => Quiet)
      BY <2>1, <2>2, <2>3 DEF InCommand
    <3>2. QED
      BY <1>1, <3>1
  <2>4. CASE body[cmd].tx # 0
    <3>1. pc <= 6 /\ pc > 5 /\ (pc = 6 => Quiet)
      BY <2>1, <2>2, <2>4 DEF InCommand
    <3>2. QED
      BY <1>1, <3>1
  <2>5. QED
    BY <2>3, <2>4
<1>5. QED
  BY <1>1, <1>2, <1>3, <1>4

(* Entered, on to the next command, done, or gone.                         *)
LEMMA NextPhaseKeeps ==
  ASSUME SessionTypes, Control, WholeIds, Entering, Commanding, Parting, NextPhase
  PROVE  SessionTypes' /\ Control' /\ WholeIds' /\ Entering' /\ Commanding' /\ Parting'
<1>1. /\ pc \in Nat /\ pc >= 1 /\ cmd \in Nat \ {0} /\ body \in Seq(Commands) /\ Len(body) \in Nat
      /\ toDev \in Seq(Nat) /\ toHost \in Seq(Said) /\ Len(toDev) \in Nat
      /\ phase \in {"off", "enter", "body", "cleanup"} /\ result \in {"none", "done", "failed"}
  BY DEF SessionTypes
<1>2. /\ phase # "off" /\ pc > Len(Steps) /\ usb /\ result # "done"
      /\ UNCHANGED <<usb, at, i, fw, need, rx, tool, params, body, toDev, toHost>>
  BY DEF NextPhase, firmware, run, Control
<1>3. phase \in {"enter", "body"} => result = "none" /\ Quiet
  BY <1>2, QuietAtTheEnd DEF Control
<1>4. WholeIds'
  BY <1>2 DEF WholeIds
<1>5. ASSUME cmd' \in Nat \ {0}, pc' = 1, phase' \in {"off", "body", "cleanup"},
             result' \in {"none", "done", "failed"}, phase' = "body" => result' = "none",
             result' = "done" => phase' = "off"
      PROVE  SessionTypes' /\ Control' /\ Entering'
  <2>1. SessionTypes' /\ Control'
    BY <1>1, <1>2, <1>5, HostKeeps
  <2>2. Entering'
    BY <1>5 DEF Entering
  <2>3. QED
    BY <2>1, <2>2
<1>6. CASE /\ \/ phase = "enter" /\ cmd' = 1
              \/ phase = "body" /\ cmd <= Len(body) /\ cmd' = cmd + 1
           /\ phase' = "body" /\ pc' = 1 /\ result' = result
  <2>1. cmd' \in 1 .. Len(body) + 1
    BY <1>1, <1>6
  <2>2. Quiet'
    BY <1>2, <1>3, <1>6 DEF Quiet, InSpi
  <2>4. Commanding'
    <3>1. IF cmd' <= Len(body') THEN InCommand(body[cmd])' ELSE pc' = 1
      <4>1. InCommand(body[cmd])'
        BY <1>6 DEF InCommand
      <4>2. QED
        BY <1>6, <4>1
    <3>2. cmd' \in 1 .. Len(body') + 1
      BY <1>2, <2>1
    <3>3. QED
      BY <2>2, <3>1, <3>2 DEF Commanding
  <2>5. Parting'
    BY <1>3, <1>6 DEF Parting
  <2>6. QED
    BY <1>3, <1>4, <1>5, <1>6, <2>1, <2>4, <2>5
<1>7. CASE phase = "body" /\ phase' = "cleanup" /\ cmd' = 1 /\ pc' = 1 /\ result' = result
  <2>1. Quiet /\ result' = "none"
    BY <1>3, <1>7
  <2>2. LastStep \in {3, 5} /\ LastStep' = LastStep
    BY <1>2, CleanupSteps DEF LastStep
  <2>3. SentBefore(pc)' = 0
    BY <1>7 DEF SentBefore
  <2>4. Left(0)'
    <3>1. Len(toDev') = 0 /\ InSpi'
      BY <1>2, <2>1 DEF Quiet, InSpi
    <3>2. QED
      BY <3>1 DEF Left
  <2>5. Left(SentBefore(pc))'
    BY <2>3, <2>4 DEF Left
  <2>6. Parting'
    BY <1>7, <2>1, <2>2, <2>5 DEF Parting
  <2>7. Commanding'
    BY <1>7 DEF Commanding
  <2>8. QED
    BY <1>4, <1>5, <1>7, <2>1, <2>6, <2>7
<1>8. CASE phase = "cleanup" /\ Off(IF result = "none" THEN "done" ELSE result)
  <2>1. phase' = "off" /\ cmd' = 1 /\ pc' = 1 /\ result' = IF result = "none" THEN "done" ELSE result
    BY <1>8 DEF Off
  <2>2. CASE result = "none"
    <3>1. pc <= LastStep /\ Left(SentBefore(pc))
      BY <1>8, <2>2 DEF Parting
    <3>2. Len(Steps) = LastStep - 1 /\ LastStep \in {3, 5}
      BY <1>8, <2>2, CleanupNow
    <3>3. pc = LastStep
      BY <1>1, <1>2, <3>1, <3>2
    <3>4. Left(SentBefore(LastStep))
      BY <3>1, <3>3
    <3>5. SentBefore(LastStep)' = SentBefore(LastStep)
      BY <1>2 DEF SentBefore, LastStep
    <3>6. Left(SentBefore(LastStep))'
      BY <1>2, <3>4, <3>5 DEF Left, InSpi
    <3>7. Parting' /\ Commanding'
      BY <2>1, <3>6 DEF Parting, Commanding
    <3>8. QED
      BY <1>4, <1>5, <2>1, <2>2, <3>7
  <2>3. CASE result # "none"
    <3>1. result' = "failed"
      BY <1>1, <1>2, <2>1, <2>3
    <3>2. QED
      BY <1>4, <1>5, <2>1, <3>1, Aborted
  <2>4. QED
    BY <2>2, <2>3
<1>9. \/ phase = "enter" /\ phase' = "body" /\ cmd' = 1 /\ pc' = 1 /\ UNCHANGED result
      \/ phase = "body" /\ cmd <= Len(body) /\ cmd' = cmd + 1 /\ pc' = 1 /\ UNCHANGED <<phase, result>>
      \/ phase = "body" /\ cmd > Len(body) /\ phase' = "cleanup" /\ cmd' = 1 /\ pc' = 1 /\ UNCHANGED result
      \/ phase = "cleanup" /\ Off(IF result = "none" THEN "done" ELSE result)
  BY DEF NextPhase
<1>10. QED
  BY <1>6, <1>7, <1>8, <1>9

(* A run begins with nothing unread, and less arrives late than a banner   *)
(* and an identification.                                                  *)
LEMMA OpenKeeps ==
  ASSUME IInv, SessionTypes, Control, WholeIds, Open
  PROVE  SessionTypes' /\ Control' /\ WholeIds' /\ Entering' /\ Commanding' /\ Parting'
<1>1. /\ toHost \in Seq(Said) /\ Len(toHost) \in Nat /\ need \in Nat /\ rx \in Nat
      /\ fw \in {"menu", "spi", "sniff"} /\ toDev \in Seq(Nat)
  BY DEF SessionTypes
<1>2. /\ Len(Banner) \in Nat /\ Len(Id) \in Nat /\ Len(Id) >= 1 /\ Late \in Nat
      /\ Late < Len(Banner) + Len(Id) /\ HostNuls \in Nat
  BY SessionAssumption, LateAssumption, Utterances
<1>3. /\ usb /\ (toDev = <<>> \/ fw = "sniff") /\ phase' = "enter" /\ cmd' = 1 /\ pc' = 1 /\ result' = "none"
      /\ UNCHANGED <<usb, at, i, fw, need, rx, toDev>>
      /\ tool' \in DOMAIN Bodies /\ params' \in Params /\ body' \in Bodies[tool']
  BY DEF Open, firmware
<1>4. tool' \in Tools /\ params' \in [pol : 0 .. 1, pha : 0 .. 1] /\ body' \in Seq(Commands)
  BY <1>3, SessionAssumption
<1>5. PICK k \in 0 .. Len(toHost) : k + Late >= Len(toHost) /\ toHost' = SubSeq(toHost, k + 1, Len(toHost))
  BY DEF Open, Flushed
<1>6. toHost' \in Seq(Said) /\ Len(toHost') = Len(toHost) - k /\ WholeIds'
  BY <1>1, <1>5, TakenWhole
<1>7. SessionTypes'
  BY <1>1, <1>3, <1>4, <1>6 DEF SessionTypes
<1>8. Control'
  BY <1>3 DEF Control
<1>9. ASSUME NEW p \in 1 .. Len(toHost'), toHost'[p] = Id[1] PROVE p <= Len(Banner)
  <2>1. p + Len(Id) - 1 <= Len(toHost')
    BY <1>6, <1>9 DEF WholeIds
  <2>2. Len(toHost') <= Late
    BY <1>1, <1>2, <1>5, <1>6
  <2>3. Len(toHost') \in Nat
    BY <1>6
  <2>4. QED
    BY <1>2, <2>1, <2>2, <2>3
<1>10. fw' = "sniff" \/ Knocked(pc - 1, Len(toDev))'
  <2> SUFFICES ASSUME fw # "sniff" PROVE Knocked(pc - 1, Len(toDev))'
    BY <1>3
  <2>1. Len(toDev') = 0 /\ pc' - 1 = 0
    BY <1>3
  <2>2. at' = "prompt" => i' + 0 >= 0
    BY <1>3, NulsAssumption DEF IInv, TypeOK
  <2>3. QED
    BY <2>1, <2>2 DEF Knocked
<1>11. Knocking'
  <2>1. at' = "bbio" /\ fw' = "menu" => Len(toDev') = pc' - 1
    BY <1>3
  <2>2. QED
    BY <1>9, <1>10, <2>1 DEF Knocking
<1>12. Entering'
  BY <1>2, <1>3, <1>11 DEF Entering
<1>13. Commanding' /\ Parting'
  BY <1>3 DEF Commanding, Parting
<1>14. QED
  BY <1>6, <1>7, <1>8, <1>12, <1>13

(* Exceptions and kills end the run, or leave its with statement.          *)
LEMMA FaultKeeps ==
  ASSUME SessionTypes, Control, WholeIds, Raise \/ Kill
  PROVE  SessionTypes' /\ Control' /\ WholeIds' /\ Entering' /\ Commanding' /\ Parting'
<1>1. /\ UNCHANGED <<usb, at, i, fw, need, rx, tool, params, body, toDev, toHost>>
      /\ phase # "off" /\ (GiveUp \/ Off("failed"))
  BY DEF Raise, Kill, firmware, run
<1>2. phase' \in {"off", "cleanup"} /\ cmd' = 1 /\ pc' = 1 /\ result' = "failed"
  BY <1>1 DEF GiveUp, Off
<1>3. toDev \in Seq(Nat) /\ toHost \in Seq(Said)
  BY DEF SessionTypes
<1>4. SessionTypes' /\ Control'
  BY <1>1, <1>2, <1>3, HostKeeps
<1>5. WholeIds'
  BY <1>1 DEF WholeIds
<1>6. Entering' /\ Commanding' /\ Parting'
  BY <1>2, Aborted
<1>7. QED
  BY <1>4, <1>5, <1>6

(* What happens to a board, with a tool or without one.                    *)
LEMMA BoardKeeps ==
  ASSUME IInv', SessionTypes, Control, WholeIds, UsbEvent \/ Types \/ Button \/ ButtonInSniffer \/ DetachedReads
  PROVE  SessionTypes' /\ Control' /\ WholeIds' /\ Entering' /\ Commanding' /\ Parting'
<1>1. CASE UsbEvent
  <2>1. /\ phase' = "off" /\ cmd' = 1 /\ pc' = 1 /\ result' = "none"
        /\ toDev' = <<>> /\ toHost' = <<>> /\ need' = 0
        /\ UNCHANGED <<at, i, fw, rx, tool, params, body>>
    BY <1>1 DEF UsbEvent, Off, Usb, run
  <2>2. toDev' \in Seq(Nat) /\ toHost' \in Seq(Said)
    BY <2>1
  <2>3. SessionTypes'
    BY <2>1, <2>2 DEF SessionTypes
  <2>4. Control'
    BY <2>1 DEF Control
  <2>5. WholeIds'
    BY <2>1 DEF WholeIds
  <2>6. QED
    BY <2>1, <2>3, <2>4, <2>5, Aborted
<1>2. CASE Types
  <2>1. /\ phase = "off" /\ phase' = "off" /\ result' = "none" /\ toHost' = <<>>
        /\ \E c \in Bytes : toDev' = <<c>>
        /\ UNCHANGED <<usb, at, i, fw, need, rx, tool, params, body, cmd, pc>>
    BY <1>2 DEF Types, firmware, run
  <2>2. Bytes \subseteq Nat
    BY DEF Bytes, Nul, SumpByte, SerprogByte, Text, Command
  <2>3. toDev' \in Seq(Nat) /\ toHost' \in Seq(Said)
    BY <2>1, <2>2
  <2>4. SessionTypes'
    BY <2>1, <2>3 DEF SessionTypes
  <2>5. Control'
    BY <2>1 DEF Control
  <2>6. WholeIds'
    BY <2>1 DEF WholeIds
  <2>7. QED
    BY <2>1, <2>4, <2>5, <2>6, Aborted
<1>3. CASE Button
  <2>1. /\ phase = "off" /\ phase' = "off" /\ result' = "none" /\ need = 0 /\ at' = "prompt" /\ fw' = "menu"
        /\ UNCHANGED <<usb, i, need, rx, tool, params, body, cmd, pc, toDev, toHost>>
    BY <1>3 DEF Button, Leave, run
  <2>2. SessionTypes'
    BY <2>1 DEF SessionTypes
  <2>3. Control'
    BY <2>1 DEF Control
  <2>4. WholeIds'
    BY <2>1 DEF WholeIds
  <2>5. QED
    BY <2>1, <2>2, <2>3, <2>4, Aborted
<1>4. CASE DetachedReads
  <2>1. /\ ~usb /\ at = "prompt" /\ at' \in {"prompt", "bbio"} /\ (at' = "bbio" => i' = 0)
        /\ UNCHANGED <<usb, fw, need, rx, toDev, toHost, tool, params, body, phase, cmd, pc, result>>
    BY <1>4 DEF DetachedReads, ReadNul, ResetCount, Enter, host, run
  <2>2. phase = "off" /\ result # "done" /\ fw = "menu" /\ need = 0
    BY <2>1 DEF Control
  <2>3. SessionTypes'
    BY <2>1 DEF SessionTypes
  <2>4. Control'
    BY <2>1, <2>2 DEF Control
  <2>5. WholeIds'
    BY <2>1 DEF WholeIds
  <2>6. phase' = "off" /\ result' # "done"
    BY <2>1, <2>2
  <2>7. QED
    BY <2>3, <2>4, <2>5, <2>6, Aborted
<1>5. CASE ButtonInSniffer
  <2>1. /\ phase = "off" /\ phase' = "off" /\ result' = "none" /\ fw = "sniff"
        /\ UNCHANGED <<usb, i, need, rx, tool, params, body, cmd, pc, toHost>>
        /\ \/ at' = at /\ fw' \in {"sniff", "spi"}
           \/ at' = "prompt" /\ fw' = "menu"
    BY <1>5 DEF ButtonInSniffer, Leave, run
  <2>2. at = "bbio" /\ need = 0
    BY <2>1 DEF Control, SessionTypes
  <2>3. toDev' \in Seq(Nat)
    <3>1. toDev \in Seq(Nat) /\ <<>> \in Seq(Nat)
      BY DEF SessionTypes
    <3>2. \A k \in 1 .. Len(toDev) : SubSeq(toDev, k + 1, Len(toDev)) \in Seq(Nat)
      <4> TAKE k \in 1 .. Len(toDev)
      <4>1. k \in 0 .. Len(toDev)
        BY <3>1
      <4>2. QED
        BY <3>1, <4>1, Rest
    <3>3. QED
      BY <1>5, <3>1, <3>2 DEF ButtonInSniffer
  <2>4. SessionTypes'
    BY <2>1, <2>3 DEF SessionTypes
  <2>5. Control'
    BY <2>1, <2>2 DEF Control
  <2>6. WholeIds'
    BY <2>1 DEF WholeIds
  <2>7. QED
    BY <2>1, <2>4, <2>5, <2>6, Aborted
<1>6. QED
  BY <1>1, <1>2, <1>3, <1>4, <1>5

(* The sniffer prints: only a tool that has not entered, and none that     *)
(* leaves in step, is there to read it.                                    *)
LEMMA TrafficKeeps ==
  ASSUME SInv, BusTraffic
  PROVE  SessionTypes' /\ Control' /\ WholeIds' /\ Entering' /\ Commanding' /\ Parting'
<1>1. IInv /\ SessionTypes /\ Control /\ WholeIds /\ Entering /\ Commanding /\ Parting
  BY DEF SInv
<1>2. /\ toHost \in Seq(Said) /\ <<"s">> \in Seq(Said) /\ HostNuls \in Nat /\ pc \in Nat \ {0}
  BY <1>1, SessionAssumption DEF SessionTypes, Said
<1>3. /\ fw = "sniff" /\ Say(<<"s">>)
      /\ UNCHANGED <<usb, at, i, fw, need, rx, tool, params, body, phase, cmd, pc, result, toDev>>
  BY DEF BusTraffic, firmware, host, run
<1>4. Plain
  BY <1>2, <1>3, SayAdds, SniffedPlain
<1>5. SessionTypes'
  BY <1>1, <1>3, <1>4 DEF SessionTypes, Plain
<1>6. Control'
  BY <1>1, <1>3 DEF Control
<1>7. WholeIds'
  BY <1>1, <1>2, <1>4, SaidWhole
<1>8. Entering'
  <2>1. ~Quiet /\ ~Answering
    BY <1>3 DEF Quiet, Answering, InSpi
  <2>2. Knocking => Knocking'
    BY <1>3, <1>4 DEF Knocking, Plain
  <2>3. (Heard => Heard') /\ (Asked => Asked')
    <3>1. NoId => NoId'
      BY <1>4 DEF NoId, Plain
    <3>2. Asked => NoId
      BY <1>1, <1>3 DEF Asked, NoId, InSpi, Control
    <3>3. QED
      BY <1>3, <3>1, <3>2 DEF Heard, Asked
  <2>4. QED
    BY <1>1, <1>3, <2>1, <2>2, <2>3 DEF Entering
<1>9. Commanding'
  <2>1. phase # "body"
    <3>1. SUFFICES ASSUME phase = "body" PROVE FALSE
      OBVIOUS
    <3>2. ~InSpi /\ ~Quiet /\ ~Answering
      BY <1>3 DEF InSpi, Quiet, Answering
    <3>3. pc # 1 /\ cmd <= Len(body) /\ InCommand(body[cmd])
      BY <1>1, <3>1, <3>2 DEF Commanding
    <3>4. QED
      BY <1>2, <1>3, <3>2, <3>3 DEF InCommand, Sending, Receiving
  <2>2. QED
    BY <1>3, <2>1 DEF Commanding
<1>10. Parting'
  <2>1. ASSUME NEW sent \in 0 .. 6, Left(sent) PROVE FALSE
    <3>1. Len(toDev) \in Nat /\ Len(toDev) <= sent /\ at = "bbio"
      BY <1>1, <1>3, <2>1 DEF Left, SessionTypes, Control
    <3>2. sent - Len(toDev) \in {0, 1, 2, 3, 4, 5, 6}
      BY <3>1
    <3>3. QED
      BY <1>3, <2>1, <3>1, <3>2 DEF Left, InSpi
  <2>2. LastStep \in {3, 5}
    BY <1>1, CleanupSteps
  <2>3. ASSUME NEW p \in 1 .. LastStep PROVE SentBefore(p) \in 0 .. 6
    <3>1. p \in {1, 2, 3, 4, 5}
      BY <2>2
    <3>2. QED
      BY <3>1 DEF SentBefore
  <2>4. ~(phase = "cleanup" /\ result = "none")
    <3>1. SUFFICES ASSUME phase = "cleanup", result = "none" PROVE FALSE
      OBVIOUS
    <3>2. pc \in 1 .. LastStep /\ Left(SentBefore(pc))
      BY <1>1, <1>2, <2>2, <3>1 DEF Parting
    <3>3. QED
      BY <2>1, <2>3, <3>2
  <2>5. result # "done"
    <3>1. LastStep \in 1 .. LastStep
      BY <2>2
    <3>2. QED
      BY <1>1, <2>1, <2>3, <3>1 DEF Parting
  <2>6. QED
    BY <1>3, <2>4, <2>5 DEF Parting
<1>11. QED
  BY <1>5, <1>6, <1>7, <1>8, <1>9, <1>10

(* The firmware's steps, whatever the run is at.                           *)
LEMMA DeviceKeeps ==
  ASSUME SInv, IInv', Device
  PROVE  SessionTypes' /\ Control' /\ WholeIds' /\ Entering' /\ Commanding' /\ Parting'
<1>1. IInv /\ SessionTypes /\ Control /\ WholeIds /\ Entering /\ Commanding /\ Parting
  BY DEF SInv
<1>2. CASE DetachedReads
  BY <1>1, <1>2, BoardKeeps
<1>3. CASE ~DetachedReads
  <2>1. Effect /\ UNCHANGED host
    BY <1>1, <1>3, DeviceEffect
  <2>2. SessionTypes' /\ Control'
    BY <1>1, <2>1, DeviceControl
  <2>3. WholeIds'
    <3>1. toHost \in Seq(Said)
      BY <1>1 DEF SessionTypes
    <3>2. Plain \/ SaysId
      BY <1>1, <2>1, DeviceSays
    <3>3. QED
      BY <1>1, <3>1, <3>2, SaidWhole
  <2>4. UNCHANGED <<tool, params, body, phase, cmd, pc, result>>
    BY <2>1 DEF host, run
  <2>5. Entering'
    <3>1. phase = "enter" /\ pc <= HostNuls + 1 => Knocking'
      BY <1>1, <2>1, DeviceKnocking DEF Entering
    <3>2. phase = "enter" /\ pc \in {HostNuls + 2, HostNuls + 3} => Heard'
      BY <1>1, <2>1, DeviceHeard DEF Entering
    <3>3. phase = "enter" /\ pc = HostNuls + 4 => Asked'
      BY <1>1, <2>1, DeviceAsked DEF Entering
    <3>4. phase = "enter" => pc \notin {HostNuls + 5, HostNuls + 7, HostNuls + 9, HostNuls + 11}
      <4>1. ASSUME Quiet PROVE FALSE
        BY <1>1, <2>1, <4>1, NothingToTake DEF Quiet, InSpi
      <4>2. QED
        BY <1>1, <4>1 DEF Entering
    <3>5. phase = "enter" /\ pc \in {HostNuls + 6, HostNuls + 8, HostNuls + 10} => Answering'
      BY <1>1, <2>1, DeviceAnswering DEF Entering
    <3>6. phase = "enter" => pc <= HostNuls + IF tool = "HydraSPI" THEN 11 ELSE 7
      BY <1>1 DEF Entering
    <3>7. QED
      BY <2>4, <3>1, <3>2, <3>3, <3>4, <3>5, <3>6 DEF Entering
  <2>6. Commanding'
    <3>1. SUFFICES ASSUME phase = "body" PROVE Commanding'
      BY <2>4 DEF Commanding
    <3>2. ~Quiet
      BY <1>1, <2>1, NothingToTake DEF Quiet, InSpi
    <3>3. pc # 1 /\ cmd \in 1 .. Len(body) + 1 /\ cmd <= Len(body) /\ InCommand(body[cmd])
      BY <1>1, <3>1, <3>2 DEF Commanding
    <3>4. body[cmd] \in Commands
      BY <1>1, <3>1, <3>3, BodySteps
    <3> PICK c \in Commands : c = body[cmd]
      BY <3>4
    <3>5. c.tx \in Nat /\ c.data \in Nat /\ InCommand(c)
      BY <3>3, CommandBytes
    <3>6. InCommand(c)'
      <4>1. CASE c.tx = 0
        <5>1. pc <= 3 /\ pc # 3 /\ (pc = 2 => Answering)
          BY <3>2, <3>5, <4>1 DEF InCommand
        <5>2. pc = 2 => Answering'
          BY <1>1, <2>1, <5>1, DeviceAnswering
        <5>3. QED
          BY <2>4, <4>1, <5>1, <5>2 DEF InCommand
      <4>2. CASE c.tx # 0
        <5>1. /\ pc <= 6 /\ pc # 6
              /\ (pc = 2 => Sending(c, 0)) /\ (pc = 3 => Sending(c, c.tx))
              /\ (pc = 4 => Sending(c, c.tx + c.data)) /\ (pc = 5 => Receiving(c))
          BY <3>2, <3>5, <4>2 DEF InCommand
        <5>2. c.tx > 0 /\ 0 \in 0 .. c.tx + c.data /\ c.tx \in 0 .. c.tx + c.data
              /\ c.tx + c.data \in 0 .. c.tx + c.data
          BY <3>5, <4>2
        <5>3. /\ (pc = 2 => Sending(c, 0)') /\ (pc = 3 => Sending(c, c.tx)')
              /\ (pc = 4 => Sending(c, c.tx + c.data)')
          BY <1>1, <2>1, <5>1, <5>2, DeviceSending
        <5>4. pc # 5
          BY <1>1, <2>1, <5>1, NothingToTake DEF Receiving, InSpi
        <5>5. QED
          BY <2>4, <4>2, <5>1, <5>3, <5>4 DEF InCommand
      <4>3. QED
        BY <4>1, <4>2
    <3>7. QED
      BY <2>4, <3>3, <3>6 DEF Commanding
  <2>7. Parting'
    <3>1. LastStep \in {3, 5} /\ LastStep' = LastStep /\ (LastStep = 5 => tool # "HydraSPI")
      BY <1>1, <2>4, CleanupSteps DEF LastStep
    <3>2. ASSUME NEW p \in 1 .. LastStep PROVE SentBefore(p) \in 0 .. 6
      <4>1. p \in {1, 2, 3, 4, 5}
        BY <3>1
      <4>2. QED
        BY <4>1 DEF SentBefore
    <3>3. ASSUME NEW p \in 1 .. LastStep, Left(SentBefore(p)) PROVE Left(SentBefore(p))'
      <4> PICK sent \in 0 .. 6 : sent = SentBefore(p)
        BY <3>2
      <4>1. Left(sent)'
        BY <1>1, <2>1, <3>3, DeviceLeft
      <4>2. SentBefore(p)' = sent
        BY <2>4 DEF SentBefore
      <4>3. QED
        BY <4>1, <4>2 DEF Left
    <3>4. CASE phase = "cleanup" /\ result = "none"
      <4>1. pc \in 1 .. LastStep /\ Left(SentBefore(pc))
        BY <1>1, <3>1, <3>4 DEF Parting, SessionTypes
      <4> PICK p \in 1 .. LastStep : p = pc
        BY <4>1
      <4>2. Left(SentBefore(p))'
        BY <3>3, <4>1
      <4>3. SentBefore(pc)' = SentBefore(p)'
        BY <2>4 DEF SentBefore
      <4>4. Left(SentBefore(pc))'
        BY <4>2, <4>3 DEF Left
      <4>5. QED
        BY <2>4, <3>1, <3>4, <4>1, <4>4 DEF Parting
    <3>5. CASE result = "done"
      <4>1. LastStep \in 1 .. LastStep /\ Left(SentBefore(LastStep))
        BY <1>1, <3>1, <3>5 DEF Parting
      <4> PICK p \in 1 .. LastStep : p = LastStep
        BY <4>1
      <4>2. Left(SentBefore(p))'
        BY <3>3, <4>1
      <4>3. SentBefore(LastStep)' = SentBefore(p)'
        BY <3>1 DEF SentBefore
      <4>4. Left(SentBefore(LastStep))'
        BY <4>2, <4>3 DEF Left
      <4>5. QED
        BY <2>4, <3>5, <4>4 DEF Parting
    <3>6. QED
      BY <2>4, <3>4, <3>5 DEF Parting
  <2>8. QED
    BY <2>2, <2>3, <2>5, <2>6, <2>7
<1>4. QED
  BY <1>2, <1>3

-----------------------------------------------------------------------------
(* Before the first run the line is empty and no run promises anything.    *)
LEMMA SessionInitSInv == SessionInit => SInv
<1> SUFFICES ASSUME SessionInit PROVE SInv
  OBVIOUS
<1>1. IInv
  BY InitIInv DEF SessionInit
<1>2. SessionTypes
  <2>1. toDev \in Seq(Nat) /\ toHost \in Seq(Said) /\ body \in Seq(Commands)
    BY DEF SessionInit
  <2>2. QED
    BY <2>1 DEF SessionInit, SessionTypes, Tools
<1>3. Control
  BY DEF SessionInit, Init, Control
<1>4. WholeIds
  BY DEF SessionInit, WholeIds
<1>5. Entering /\ Commanding /\ Parting
  BY DEF SessionInit, Entering, Commanding, Parting
<1>6. QED
  BY <1>1, <1>2, <1>3, <1>4, <1>5 DEF SInv

(* Every step of the board, of a tool and of its user keeps it.            *)
LEMMA SessionNextSInv == SInv /\ [SessionNext]_allVars => SInv'
<1> SUFFICES ASSUME SInv, [SessionNext]_allVars PROVE SInv'
  OBVIOUS
<1>1. IInv /\ SessionTypes /\ Control /\ WholeIds /\ Entering /\ Commanding /\ Parting
  BY DEF SInv
<1>2. IInv'
  BY <1>1, SessionStep, NextIInv
<1> DEFINE Others == SessionTypes /\ Control /\ WholeIds /\ Entering /\ Commanding /\ Parting
<1>3. CASE UNCHANGED allVars
  <2>1. UNCHANGED <<usb, at, i, nuls, fw, need, rx, tool, params, body, phase, cmd, pc, result, toDev, toHost>>
    BY <1>3 DEF allVars, firmware, host, run
  <2>2. SessionTypes' /\ Control' /\ WholeIds'
    BY <1>1, <2>1 DEF SessionTypes, Control, WholeIds
  <2>3. Entering'
    BY <1>1, <2>1 DEF Entering, Knocking, Heard, Asked, Quiet, Answering, Knocked, NoId, InSpi
  <2>4. Commanding'
    BY <1>1, <2>1 DEF Commanding, InCommand, Quiet, Answering, Sending, Receiving, InSpi
  <2>5. Parting'
    BY <1>1, <2>1 DEF Parting, Left, SentBefore, LastStep, InSpi
  <2>6. QED
    BY <1>2, <2>2, <2>3, <2>4, <2>5 DEF SInv
<1>4. CASE Device
  BY <1>2, <1>4, DeviceKeeps DEF SInv
<1>5. CASE Open
  BY <1>1, <1>2, <1>5, OpenKeeps DEF SInv
<1>6. CASE Write
  BY <1>1, <1>2, <1>6, WriteHolds DEF SInv
<1>7. CASE Flush
  BY <1>1, <1>2, <1>7, FlushKeeps DEF SInv
<1>8. CASE Read
  BY <1>1, <1>2, <1>8, ReadKeeps DEF SInv
<1>9. CASE NextPhase
  BY <1>1, <1>2, <1>9, NextPhaseKeeps DEF SInv
<1>10. CASE Raise \/ Kill
  BY <1>1, <1>2, <1>10, FaultKeeps DEF SInv
<1>11. CASE UsbEvent \/ Types \/ Button \/ ButtonInSniffer
  BY <1>1, <1>2, <1>11, BoardKeeps DEF SInv
<1>12. CASE BusTraffic
  BY <1>2, <1>12, TrafficKeeps DEF SInv
<1>13. QED
  BY <1>3, <1>4, <1>5, <1>6, <1>7, <1>8, <1>9, <1>10, <1>11, <1>12 DEF SessionNext, HostStep

(* The invariant of the session.                                           *)
LEMMA SessionInvariant == SessionSpec => []SInv
BY SessionInitSInv, SessionNextSInv, PTL DEF SessionSpec

(* Once a tool has entered, each of its commands, and its end, meets a     *)
(* firmware that waits in SPI mode and a line with nothing on it: with     *)
(* every banner, identification and count of NULs, every set of runs, and  *)
(* whatever earlier runs left, as long as less arrives after a flush than  *)
(* a banner and an identification.                                         *)
THEOREM CommandsInStep == SessionSpec => []SessionInStep
<1>1. SInv => SessionInStep
  <2> SUFFICES ASSUME SInv, phase = "body", pc = 1 \/ pc > Len(Steps)
               PROVE  InSpi /\ toDev = <<>> /\ toHost = <<>>
    BY DEF SessionInStep
  <2>1. SessionTypes /\ Entering /\ Commanding
    BY DEF SInv
  <2>2. Quiet
    BY <2>1, QuietAtTheEnd DEF Commanding
  <2>3. toDev \in Seq(Nat) /\ toHost \in Seq(Said)
    BY <2>1 DEF SessionTypes
  <2>4. QED
    BY <2>2, <2>3, NoBytes DEF Quiet
<1>2. QED
  BY <1>1, SessionInvariant, PTL

(* A tool waits for what will never come only while it enters, when the    *)
(* firmware took its NULs for a payload, runs the sniffer and reads none   *)
(* of them, or is in SUMP or serprog: a tool that has entered gets every   *)
(* answer, and at the prompt or in the menu enough NULs are sent for a     *)
(* banner.                                                                 *)
THEOREM NoHangOnceEntered == SessionSpec => []HangsOnlyInMode
<1>1. SInv => HangsOnlyInMode
  <2> SUFFICES ASSUME SInv, at # "none", Hangs
               PROVE  phase = "enter" /\ (fw \in {"spi", "sniff"} \/ at \in {"sump", "serprog"})
    BY DEF HangsOnlyInMode
  <2>1. IInv /\ SessionTypes /\ Control /\ Entering /\ Commanding
    BY DEF SInv
  <2>2. /\ toHost \in Seq(Said) /\ Len(toHost) \in Nat /\ Len(toDev) \in Nat /\ pc \in Nat /\ pc >= 1
        /\ Len(toDev) = 0 \/ fw = "sniff"
        /\ fw \in {"menu", "spi", "sniff"} /\ phase \in {"off", "enter", "body", "cleanup"}
    BY <2>1 DEF Hangs, NothingUnderWay, SessionTypes
  <2>3. /\ phase # "off" /\ pc <= Len(Steps) /\ ~(\E w : Now = W(w)) /\ Now # Reset
        /\ \A w : Now = R(w) => Len(toHost) < Len(w)
    BY StepKinds DEF Hangs, AtStep
  <2>4. phase # "cleanup"
    BY <2>1, <2>3, CleanupNow
  <2>5. Len(Ok) = 1
    BY DEF Ok
  <2>6. ASSUME Answering, Now = R(Ok) PROVE FALSE
    BY <2>2, <2>3, <2>5, <2>6 DEF Answering, InSpi
  <2>7. phase # "body"
    <3>1. SUFFICES ASSUME phase = "body" PROVE FALSE
      OBVIOUS
    <3>2. cmd <= Len(body) /\ body[cmd] \in Commands
      BY <2>1, <2>3, <3>1, BodyNow
    <3> PICK c \in Commands : c = body[cmd]
      BY <3>2
    <3>3. /\ c.tx = 0 => pc = 2 /\ Now = R(Ok)
          /\ c.tx # 0 => (pc = 4 /\ Now = R(Ok)) \/ (pc = 5 /\ Now = R(Data(c.rx)))
      BY <2>1, <2>3, <3>1, BodyNow
    <3>4. c.tx \in Nat /\ c.data \in Nat /\ c.rx \in Nat /\ InCommand(c)
      BY <2>1, <3>1, <3>2, CommandBytes DEF Commanding
    <3>5. CASE c.tx = 0
      BY <2>6, <3>3, <3>4, <3>5 DEF InCommand
    <3>6. CASE c.tx # 0 /\ pc = 4 /\ Now = R(Ok)
      <4>1. Sending(c, c.tx + c.data)
        BY <3>4, <3>6 DEF InCommand
      <4>2. Len(toHost) = 0
        <5>1. Len(toHost) < Len(Ok)
          BY <2>3, <3>6
        <5>2. QED
          BY <2>2, <2>5, <5>1
      <4>3. need > 0 /\ need + (c.tx + c.data) = c.tx + c.data + 0
        BY <2>2, <3>4, <4>1, <4>2 DEF Sending
      <4>4. need \in Nat
        BY <2>1 DEF SessionTypes
      <4>5. QED
        BY <3>4, <4>3, <4>4
    <3>7. CASE c.tx # 0 /\ pc = 5 /\ Now = R(Data(c.rx))
      <4>1. Len(toHost) = c.rx
        BY <3>4, <3>7 DEF InCommand, Receiving
      <4>2. Len(Data(c.rx)) = c.rx
        BY <3>4, DataSaid
      <4>3. QED
        BY <2>3, <3>4, <3>7, <4>1, <4>2
    <3>8. QED
      BY <3>3, <3>5, <3>6, <3>7
  <2>8. phase = "enter" /\ HostNuls \in Nat /\ BbioNuls \in Nat /\ HostNuls >= BbioNuls /\ i \in Nat /\ i < BbioNuls
    BY <2>1, <2>2, <2>3, <2>4, <2>7, SessionAssumption, NulsAssumption DEF IInv, TypeOK
  <2>9. CASE pc = HostNuls + 1 /\ Now = R(Banner)
    <3> SUFFICES ASSUME fw # "sniff" PROVE phase = "enter" /\ (fw = "spi" \/ at \in {"sump", "serprog"})
      BY <2>8
    <3>1. Knocking
      BY <2>1, <2>8, <2>9 DEF Entering
    <3>2. at # "prompt"
      <4>1. pc - 1 = HostNuls
        BY <2>8, <2>9
      <4>2. at = "prompt" => i + 0 >= HostNuls
        BY <2>2, <3>1, <4>1 DEF Knocking, Knocked
      <4>3. QED
        BY <2>8, <4>2
    <3>3. ~(at = "bbio" /\ fw = "menu")
      <4>1. Len(toDev) # pc - 1
        BY <2>1, <2>2, <2>8, <2>9, NulsAssumption
      <4>2. ~(Len(toHost) >= Len(Banner))
        BY <2>2, <2>3, <2>9, Utterances
      <4>3. QED
        BY <3>1, <4>1, <4>2 DEF Knocking
    <3>4. at \in {"none", "prompt", "bbio", "sump", "serprog"}
      BY <2>1 DEF IInv, TypeOK
    <3>5. QED
      BY <2>2, <2>8, <3>2, <3>3, <3>4
  <2>10. CASE pc = HostNuls + 4 /\ Now = R(Id)
    <3>1. Asked
      BY <2>1, <2>8, <2>10 DEF Entering
    <3>2. QED
      BY <2>2, <2>8, <3>1 DEF Asked
  <2>11. CASE pc \in {HostNuls + 6, HostNuls + 8, HostNuls + 10} /\ Now = R(Ok)
    <3>1. Answering
      BY <2>1, <2>8, <2>11 DEF Entering
    <3>2. QED
      BY <2>6, <2>11, <3>1
  <2>12. QED
    BY <2>1, <2>3, <2>8, <2>9, <2>10, <2>11, EnterNow
<1>2. QED
  BY <1>1, SessionInvariant, PTL

(* A run that says it is done has left the board at its prompt, with the   *)
(* count of NULs at 0: nor_dump's second cleanup too, which the prompt     *)
(* hears as a NUL and two bytes of text.                                   *)
THEOREM DoneAtPrompt == SessionSpec => []BackAtPrompt
<1>1. SInv => BackAtPrompt
  <2> SUFFICES ASSUME SInv, result = "done", toDev = <<>> PROVE at = "prompt" /\ i = 0
    BY DEF BackAtPrompt
  <2>1. SessionTypes /\ Left(SentBefore(LastStep))
    BY DEF SInv, Parting
  <2>2. LastStep \in {3, 5} /\ Len(toDev) = 0
    BY <2>1, CleanupSteps
  <2>3. SentBefore(LastStep) \in {2, 3, 6}
    BY <2>2 DEF SentBefore
  <2> PICK sent \in {2, 3, 6} : sent = SentBefore(LastStep)
    BY <2>3
  <2>4. sent - Len(toDev) = sent
    BY <2>2
  <2>5. Left(sent)
    BY <2>1
  <2>6. QED
    BY <2>4, <2>5 DEF Left
<1>2. QED
  BY <1>1, SessionInvariant, PTL
=============================================================================
