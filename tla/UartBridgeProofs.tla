-------------------------- MODULE UartBridgeProofs --------------------------
(***************************************************************************)
(* The safety of the UART reader threads for every number of working areas *)
(* and every order of commands, bytes, wake-ups and presses of the button. *)
(***************************************************************************)
EXTENDS UartBridge, SequenceTheorems, FiniteSetTheorems, TLAPS

Threads == Slots \cup {"console"}

(* The loops of bbio_mode_uart, where rthread may be set.                  *)
Session == {"test", "cmd", "bridge", "bridge_read"}

In(q, x) == \E i \in DOMAIN q : q[i] = x
Queue(q) == q \in Seq(Threads) /\ \A i, j \in DOMAIN q : q[i] = q[j] => i = j

Types ==
  /\ th \in [Slots -> [at : ReadyAt \cup {"sleep", "full", "dead", "free"},
                       kind : {"echo", "bridge"}, stop : BOOLEAN]]
  /\ con \in Joining \cup Reading \cup {"test", "bridge", "text", "halt"}
  /\ rthread \in Slots \cup {none} /\ abandoned \subseteq Slots
  /\ uart \in BOOLEAN /\ button \in BOOLEAN /\ pressed \in BOOLEAN

(* Each working area in use is the console's or forgotten, never both; the *)
(* bridge command runs without a thread only when all are forgotten.       *)
Ownership ==
  /\ \A s \in Slots : th[s].at # "free" <=> s = rthread \/ s \in abandoned
  /\ rthread \notin abandoned
  /\ con = "prompt" => rthread = none
  /\ con \in Joining => rthread # none
  /\ con \in {"text", "text_read", "halt"} /\ rthread = none => abandoned = Slots
  /\ con = "halt" => rthread = none

(* What the console may rely on while it has a reader: it was not asked to *)
(* stop, and only a press can have ended it.                               *)
ReaderOfSession ==
  /\ con \in Session \/ rthread # none => uart
  /\ rthread # none /\ button => pressed
  /\ con \in Session /\ rthread # none =>
       /\ th[rthread].kind = "echo" /\ ~th[rthread].stop
       /\ th[rthread].at = "dead" => pressed

(* A thread is queued at most once, and only while it can run; the console *)
(* is not queued while it waits for a thread that is alive.                *)
ReadyList ==
  /\ Queue(ready)
  /\ \A s \in Slots : In(ready, s) => th[s].kind = "echo" /\ th[s].at \in ReadyAt
  /\ con \in Joining /\ In(ready, "console") => ~Alive(rthread)

IInv == Types /\ Ownership /\ ReaderOfSession /\ ReadyList

-----------------------------------------------------------------------------
(* A queue without duplicates keeps none when its head leaves ...          *)
LEMMA TailQueue ==
  ASSUME NEW q, Queue(q), q # << >>
  PROVE  /\ Queue(Tail(q)) /\ Head(q) \in Threads
         /\ \A y : In(Tail(q), y) <=> In(q, y) /\ y # Head(q)
<1>1. /\ q \in Seq(Threads) /\ Len(q) \in Nat \ {0}
      /\ DOMAIN q = 1 .. Len(q)
  BY LenProperties, EmptySeq DEF Queue
<1>2. /\ Tail(q) \in Seq(Threads) /\ Head(q) \in Threads
      /\ Len(Tail(q)) = Len(q) - 1
      /\ \A i \in 1 .. Len(q) - 1 : Tail(q)[i] = q[i + 1]
  BY <1>1, HeadTailProperties
<1>3. DOMAIN Tail(q) = 1 .. Len(q) - 1
  BY <1>2, LenProperties
<1>4. Head(q) = q[1]
  BY <1>1
<1>5. Queue(Tail(q))
  <2>1. SUFFICES ASSUME NEW i \in 1 .. Len(q) - 1, NEW j \in 1 .. Len(q) - 1,
                        Tail(q)[i] = Tail(q)[j]
                 PROVE  i = j
    BY <1>2, <1>3 DEF Queue
  <2>2. q[i + 1] = q[j + 1] /\ i + 1 \in DOMAIN q /\ j + 1 \in DOMAIN q
    BY <2>1, <1>1, <1>2
  <2>3. i + 1 = j + 1
    BY <2>2 DEF Queue
  <2>4. QED
    BY <2>3, <1>1
<1>6. ASSUME NEW y PROVE In(Tail(q), y) <=> In(q, y) /\ y # Head(q)
  <2>1. ASSUME In(Tail(q), y) PROVE In(q, y) /\ y # Head(q)
    <3>1. PICK i \in 1 .. Len(q) - 1 : Tail(q)[i] = y
      BY <2>1, <1>3 DEF In
    <3>2. q[i + 1] = y /\ i + 1 \in DOMAIN q /\ 1 \in DOMAIN q /\ i + 1 # 1
      BY <3>1, <1>1, <1>2
    <3>3. q[1] # y
      BY <3>2 DEF Queue
    <3>4. QED
      BY <3>2, <3>3, <1>4 DEF In
  <2>2. ASSUME In(q, y), y # Head(q) PROVE In(Tail(q), y)
    <3>1. PICK i \in 1 .. Len(q) : q[i] = y
      BY <2>2, <1>1 DEF In
    <3>2. i # 1
      BY <3>1, <2>2, <1>4
    <3>3. i - 1 \in 1 .. Len(q) - 1 /\ (i - 1) + 1 = i
      BY <3>2, <1>1
    <3>4. Tail(q)[i - 1] = y
      BY <3>3, <3>1, <1>2
    <3>5. QED
      BY <3>3, <3>4, <1>3 DEF In
  <2>3. QED
    BY <2>1, <2>2
<1>7. QED
  BY <1>2, <1>5, <1>6

(* ... or a thread that is not in it is put at its end.                    *)
LEMMA AppendQueue ==
  ASSUME NEW q, Queue(q), NEW x \in Threads, ~In(q, x)
  PROVE  /\ Queue(Append(q, x))
         /\ \A y : In(Append(q, x), y) <=> In(q, y) \/ y = x
<1> DEFINE r == Append(q, x)
<1>1. q \in Seq(Threads) /\ Len(q) \in Nat /\ DOMAIN q = 1 .. Len(q)
  BY LenProperties DEF Queue
<1>2. /\ r \in Seq(Threads) /\ Len(r) = Len(q) + 1 /\ DOMAIN r = 1 .. Len(q) + 1
      /\ r[Len(q) + 1] = x
      /\ \A i \in 1 .. Len(q) : r[i] = q[i]
  BY <1>1
<1> HIDE DEF r
<1>3. ASSUME NEW i \in DOMAIN r, NEW j \in DOMAIN r, r[i] = r[j]
      PROVE  i = j
  <2>1. CASE i \in 1 .. Len(q) /\ j \in 1 .. Len(q)
    BY <2>1, <1>1, <1>2, <1>3 DEF Queue
  <2>2. CASE i = Len(q) + 1 /\ j \in 1 .. Len(q)
    BY <2>2, <1>1, <1>2, <1>3 DEF In
  <2>3. CASE j = Len(q) + 1 /\ i \in 1 .. Len(q)
    BY <2>3, <1>1, <1>2, <1>3 DEF In
  <2>4. i \in 1 .. Len(q) \/ i = Len(q) + 1
    BY <1>1, <1>2
  <2>5. j \in 1 .. Len(q) \/ j = Len(q) + 1
    BY <1>1, <1>2
  <2>6. QED
    BY <2>1, <2>2, <2>3, <2>4, <2>5
<1>4. ASSUME NEW y PROVE In(r, y) <=> In(q, y) \/ y = x
  <2>1. ASSUME In(r, y), y # x PROVE In(q, y)
    <3>1. PICK i \in DOMAIN r : r[i] = y
      BY <2>1 DEF In
    <3>2. i \in 1 .. Len(q)
      BY <3>1, <2>1, <1>1, <1>2
    <3>3. QED
      BY <3>1, <3>2, <1>1, <1>2 DEF In
  <2>2. In(q, y) => In(r, y)
    <3>1. ASSUME NEW i \in DOMAIN q, q[i] = y PROVE In(r, y)
      <4>1. i \in DOMAIN r /\ r[i] = y
        BY <3>1, <1>1, <1>2
      <4>2. QED
        BY <4>1 DEF In
    <3>2. QED
      BY <3>1 DEF In
  <2>3. In(r, x)
    <3>1. Len(q) + 1 \in DOMAIN r
      BY <1>1, <1>2
    <3>2. QED
      BY <3>1, <1>2 DEF In
  <2>4. QED
    BY <2>1, <2>2, <2>3
<1>5. QED
  BY <1>2, <1>3, <1>4 DEF Queue, r

(* Who runs when: the console or an echo reader at the head of the list,   *)
(* a bridge thread while the list is empty.                                *)
LEMMA RunningThread ==
  ASSUME IInv, NEW t \in Threads, Runs(t)
  PROVE  IF IsNormal(t) THEN ready # << >> /\ t = Head(ready) ELSE ready = << >>
<1>1. CASE ready # << >>
  <2>1. t = Head(ready)
    BY <1>1 DEF Runs
  <2>2. In(ready, t)
    <3>1. 1 \in DOMAIN ready /\ ready[1] = t
      <4>1. Len(ready) \in Nat \ {0} /\ DOMAIN ready = 1 .. Len(ready)
        BY <1>1, LenProperties, EmptySeq DEF IInv, ReadyList, Queue
      <4>2. QED
        BY <4>1, <2>1
    <3>2. QED
      BY <3>1 DEF In
  <2>3. IsNormal(t)
    BY <2>2 DEF IInv, ReadyList, IsNormal, Threads
  <2>4. QED
    BY <1>1, <2>1, <2>3
<1>2. CASE ready = << >>
  <2>1. t \in Slots /\ th[t].kind = "bridge"
    BY <1>2 DEF Runs
  <2>2. ~IsNormal(t)
    BY <2>1, SlotsAssumption DEF IsNormal
  <2>3. QED
    BY <1>2, <2>2
<1>3. QED
  BY <1>1, <1>2

(* Nothing is in the empty list.                                           *)
LEMMA EmptyQueue == Queue(<< >>) /\ \A y : ~In(<< >>, y)
<1>1. << >> \in Seq(Threads) /\ DOMAIN << >> = {}
  OBVIOUS
<1>2. QED
  BY <1>1 DEF Queue, In

(* The list after the running thread has blocked or yielded, and after a   *)
(* sleeping one has been woken.                                            *)
LEMMA BlockedQueue ==
  ASSUME IInv, NEW t \in Threads, Runs(t)
  PROVE  /\ Queue(Blocked(t))
         /\ \A y : In(Blocked(t), y) <=> In(ready, y) /\ y # t
<1>1. CASE IsNormal(t)
  <2>1. ready # << >> /\ t = Head(ready) /\ Queue(ready)
    BY <1>1, RunningThread DEF IInv, ReadyList
  <2>2. QED
    BY <1>1, <2>1, TailQueue DEF Blocked
<1>2. CASE ~IsNormal(t)
  <2>1. ready = << >>
    BY <1>2, RunningThread
  <2>2. QED
    BY <1>2, <2>1, EmptyQueue DEF Blocked
<1>3. QED
  BY <1>1, <1>2

(* A thread that yields goes to the end of the list: the same are in it.   *)
LEMMA YieldedQueue ==
  ASSUME IInv, NEW t \in Threads, Runs(t)
  PROVE  /\ Queue(Yielded(t))
         /\ \A y : In(Yielded(t), y) <=> In(ready, y)
<1>1. CASE IsNormal(t)
  <2>1. ready # << >> /\ t = Head(ready) /\ Queue(ready)
    BY <1>1, RunningThread DEF IInv, ReadyList
  <2>2. /\ Queue(Tail(ready))
        /\ \A y : In(Tail(ready), y) <=> In(ready, y) /\ y # t
    BY <2>1, TailQueue
  <2>3. /\ Queue(Append(Tail(ready), t))
        /\ \A y : In(Append(Tail(ready), t), y) <=> In(Tail(ready), y) \/ y = t
    BY <2>2, AppendQueue
  <2>4. In(ready, t)
    <3>1. Len(ready) \in Nat \ {0} /\ DOMAIN ready = 1 .. Len(ready)
      BY <2>1, LenProperties, EmptySeq DEF Queue
    <3>2. 1 \in DOMAIN ready /\ ready[1] = t
      BY <3>1, <2>1
    <3>3. QED
      BY <3>2 DEF In
  <2>5. QED
    BY <1>1, <2>2, <2>3, <2>4 DEF Yielded
<1>2. CASE ~IsNormal(t)
  BY <1>2 DEF Yielded, IInv, ReadyList
<1>3. QED
  BY <1>1, <1>2

(* A thread that wakes joins the list if it has the console's priority.    *)
LEMMA WokenQueue ==
  ASSUME Queue(ready), NEW t \in Threads, ~In(ready, t)
  PROVE  /\ Queue(Woken(t))
         /\ \A y : In(Woken(t), y) => In(ready, y) \/ (y = t /\ IsNormal(t))
BY AppendQueue DEF Woken

(* A console that runs is at the head of the list.                         *)
LEMMA RunningConsole ==
  ASSUME IInv, Runs("console")
  PROVE  /\ Queue(Tail(ready)) /\ Queue(ready)
         /\ \A y : In(Tail(ready), y) <=> In(ready, y) /\ y # "console"
<1>1. "console" \in Threads /\ IsNormal("console")
  BY DEF Threads, IsNormal
<1>2. QED
  BY <1>1, BlockedQueue DEF Blocked, IInv, ReadyList

-----------------------------------------------------------------------------
(* At start-up no area is in use and the list is empty.                    *)
THEOREM InitIInv == Init => IInv
<1> SUFFICES ASSUME Init PROVE IInv
  OBVIOUS
<1>1. none \notin Slots /\ none = "none"
  BY SlotsAssumption DEF none
<1>2. Types
  BY DEF Init, Types, Free, ReadyAt, Joining, Reading
<1>3. Ownership
  BY <1>1 DEF Init, Ownership, Free, Joining
<1>4. ReaderOfSession
  BY DEF Init, ReaderOfSession, Session
<1>5. ReadyList
  BY EmptyQueue DEF Init, ReadyList, Joining
<1>6. QED
  BY <1>2, <1>3, <1>4, <1>5 DEF IInv

(* A step of one reader thread that leaves the console alone.              *)
LEMMA ReaderKeeps ==
  ASSUME IInv, NEW s \in Slots, UNCHANGED ReaderVars,
         NEW at \in ReadyAt \cup {"sleep", "full", "dead"},
         Alive(s), To(s, at), at = "dead" => Ends(s),
         Queue(ready'),
         \A r \in Slots : In(ready', r) =>
           IF r = s THEN th[s].kind = "echo" /\ at \in ReadyAt ELSE In(ready, r),
         In(ready', "console") =>
           In(ready, "console") \/ (at = "dead" /\ rthread = s)
  PROVE  IInv'
<1>1. /\ th' \in [Slots -> [at : ReadyAt \cup {"sleep", "full", "dead", "free"},
                            kind : {"echo", "bridge"}, stop : BOOLEAN]]
      /\ th'[s].at = at /\ th'[s].kind = th[s].kind /\ th'[s].stop = th[s].stop
      /\ \A r \in Slots \ {s} : th'[r] = th[r]
  BY DEF IInv, Types, To
<1>2. at # "free"
  BY DEF ReadyAt
<1>3. Types'
  BY <1>1 DEF IInv, Types, ReaderVars
<1>4. Ownership'
  BY <1>1, <1>2 DEF IInv, Ownership, ReaderVars, Alive
<1>5. ReaderOfSession'
  <2>1. /\ con' = con /\ rthread' = rthread /\ uart' = uart
        /\ button' = button /\ pressed' = pressed
    BY DEF ReaderVars
  <2>2. ASSUME con \in Session, rthread # none
        PROVE  /\ th'[rthread].kind = "echo" /\ ~th'[rthread].stop
               /\ th'[rthread].at = "dead" => pressed
    <3>1. rthread \in Slots
      BY <2>2 DEF IInv, Types
    <3>2. /\ th[rthread].kind = "echo" /\ ~th[rthread].stop
          /\ th[rthread].at = "dead" => pressed
          /\ button => pressed
      BY <2>2 DEF IInv, ReaderOfSession
    <3>3. CASE rthread # s
      BY <1>1, <3>1, <3>2, <3>3
    <3>4. CASE rthread = s
      <4>1. at = "dead" => button
        BY <3>2, <3>4 DEF Ends
      <4>2. QED
        BY <1>1, <3>2, <3>4, <4>1
    <3>5. QED
      BY <3>3, <3>4
  <2>3. QED
    BY <2>1, <2>2 DEF IInv, ReaderOfSession
<1>6. ReadyList'
  <2>1. ASSUME NEW r \in Slots, In(ready', r)
        PROVE  th'[r].kind = "echo" /\ th'[r].at \in ReadyAt
    BY <1>1, <2>1 DEF IInv, ReadyList
  <2>2. ASSUME con \in Joining, In(ready', "console")
        PROVE  th'[rthread].at \in {"free", "dead"}
    <3>1. rthread \in Slots
      BY <2>2 DEF IInv, Types, Ownership
    <3>2. CASE In(ready, "console")
      <4>1. th[rthread].at = "dead"
        BY <2>2, <3>1, <3>2 DEF IInv, ReadyList, Ownership, Alive
      <4>2. CASE rthread # s
        BY <1>1, <3>1, <4>1, <4>2
      <4>3. CASE rthread = s
        BY <4>1, <4>3 DEF Alive
      <4>4. QED
        BY <4>2, <4>3
    <3>3. CASE at = "dead" /\ rthread = s
      BY <1>1, <3>3
    <3>4. QED
      BY <2>2, <3>2, <3>3
  <2>3. QED
    BY <2>1, <2>2 DEF ReadyList, ReaderVars, Alive
<1>7. QED
  BY <1>3, <1>4, <1>5, <1>6 DEF IInv

(* Every step of a reader thread keeps the invariant.                      *)
LEMMA ReaderStepInv ==
  ASSUME IInv, NEW s \in Slots, ReaderStep(s) \/ WakeReader(s)
  PROVE  IInv'
<1>1. s \in Threads /\ "console" \in Threads /\ s # "console" /\ Queue(ready)
  BY SlotsAssumption DEF Threads, IInv, ReadyList
<1>2. th[s].kind \in {"echo", "bridge"}
  BY DEF IInv, Types
<1>3. Runs(s) => (In(ready, s) <=> th[s].kind = "echo")
  <2>1. SUFFICES ASSUME Runs(s) PROVE In(ready, s) <=> th[s].kind = "echo"
    OBVIOUS
  <2>2. IF IsNormal(s) THEN ready # << >> /\ s = Head(ready) ELSE ready = << >>
    BY <1>1, <2>1, RunningThread
  <2>3. CASE th[s].kind = "echo"
    <3>1. Len(ready) \in Nat \ {0} /\ DOMAIN ready = 1 .. Len(ready) /\ s = Head(ready)
      BY <1>1, <2>2, <2>3, LenProperties, EmptySeq DEF Queue, IsNormal
    <3>2. 1 \in DOMAIN ready /\ ready[1] = s
      BY <3>1
    <3>3. QED
      BY <3>2, <2>3 DEF In
  <2>4. CASE th[s].kind # "echo"
    BY <1>1, <2>2, <2>4, EmptyQueue DEF IsNormal
  <2>5. QED
    BY <2>3, <2>4
<1>4. Runs(s) => /\ Queue(Blocked(s)) /\ Queue(Yielded(s))
                 /\ \A y : In(Blocked(s), y) <=> In(ready, y) /\ y # s
                 /\ \A y : In(Yielded(s), y) <=> In(ready, y)
  BY <1>1, BlockedQueue, YieldedQueue
<1>5. CASE Start(s)
  BY <1>1, <1>4, <1>5, ReaderKeeps DEF Start, Alive
<1>6. CASE Test(s)
  <2>1. CASE Ends(s)
    <3>1. Runs(s) /\ th[s].at = "test" /\ Exit(s) /\ UNCHANGED ReaderVars
      BY <1>6, <2>1 DEF Test
    <3>2. CASE con \in Joining /\ rthread = s
      <4>1. ~In(ready, "console")
        BY <3>1, <3>2 DEF IInv, ReadyList, Alive
      <4>2. ready' = Append(Blocked(s), "console")
        BY <3>1, <3>2 DEF Exit
      <4>3. ~In(Blocked(s), "console")
        BY <4>1, <1>4, <3>1
      <4>4. /\ Queue(ready')
            /\ \A y : In(ready', y) <=> In(Blocked(s), y) \/ y = "console"
        BY <1>1, <1>4, <3>1, <4>2, <4>3, AppendQueue
      <4>5. QED
        BY <1>1, <1>4, <2>1, <3>1, <3>2, <4>4, SlotsAssumption, ReaderKeeps DEF Exit, Alive
    <3>3. CASE ~(con \in Joining /\ rthread = s)
      BY <1>1, <1>4, <2>1, <3>1, <3>3, ReaderKeeps DEF Exit, Alive
    <3>4. QED
      BY <3>2, <3>3
  <2>2. CASE ~Ends(s)
    BY <1>1, <1>3, <1>6, <2>2, ReaderKeeps DEF Test, ReadyAt, Alive
  <2>3. QED
    BY <2>1, <2>2
<1>7. CASE Poll(s)
  BY <1>1, <1>3, <1>4, <1>7, ReaderKeeps DEF Poll, ReadyAt, Alive
<1>8. CASE PrintData(s)
  BY <1>1, <1>3, <1>4, <1>8, ReaderKeeps DEF PrintData, Printed, ReadyAt, Alive
<1>9. CASE WakeReader(s)
  <2>1. ~In(ready, s)
    BY <1>9 DEF WakeReader, IInv, ReadyList, ReadyAt
  <2>2. /\ Queue(Woken(s))
        /\ \A y : In(Woken(s), y) => In(ready, y) \/ (y = s /\ IsNormal(s))
    BY <1>1, <2>1, WokenQueue
  <2>3. IsNormal(s) => th[s].kind = "echo"
    BY <1>1 DEF IsNormal
  <2>4. /\ Alive(s) /\ To(s, "test") /\ UNCHANGED ReaderVars /\ ready' = Woken(s)
        /\ "test" \in ReadyAt
    BY <1>9 DEF WakeReader, Alive, ReadyAt
  <2>5. /\ \A r \in Slots : In(ready', r) =>
             IF r = s THEN th[s].kind = "echo" /\ "test" \in ReadyAt ELSE In(ready, r)
        /\ In(ready', "console") => In(ready, "console")
    BY <1>1, <2>1, <2>2, <2>3, <2>4
  <2>6. QED
    BY <2>2, <2>4, <2>5, ReaderKeeps
<1>10. QED
  BY <1>5, <1>6, <1>7, <1>8, <1>9 DEF ReaderStep

-----------------------------------------------------------------------------
(* The console goes on at c; no thread, area or device changes.            *)
LEMMA ConsoleGoesOn ==
  ASSUME IInv, NEW c \in Reading \cup {"test", "bridge", "text"}, con' = c,
         c \in Session => con \in Session,
         c \in {"text", "text_read"} => con \in {"text", "text_read"},
         c = "prompt" => rthread = none,
         Queue(ready'), \A s \in Slots : In(ready', s) => In(ready, s),
         UNCHANGED <<th, rthread, uart, button, abandoned, pressed>>
  PROVE  IInv'
<1>1. c \notin Joining /\ c # "halt"
  BY DEF Reading, Joining
<1>2. Types'
  BY DEF IInv, Types
<1>3. Ownership'
  BY <1>1 DEF IInv, Ownership
<1>4. ReaderOfSession'
  BY DEF IInv, ReaderOfSession
<1>5. ReadyList'
  BY <1>1 DEF IInv, ReadyList
<1>6. QED
  BY <1>2, <1>3, <1>4, <1>5 DEF IInv

(* It asks its reader to end and waits.                                    *)
LEMMA StopInv ==
  ASSUME IInv, Runs("console"), rthread # none, con # "halt",
         NEW join \in Joining, Stop(join),
         UNCHANGED <<uart, button, abandoned, pressed>>
  PROVE  IInv'
<1>1. rthread \in Slots /\ rthread' = rthread /\ con' = join
  BY DEF IInv, Types, Stop
<1>2. /\ th' \in [Slots -> [at : ReadyAt \cup {"sleep", "full", "dead", "free"},
                            kind : {"echo", "bridge"}, stop : BOOLEAN]]
      /\ \A s \in Slots : th'[s].at = th[s].at /\ th'[s].kind = th[s].kind
  BY <1>1 DEF IInv, Types, Stop
<1>3. join \notin Session \cup {"prompt", "text", "text_read", "halt"}
  BY DEF Joining, Session
<1>4. Types'
  BY <1>1, <1>2 DEF IInv, Types
<1>5. Ownership'
  BY <1>1, <1>2, <1>3 DEF IInv, Ownership
<1>6. ReaderOfSession'
  BY <1>1, <1>3 DEF IInv, ReaderOfSession
<1>7. ReadyList'
  <2>1. /\ Queue(Tail(ready)) /\ Queue(ready)
        /\ \A y : In(Tail(ready), y) <=> In(ready, y) /\ y # "console"
    BY RunningConsole
  <2>2. Alive(rthread)' <=> Alive(rthread)
    BY <1>1, <1>2 DEF Alive
  <2>3. ready' = IF Alive(rthread) THEN Tail(ready) ELSE ready
    BY DEF Stop
  <2>4. Queue(ready') /\ \A s \in Slots : In(ready', s) => In(ready, s)
    BY <2>1, <2>3
  <2>5. In(ready', "console") => ~Alive(rthread)
    BY <2>1, <2>3
  <2>6. QED
    BY <1>2, <2>2, <2>4, <2>5 DEF IInv, ReadyList
<1>8. QED
  BY <1>4, <1>5, <1>6, <1>7 DEF IInv

(* It has no reader and makes one, or finds all areas in use.              *)
LEMMA CreateInv ==
  ASSUME IInv, Runs("console"), rthread = none, con # "halt",
         NEW c \in {"test", "bridge", "text"}, con' = c,
         NEW kind \in {"echo", "bridge"}, kind = "echo" <=> c # "text",
         Create(kind), uart', uart' \in BOOLEAN,
         UNCHANGED <<button, abandoned>>
  PROVE  IInv'
<1>1. none \notin Slots
  BY SlotsAssumption DEF none
<1>2. Queue(ready) /\ c \notin Joining /\ c \notin {"prompt", "halt"} /\ (c # "text" => c \in Session)
      /\ c \in Joining \cup Reading \cup {"test", "bridge", "text", "halt"} /\ c # "text_read"
  BY DEF IInv, ReadyList, Joining, Session
<1>3. CASE FreeSlots = {}
  <2>1. rthread' = none /\ UNCHANGED <<th, ready, pressed>>
    BY <1>3 DEF Create
  <2>2. abandoned = Slots
    BY <1>1, <1>3 DEF IInv, Ownership, Types, FreeSlots
  <2>3. Types'
    BY <1>2, <2>1 DEF IInv, Types
  <2>4. Ownership'
    BY <1>2, <2>1, <2>2 DEF IInv, Ownership
  <2>5. ReaderOfSession'
    BY <2>1 DEF ReaderOfSession
  <2>6. ReadyList'
    BY <1>2, <2>1 DEF IInv, ReadyList
  <2>7. QED
    BY <2>3, <2>4, <2>5, <2>6 DEF IInv
<1>4. CASE FreeSlots # {}
  <2>1. PICK s \in FreeSlots :
          /\ rthread' = s
          /\ th' = [th EXCEPT ![s] = [at |-> "start", kind |-> kind, stop |-> FALSE]]
          /\ ready' = IF kind = "echo" THEN Append(ready, s) ELSE ready
          /\ pressed' = button
    BY <1>4 DEF Create
  <2>2. s \in Slots /\ th[s].at = "free" /\ s # none /\ s # "console" /\ s \in Threads
    BY <1>1, <2>1, SlotsAssumption DEF FreeSlots, Threads
  <2>3. /\ th'[s] = [at |-> "start", kind |-> kind, stop |-> FALSE]
        /\ \A r \in Slots \ {s} : th'[r] = th[r]
        /\ "start" \in ReadyAt
    BY <2>1, <2>2 DEF IInv, Types, ReadyAt
  <2>4. Types'
    BY <1>2, <2>1, <2>2 DEF IInv, Types, ReadyAt
  <2>5. Ownership'
    <3>1. s \notin abandoned /\ abandoned' = abandoned
      BY <2>2 DEF IInv, Ownership
    <3>2. ASSUME NEW r \in Slots
          PROVE  th'[r].at # "free" <=> r = s \/ r \in abandoned
      <4>1. th[r].at # "free" <=> r = rthread \/ r \in abandoned
        BY DEF IInv, Ownership
      <4>2. CASE r = s
        BY <2>3, <4>2
      <4>3. CASE r # s
        BY <1>1, <2>3, <4>1, <4>3
      <4>4. QED
        BY <4>2, <4>3
    <3>3. QED
      BY <1>2, <2>1, <2>2, <3>1, <3>2 DEF Ownership
  <2>6. ReaderOfSession'
    <3>1. c \in Session => kind = "echo"
      BY DEF Session
    <3>2. QED
      BY <2>1, <2>3, <3>1 DEF IInv, ReaderOfSession, Types
  <2>7. ReadyList'
    <3>1. ~In(ready, s)
      BY <2>2 DEF IInv, ReadyList, ReadyAt
    <3>2. /\ Queue(ready')
          /\ \A y : In(ready', y) => In(ready, y) \/ (y = s /\ kind = "echo")
      BY <1>2, <2>1, <2>2, <3>1, AppendQueue
    <3>3. ASSUME NEW r \in Slots, In(ready', r)
          PROVE  th'[r].kind = "echo" /\ th'[r].at \in ReadyAt
      <4>1. CASE r = s
        BY <2>3, <3>1, <3>2, <3>3, <4>1
      <4>2. CASE r # s
        BY <2>3, <3>2, <3>3, <4>2 DEF IInv, ReadyList
      <4>3. QED
        BY <4>1, <4>2
    <3>4. QED
      BY <1>2, <3>2, <3>3 DEF ReadyList
  <2>8. QED
    BY <2>4, <2>5, <2>6, <2>7 DEF IInv
<1>5. QED
  BY <1>3, <1>4

(* The wait is over: only a thread that has ended gives its area back.     *)
LEMMA JoinedIsDead ==
  ASSUME IInv, Joined
  PROVE  rthread \in Slots /\ th[rthread].at = "dead"
<1>1. con \in Joining /\ Runs("console") /\ rthread \in Slots
  BY DEF Joined, IInv, Ownership, Types
<1>2. ready # << >> /\ Head(ready) = "console"
  BY <1>1, RunningThread DEF Threads, IsNormal
<1>3. In(ready, "console")
  <2>1. Len(ready) \in Nat \ {0} /\ DOMAIN ready = 1 .. Len(ready)
    BY <1>2, LenProperties, EmptySeq DEF IInv, ReadyList, Queue
  <2>2. 1 \in DOMAIN ready /\ ready[1] = "console"
    BY <1>2, <2>1
  <2>3. QED
    BY <2>2 DEF In
<1>4. QED
  BY <1>1, <1>3 DEF IInv, ReadyList, Ownership, Alive

(* What the console does after the wait keeps the invariant.               *)
LEMMA JoinedInv ==
  ASSUME IInv, Joined
  PROVE  IInv'
<1>1. rthread \in Slots /\ th[rthread].at = "dead" /\ none \notin Slots /\ Runs("console")
  BY JoinedIsDead, SlotsAssumption DEF none, Joined
<1>2. /\ rthread' = none /\ con' \in {"test", "prompt"} /\ uart
      /\ UNCHANGED <<uart, button, abandoned, pressed>>
  BY <1>1 DEF Joined, ForgetHandle, IInv, ReaderOfSession
<1>3. /\ th'[rthread] = Free
      /\ \A r \in Slots \ {rthread} : th'[r] = th[r]
      /\ Types'
  BY <1>1, <1>2 DEF IInv, Types, Joined, Release, Free, Reading
<1>4. Ownership'
  <2>1. ASSUME NEW r \in Slots
        PROVE  th'[r].at # "free" <=> r = none \/ r \in abandoned
    <3>1. /\ th[r].at # "free" <=> r = rthread \/ r \in abandoned
          /\ rthread \notin abandoned
      BY DEF IInv, Ownership
    <3>2. CASE r = rthread
      BY <1>1, <1>3, <3>1, <3>2 DEF Free
    <3>3. CASE r # rthread
      BY <1>1, <1>3, <3>1, <3>3
    <3>4. QED
      BY <3>2, <3>3
  <2>2. none \notin abandoned
    BY <1>1 DEF IInv, Types
  <2>3. QED
    BY <1>2, <2>1, <2>2 DEF Ownership, Joining
<1>5. ReaderOfSession'
  BY <1>2 DEF ReaderOfSession
<1>6. ReadyList'
  <2>1. /\ Queue(Tail(ready)) /\ Queue(ready)
        /\ \A y : In(Tail(ready), y) <=> In(ready, y) /\ y # "console"
    BY <1>1, RunningConsole
  <2>2. ready' = ready \/ ready' = Tail(ready)
    BY DEF Joined
  <2>3. Queue(ready') /\ \A s \in Slots : In(ready', s) => In(ready, s)
    BY <2>1, <2>2
  <2>4. ~In(ready, rthread)
    BY <1>1 DEF IInv, ReadyList, ReadyAt
  <2>5. QED
    BY <1>2, <1>3, <2>3, <2>4 DEF IInv, ReadyList, Joining
<1>7. QED
  BY <1>3, <1>4, <1>5, <1>6 DEF IInv

-----------------------------------------------------------------------------
(* Every step keeps the invariant.                                         *)
THEOREM NextIInv == IInv /\ [Next]_vars => IInv'
<1> SUFFICES ASSUME IInv, [Next]_vars PROVE IInv'
  OBVIOUS
<1>1. Runs("console") =>
        /\ Queue(Tail(ready)) /\ Queue(ready) /\ con # "halt"
        /\ \A y : In(Tail(ready), y) <=> In(ready, y) /\ y # "console"
  BY RunningConsole DEF Runs
<1>2. Queue(ready)
  BY DEF IInv, ReadyList
<1>3. CASE UNCHANGED vars
  BY <1>3 DEF vars, IInv, Types, Ownership, ReaderOfSession, ReadyList, Alive
<1>4. CASE WakeConsole
  <2>1. "console" \in Threads /\ ~In(ready, "console") /\ ready' = Append(ready, "console")
    BY <1>4 DEF WakeConsole, Threads, In
  <2>2. Queue(ready') /\ \A y : In(ready', y) <=> In(ready, y) \/ y = "console"
    BY <1>2, <2>1, AppendQueue
  <2>3. \A s \in Slots : In(ready', s) => In(ready, s)
    BY <2>2, SlotsAssumption
  <2>4. con = "prompt" => rthread = none
    BY DEF IInv, Ownership
  <2>5. QED
    BY <1>4, <2>2, <2>3, <2>4, ConsoleGoesOn DEF WakeConsole
<1>5. CASE OtherRead
  <2>1. /\ Runs("console") /\ con \in Reading
        /\ con' = CASE con = "cmd" -> "test" [] con = "bridge_read" -> "bridge"
                    [] con = "text_read" -> "text" [] con = "prompt" -> "prompt"
        /\ ready' = IF con = "prompt" THEN Tail(ready) ELSE ready
        /\ UNCHANGED <<th, rthread, uart, button, abandoned, pressed>>
    BY <1>5 DEF OtherRead
  <2>2. /\ con' \in Reading \cup {"test", "bridge", "text"}
        /\ con' \in Session => con \in Session
        /\ con' \in {"text", "text_read"} => con \in {"text", "text_read"}
        /\ con' = "prompt" => con = "prompt"
    BY <2>1 DEF Reading, Session
  <2>3. Queue(ready') /\ \A s \in Slots : In(ready', s) => In(ready, s)
    BY <1>1, <2>1
  <2>4. con' = "prompt" => rthread = none
    BY <2>2 DEF IInv, Ownership
  <2>5. QED
    BY <2>1, <2>2, <2>3, <2>4, ConsoleGoesOn
<1>6. CASE TestLoop
  <2>1. CASE button /\ rthread # none
    BY <1>1, <1>6, <2>1, StopInv DEF TestLoop, Joining
  <2>2. CASE ~(button /\ rthread # none)
    <3>1. /\ Runs("console") /\ con = "test" /\ con' \in {"cmd", "prompt"}
          /\ con' = "prompt" => rthread = none
          /\ ready' = Tail(ready)
          /\ UNCHANGED <<th, rthread, uart, button, abandoned, pressed>>
      BY <1>6, <2>2 DEF TestLoop
    <3>2. Queue(ready') /\ \A s \in Slots : In(ready', s) => In(ready, s)
      BY <1>1, <3>1
    <3>3. QED
      BY <3>1, <3>2, ConsoleGoesOn DEF Reading, Session
  <2>3. QED
    BY <2>1, <2>2
<1>7. CASE BridgeLoop
  <2>1. CASE button /\ rthread # none
    BY <1>1, <1>7, <2>1, StopInv DEF BridgeLoop, Joining
  <2>2. CASE ~(button /\ rthread # none)
    <3>1. /\ Runs("console") /\ con = "bridge" /\ con' \in {"bridge_read", "test"}
          /\ ready' = Tail(ready) \/ ready' = ready
          /\ UNCHANGED <<th, rthread, uart, button, abandoned, pressed>>
      BY <1>7, <2>2 DEF BridgeLoop
    <3>2. Queue(ready') /\ \A s \in Slots : In(ready', s) => In(ready, s)
      BY <1>1, <3>1
    <3>3. QED
      BY <3>1, <3>2, ConsoleGoesOn DEF Reading, Session
  <2>3. QED
    BY <2>1, <2>2
<1>8. CASE TextLoop
  <2>1. CASE button /\ rthread # none
    BY <1>1, <1>8, <2>1, StopInv DEF TextLoop, Joining
  <2>2. CASE ~button
    <3>1. /\ Runs("console") /\ con = "text" /\ con' = "text_read"
          /\ ready' = Tail(ready)
          /\ UNCHANGED <<th, rthread, uart, button, abandoned, pressed>>
      BY <1>8, <2>2 DEF TextLoop
    <3>2. Queue(ready') /\ \A s \in Slots : In(ready', s) => In(ready, s)
      BY <1>1, <3>1
    <3>3. QED
      BY <3>1, <3>2, ConsoleGoesOn DEF Reading, Session
  <2>3. CASE button /\ rthread = none
    <3>1. /\ con = "text" /\ con' = "halt"
          /\ UNCHANGED <<ready, th, rthread, uart, button, abandoned, pressed>>
      BY <1>8, <2>3 DEF TextLoop
    <3>2. Types'
      BY <3>1 DEF IInv, Types
    <3>3. Ownership'
      BY <2>3, <3>1 DEF IInv, Ownership, Joining
    <3>4. ReaderOfSession'
      BY <2>3, <3>1 DEF IInv, ReaderOfSession, Session
    <3>5. ReadyList'
      BY <3>1 DEF IInv, ReadyList, Joining
    <3>6. QED
      BY <3>2, <3>3, <3>4, <3>5 DEF IInv
  <2>4. QED
    BY <2>1, <2>2, <2>3
<1>9. CASE Joined
  BY <1>9, JoinedInv
<1>10. CASE EnterMode
  <2>1. /\ Runs("console") /\ con = "prompt" /\ con' = "test" /\ rthread = none
        /\ rthread' = rthread /\ uart' = TRUE
        /\ UNCHANGED <<ready, th, button, abandoned, pressed>>
    BY <1>10 DEF EnterMode, IInv, Ownership
  <2>2. Types'
    BY <2>1 DEF IInv, Types
  <2>3. Ownership'
    BY <2>1 DEF IInv, Ownership, Joining
  <2>4. ReaderOfSession'
    BY <2>1 DEF IInv, ReaderOfSession
  <2>5. ReadyList'
    BY <2>1 DEF IInv, ReadyList, Joining
  <2>6. QED
    BY <2>2, <2>3, <2>4, <2>5 DEF IInv
<1>11. CASE Reset
  <2>1. /\ Runs("console") /\ con = "cmd" /\ con' = "prompt" /\ ready' = Tail(ready)
        /\ uart' = FALSE /\ rthread' = none
        /\ abandoned' = abandoned \cup ({rthread} \ {none})
        /\ UNCHANGED <<th, button, pressed>> /\ none \notin Slots
    BY <1>11, SlotsAssumption DEF Reset, none
  <2>2. Types'
    BY <2>1 DEF IInv, Types, Reading
  <2>3. Ownership'
    BY <2>1 DEF IInv, Ownership, Types, Joining
  <2>4. ReaderOfSession'
    BY <2>1 DEF ReaderOfSession, Session
  <2>5. ReadyList'
    BY <1>1, <2>1 DEF IInv, ReadyList, Joining
  <2>6. QED
    BY <2>2, <2>3, <2>4, <2>5 DEF IInv
<1>12. CASE StartEcho \/ Bridge
  <2>1. /\ Runs("console") /\ con = "cmd" /\ CreateEcho /\ con' \in {"test", "bridge"}
        /\ UNCHANGED <<uart, button, abandoned>> /\ uart /\ uart \in BOOLEAN
    BY <1>12 DEF StartEcho, Bridge, IInv, ReaderOfSession, Session, Types
  <2>2. CASE rthread = none
    BY <1>1, <2>1, <2>2, CreateInv DEF CreateEcho
  <2>3. CASE rthread # none
    <3>1. UNCHANGED <<th, ready, rthread, uart, button, abandoned, pressed>>
      BY <2>1, <2>3 DEF CreateEcho
    <3>2. QED
      BY <1>2, <2>1, <3>1, ConsoleGoesOn DEF Session
  <2>4. QED
    BY <2>2, <2>3
<1>13. CASE StopEcho
  <2>1. CASE rthread # none
    BY <1>1, <1>13, <2>1, StopInv DEF StopEcho, Joining
  <2>2. CASE rthread = none
    <3>1. /\ con = "cmd" /\ con' = "test"
          /\ UNCHANGED <<th, ready, rthread, uart, button, abandoned, pressed>>
      BY <1>13, <2>2 DEF StopEcho
    <3>2. QED
      BY <1>2, <3>1, ConsoleGoesOn DEF Session
  <2>3. QED
    BY <2>1, <2>2
<1>14. CASE TextBridge
  <2>1. rthread = none
    BY <1>14 DEF TextBridge, IInv, Ownership
  <2>2. QED
    BY <1>1, <1>14, <2>1, CreateInv DEF TextBridge
<1>15. CASE Press
  <2>1. /\ UNCHANGED <<ready, th, con, rthread, uart, abandoned>>
        /\ button' = TRUE /\ pressed' = TRUE
    BY <1>15 DEF Press
  <2>2. Types'
    BY <2>1 DEF IInv, Types
  <2>3. Ownership'
    BY <2>1 DEF IInv, Ownership
  <2>4. ReaderOfSession'
    BY <2>1 DEF IInv, ReaderOfSession
  <2>5. ReadyList'
    BY <2>1 DEF IInv, ReadyList, Alive
  <2>6. QED
    BY <2>2, <2>3, <2>4, <2>5 DEF IInv
<1>16. CASE Unpress
  <2>1. /\ UNCHANGED <<ready, th, con, rthread, uart, abandoned>>
        /\ button' = FALSE /\ pressed' = pressed
    BY <1>16 DEF Unpress
  <2>2. Types'
    BY <2>1 DEF IInv, Types
  <2>3. Ownership'
    BY <2>1 DEF IInv, Ownership
  <2>4. ReaderOfSession'
    BY <2>1 DEF IInv, ReaderOfSession
  <2>5. ReadyList'
    BY <2>1 DEF IInv, ReadyList, Alive
  <2>6. QED
    BY <2>2, <2>3, <2>4, <2>5 DEF IInv
<1>17. CASE \E s \in Slots : ReaderStep(s) \/ WakeReader(s)
  BY <1>17, ReaderStepInv
<1>18. QED
  BY <1>3, <1>4, <1>5, <1>6, <1>7, <1>8, <1>9, <1>10, <1>11, <1>12, <1>13, <1>14,
     <1>15, <1>16, <1>17 DEF Next, ConsoleStep, Command

(* Hence it holds throughout every behaviour, fair or not.                 *)
THEOREM Invariance == Spec => []IInv
<1>1. QED
  BY InitIInv, NextIInv, PTL DEF Spec

-----------------------------------------------------------------------------
(* A live reader is the console's own or one RESET has forgotten: two can  *)
(* share the receive buffer only after a RESET.                            *)
THEOREM ReadersOwned == Spec => []ReadersAccounted
<1>1. IInv => ReadersAccounted
  BY DEF IInv, Ownership, ReadersAccounted, Alive
<1>2. QED
  BY <1>1, Invariance, PTL

(* START and BRIDGE find a reader that lives, or the button was down since *)
(* it was made.                                                            *)
THEOREM EchoIsHonest == Spec => []EchoHonest
<1>1. ASSUME IInv, con \in {"test", "cmd", "bridge", "bridge_read"},
             rthread # none, ~pressed
      PROVE  Alive(rthread)
  <2>1. rthread \in Slots /\ th[rthread].at # "free"
    BY <1>1 DEF IInv, Types, Ownership
  <2>2. th[rthread].at # "dead"
    BY <1>1 DEF IInv, ReaderOfSession, Session
  <2>3. QED
    BY <2>1, <2>2 DEF Alive
<1>2. IInv => EchoHonest
  BY <1>1 DEF EchoHonest
<1>3. QED
  BY <1>2, Invariance, PTL

(* No reader the console still owns touches a UART that is off.            *)
THEOREM OwnedReadsWhileOn == Spec => []ReadsWhileOn
<1>1. ASSUME IInv, NEW s \in Slots \ abandoned, th[s].at \in {"poll", "print"}
      PROVE  uart
  <2>1. s = rthread
    BY <1>1 DEF IInv, Ownership
  <2>2. rthread # none
    BY <2>1, SlotsAssumption DEF none
  <2>3. QED
    BY <1>1, <2>2 DEF IInv, ReaderOfSession
<1>2. IInv => ReadsWhileOn
  BY <1>1 DEF ReadsWhileOn
<1>3. QED
  BY <1>2, Invariance, PTL

(* The text bridge halts the system on its NULL handle only after RESET    *)
(* has leaked every working area there is.                                 *)
THEOREM HaltMeansLeak == Spec => []HaltOnlyAfterLeak
<1>1. IInv => HaltOnlyAfterLeak
  BY DEF IInv, Ownership, HaltOnlyAfterLeak
<1>2. QED
  BY <1>1, Invariance, PTL

(* The ready list has room for one entry of every thread and no more.      *)
LEMMA QueueBound ==
  ASSUME NEW q, Queue(q)
  PROVE  Len(q) <= Cardinality(Slots) + 1
<1>1. q \in Seq(Threads) /\ Len(q) \in Nat /\ DOMAIN q = 1 .. Len(q)
  BY LenProperties DEF Queue
<1>2. /\ IsFiniteSet(Threads) /\ Cardinality(Threads) = Cardinality(Slots) + 1
  BY SlotsAssumption, FS_AddElement DEF Threads
<1>3. /\ IsFiniteSet(1 .. Len(q)) /\ Cardinality(1 .. Len(q)) = Len(q)
  BY <1>1, FS_Interval
<1>4. q \in Injection(1 .. Len(q), Threads)
  BY <1>1 DEF Queue, Injection, IsInjective
<1>5. Cardinality(1 .. Len(q)) <= Cardinality(Threads)
  BY <1>2, <1>4, FS_Injection DEF ExistsInjection
<1>6. QED
  BY <1>2, <1>3, <1>5

(* The type invariant the runs check, with the bound of the ready list.    *)
THEOREM TypeCorrect == Spec => []TypeOK
<1>1. IInv => TypeOK
  BY QueueBound DEF IInv, Types, ReadyList, Queue, Threads, TypeOK
<1>2. QED
  BY <1>1, Invariance, PTL

(* The heap gets a working area back only when its thread has ended.       *)
THEOREM AreaOutlivesThread ==
  Spec => [][\A s \in Slots : th[s].at # "free" /\ th'[s].at = "free"
                                => th[s].at = "dead"]_vars
<1> DEFINE Given == \A s \in Slots : th[s].at # "free" /\ th'[s].at = "free"
                                        => th[s].at = "dead"
<1>1. ASSUME IInv, Next, NEW s \in Slots, th[s].at # "free", th'[s].at = "free"
      PROVE  th[s].at = "dead"
  <2>1. th \in [Slots -> [at : ReadyAt \cup {"sleep", "full", "dead", "free"},
                          kind : {"echo", "bridge"}, stop : BOOLEAN]]
    BY <1>1 DEF IInv, Types
  <2>2. CASE Joined
    <3>1. rthread \in Slots /\ th[rthread].at = "dead"
      BY <1>1, <2>2, JoinedIsDead DEF Joined
    <3>2. th' = [th EXCEPT ![rthread] = Free]
      BY <2>2 DEF Joined, Release
    <3>3. s = rthread
      BY <1>1, <2>1, <3>1, <3>2
    <3>4. QED
      BY <3>1, <3>3
  <2>3. CASE \E r \in Slots : ReaderStep(r) \/ WakeReader(r)
    <3>1. PICK r \in Slots : ReaderStep(r) \/ WakeReader(r)
      BY <2>3
    <3>2. PICK at \in {"sleep", "dead", "poll", "print", "test", "full"} :
            th' = [th EXCEPT ![r].at = at]
      BY <3>1 DEF ReaderStep, WakeReader, Start, Test, Exit, Poll, PrintData,
                  Printed, To
    <3>3. QED
      BY <1>1, <2>1, <3>2
  <2>4. CASE TestLoop \/ BridgeLoop \/ TextLoop \/ StopEcho
    <3>1. th' = th \/ th' = [th EXCEPT ![rthread].stop = TRUE]
      BY <2>4 DEF TestLoop, BridgeLoop, TextLoop, StopEcho, Stop
    <3>2. QED
      BY <1>1, <2>1, <3>1
  <2>5. CASE StartEcho \/ Bridge \/ TextBridge
    <3>1. \/ th' = th
          \/ \E r \in Slots, k \in {"echo", "bridge"} :
               th' = [th EXCEPT ![r] = [at |-> "start", kind |-> k, stop |-> FALSE]]
      BY <2>5 DEF StartEcho, Bridge, TextBridge, CreateEcho, Create, FreeSlots
    <3>2. QED
      BY <1>1, <2>1, <3>1
  <2>6. CASE OtherRead \/ EnterMode \/ Reset \/ WakeConsole \/ Press \/ Unpress
    <3>1. th' = th
      BY <2>6 DEF OtherRead, EnterMode, Reset, WakeConsole, Press, Unpress
    <3>2. QED
      BY <1>1, <3>1
  <2>7. QED
    BY <1>1, <2>2, <2>3, <2>4, <2>5, <2>6 DEF Next, ConsoleStep, Command
<1>2. IInv /\ [Next]_vars => [Given]_vars
  BY <1>1
<1>3. QED
  BY <1>2, Invariance, PTL DEF Spec
=============================================================================
