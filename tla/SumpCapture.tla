----------------------------- MODULE SumpCapture ----------------------------
(***************************************************************************)
(* The logic analyzer of hydrabus_sump.c: one capture into a ring of       *)
(* packed samples, the trigger, the delayed stop and the readback, newest  *)
(* sample first.  A sample is the set of pins that are high; several       *)
(* samples share a cell of memory when few channels are used, each in a    *)
(* lane of its own.  While it captures, the code holds the kernel lock.    *)
(***************************************************************************)
EXTENDS Naturals, Sequences

CONSTANTS
  Samples,           (* get_sump_sample_count: a power of two              *)
  PerCell,           (* samples that share a byte; 1 for 8 and 16 channels *)
  Pins, Channels,    (* the bits of a trigger, and those that are sampled  *)
  Triggers,          (* the triggers a host may set: [mask, value]         *)
  Delays, Reads      (* the counts it may ask for                          *)

ASSUME SumpAssumption ==
  /\ Samples \in Nat \ {0} /\ PerCell \in 1 .. Samples /\ Samples % PerCell = 0
  /\ Channels \subseteq Pins
  /\ Triggers \subseteq [mask : SUBSET Pins, value : SUBSET Pins]
  /\ Delays \subseteq Nat /\ Reads \subseteq Nat

VARIABLES
  at,                (* top, wait, armed, delay, read or left              *)
  buffer,            (* the samples in memory, by index                    *)
  INDEX,
  trigger,
  delay_count, read_count,
  left,              (* config_delay_count: samples still to take          *)
  button,
  kept,              (* the newest samples of this capture, oldest first,  *)
                     (* each with the trigger sample it was stored over    *)
  sent, data         (* samples read back so far, and the last of them     *)

vars == <<at, buffer, INDEX, trigger, delay_count, read_count, left, button, kept, sent, data>>

Index == 0 .. (Samples - 1)

Lane(i) == i % PerCell
Cell(i) == i \div PerCell

(* Fault: every lane is or-ed in, the first one too.                       *)
StoredOr(b, i, in) == [b EXCEPT ![i] = @ \cup in]

(* The first lane overwrites its cell, the others are or-ed into it.       *)
Stored(b, i, in) ==
  IF Lane(i) = 0
    THEN [j \in Index |-> IF j = i THEN in ELSE IF Cell(j) = Cell(i) THEN {} ELSE b[j]]
    ELSE [b EXCEPT ![i] = @ \cup in]

Forward(i) == (i + 1) % Samples

Back(i) == IF i = 0 THEN Samples - 1 ELSE i - 1

(* (in ^ value) & mask is zero.                                            *)
Matches(in) == ((in \ trigger.value) \cup (trigger.value \ in)) \cap trigger.mask = {}

Newest(s) == IF Len(s) > Samples THEN Tail(s) ELSE s
Keep(in, over) == kept' = Newest(Append(kept, [in |-> in, over |-> over]))

-----------------------------------------------------------------------------
NoTrigger == [mask |-> {}, value |-> {}]

(* sump: the pool's buffer and the counters hold whatever they held.       *)
Init ==
  /\ at = "top" /\ buffer \in [Index -> SUBSET Channels] /\ INDEX = 0
  /\ trigger = NoTrigger /\ delay_count \in Delays /\ read_count \in Reads \cup {0}
  /\ left = 0 /\ button = FALSE /\ kept = << >> /\ sent = 0 /\ data = {}

CaptureVars == <<buffer, INDEX, left, kept, sent, data>>
HostVars == <<trigger, delay_count, read_count>>

(* The loop condition; then one byte is awaited for one tick.              *)
TestButton ==
  /\ at = "top"
  /\ at' = IF button THEN "left" ELSE "wait"
  /\ UNCHANGED <<CaptureVars, HostVars, button>>

(* A timeout, an identification or an unknown command.                     *)
OtherCommand ==
  /\ at = "wait" /\ at' = "top"
  /\ UNCHANGED <<CaptureVars, HostVars, button>>

SetTrigger ==
  /\ at = "wait" /\ at' = "top"
  /\ trigger' \in Triggers
  /\ UNCHANGED <<CaptureVars, delay_count, read_count, button>>

SetCounts ==
  /\ at = "wait" /\ at' = "top"
  /\ delay_count' \in Delays /\ read_count' \in Reads
  /\ UNCHANGED <<CaptureVars, trigger, button>>

Run ==
  /\ at = "wait" /\ at' = "armed"
  /\ INDEX' = 0 /\ kept' = << >> /\ sent' = 0 /\ data' = {}
  /\ UNCHANGED <<buffer, left, HostVars, button>>

(* INDEX stays on the sample that triggers.                                *)
WaitTrigger ==
  /\ at = "armed"
  /\ \E in \in SUBSET Channels :
       /\ buffer' = Stored(buffer, INDEX, in)
       /\ IF Matches(in)
            THEN at' = "delay" /\ left' = delay_count /\ data' = in /\ UNCHANGED <<INDEX, kept>>
            ELSE INDEX' = Forward(INDEX) /\ Keep(in, {}) /\ UNCHANGED <<at, left, data>>
  /\ UNCHANGED <<sent, HostVars, button>>

(* Here data is still the sample that triggered.                           *)
Delay ==
  /\ at = "delay" /\ left > 0
  /\ \E in \in SUBSET Channels :
       /\ buffer' = Stored(buffer, INDEX, in)
       /\ Keep(in, IF left = delay_count THEN data ELSE {})
  /\ INDEX' = Forward(INDEX) /\ left' = left - 1
  /\ UNCHANGED <<at, sent, data, HostVars, button>>

Captured ==
  /\ at = "delay" /\ left = 0 /\ at' = "read"
  /\ UNCHANGED <<CaptureVars, HostVars, button>>

ReadBack ==
  /\ at = "read" /\ read_count > 0
  /\ INDEX' = Back(INDEX) /\ data' = buffer[INDEX']
  /\ read_count' = read_count - 1 /\ sent' = sent + 1
  /\ UNCHANGED <<at, buffer, left, kept, trigger, delay_count, button>>

ReadDone ==
  /\ at = "read" /\ read_count = 0 /\ at' = "top"
  /\ UNCHANGED <<CaptureVars, HostVars, button>>

(* The pool's buffer is given back; the next session starts with any.      *)
Enter ==
  /\ at = "left" /\ at' = "top"
  /\ buffer' \in [Index -> SUBSET Channels]
  /\ kept' = << >> /\ sent' = 0 /\ data' = {}
  /\ UNCHANGED <<INDEX, left, HostVars, button>>

Toggle ==
  /\ button' = ~button
  /\ UNCHANGED <<at, CaptureVars, HostVars>>

Command == OtherCommand \/ SetTrigger \/ SetCounts \/ Run
Loop == TestButton \/ WaitTrigger \/ Delay \/ Captured \/ ReadBack \/ ReadDone
Next == Loop \/ Command \/ Enter \/ Toggle

Spec == Init /\ [][Next]_vars

-----------------------------------------------------------------------------
(* Where INDEX was when the readback began.                                *)
End == (INDEX + sent) % Samples

(* The oldest samples that the newest cell has wiped: storing lane 0 clears *)
(* the other lanes.  Without a delay the trigger sample is the last stored. *)
Wiped == IF delay_count = 0 THEN PerCell - Lane(End) ELSE (PerCell - Lane(End)) % PerCell

(* What the host reads is what the pins were: as far back as this capture  *)
(* goes in the ring, less the lanes the newest cell has wiped, every       *)
(* sample comes back in order.  The trigger sample is not among them: the  *)
(* next one is stored over it, and or-ed with it unless it has lane 0.     *)
ReadsWhatWasSampled ==
  at = "read" /\ sent \in 1 .. Len(kept) /\ sent <= Samples - Wiped
    => LET k == kept[Len(kept) - sent + 1]
       IN  data = IF Lane(INDEX) = 0 THEN k.in ELSE k.in \cup k.over
=============================================================================
