------------------------------- MODULE PyDfu --------------------------------
(***************************************************************************)
(* scripts/pydfu.py: the tool that programs the HydraBus over USB DFU.     *)
(* The host walks through main: init, mass_erase, read_dfu_file,           *)
(* write_elements and exit_dfu; every operation is a DNLOAD followed by    *)
(* two GETSTATUS.  The bootloader it talks to is not in the repository; it *)
(* answers as the tool expects of it, and may fail, lose power or be left  *)
(* by the tool at any transfer.  The next run starts from what is there.   *)
(***************************************************************************)
EXTENDS Integers, Sequences, SequencesExt

CONSTANTS
  Descriptor,        (* the memory layout string: <<[addr, segs], ...>>    *)
  wTransferSize,     (* the most a DNLOAD carries                          *)
  Files,             (* the files the user may give                        *)
  Attempts,          (* of init: 4                                         *)
  MaxFaults          (* bound on failures and interrupts                   *)

ASSUME DfuAssumption ==
  /\ wTransferSize \in Nat \ {0} /\ Attempts \in Nat \ {0} /\ MaxFaults \in Nat

VARIABLES
  dev,               (* the bootloader's state; gone: not on the bus       *)
  pend,              (* the command of its last DNLOAD                     *)
  ptr,               (* its address pointer                                *)
  mem,               (* address -> the address its data was meant for      *)
  job,               (* the command line: mass, path, exit, file           *)
  tool, step,        (* where main is, and in which transfer               *)
  attempt,           (* of init                                            *)
  pos,               (* elem, off, wsize, xfer of the writing; exits done  *)
  faults

device == <<dev, pend, ptr, mem>>
vars == <<dev, pend, ptr, mem, job, tool, step, attempt, pos, faults>>

Least(a, b) == IF a <= b THEN a ELSE b

-----------------------------------------------------------------------------
(* get_memory_layout: the segments follow one another from addr on.        *)
AddSegment(acc, s) ==
  [addr |-> acc.addr + s.pages * s.size,
   segs |-> acc.segs \cup {[addr |-> acc.addr, last_addr |-> acc.addr + s.pages * s.size - 1,
                            page_size |-> s.size]}]

AddRegion(segs, r) == FoldLeft(AddSegment, [addr |-> r.addr, segs |-> segs], r.segs).segs

get_memory_layout == FoldLeft(AddRegion, {}, Descriptor)

(* Segments are made of whole pages, aligned to their size as the mask of  *)
(* page_addr takes for granted, and do not overlap.                        *)
ASSUME LayoutAssumption ==
  /\ \A s \in get_memory_layout :
       /\ s.addr \in Nat /\ s.last_addr \in Nat /\ s.page_size \in Nat \ {0}
       /\ s.addr % s.page_size = 0 /\ (s.last_addr + 1) % s.page_size = 0
  /\ \A s, r \in get_memory_layout : s = r \/ s.last_addr < r.addr \/ r.last_addr < s.addr

Holding(a) == {s \in get_memory_layout : a >= s.addr /\ a <= s.last_addr}
page_size(a) == (CHOOSE s \in Holding(a) : TRUE).page_size
page_addr(a) == a - (a % page_size(a))        (* addr & ~(page_size - 1)   *)

Memory == UNION {s.addr .. s.last_addr : s \in get_memory_layout}
PageOf(a) == page_addr(a) .. (page_addr(a) + page_size(a) - 1)
Pages == {PageOf(a) : a \in Memory}

-----------------------------------------------------------------------------
(* read_dfu_file.  Lengths are in units: a prefix or the suffix is one.    *)
(* A slice is never longer than what is left, a struct needs all of it.    *)
ReadElement(acc, e) ==
  IF ~acc.ok \/ acc.left < 1 THEN [acc EXCEPT !.ok = FALSE]
  ELSE LET n == Least(e.size, acc.left - 1) IN
    [ok |-> TRUE, left |-> acc.left - 1 - n,
     elements |-> Append(acc.elements, [addr |-> e.addr, size |-> e.size, len |-> n])]

ReadTarget(acc, t) ==
  IF ~acc.ok \/ acc.left < 1 THEN [acc EXCEPT !.ok = FALSE]
  ELSE LET room == Least(t.size, acc.left - 1)
           in == FoldLeft(ReadElement, [acc EXCEPT !.left = room], t.elems)
       IN [in EXCEPT !.left = acc.left - 1 - room]

(* ok is FALSE when a struct raises; a bad CRC and a tail give None.       *)
read_dfu_file(f) ==
  LET r == FoldLeft(ReadTarget, [ok |-> TRUE, left |-> f.length, elements |-> <<>>], f.targets)
  IN [ok |-> r.ok /\ r.left >= 1,
      elements |-> IF f.crc /\ r.left = 1 THEN r.elements ELSE <<>>]

Parsed == [f \in Files |-> read_dfu_file(f)]
Elements == Parsed[job.file].elements

-----------------------------------------------------------------------------
(* The bootloader.                                                         *)
Old == -1
Erased == -2
Torn == -3
Idle == [op |-> "none", at |-> 0, n |-> 0]

Valid(c) ==
  CASE c.op = "data" -> \A k \in 0 .. (c.n - 1) : ptr + k \in Memory
    [] c.op \in {"erase", "addr"} -> c.at \in Memory
    [] OTHER -> TRUE

Affected(c) ==
  CASE c.op = "erase" -> PageOf(c.at)
    [] c.op = "mass" -> Memory
    [] c.op = "data" -> ptr .. (ptr + c.n - 1)
    [] OTHER -> {}

After(a, c) == IF c.op # "data" THEN Erased
  ELSE LET v == c.at + a - ptr IN IF mem[a] \in {Erased, v} THEN v ELSE Torn

Perform ==
  /\ mem' = [a \in Memory |-> IF a \in Affected(pend) THEN After(a, pend) ELSE mem[a]]
  /\ ptr' = IF pend.op = "addr" THEN pend.at ELSE ptr

Tear ==
  /\ \/ mem' = [a \in Memory |-> IF a \in Affected(pend) THEN Torn ELSE mem[a]]
     \/ UNCHANGED mem
  /\ UNCHANGED ptr

(* A GETSTATUS, answered with r: the first after a DNLOAD starts its       *)
(* command, the second comes when it is over.                              *)
Reply(r) ==
  \/ /\ dev = "dnSYNC" /\ r = (IF Valid(pend) THEN "dnBUSY" ELSE "error")
     /\ dev' = r /\ UNCHANGED <<pend, ptr, mem, faults>>
  \/ /\ dev = "dnBUSY" /\ r = "dnIDLE"
     /\ dev' = r /\ Perform /\ UNCHANGED <<pend, faults>>
  \/ /\ dev = "dnBUSY" /\ r = "error" /\ faults < MaxFaults
     /\ dev' = r /\ Tear /\ faults' = faults + 1 /\ UNCHANGED pend
  \/ /\ dev = "manSYNC" /\ r = "manifest"
     /\ dev' = "gone" /\ UNCHANGED <<pend, ptr, mem, faults>>
  \/ /\ dev \in {"dfuIDLE", "dnIDLE", "upIDLE", "error"} /\ r = dev
     /\ UNCHANGED <<dev, pend, ptr, mem, faults>>

Replies == {"dfuIDLE", "dnIDLE", "upIDLE", "dnBUSY", "manifest", "error"}

Download(c) ==
  /\ dev \in {"dfuIDLE", "dnIDLE"}
  /\ dev' = IF c.op = "leave" THEN "manSYNC" ELSE "dnSYNC"
  /\ pend' = c /\ UNCHANGED <<ptr, mem>>

(* In any other state the request is stalled.                              *)
Stalled == dev \notin {"dfuIDLE", "dnIDLE", "gone"} /\ dev' = "error" /\ UNCHANGED <<pend, ptr, mem>>

abort_request == dev \in {"dnIDLE", "upIDLE"} /\ dev' = "dfuIDLE" /\ UNCHANGED <<pend, ptr, mem>>

(* Outside the error state CLRSTATUS is refused or not heard.              *)
clr_status ==
  \/ dev = "error" /\ dev' = "dfuIDLE" /\ UNCHANGED <<pend, ptr, mem>>
  \/ dev = "dnBUSY" /\ dev' = "error" /\ (Tear \/ Perform) /\ UNCHANGED pend
  \/ dev = "dnBUSY" /\ UNCHANGED <<dev, pend, ptr, mem>>

-----------------------------------------------------------------------------
(* The host.                                                               *)
Ends == {"none", "finished", "nothing", "failed"}
Calls == {"read", "write", "chunk", "end"}    (* of no transfer            *)
Home == [elem |-> 1, off |-> 0, wsize |-> 0, xfer |-> 0, exits |-> 0]

Go(t) == tool' = t /\ step' = "send"
Fail == tool' = "failed" /\ UNCHANGED <<step, pos>>

(* What main does next.                                                    *)
AfterPath == IF job.exit THEN "jump" ELSE "end"
AfterMass == IF job.path THEN "read" ELSE AfterPath
AfterInit == IF job.mass THEN "mass" ELSE AfterMass

Start ==
  /\ tool \in Ends /\ dev # "gone"
  /\ tool' = "init" /\ step' = "status" /\ attempt' = 0 /\ pos' = Home
  /\ UNCHANGED <<device, job, faults>>

(* Fault: init asks once.                                                  *)
InitOnce ==
  /\ tool = "init"
  /\ \/ step = "abort" /\ abort_request
     \/ step = "clear" /\ clr_status
  /\ attempt' = attempt + 1 /\ Go(AfterInit)
  /\ UNCHANGED <<job, pos, faults>>

(* One turn of init's loop: what the status asks for ...                   *)
InitStatus ==
  /\ tool = "init" /\ step = "status"
  /\ \E r \in Replies :
       /\ Reply(r)
       /\ IF r = "dfuIDLE" THEN Go(AfterInit)
          ELSE /\ step' = IF r \in {"dnIDLE", "upIDLE"} THEN "abort" ELSE "clear"
               /\ UNCHANGED tool
  /\ UNCHANGED <<job, attempt, pos>>

(* ... is done; after the last attempt main goes on, whatever the state.   *)
InitRequest ==
  /\ tool = "init"
  /\ \/ step = "abort" /\ abort_request
     \/ step = "clear" /\ clr_status
  /\ attempt' = attempt + 1
  /\ IF attempt' < Attempts THEN step' = "status" /\ UNCHANGED tool ELSE Go(AfterInit)
  /\ UNCHANGED <<job, pos, faults>>

check_status(expected, Continue) ==
  \E r \in Replies : Reply(r) /\ IF r = expected THEN Continue ELSE Fail

(* An operation t: DNLOAD, "execute last command", "check command state".  *)
Operation(t, c, Continue) ==
  /\ tool = t
  /\ \/ /\ step = "send" /\ UNCHANGED faults
        /\ \/ Download(c) /\ step' = "execute" /\ UNCHANGED <<tool, pos>>
           \/ Stalled /\ Fail
     \/ step = "execute" /\ check_status("dnBUSY", step' = "check" /\ UNCHANGED <<tool, pos>>)
     \/ step = "check" /\ check_status("dnIDLE", Continue)
  /\ UNCHANGED <<job, attempt>>

mass_erase == Operation("mass", [op |-> "mass", at |-> 0, n |-> 0], Go(AfterMass) /\ UNCHANGED pos)

ReadFile ==
  /\ tool = "read"
  /\ LET r == Parsed[job.file] IN
       IF ~r.ok THEN Fail
       ELSE Go(IF r.elements = <<>> THEN "nothing" ELSE "write") /\ UNCHANGED pos
  /\ UNCHANGED <<device, job, attempt, faults>>

Here == Elements[pos.elem].addr + pos.off

(* Fault: a piece is not cut at the end of its page.                       *)
write_all(a, size) == size

(* The write_size of a turn of write_elements at address a.                *)
write_size(a, size) == IF job.mass \/ Holding(a) = {} THEN size
                       ELSE Least(size, page_addr(a) + page_size(a) - a)

(* The head of write_elements' two loops.                                  *)
write_elements ==
  /\ tool = "write"
  /\ IF pos.elem > Len(Elements) THEN Go("jump") /\ UNCHANGED pos
     ELSE LET size == Elements[pos.elem].size - pos.off IN
       IF size <= 0 THEN pos' = [pos EXCEPT !.elem = @ + 1, !.off = 0] /\ UNCHANGED <<tool, step>>
       ELSE /\ pos' = [pos EXCEPT !.wsize = write_size(Here, size), !.xfer = 0]
            /\ Go(IF job.mass \/ Holding(Here) = {} THEN "chunk" ELSE "erase")
  /\ UNCHANGED <<device, job, attempt, faults>>

page_erase == Operation("erase", [op |-> "erase", at |-> page_addr(Here), n |-> 0],
                        Go("chunk") /\ UNCHANGED pos)

(* data[:write_size] of an element shorter than its size says.             *)
xfer_total == Least(pos.wsize, Elements[pos.elem].len - pos.off)
chunk == Least(wTransferSize, xfer_total - pos.xfer)

(* Fault: the address is set for the first chunk only.                     *)
write_on ==
  /\ tool = "chunk"
  /\ IF pos.xfer < xfer_total THEN Go(IF pos.xfer = 0 THEN "addr" ELSE "data") /\ UNCHANGED pos
     ELSE Go("write") /\ pos' = [pos EXCEPT !.off = @ + pos.wsize]
  /\ UNCHANGED <<device, job, attempt, faults>>

(* The head of write_memory's loop, and what follows its call.             *)
write_memory ==
  /\ tool = "chunk"
  /\ IF pos.xfer < xfer_total THEN Go("addr") /\ UNCHANGED pos
     ELSE Go("write") /\ pos' = [pos EXCEPT !.off = @ + pos.wsize]
  /\ UNCHANGED <<device, job, attempt, faults>>

set_address == Operation("addr", [op |-> "addr", at |-> Here + pos.xfer, n |-> 0],
                         Go("data") /\ UNCHANGED pos)

SendData == Operation("data", [op |-> "data", at |-> Here + pos.xfer, n |-> chunk],
                      Go("chunk") /\ pos' = [pos EXCEPT !.xfer = @ + chunk])

(* exit_dfu: 0 stands for 0x08000000.                                      *)
SetJump == Operation("jump", [op |-> "addr", at |-> 0, n |-> 0], Go("leave") /\ UNCHANGED pos)

(* main calls exit_dfu once for the file and once for --exit.              *)
Left == IF job.path /\ job.exit /\ pos.exits = 0
          THEN Go("jump") /\ pos' = [pos EXCEPT !.exits = 1]
          ELSE Go("end") /\ UNCHANGED pos

exit_dfu ==
  /\ tool = "leave"
  /\ \/ /\ step = "send" /\ UNCHANGED faults
        /\ \/ Download([op |-> "leave", at |-> 0, n |-> 0]) /\ step' = "status" /\ UNCHANGED <<tool, pos>>
           \/ Stalled /\ Fail
     \/ step = "status" /\ \E r \in Replies : Reply(r) /\ Left
  /\ UNCHANGED <<job, attempt>>

(* The last lines of main.                                                 *)
CommandRun ==
  /\ tool = "end"
  /\ tool' = IF job.mass \/ job.path \/ job.exit THEN "finished" ELSE "nothing"
  /\ UNCHANGED <<device, job, step, attempt, pos, faults>>

-----------------------------------------------------------------------------
(* A transfer raises: the device is gone, the call times out, or the user  *)
(* interrupts.  Only exit_dfu's last status is inside a try.               *)
Raise ==
  /\ tool \notin Ends
  /\ \/ dev = "gone" /\ tool \notin Calls /\ UNCHANGED faults
     \/ dev # "gone" /\ faults < MaxFaults /\ faults' = faults + 1
  /\ IF tool = "leave" /\ step = "status" THEN Left ELSE Fail
  /\ UNCHANGED <<device, job, attempt>>

(* The cable or the power goes; a running command is cut short.            *)
Unplug ==
  /\ dev # "gone" /\ faults < MaxFaults
  /\ IF dev = "dnBUSY" THEN Tear ELSE UNCHANGED <<ptr, mem>>
  /\ dev' = "gone" /\ faults' = faults + 1
  /\ UNCHANGED <<pend, job, tool, step, attempt, pos>>

(* The user starts the bootloader again.                                   *)
Plug ==
  /\ dev = "gone" /\ tool \in Ends
  /\ dev' = "dfuIDLE" /\ pend' = Idle /\ ptr' = 0
  /\ UNCHANGED <<mem, job, tool, step, attempt, pos, faults>>

Init ==
  /\ dev \in {"dfuIDLE", "dnIDLE", "upIDLE", "error"}
  /\ pend = Idle /\ ptr = 0 /\ mem = [a \in Memory |-> Old]
  /\ job \in [mass : BOOLEAN, path : BOOLEAN, exit : BOOLEAN, file : Files]
  /\ tool = "none" /\ step = "send" /\ attempt = 0 /\ pos = Home /\ faults = 0

Run ==
  \/ InitStatus \/ InitRequest \/ mass_erase \/ ReadFile \/ write_elements
  \/ page_erase \/ write_memory \/ set_address \/ SendData \/ SetJump \/ exit_dfu
  \/ CommandRun

Next == Start \/ Run \/ Raise \/ Unplug \/ Plug

(* A running tool goes on: each of its calls returns or raises.            *)
Spec == Init /\ [][Next]_vars /\ WF_vars(Run \/ (Raise /\ dev = "gone"))

-----------------------------------------------------------------------------
(* What a file says of itself, read without a parser.                      *)
Spans(t) == FoldLeft(LAMBDA n, e : n + 1 + e.size, 0, t.elems)
WellFormed(f) ==
  /\ f.crc /\ \A k \in DOMAIN f.targets : f.targets[k].size = Spans(f.targets[k])
  /\ f.length = FoldLeft(LAMBDA n, t : n + 1 + t.size, 1, f.targets)
Declared(f) ==
  [k \in DOMAIN FlattenSeq([t \in DOMAIN f.targets |-> f.targets[t].elems]) |->
     LET e == FlattenSeq([t \in DOMAIN f.targets |-> f.targets[t].elems])[k]
     IN [addr |-> e.addr, size |-> e.size, len |-> e.size]]
Content(f) == IF WellFormed(f) THEN Declared(f) ELSE Parsed[f].elements

(* What read_dfu_file makes of the files: a well-formed one is read as it  *)
(* declares itself, and no element is longer than its size.                *)
FilesRead ==
  \A f \in Files :
    /\ Content(f) = Parsed[f].elements
    /\ Parsed[f].elements \in Seq([addr : Nat, size : Nat, len : Nat])
    /\ \A k \in DOMAIN Parsed[f].elements : Parsed[f].elements[k].len <= Parsed[f].elements[k].size

Claims(e) == e.addr .. (e.addr + e.size - 1)
Data(e) == e.addr .. (e.addr + e.len - 1)
ClaimedBy == [f \in Files |-> UNION {Claims(Content(f)[k]) : k \in DOMAIN Content(f)}]
ImageOf == [f \in Files |-> UNION {Data(Content(f)[k]) : k \in DOMAIN Content(f)}]

(* A later element of the same page erases it again, unless the whole      *)
(* flash was erased at first.                                              *)
Stays(a, f, mass) == \E k \in DOMAIN Content(f) :
  /\ a \in Data(Content(f)[k])
  /\ mass \/ \A l \in DOMAIN Content(f) : l > k => PageOf(a) \cap Claims(Content(f)[l]) = {}
DueOf ==
  [f \in Files |-> [mass \in BOOLEAN |-> {a \in ImageOf[f] \cap Memory : Stays(a, f, mass)}]]

Claimed == IF job.path THEN ClaimedBy[job.file] ELSE {}
Image == IF job.path THEN ImageOf[job.file] \cap Memory ELSE {}
Due == IF job.path THEN DueOf[job.file][job.mass] ELSE {}

Sound(f) == ImageOf[f] \subseteq Memory /\ WellFormed(f) /\ Declared(f) # <<>>

-----------------------------------------------------------------------------
(* "Finished" after a file was given (main): whatever earlier runs left    *)
(* behind, every byte of the file that no later element's erase took away  *)
(* is in the flash.                                                        *)
FinishedMeansWritten == tool = "finished" /\ job.path => \A a \in Due : mem[a] = a

(* init brings any bootloader that an interrupted run left behind, except  *)
(* one that was already told to leave, to where main can work: a run on a  *)
(* sound file that nothing disturbs finishes.                              *)
RerunSucceeds ==
  (/\ tool = "init" /\ step = "status" /\ attempt = 0
   /\ dev \notin {"gone", "manSYNC"}
   /\ faults = MaxFaults /\ job.path /\ ~job.exit /\ Sound(job.file)) ~> tool = "finished"

(* The transfers add up to an update: only pages of the file are erased,   *)
(* only erased cells are programmed, also by the command an earlier run    *)
(* left pending.                                                           *)
Update == INSTANCE FlashUpdate WITH
  run <- IF tool \in Ends THEN tool ELSE "running",
  claimed <- Claimed, image <- Image, due <- Due, whole <- job.mass

ImplementsFlashUpdate == Update!FlashSpec
=============================================================================
