----------------------------- MODULE FlashUpdate ----------------------------
(***************************************************************************)
(* What pydfu.py promises about the flash it programs, without the DFU     *)
(* protocol, the file format or the order of its transfers: it erases only *)
(* pages it was asked for, programs only erased cells, and says that it is *)
(* finished only when everything that was due is there.  The tool and the  *)
(* power may fail at any point and the tool may be run again.              *)
(***************************************************************************)
CONSTANTS
  Memory,            (* the addresses of the flash                         *)
  Pages,             (* the sets of addresses that are erased together     *)
  Erased, Torn       (* contents that are nobody's data                    *)

VARIABLES
  mem,               (* address -> the address its data was meant for      *)
  run,               (* none, running, finished, nothing or failed         *)
  claimed,           (* the addresses the update may erase the pages of    *)
  image,             (* the addresses it has data for                      *)
  due,               (* those that must hold their data in the end         *)
  whole              (* the whole flash is to be erased                    *)

flashVars == <<mem, run, claimed, image, due, whole>>
UpdateUnchanged == UNCHANGED <<claimed, image, due, whole>>

Erasable == {p \in Pages : whole \/ p \cap claimed # {}}

Begin == run # "running" /\ run' = "running" /\ UNCHANGED mem /\ UpdateUnchanged

Becomes(S, v) == mem' = [a \in Memory |-> IF a \in S THEN v ELSE mem[a]]

ErasePage ==
  /\ run = "running"
  /\ \E p \in Erasable : Becomes(p, Erased)
  /\ UNCHANGED run /\ UpdateUnchanged

EraseWhole ==
  /\ run = "running" /\ whole /\ Becomes(Memory, Erased)
  /\ UNCHANGED run /\ UpdateUnchanged

Program ==
  /\ run = "running"
  /\ \E S \in SUBSET image :
       /\ \A a \in S : mem[a] \in {Erased, a}
       /\ mem' = [a \in Memory |-> IF a \in S THEN a ELSE mem[a]]
  /\ UNCHANGED run /\ UpdateUnchanged

(* The device or its power fails while it erases or programs.              *)
Tear ==
  /\ \E S \in Erasable \cup (SUBSET image) \cup (IF whole THEN {Memory} ELSE {}) :
       Becomes(S, Torn)
  /\ run' \in {run, IF run = "running" THEN "failed" ELSE run} /\ UpdateUnchanged

Finish ==
  /\ run = "running" /\ \A a \in due : mem[a] = a
  /\ run' = "finished" /\ UNCHANGED mem /\ UpdateUnchanged

Stop ==
  /\ run = "running" /\ run' \in {"nothing", "failed"}
  /\ UNCHANGED mem /\ UpdateUnchanged

FlashInit == run = "none" /\ \A a \in Memory : mem[a] \notin {Erased, Torn, a}

FlashNext == Begin \/ ErasePage \/ EraseWhole \/ Program \/ Tear \/ Finish \/ Stop

FlashSpec == FlashInit /\ [][FlashNext]_flashVars
=============================================================================
