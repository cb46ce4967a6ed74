------------------------------- MODULE History ------------------------------
(***************************************************************************)
(* What the command history of tokenline promises to the user: the newest  *)
(* lines entered, in order, with a cursor that Up moves to older and Down  *)
(* to newer ones.  How many lines are kept is the implementation's choice, *)
(* but the newest is always among them.                                    *)
(***************************************************************************)
EXTENDS Naturals, Sequences

CONSTANT Lines       (* the lines a user may enter                         *)

VARIABLES
  entries,           (* the lines kept, oldest first                       *)
  cursor,            (* 0 off the history, else a position; the position   *)
                     (* after the last is the empty line below the newest  *)
  line               (* the line being edited                              *)

historyVars == <<entries, cursor, line>>

Empty == << >>

HistoryInit == entries = Empty /\ cursor = 0 /\ line = Empty

Suffix(s, k) == SubSeq(s, Len(s) - k + 1, Len(s))

IsPrefixOf(s, t) == Len(s) <= Len(t) /\ SubSeq(t, 1, Len(s)) = s

(* A printing key leaves the history; a deleting key does not.             *)
Type == line' \in Lines /\ cursor' = 0 /\ UNCHANGED entries

Erase ==
  /\ IsPrefixOf(line', line) /\ line' # line
  /\ UNCHANGED <<entries, cursor>>

Enter ==
  /\ IF line = Empty
       THEN UNCHANGED entries
       ELSE \E k \in 1 .. (Len(entries) + 1) : entries' = Suffix(Append(entries, line), k)
  /\ cursor' = 0 /\ line' = Empty

Cancel == line' = Empty /\ cursor' = 0 /\ UNCHANGED entries

Up ==
  LET from == IF cursor = 0 THEN Len(entries) + 1 ELSE cursor IN
  /\ from > 1
  /\ cursor' = from - 1
  /\ line' = entries[cursor']
  /\ UNCHANGED entries

(* Down may show the beginning of a line only.                             *)
Down ==
  /\ cursor # 0
  /\ IF cursor > Len(entries)
       THEN cursor' = 0 /\ line' = Empty
       ELSE /\ cursor' = cursor + 1
            /\ IF cursor' > Len(entries)
                 THEN line' = Empty
                 ELSE line' # Empty /\ IsPrefixOf(line', entries[cursor'])
  /\ UNCHANGED entries

HistoryNext == Type \/ Erase \/ Cancel \/ Enter \/ Up \/ Down

HistorySpec == HistoryInit /\ [][HistoryNext]_historyVars
=============================================================================
