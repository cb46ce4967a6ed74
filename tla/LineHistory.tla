----------------------------- MODULE LineHistory ----------------------------
(***************************************************************************)
(* The command history of tokenline.c: zero-terminated lines in a ring of  *)
(* TL_MAX_HISTORY_SIZE bytes.  hist_begin is the oldest entry, hist_end    *)
(* the byte after the newest, and an entry may run over the end of the     *)
(* buffer.  The line editor is reduced to what the history sees of it: the *)
(* line, typed whole or cut short.                                         *)
(***************************************************************************)
EXTENDS Integers, Sequences, FiniteSets, FiniteSetsExt, SequencesExt

CONSTANTS
  HistorySize,       (* TL_MAX_HISTORY_SIZE                                *)
  MaxLineLen,        (* TL_MAX_LINE_LEN: the longest line, its zero counted*)
  Lines              (* the lines a user may enter                         *)

(* A line fits the line buffer, and the ring holds several lines.          *)
ASSUME HistoryAssumption ==
  /\ HistorySize \in Nat /\ MaxLineLen \in Nat /\ MaxLineLen >= 2
  /\ Lines \subseteq Seq(1 .. 255) /\ \A l \in Lines : Len(l) \in 1 .. (MaxLineLen - 1)
  /\ HistorySize >= 3 * MaxLineLen

VARIABLES
  hist_buf,          (* the bytes, with a zero after the last              *)
  hist_begin, hist_end,
  hist_step,         (* the entry shown, or -1                             *)
  buf                (* the line being edited                              *)

editVars == <<hist_buf, hist_begin, hist_end, hist_step, buf>>

Bytes == 0 .. (HistorySize - 1)

Fwd(i, k) == (i + k) % HistorySize
Back(i, k) == (i - k) % HistorySize

(* The C string at i: it ends at a zero or at the end of the buffer.       *)
strlen(b, i) == Min({k \in 0 .. HistorySize : i + k <= HistorySize /\ b[i + k] = 0})
CString(b, i) == [j \in 1 .. strlen(b, i) |-> b[i + j - 1]]

(* The bytes of s written to the ring from i on, in one or two parts.      *)
Copied(b, i, s) ==
  [j \in DOMAIN b |-> IF j \in Bytes /\ Back(j, i) < Len(s) THEN s[Back(j, i) + 1] ELSE b[j]]

(* '!' stands in for a line that does not fit.                             *)
Bang == 33
set_line(line, s) == IF Len(s) > MaxLineLen - 1 THEN Append(line, Bang) ELSE line \o s

-----------------------------------------------------------------------------
(* Back over the terminating zero, then to the first byte of the entry.    *)
history_previous(entry) ==
  IF entry = hist_begin
    THEN -1
    ELSE Back(entry, 1 + Min({k \in 0 .. HistorySize : hist_buf[Back(entry, 2 + k)] = 0}))

(* Fault: the deletion stops as soon as it has freed enough.               *)
FreedMidEntry(b, entry, size) == size

(* Frees at least size bytes from entry on, to the end of an entry.        *)
Freed(b, entry, size) == Min({k \in size .. HistorySize : b[Fwd(entry, k)] = 0})

Deleted(b, entry, size) ==
  [j \in DOMAIN b |->
     IF j \in Bytes /\ Back(j, entry) < Freed(b, entry, size) THEN 0 ELSE b[j]]

(* The entry after the deleted ones: over zeros only while below entry.    *)
AfterDeleted(b, entry, size) ==
  LET d == Deleted(b, entry, size)
      i == Fwd(entry, Freed(b, entry, size))
  IN  Fwd(i, Min({k \in 1 .. HistorySize : ~(d[Fwd(i, k)] = 0 /\ Fwd(i, k) < entry)}))

history_delete(b, entry, size) == [b |-> Deleted(b, entry, size), begin |-> AfterDeleted(b, entry, size)]

(* What history_delete must free when only part of the room is there.      *)
Missing(size, there) == size - there

(* Room for size bytes at hist_end, as the three cases of history_add make *)
(* it: none needed, the tail of the buffer, or the gap before hist_begin.  *)
MakeRoom(size) ==
  LET keep == [b |-> hist_buf, begin |-> hist_begin]
      tail == HistorySize - hist_end
      gap  == hist_begin - hist_end
  IN  IF hist_begin = hist_end THEN keep
      ELSE IF hist_begin < hist_end
        THEN IF tail >= size THEN keep ELSE history_delete(hist_buf, hist_begin, Missing(size, tail))
        ELSE IF gap <= size THEN history_delete(hist_buf, hist_begin, Missing(size, gap)) ELSE keep

EndAfter(size) == Fwd(hist_end, size)

(* An entry that ends exactly at the oldest one costs that one.            *)
history_add(s) ==
  LET size == Len(s) + 1
      end  == EndAfter(size)
      at   == IF hist_begin = hist_end THEN 0 ELSE hist_end
  IN  \E room \in {MakeRoom(size)} :
      \E b \in {Copied(room.b, at, Append(s, 0))} :
      \E left \in {IF room.begin = end
                     THEN history_delete(b, room.begin, strlen(b, room.begin))
                     ELSE [b |-> b, begin |-> room.begin]} :
        /\ hist_end' = end
        /\ hist_buf' = left.b
        /\ hist_begin' = left.begin

-----------------------------------------------------------------------------
EditInit ==
  /\ hist_buf = [i \in 0 .. HistorySize |-> 0]
  /\ hist_begin = 0 /\ hist_end = 0 /\ hist_step = -1
  /\ buf = << >>

(* Printing keys: any line can be typed; each of them leaves the history.  *)
PrintingKey ==
  /\ buf' \in Lines
  /\ hist_step' = -1
  /\ UNCHANGED <<hist_buf, hist_begin, hist_end>>

(* Backspace, delete, Ctrl-W and Ctrl-K shorten the line and stay.         *)
Shorten ==
  /\ buf # << >>
  /\ buf' = Front(buf)
  /\ UNCHANGED <<hist_buf, hist_begin, hist_end, hist_step>>

(* Enter keeps a line that is not empty and starts a new one.              *)
process_line ==
  /\ IF buf = << >> THEN UNCHANGED <<hist_buf, hist_begin, hist_end>> ELSE history_add(buf)
  /\ buf' = << >> /\ hist_step' = -1

RunsOver(entry) == hist_begin # 0 /\ HistorySize = strlen(hist_buf, entry) + entry

(* Ctrl-C empties the line and runs it.                                    *)
CtrlC ==
  /\ buf' = << >> /\ hist_step' = -1
  /\ UNCHANGED <<hist_buf, hist_begin, hist_end>>

(* An entry that runs over the end of the buffer is shown in two parts.    *)
ShownByUp(entry) ==
  LET first == set_line(<< >>, CString(hist_buf, entry)) IN
  IF RunsOver(entry)
    THEN set_line(first, CString(hist_buf, 0))
    ELSE first

history_up ==
  LET entry == history_previous(IF hist_step = -1 THEN hist_end ELSE hist_step) IN
  /\ entry # -1
  /\ buf' = ShownByUp(entry)
  /\ hist_step' = entry
  /\ UNCHANGED <<hist_buf, hist_begin, hist_end>>

(* Over the rest of the entry shown and its zero.                          *)
NextEntry(i) == Fwd(i, 1 + Min({k \in 0 .. HistorySize : hist_buf[Fwd(i, k)] = 0}))

(* The next entry is shown as far as the end of the buffer.                *)
history_down ==
  /\ hist_step # -1
  /\ IF hist_step = hist_end
       THEN buf' = << >> /\ hist_step' = -1
       ELSE /\ buf' = set_line(<< >>, CString(hist_buf, NextEntry(hist_step)))
            /\ hist_step' = NextEntry(hist_step)
  /\ UNCHANGED <<hist_buf, hist_begin, hist_end>>

EditNext == PrintingKey \/ Shorten \/ CtrlC \/ process_line \/ history_up \/ history_down

EditSpec == EditInit /\ [][EditNext]_editVars

-----------------------------------------------------------------------------
(* The bytes in use, from the oldest entry to the newest.                  *)
Used == Back(hist_end, hist_begin)

Live == [o \in 1 .. Used |-> hist_buf[Fwd(hist_begin, o - 1)]]

TakeByte(acc, c) ==
  IF c = 0 THEN [done |-> Append(acc.done, acc.rest), rest |-> << >>]
    ELSE [acc EXCEPT !.rest = Append(@, c)]

(* A row of bytes cut at its zeros.                                        *)
Cut(s) ==
  LET cut[o \in 0 .. Len(s)] ==
        IF o = 0 THEN [done |-> << >>, rest |-> << >>] ELSE TakeByte(cut[o - 1], s[o])
  IN  cut[Len(s)].done

Entries == Cut(Live)

Cursor ==
  IF hist_step = -1 THEN 0
    ELSE 1 + Cardinality({o \in 1 .. Back(hist_step, hist_begin) : Live[o] = 0})

UserHistory ==
  INSTANCE History WITH entries <- Entries, cursor <- Cursor, line <- buf

(* The ring implements the history the user sees: whatever wraps, is       *)
(* deleted or fits exactly, it holds the newest lines whole and in order,  *)
(* and Up and Down move over them one by one.                              *)
ImplementsHistory == UserHistory!HistorySpec
=============================================================================
