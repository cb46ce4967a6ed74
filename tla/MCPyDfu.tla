------------------------------ MODULE MCPyDfu -------------------------------
(* Eight addresses in pages of two, two and four; transfers of two.  The   *)
(* files: two elements in pages of their own, two in one page, two         *)
(* targets, one past the end, one shorter than its size says, a bad CRC, a *)
(* tail, a missing suffix and no target at all.                            *)
EXTENDS PyDfu

MCDescriptor == <<[addr |-> 0, segs |-> <<[pages |-> 2, size |-> 2], [pages |-> 1, size |-> 4]>>]>>

E(a, n) == [addr |-> a, size |-> n]
T(es) == [elems |-> es, size |-> FoldLeft(LAMBDA n, e : n + 1 + e.size, 0, es)]
F(ts) == [targets |-> ts, crc |-> TRUE, length |-> FoldLeft(LAMBDA n, t : n + 1 + t.size, 1, ts)]

Two == F(<<T(<<E(0, 1), E(4, 3)>>)>>)
MCFiles == {
  Two,
  F(<<T(<<E(3, 2)>>)>>),
  F(<<T(<<E(0, 1), E(1, 1)>>)>>),
  F(<<T(<<E(2, 1)>>), T(<<E(0, 2)>>)>>),
  F(<<T(<<E(7, 2)>>)>>),
  F(<<[T(<<E(2, 4)>>) EXCEPT !.size = 3]>>) ,
  [Two EXCEPT !.crc = FALSE],
  [Two EXCEPT !.length = @ + 1],
  [Two EXCEPT !.length = @ - 1],
  F(<<>>) }

(* What the theorems take of the parser, evaluated on these files.         *)
ASSUME FilesRead
=============================================================================
