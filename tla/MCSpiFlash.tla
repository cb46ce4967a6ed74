----------------------------- MODULE MCSpiFlash -----------------------------
(* Sectors of four pages erased every three, in a chip of three sectors;   *)
(* the file lengths end on, before and after both boundaries.              *)
EXTENDS SpiFlash

Job(t, a, s, n, e) == [tool |-> t, action |-> a, start |-> s, pages |-> n, erase |-> e]
Plain ==
  {Job("HydraSPI", "program", 0, n, TRUE) : n \in {1, 5, 9}}
  \cup {Job("HydraSPI", "program", s, 5, FALSE) : s \in {0, 1}}
  \cup {Job("HydraSPI", "program", 4, 5, TRUE)}
  \cup {Job(t, "dump", s, n, FALSE) : t \in {"HydraSPI", "nor_dump"}, s \in {6, 13}, n \in {3, 16}}
MCJobs == {[tool |-> j.tool, action |-> j.action, start |-> j.start, pages |-> j.pages,
            erase |-> j.erase, present |-> b] : j \in Plain, b \in BOOLEAN}
=============================================================================
