---------------------------- MODULE MCLineHistory ---------------------------
(* A ring of twelve bytes and lines of one to three characters, all        *)
(* different, so that an entry may end exactly at the end of the buffer,   *)
(* run over it by any number of bytes, and fill the ring to the last byte. *)
EXTENDS LineHistory

MCLines == {<<1>>, <<1, 2>>, <<1, 2, 3>>}
=============================================================================
