---------------------------- MODULE MCSumpCapture ---------------------------
(* Two samples to a cell, as with four channels, in a ring of four; one    *)
(* channel, one pin that is not sampled, and triggers that match at once,  *)
(* on a level, and never.                                                  *)
EXTENDS SumpCapture

CONSTANTS d0, d1

MCTriggers == {[mask |-> {}, value |-> {}], [mask |-> {d0}, value |-> {d0}],
               [mask |-> {d1}, value |-> {d1}]}
=============================================================================
