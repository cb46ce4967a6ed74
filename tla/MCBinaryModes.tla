---------------------------- MODULE MCBinaryModes ---------------------------
(* Four blocks of 8 KiB: the two buffers of a pair mode take two, OpenOCD  *)
(* one, SUMP the whole pool, as its 32 KiB are the whole pool of the       *)
(* board.  Each buffer the NFC reader forgets brings the pool nearer to    *)
(* refusing first SUMP, then one and then both buffers of a pair.          *)
EXTENDS BinaryModes

MCModes == PairModes \cup SingleModes \cup BareModes
=============================================================================
