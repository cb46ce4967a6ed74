---------------------------- MODULE MCUartBridge ----------------------------
(* Two working areas: an owned and an abandoned reader side by side, and a *)
(* heap that two forgotten readers use up.                                 *)
EXTENDS UartBridge
=============================================================================
