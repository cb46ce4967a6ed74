---------------------------- MODULE MCHostSession ---------------------------
(* Five NULs instead of 20: longer than an address (2), shorter than an    *)
(* address and a page (2 + 5), as 20 is to 4 and 260.                      *)
EXTENDS HostSession

MCBanner == <<"B", "B", "I", "O", "1">>
MCId == <<"S", "P", "I", "1">>
ChipId == [tx |-> 1, data |-> 0, rx |-> 1]
Speed == [tx |-> 0, data |-> 0, rx |-> 0]
Block == [tx |-> 2, data |-> 0, rx |-> 1]
Page == [tx |-> 2, data |-> 5, rx |-> 0]
Sector == [tx |-> 2, data |-> 0, rx |-> 2]
MCBodies == [
  HydraSPI |-> {<<>>, <<ChipId>>, <<Page, Block>>},
  nor_dump |-> {<<ChipId>>, <<ChipId, Speed, Sector>>}]
MCParams == {[pol |-> 0, pha |-> 0]}
MCAllParams == [pol : 0 .. 1, pha : 0 .. 1]
=============================================================================
