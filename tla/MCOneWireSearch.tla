--------------------------- MODULE MCOneWireSearch --------------------------
(* Codes of four bits, two of them the family: four devices that part at   *)
(* the first, the second and the last bit.                                 *)
EXTENDS OneWireSearch

MCRoms == {<<0, 1, 0, 0>>, <<0, 1, 0, 1>>, <<1, 0, 0, 0>>, <<1, 1, 1, 0>>}
=============================================================================
