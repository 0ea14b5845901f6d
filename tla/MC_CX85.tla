------------------------------- MODULE MC_CX85 -------------------------------
(* The joyport bit numbers of VICE's joyport.h, and four matrix positions: *)
(* Escape (the inverted KEY4 line), Enter, 1, and the hole at row 3,      *)
(* column 4 that handle_keys must ignore.                                 *)
EXTENDS CX85

MC_Positions == {<<0, 0>>, <<1, 4>>, <<2, 1>>, <<3, 4>>}
=============================================================================
