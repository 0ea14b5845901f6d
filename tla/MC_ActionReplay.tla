-------------------------- MODULE MC_ActionReplay ---------------------------
(* Model-checking instance of ActionReplay.                                *)
EXTENDS ActionReplay, TLC

\* Register bytes, one per decode case: each EXROM/GAME combination, ROM
\* banks 1, 2 and 3 (bank 3 reads the ROM's last page, $7F00), disable
\* (bit 2), RAM export (bit 5), the broken mode $22 with and without
\* disable, and freeze release (bit 6) with and without RAM.
MC_RegValues ==
    {\h00, \h01, \h02, \h03, \h04, \h08, \h11, \h18, \h20, \h22, \h26,
     \h40, \h63, \h70}

MC_RamValues == {0, 255}

MC_C64RamByte == 15
\* A power-up pattern holding both RAM values (ram.c's pattern is not
\* part of the modelled sources).
MC_RamPattern == 0 :> 255 @@ \h1F00 :> 0
=============================================================================
