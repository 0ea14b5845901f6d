------------------------- MODULE MC_TurtleGraphics -------------------------
(* TurtleGraphics instantiated for TLC: three ROM images (banks equal,    *)
(* banks differing, and a first byte that happens to be a bank number),   *)
(* and the CARTSTB 0.0 modules an older writer leaves on disk.            *)
EXTENDS TurtleGraphics, TLC

MC_Images == {(0 :> 0 @@ 1 :> 0), (0 :> \h09 @@ 1 :> \h80), (0 :> 1 @@ 1 :> \hFF)}

\* No module of an earlier version on disk.
MC_NoOldModules == {}

\* CARTSTB 0.0 modules, as the format comment describes them: ROML only.
MC_OldModules ==
    {[minor |-> 0, data |-> RomBytes(img),
      cfg |-> ConfigChanged(ModeByte(CMODE_8KGAME, 0), CMODE_READ)] : img \in MC_Images}
=============================================================================
