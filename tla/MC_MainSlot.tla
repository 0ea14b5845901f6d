---------------------------- MODULE MC_MainSlot ----------------------------
(* MainSlot instantiated for TLC: the ROM images and stored values of the *)
(* two carts' own models, and no CARTSTB module of an earlier version.    *)
EXTENDS MainSlot, TLC

MC_TGImages == {(0 :> 0 @@ 1 :> 0), (0 :> \h09 @@ 1 :> \h80), (0 :> 1 @@ 1 :> \hFF)}
MC_NoOldModules == {}
MC_SSImages == {\h00, \hA9, \h4C}
MC_StoreValues == {\h00, \hFF}

\* Turtle Graphics: an attached cart maps 8K game mode with ROML bank
\* turtlegraphics_bank, after any io1 accesses, resets and loads.
TG_BankMatchesConfig == TG!BankMatchesConfig

\* Turtle Graphics: reloading the last module written and attaching gives
\* the ROML reads and IO1 peek the cart showed when saved.
TG_SnapshotRoundTrip == TG!SnapshotRoundTrip

\* Snapshot 64: while attached, the IO2 peek (romconfig) tells whether the
\* slot maps Ultimax (ROM in) or RAM mode (ROM out).
SS_RomConfigMatchesMapping == SS!RomConfigMatchesMapping

\* Snapshot 64: reloading the last CARTSNAP64 module and attaching gives
\* the bus view the cart showed when saved.
SS_SnapshotRoundTrip == SS!SnapshotRoundTrip
=============================================================================
