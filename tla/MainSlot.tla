------------------------------ MODULE MainSlot ------------------------------
(***************************************************************************)
(* The C64 main cartridge slot holding one of two carts: Turtle Graphics  *)
(* II and Snapshot 64.  Both drive the one slot configuration (cfg, the   *)
(* EXROM/GAME lines and ROML/ROMH banks of c64cartmem.c), so the two      *)
(* modules are instantiated over disjoint cart state and a shared cfg.    *)
(*                                                                         *)
(* One cart is in the main slot at a time: attaching an image while the   *)
(* other cart is in the slot goes through that cart's detach first (an     *)
(* empty slot between the two steps), and a snapshot load into the slot   *)
(* starts from an empty slot.  Each cart's own operations need it to be    *)
(* attached, so they never run while the other cart owns cfg.            *)
(***************************************************************************)
EXTENDS Naturals

CONSTANTS TGImages, TGOldModules, SSImages, StoreValues

VARIABLES
    cfg,
    tg_bank, tg_roml, tg_attached, tg_snap, tg_last_load,
    ss_romconfig, ss_roml, ss_attached, ss_snap, ss_io2_was_read

tg_vars == <<tg_bank, tg_roml, tg_attached, tg_snap, tg_last_load>>
ss_vars == <<ss_romconfig, ss_roml, ss_attached, ss_snap, ss_io2_was_read>>
vars    == <<cfg, tg_vars, ss_vars>>

TG == INSTANCE TurtleGraphics
        WITH Images <- TGImages, OldModules <- TGOldModules,
             turtlegraphics_bank <- tg_bank, roml_banks <- tg_roml,
             attached <- tg_attached, snap <- tg_snap, last_load <- tg_last_load

SS == INSTANCE Snapshot64
        WITH Images <- SSImages,
             romconfig <- ss_romconfig, roml_banks <- ss_roml,
             attached <- ss_attached, snap <- ss_snap,
             io2_was_read <- ss_io2_was_read

\* A Turtle Graphics step: attach and load need the slot free of the
\* Snapshot 64 cart; every other step needs Turtle Graphics attached.
TGStep == /\ TG!Next
          /\ (TG!Attach \/ TG!SnapshotRead) => ~ss_attached
          /\ UNCHANGED ss_vars

SSStep == /\ SS!Next
          /\ (SS!Attach \/ SS!SnapshotRead) => ~tg_attached
          /\ UNCHANGED tg_vars

Init == TG!Init /\ SS!Init

Next == TGStep \/ SSStep

Spec == Init /\ [][Next]_vars

-----------------------------------------------------------------------------

\* The slot configuration carries at most the Turtle Graphics bank bits,
\* turtlegraphics_bank stays 0..1 and romconfig 0/1, whichever cart's
\* io accesses, resets and snapshot loads came last.
TypeOK ==
    /\ cfg \in TG!ConfigType(TG!CMODE_BANK_MASK)
    /\ tg_bank \in TG!Banks
    /\ tg_roml \in [TG!Banks -> 0..255]
    /\ tg_last_load \in [minor : 0..TG!SNAP_MINOR, complete : BOOLEAN, ok : BOOLEAN]
    /\ ss_romconfig \in 0..1
    /\ ss_roml \in 0..255
    /\ {tg_attached, ss_attached, ss_io2_was_read} \subseteq BOOLEAN

=============================================================================
