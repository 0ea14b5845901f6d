----------------------------- MODULE CartConfig -----------------------------
(***************************************************************************)
(* The main-slot memory configuration that every C64 cartridge drives      *)
(* through cart_config_changed_slotmain() and cart_rom{l,h}bank_set_       *)
(* slotmain().  That code (c64cartmem.c) is not part of this repository's  *)
(* sources, so the operators below follow the spec's section 4.1/4.2: a    *)
(* mode byte carries the EXROM/GAME combination in bits 0-1 and the bank   *)
(* from CMODE_BANK_SHIFT upwards; the flag word carries the write intent,  *)
(* the freeze release and the RAM export.                                  *)
(*                                                                         *)
(* The configuration is a record                                           *)
(*   [mode |-> 0..3, roml_bank |-> Nat, romh_bank |-> Nat,                 *)
(*    export_ram |-> BOOLEAN]                                              *)
(* held by the module that composes a cartridge with it.                   *)
(***************************************************************************)
EXTENDS Naturals

\* The n-bit field of byte v starting at bit lo: (v >> lo) & (2^n - 1).
BitField(v, lo, n) == (v \div 2^lo) % 2^n

\* The four EXROM/GAME combinations, as the carts' mode bytes encode them.
CMODE_8KGAME  == 0
CMODE_16KGAME == 1
CMODE_RAM     == 2
CMODE_ULTIMAX == 3

CMODE_BANK_SHIFT == 2
CMODE_BANK_MASK  == 63

\* The flag word, as a set of the flags it has set (CMODE_READ is {}).
CMODE_READ           == {}
CMODE_WRITE          == "WRITE"
CMODE_RELEASE_FREEZE == "RELEASE_FREEZE"
CMODE_EXPORT_RAM     == "EXPORT_RAM"

Modes == {CMODE_8KGAME, CMODE_16KGAME, CMODE_RAM, CMODE_ULTIMAX}

\* The mode byte for a combination and a bank: mode | (bank << SHIFT).
ModeByte(mode, bank) == mode + bank * 2^CMODE_BANK_SHIFT

\* cart_config_changed_slotmain(mode_phi1, mode_phi2, wflag): the CPU-side
\* (phi2) mode byte selects EXROM/GAME and both ROM banks; the flag word
\* says whether cartridge RAM replaces ROML.
ConfigChanged(mode_phi2, wflag) ==
    [mode       |-> mode_phi2 % 4,
     roml_bank  |-> (mode_phi2 \div 2^CMODE_BANK_SHIFT) % (CMODE_BANK_MASK + 1),
     romh_bank  |-> (mode_phi2 \div 2^CMODE_BANK_SHIFT) % (CMODE_BANK_MASK + 1),
     export_ram |-> CMODE_EXPORT_RAM \in wflag]

\* The freeze line after a configuration change: released by the flag,
\* otherwise left as it was.
FreezeAfter(frozen, wflag) == frozen /\ CMODE_RELEASE_FREEZE \notin wflag

\* cart_romlbank_set_slotmain / cart_romhbank_set_slotmain.
SetRomlBank(cfg, bank) == [cfg EXCEPT !.roml_bank = bank]
SetRomhBank(cfg, bank) == [cfg EXCEPT !.romh_bank = bank]

\* Address decode: whether the CPU sees the cartridge's ROML window at
\* $8000-$9FFF and its ROMH window ($A000 in 16K, $E000 in Ultimax).
RomlVisible(cfg) == cfg.mode \in {CMODE_8KGAME, CMODE_16KGAME, CMODE_ULTIMAX}
RomhVisible(cfg) == cfg.mode \in {CMODE_16KGAME, CMODE_ULTIMAX}

\* The configuration of the slot with no cartridge driving EXROM/GAME.
NoCartConfig == ConfigChanged(CMODE_RAM, CMODE_READ)

ConfigType(maxBank) ==
    [mode : Modes, roml_bank : 0..maxBank, romh_bank : 0..maxBank,
     export_ram : BOOLEAN]
=============================================================================
