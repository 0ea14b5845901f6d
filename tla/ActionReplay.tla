---------------------------- MODULE ActionReplay ----------------------------
(***************************************************************************)
(* The Action Replay 4.2/5/6 cartridge (src/.../c64/cart/actionreplay.c)   *)
(* composed with the main-slot configuration of CartConfig.                *)
(*                                                                         *)
(* State: the file's statics ar_active and regvalue, the 8K export_ram0    *)
(* (two representative bytes: offset $0000 and the $1F00 page that IO2     *)
(* also shows), the slot configuration cfg and freeze line that           *)
(* cart_config_changed_slotmain() drives, whether the IO1/IO2 sources are  *)
(* registered, and the last snapshot module written.  ROM contents are     *)
(* fixed after attach, so a ROM byte is named by its bank and offset.      *)
(***************************************************************************)
EXTENDS Integers, Bitwise, Functions, CartConfig

CONSTANTS
    RegValues,   \* bytes the CPU writes to IO1, and that float on the bus
    RamValues,   \* bytes the CPU stores in cartridge RAM
    RamPattern,  \* the power-up contents ram_init_with_pattern produces
    C64RamByte   \* the C64 RAM byte under ROML, seen in bus contention

ASSUME RegValues \subseteq 0..255 /\ RamValues \subseteq 0..255
ASSUME C64RamByte \in 0..255
ASSUME RamPattern \in [{0, \h1F00} -> 0..255]

VARIABLES ar_active, regvalue, export_ram0, cfg, frozen, attached, snap

vars == <<ar_active, regvalue, export_ram0, cfg, frozen, attached, snap>>

\* The RAM offsets the model keeps: $8000 (offset 0) and $9F00/$DF00.
RamOffsets == {0, \h1F00}
RomlAddrs  == {\h8000, \h9F00}
IO2Addr    == \hDF00

NoSnapshot == [none |-> TRUE]

-----------------------------------------------------------------------------
(* Register decode of actionreplay_io1_store.                              *)

\* Mutant: the bank masked with 7 instead of 3, taking bit 5 with it.
ArBankWideMask(value) == BitField(value, 3, 3)

\* bits 3-4: ROM bank (A13/A14)
ArBank(value) == BitField(value, 3, 2)

\* bit 6 releases freeze, bit 5 exports RAM; every store is a write cycle
WFlag(value) ==
    {CMODE_WRITE}
    \cup (IF BitField(value, 6, 1) = 1 THEN {CMODE_RELEASE_FREEZE} ELSE {})
    \cup (IF BitField(value, 5, 1) = 1 THEN {CMODE_EXPORT_RAM} ELSE {})

\* (value & $23) = $22: RAM exported, EXROM high, GAME high
IsMode22(value) == value % 4 = 2 /\ BitField(value, 5, 1) = 1

\* mode $22 (RAM exported, EXROM high, GAME high) is mapped as 8K game
ModePhi2(value) ==
    IF IsMode22(value)
    THEN ModeByte(CMODE_8KGAME, ArBank(value))
    ELSE ModeByte(value % 4, ArBank(value))

\* Mutant: "ar_active = value & 4", an assignment of the masked bit in
\* place of the test that clears the flag.
StoreRawDisableBit(value) ==
    /\ regvalue' = value
    /\ ar_active' = BitField(value, 2, 1) * 4
    /\ cfg' = ConfigChanged(ModePhi2(value), WFlag(value))
    /\ frozen' = FreezeAfter(frozen, WFlag(value))

\* The effect of actionreplay_io1_store on an active cartridge.
Store(value) ==
    /\ regvalue' = value
    /\ ar_active' = IF BitField(value, 2, 1) = 1 THEN 0 ELSE ar_active
    /\ cfg' = ConfigChanged(ModePhi2(value), WFlag(value))
    /\ frozen' = FreezeAfter(frozen, WFlag(value))

-----------------------------------------------------------------------------
(* What the CPU and the monitor see.                                       *)

RomByte(bank, addr) == <<"rom", bank, addr % \h2000>>
RamByte(off)        == <<"ram", export_ram0[off], off>>

\* actionreplay_roml_read
RomlRead(addr) ==
    IF IsMode22(regvalue)
    THEN <<"contention", C64RamByte | export_ram0[addr % \h2000], addr % \h2000>>
    ELSE IF cfg.export_ram
         THEN RamByte(addr % \h2000)
         ELSE RomByte(cfg.roml_bank, addr)

\* Mutant: the RAM index without the $1F00 page.
IO2PeekNoPage ==
    IF ar_active = 0 THEN <<"zero">>
    ELSE IF cfg.export_ram THEN RamByte(IO2Addr % \h100)
    ELSE IF cfg.roml_bank \in 0..3 THEN RomByte(cfg.roml_bank, IO2Addr)
    ELSE <<"zero">>

\* actionreplay_io2_peek (actionreplay_io2_read returns the same byte)
IO2Peek ==
    IF ar_active = 0 THEN <<"zero">>
    ELSE IF cfg.export_ram THEN RamByte(\h1F00 + (IO2Addr % \h100))
    ELSE IF cfg.roml_bank \in 0..3 THEN RomByte(cfg.roml_bank, IO2Addr)
    ELSE <<"zero">>

\* Everything a program or the monitor can observe of an attached cart.
BusView ==
    [roml |-> [a \in RomlAddrs |->
                 IF RomlVisible(cfg) THEN RomlRead(a) ELSE <<"c64">>],
     romh |-> IF RomhVisible(cfg) THEN <<"romh", cfg.romh_bank>> ELSE <<"c64">>,
     io1  |-> regvalue,
     io2  |-> IO2Peek]

\* actionreplay_dump, the monitor's "io" report: the lines are decoded
\* from regvalue, except the two memory regions, which follow export_ram.
actionreplay_dump ==
    [exrom  |-> IF BitField(regvalue, 1, 1) = 1 THEN "high" ELSE "low",
     game   |-> IF BitField(regvalue, 0, 1) = 1 THEN "low" ELSE "high",
     mode   |-> regvalue % 4,
     bank   |-> BitField(regvalue, 3, 2),
     state  |-> IF BitField(regvalue, 2, 1) = 1 THEN "disabled" ELSE "enabled",
     freeze |-> BitField(regvalue, 6, 1) = 1,
     roml   |-> IF cfg.export_ram THEN "RAM" ELSE "ROM",
     romh   |-> "ROM",
     io2    |-> IF cfg.export_ram THEN "RAM" ELSE "ROM"]

-----------------------------------------------------------------------------
(* Operations.                                                             *)

\* actionreplay_io1_store: ignored while the cart is disabled.
IO1Store(value) ==
    /\ attached
    /\ ar_active # 0
    /\ Store(value)
    /\ UNCHANGED <<export_ram0, attached, snap>>

\* actionreplay_io1_read: R/W is not decoded, so a read of an active cart
\* stores whatever byte VIC-II left floating on the bus.
IO1Read(bus) ==
    /\ attached
    /\ ar_active # 0
    /\ Store(bus)
    /\ UNCHANGED <<export_ram0, attached, snap>>

\* actionreplay_io2_store: writes the $1F00 page of cart RAM when exported.
IO2Store(value) ==
    /\ attached
    /\ ar_active # 0
    /\ cfg.export_ram
    /\ export_ram0' = [export_ram0 EXCEPT ![\h1F00 + (IO2Addr % \h100)] = value]
    /\ UNCHANGED <<ar_active, regvalue, cfg, frozen, attached, snap>>

\* actionreplay_roml_store, reached while ROML is decoded.
RomlStore(addr, value) ==
    /\ attached
    /\ RomlVisible(cfg)
    /\ cfg.export_ram
    /\ export_ram0' = [export_ram0 EXCEPT ![addr % \h2000] = value]
    /\ UNCHANGED <<ar_active, regvalue, cfg, frozen, attached, snap>>

\* The freeze button: the slot raises the freeze line, then
\* actionreplay_freeze re-enables the cart in Ultimax with RAM exported.
Freeze ==
    /\ attached
    /\ ar_active' = 1
    /\ cfg' = ConfigChanged(ModeByte(CMODE_ULTIMAX, 0), {CMODE_EXPORT_RAM})
    /\ frozen' = FreezeAfter(TRUE, {CMODE_EXPORT_RAM})
    /\ UNCHANGED <<regvalue, export_ram0, attached, snap>>

\* Machine reset: actionreplay_reset, then actionreplay_config_init; the
\* slot drops the freeze line.
Reset ==
    /\ attached
    /\ ar_active' = 1
    /\ regvalue' = 0
    /\ cfg' = ConfigChanged(ModeByte(CMODE_8KGAME, 0), CMODE_READ)
    /\ frozen' = FALSE
    /\ UNCHANGED <<export_ram0, attached, snap>>

\* actionreplay_powerup: the RAM gets the power-up pattern of ram.c.
Powerup ==
    /\ attached
    /\ export_ram0' = RamPattern
    /\ UNCHANGED <<ar_active, regvalue, cfg, frozen, attached, snap>>

\* actionreplay_bin_attach / _crt_attach succeeding (common_attach
\* registers IO1 and IO2), then actionreplay_config_setup.
Attach ==
    /\ ~attached
    /\ attached' = TRUE
    /\ cfg' = ConfigChanged(ModeByte(CMODE_8KGAME, 0), CMODE_READ)
    /\ UNCHANGED <<ar_active, regvalue, export_ram0, frozen, snap>>

\* actionreplay_detach: unregister both sources; the slot stops driving
\* EXROM/GAME.
Detach ==
    /\ attached
    /\ attached' = FALSE
    /\ cfg' = NoCartConfig
    /\ frozen' = FALSE
    /\ UNCHANGED <<ar_active, regvalue, export_ram0, snap>>

\* actionreplay_snapshot_write_module, with the slot's own module saving
\* cfg.  The view is kept beside it as history, for the round trip.
SnapshotWrite ==
    /\ attached
    /\ snap' = [active |-> ar_active, ram |-> export_ram0, cfg |-> cfg,
                view |-> BusView]
    /\ UNCHANGED <<ar_active, regvalue, export_ram0, cfg, frozen, attached>>

\* actionreplay_snapshot_read_module into a detached cart: every field
\* read, the slot's module restores cfg, and actionreplay_common_attach
\* re-registers the sources unless export_add refuses the slot.
SnapshotReadOk ==
    /\ ~attached
    /\ snap # NoSnapshot
    /\ ar_active' = snap.active
    /\ export_ram0' = snap.ram
    /\ cfg' = snap.cfg
    /\ attached' \in BOOLEAN
    /\ UNCHANGED <<regvalue, frozen, snap>>

\* The read failing: a newer version, or a stream truncated inside field
\* k (1 active, 2 ROML, 3 ROMH, 4 RAM).  Fields read before the failure
\* stay written; a RAM array cut short is part old, part new.
SnapshotReadFail ==
    /\ ~attached
    /\ snap # NoSnapshot
    /\ \E k \in 0..4 :
         /\ ar_active' = IF k >= 2 THEN snap.active ELSE ar_active
         /\ IF k = 4
            THEN \E cut \in SUBSET RamOffsets :
                   export_ram0' = [o \in RamOffsets |->
                                     IF o \in cut THEN snap.ram[o] ELSE export_ram0[o]]
            ELSE UNCHANGED export_ram0
    /\ UNCHANGED <<regvalue, cfg, frozen, attached, snap>>

-----------------------------------------------------------------------------

Init ==
    /\ ar_active = 0
    /\ regvalue = 0
    /\ export_ram0 = [o \in RamOffsets |-> 0]
    /\ cfg = NoCartConfig
    /\ frozen = FALSE
    /\ attached = FALSE
    /\ snap = NoSnapshot

Next ==
    \/ \E v \in RegValues : IO1Store(v)
    \/ \E v \in RegValues : IO1Read(v)
    \/ \E v \in RamValues : IO2Store(v)
    \/ \E a \in RomlAddrs, v \in RamValues : RomlStore(a, v)
    \/ Freeze
    \/ Reset
    \/ Powerup
    \/ Attach
    \/ Detach
    \/ SnapshotWrite
    \/ SnapshotReadOk
    \/ SnapshotReadFail

Spec == Init /\ [][Next]_vars

-----------------------------------------------------------------------------
(* Properties.                                                             *)

TypeOK ==
    /\ ar_active \in 0..1
    /\ regvalue \in 0..255
    /\ export_ram0 \in [RamOffsets -> RamValues \cup {0} \cup Range(RamPattern)]
    /\ cfg \in ConfigType(CMODE_BANK_MASK)
    /\ frozen \in BOOLEAN
    /\ attached \in BOOLEAN

\* Bank masking: however the register was written, read back from the bus
\* or restored, every ROM offset that actionreplay_roml_read and
\* actionreplay_io2_read compute lies inside the 32K ROM image.
RomOffsetsInRange ==
    attached =>
        \A a \in RomlAddrs \cup {IO2Addr} :
            (a % \h2000) + cfg.roml_bank * \h2000 < \h8000

\* The $DF00 page (IO2) and $9F00 in ROML are one page of cartridge RAM:
\* while RAM is exported and the cart is not in mode $22, a byte stored
\* through either window reads back through the other.
RamWindowsAlias ==
    (attached /\ ar_active # 0 /\ cfg.export_ram /\ RomlVisible(cfg)
       /\ ~IsMode22(regvalue))
    => IO2Peek = RomlRead(\h9F00)

\* Spec section 8: freezing from 8K game bank 2 yields Ultimax with RAM
\* exported, bank unchanged.  actionreplay_freeze passes bank 0.
FreezeKeepsBank ==
    [][Freeze => cfg'.roml_bank = cfg.roml_bank]_vars

\* Spec section 8, round trip: a snapshot written and read back gives the
\* same bus-visible behaviour (ROML/ROMH reads, IO1 and IO2 peeks).
SnapshotRoundTrip ==
    [][SnapshotReadOk => BusView' = snap.view]_vars

\* The monitor's dump reports the cart's real state: it says "disabled"
\* only while ar_active keeps IO1/IO2 silent, and while ROM is mapped its
\* "ROM bank" is the bank ROML reads come from.  actionreplay_dump
\* decodes both from regvalue, which actionreplay_freeze and a snapshot
\* load leave alone.
DumpMatchesCart ==
    attached =>
        /\ actionreplay_dump.state = "disabled" => ar_active = 0
        /\ ~cfg.export_ram => actionreplay_dump.bank = cfg.roml_bank

\* The bus contention that actionreplay_roml_read emulates for register
\* value $22 happens only while the slot is in the configuration that
\* value selects (8K game with cart RAM exported).
ContentionOnlyInMode22 ==
    (attached /\ RomlVisible(cfg) /\ IsMode22(regvalue))
    => (cfg.mode = CMODE_8KGAME /\ cfg.export_ram)
=============================================================================
