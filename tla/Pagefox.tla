------------------------------- MODULE Pagefox -------------------------------
(***************************************************************************)
(* The Pagefox cartridge (src/.../c64/cart/pagefox.c) composed with the    *)
(* main-slot configuration of CartConfig.                                  *)
(*                                                                         *)
(* State: the statics pagefox_enabled, currbank, chipselect, bankselect,   *)
(* the pagefox_ram pointer ("null", "live", or "dangling" once freed       *)
(* without being cleared) and its contents (one byte per 8K block: ROML   *)
(* and ROMH half of each of the two 16K RAM banks), whether a live block   *)
(* was ever lost by overwriting the pointer, the slot configuration,      *)
(* whether the IO1 source is registered, and the last snapshot written.    *)
(***************************************************************************)
EXTENDS Integers, Functions, CartConfig

CONSTANTS
    RegValues,   \* bytes the CPU writes to $DE80
    RamValues,   \* bytes the CPU stores in cartridge RAM
    RamPattern   \* the power-up contents ram_init_with_pattern produces

ASSUME RegValues \subseteq 0..255 /\ RamValues \subseteq 0..255
ASSUME RamPattern \in [{0, \h2000, \h4000, \h6000} -> 0..255]

VARIABLES pagefox_enabled, currbank, chipselect, bankselect,
          pagefox_ram, ram, leaked, cfg, attached, snap

vars == <<pagefox_enabled, currbank, chipselect, bankselect,
          pagefox_ram, ram, leaked, cfg, attached, snap>>

PAGEFOX_RAMSIZE == 32 * 1024

\* ROML is decoded at $8000-$9FFF, ROMH at $A000-$BFFF (16K game mode).
RomlAddrs == {\h8000, \h9FFF}
RomhAddrs == {\hA000, \hBFFF}

\* Mutant: the address masked with $3FFF instead of $1FFF.
RamOffsetWideMask(base, addr) == base + (addr % \h4000) + bankselect * 2^14

\* The offset pagefox_roml_read/_store (base 0) and pagefox_romh_read/
\* _store (base $2000) compute into pagefox_ram.
RamOffset(base, addr) == base + (addr % \h2000) + bankselect * 2^14

\* The RAM is kept as one byte per 8K block, named by its first offset.
RamBlocks == {0, \h2000, \h4000, \h6000}
Block(base) == RamOffset(base, \h8000)

NoSnapshot == [none |-> TRUE]

\* Snapshot module versions (major 0), as the minor number.
SNAP_MINOR == 1
Minors == {0, 1, 2}

-----------------------------------------------------------------------------
(* pagefox_io1_store: decode the register and remap the slot.             *)

\* Mutant: chipselect shifted by two instead of one into currbank.
StoreWideShift(value) ==
    LET bs == BitField(value, 1, 1)
        cs == BitField(value, 2, 2)
        en == 1 - BitField(value, 4, 1)
        cb == cs * 4 + bs
        base == IF en = 1 THEN ConfigChanged(CMODE_16KGAME, CMODE_READ)
                          ELSE ConfigChanged(CMODE_RAM, CMODE_READ)
    IN /\ bankselect' = bs
       /\ chipselect' = cs
       /\ pagefox_enabled' = en
       /\ currbank' = cb
       /\ cfg' = SetRomlBank(SetRomhBank(base, cb % 4), cb % 4)

Store(value) ==
    LET bs == BitField(value, 1, 1)
        cs == BitField(value, 2, 2)
        en == 1 - BitField(value, 4, 1)
        cb == cs * 2 + bs
        base == IF en = 1 THEN ConfigChanged(CMODE_16KGAME, CMODE_READ)
                          ELSE ConfigChanged(CMODE_RAM, CMODE_READ)
    IN /\ bankselect' = bs
       /\ chipselect' = cs
       /\ pagefox_enabled' = en
       /\ currbank' = cb
       /\ cfg' = SetRomlBank(SetRomhBank(base, cb % 4), cb % 4)

-----------------------------------------------------------------------------
(* What the CPU and the monitor see.                                       *)

\* pagefox_roml_read / pagefox_romh_read
RomlRead == IF chipselect = 2 THEN <<"ram", ram[Block(0)]>>
                              ELSE <<"rom", "L", cfg.roml_bank>>
RomhRead == IF chipselect = 2 THEN <<"ram", ram[Block(\h2000)]>>
                              ELSE <<"rom", "H", cfg.romh_bank>>

\* pagefox_io1_peek
Peek == bankselect * 2 + chipselect * 4 + (1 - pagefox_enabled) * 16

BusView ==
    [roml |-> IF RomlVisible(cfg) THEN RomlRead ELSE <<"c64">>,
     romh |-> IF RomhVisible(cfg) THEN RomhRead ELSE <<"c64">>,
     io1  |-> Peek]

-----------------------------------------------------------------------------
(* Operations.                                                             *)

IO1Store(value) ==
    /\ attached
    /\ Store(value)
    /\ UNCHANGED <<pagefox_ram, ram, leaked, attached, snap>>

\* pagefox_roml_store / pagefox_romh_store, reached while the window is
\* decoded; only the RAM chip takes the write.
RamStore(base, value) ==
    /\ attached
    /\ IF base = 0 THEN RomlVisible(cfg) ELSE RomhVisible(cfg)
    /\ chipselect = 2
    /\ ram' = [ram EXCEPT ![Block(base)] = value]
    /\ UNCHANGED <<pagefox_enabled, currbank, chipselect, bankselect,
                   pagefox_ram, leaked, cfg, attached, snap>>

\* pagefox_powerup: fill the RAM with the power-up pattern, if allocated.
Powerup ==
    /\ attached
    /\ pagefox_ram = "live"
    /\ ram' = RamPattern
    /\ UNCHANGED <<pagefox_enabled, currbank, chipselect, bankselect,
                   pagefox_ram, leaked, cfg, attached, snap>>

\* Machine reset: pagefox_config_init stores $00.
Reset ==
    /\ attached
    /\ Store(0)
    /\ UNCHANGED <<pagefox_ram, ram, leaked, attached, snap>>

\* pagefox_bin_attach / pagefox_crt_attach after the image loaded: allocate
\* the RAM if there is none, then pagefox_common_attach, whose export_add
\* may refuse the slot.  On success the slot calls pagefox_config_setup.
Attach ==
    /\ ~attached
    /\ pagefox_ram' = IF pagefox_ram = "null" THEN "live" ELSE pagefox_ram
    /\ \/ /\ attached' = TRUE
          /\ Store(0)
       \/ /\ UNCHANGED <<attached, pagefox_enabled, currbank, chipselect,
                         bankselect, cfg>>
    /\ UNCHANGED <<ram, leaked, snap>>

\* Mutant: lib_free without clearing pagefox_ram.
DetachNoClear ==
    /\ attached
    /\ attached' = FALSE
    /\ pagefox_ram' = "dangling"
    /\ cfg' = NoCartConfig
    /\ UNCHANGED <<pagefox_enabled, currbank, chipselect, bankselect,
                   ram, leaked, snap>>

\* pagefox_detach: free the RAM and clear the pointer.
Detach ==
    /\ attached
    /\ attached' = FALSE
    /\ pagefox_ram' = "null"
    /\ cfg' = NoCartConfig
    /\ UNCHANGED <<pagefox_enabled, currbank, chipselect, bankselect,
                   ram, leaked, snap>>

\* pagefox_snapshot_write_module (version 0.1), with the slot's module
\* saving cfg; the view is history for the round trip.
SnapshotWrite ==
    /\ attached
    /\ snap' = [enabled |-> pagefox_enabled, currbank |-> currbank,
                ram |-> ram, cfg |-> cfg, view |-> BusView]
    /\ UNCHANGED <<pagefox_enabled, currbank, chipselect, bankselect,
                   pagefox_ram, ram, leaked, cfg, attached>>

\* pagefox_snapshot_read_module into a detached cart, from a stream of
\* version 0.minor.  A newer version, or a stream cut inside the enabled
\* byte, fails before anything is written (a step the model leaves to
\* stuttering).  Otherwise the enabled byte is read (0.1 on; older streams
\* default it to 0) and pagefox_ram is malloc'ed over whatever it held.
ReadEnabledAndAlloc(minor) ==
    /\ ~attached
    /\ snap # NoSnapshot
    /\ minor <= SNAP_MINOR
    /\ pagefox_enabled' = IF minor >= 1 THEN snap.enabled ELSE 0
    /\ leaked' = (leaked \/ pagefox_ram = "live")

\* The stream ends inside currbank, RAM, ROML or ROMH: the RAM is freed
\* and the pointer cleared; currbank keeps the byte if it was read.
SnapshotReadFailed(minor, failAt) ==
    /\ ReadEnabledAndAlloc(minor)
    /\ currbank' = IF failAt = "currbank" THEN currbank ELSE snap.currbank
    /\ pagefox_ram' = "null"
    /\ UNCHANGED <<chipselect, bankselect, ram, cfg, attached, snap>>

\* Every field read: the slot's module restores cfg, and
\* pagefox_common_attach registers the cart unless export_add refuses.
SnapshotReadOk(minor) ==
    /\ ReadEnabledAndAlloc(minor)
    /\ currbank' = snap.currbank
    /\ ram' = snap.ram
    /\ cfg' = snap.cfg
    /\ pagefox_ram' = "live"
    /\ attached' \in BOOLEAN
    /\ UNCHANGED <<chipselect, bankselect, snap>>

-----------------------------------------------------------------------------

Init ==
    /\ pagefox_enabled = 0
    /\ currbank = 0
    /\ chipselect = 0
    /\ bankselect = 0
    /\ pagefox_ram = "null"
    /\ ram = [b \in RamBlocks |-> 0]
    /\ leaked = FALSE
    /\ cfg = NoCartConfig
    /\ attached = FALSE
    /\ snap = NoSnapshot

Next ==
    \/ \E v \in RegValues : IO1Store(v)
    \/ \E base \in {0, \h2000}, v \in RamValues : RamStore(base, v)
    \/ Powerup
    \/ Reset
    \/ Attach
    \/ Detach
    \/ SnapshotWrite
    \/ \E minor \in Minors, failAt \in {"currbank", "ram", "roml", "romh"} :
           SnapshotReadFailed(minor, failAt)
    \/ \E minor \in Minors : SnapshotReadOk(minor)

Spec == Init /\ [][Next]_vars

-----------------------------------------------------------------------------
(* Properties.                                                             *)

TypeOK ==
    /\ pagefox_enabled \in 0..1
    /\ currbank \in 0..7
    /\ chipselect \in 0..3
    /\ bankselect \in 0..1
    /\ pagefox_ram \in {"null", "live", "dangling"}
    /\ ram \in [RamBlocks -> RamValues \cup {0} \cup Range(RamPattern)]
    /\ leaked \in BOOLEAN
    /\ cfg \in ConfigType(3)
    /\ attached \in BOOLEAN

\* Every ROML/ROMH access of an attached cart that selects the RAM chip
\* lands inside the 32K pagefox_ram, for every register value written.
RamInBounds ==
    (attached /\ chipselect = 2) =>
        /\ \A a \in RomlAddrs : RamOffset(0, a) < PAGEFOX_RAMSIZE
        /\ \A a \in RomhAddrs : RamOffset(\h2000, a) < PAGEFOX_RAMSIZE

\* While the cart is attached (its ROML/ROMH handlers can run), pagefox_ram
\* points to live memory, across any sequence of attach, detach and
\* snapshot loads, including failed ones.
RamBackedWhileAttached ==
    attached => pagefox_ram = "live"

\* Spec 4.4: a failed attach (or snapshot attach) leaves nothing behind:
\* no RAM stays allocated for a cart that is not attached, and no block
\* is ever lost by a later allocation.
AtomicAttach ==
    /\ ~attached => pagefox_ram = "null"
    /\ ~leaked

\* Spec section 8, round trip: a snapshot written and read back gives the
\* same ROML/ROMH reads and the same $DE80 peek.
SnapshotRoundTrip ==
    [][(SnapshotReadOk(SNAP_MINOR) /\ attached') => BusView' = snap.view]_vars

\* The file's header: chip select 11 is empty space, and reading it
\* returns VIC data rather than a ROM or RAM byte.
EmptyChipReadsOpenBus ==
    (attached /\ RomlVisible(cfg) /\ chipselect = 3) => RomlRead = <<"vic">>
=============================================================================
