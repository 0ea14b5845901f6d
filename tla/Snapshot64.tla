----------------------------- MODULE Snapshot64 -----------------------------
(***************************************************************************)
(* The Snapshot 64 cartridge (src/.../c64/cart/snapshot64.c) composed with *)
(* the main-slot configuration of CartConfig, and its CARTSNAP64 snapshot  *)
(* module as a stream of bytes.                                            *)
(*                                                                         *)
(* State: the static romconfig, the 4K ROM (as one byte), the slot         *)
(* configuration, whether the IO2 source is registered,                    *)
(* the last module written, and whether the last bus access was an IO2     *)
(* read (history for the header comment's claim about reads).  The freeze *)
(* line is not kept: snapshot64_freeze releases it in the same call.       *)
(***************************************************************************)
EXTENDS Naturals, SequencesExt, CartConfig

CONSTANTS
    Images,      \* first byte of the 4K ROM images attach can load
    StoreValues  \* bytes the CPU writes to $DF00 (the value is ignored)

ASSUME Images \subseteq 0..255 /\ StoreValues \subseteq 0..255

VARIABLES romconfig, roml_banks, cfg, attached, snap, io2_was_read

vars == <<romconfig, roml_banks, cfg, attached, snap, io2_was_read>>

\* CARTSNAP64 version 0.0; the ROML array is RomLen bytes long.
SNAP_MINOR == 0
RomLen     == 1

NoSnapshot == [none |-> TRUE]

-----------------------------------------------------------------------------
(* enable_rom(enable, mode): record the setting and map Ultimax or RAM.   *)

\* Mutant: the mapping changed without recording romconfig.
EnableRomUnrecorded(enable, mode) ==
    /\ cfg' = IF enable = 0 THEN ConfigChanged(CMODE_RAM, mode)
                            ELSE ConfigChanged(CMODE_ULTIMAX, mode)
    /\ UNCHANGED romconfig

EnableRom(enable, mode) ==
    /\ romconfig' = enable
    /\ cfg' = IF enable = 0 THEN ConfigChanged(CMODE_RAM, mode)
                            ELSE ConfigChanged(CMODE_ULTIMAX, mode)

\* What the CPU and the monitor see: ROML at $8000 and ROMH at $E000 both
\* read the 4K ROM; the IO2 peek returns romconfig.
BusView ==
    [roml |-> IF RomlVisible(cfg) THEN <<"rom", roml_banks>> ELSE <<"c64">>,
     romh |-> IF RomhVisible(cfg) THEN <<"rom", roml_banks>> ELSE <<"c64">>,
     io2  |-> romconfig]

-----------------------------------------------------------------------------
(* Operations.                                                             *)

\* Mutant: the stored value passed on as the enable argument.
IO2StoreEnablesValue(value) ==
    /\ attached
    /\ EnableRom(value, {CMODE_WRITE})
    /\ io2_was_read' = FALSE
    /\ UNCHANGED <<roml_banks, attached, snap>>

\* snapshot64_io2_store: any write switches the ROM off.
IO2Store(value) ==
    /\ attached
    /\ EnableRom(0, {CMODE_WRITE})
    /\ io2_was_read' = FALSE
    /\ UNCHANGED <<roml_banks, attached, snap>>

\* snapshot64_io2_read returns 0 and changes nothing.
IO2Read ==
    /\ attached
    /\ io2_was_read' = TRUE
    /\ UNCHANGED <<romconfig, roml_banks, cfg, attached, snap>>

\* The freeze button: snapshot64_freeze maps the ROM in Ultimax and
\* releases the freeze line the slot raised.
Freeze ==
    /\ attached
    /\ EnableRom(1, {CMODE_RELEASE_FREEZE})
    /\ io2_was_read' = FALSE
    /\ UNCHANGED <<roml_banks, attached, snap>>

\* Machine reset: snapshot64_config_init switches the ROM off.
Reset ==
    /\ attached
    /\ EnableRom(0, CMODE_READ)
    /\ io2_was_read' = FALSE
    /\ UNCHANGED <<roml_banks, attached, snap>>

\* snapshot64_bin_attach / _crt_attach of an image that passed the chip
\* check, then snapshot64_config_setup.  A refused export_add changes
\* nothing.
Attach ==
    /\ ~attached
    /\ \E img \in Images : roml_banks' = img
    /\ EnableRom(0, CMODE_READ)
    /\ attached' = TRUE
    /\ io2_was_read' = FALSE
    /\ UNCHANGED snap

\* snapshot64_detach; the slot stops driving EXROM/GAME.
Detach ==
    /\ attached
    /\ attached' = FALSE
    /\ cfg' = NoCartConfig
    /\ io2_was_read' = FALSE
    /\ UNCHANGED <<romconfig, roml_banks, snap>>

\* snapshot64_snapshot_write_module: romconfig, then ROML.  The view is
\* history, kept for the round trip.
SnapshotWrite ==
    /\ attached
    /\ snap' = [data |-> <<romconfig, roml_banks>>, cfg |-> cfg, view |-> BusView]
    /\ UNCHANGED <<romconfig, roml_banks, cfg, attached, io2_was_read>>

\* Mutant: the ROM array taken from one byte too early in the stream.
RomFieldOffByOne(stream) == stream[RomLen]

\* Where SMR_BA finds the ROM array: after the romconfig byte.
RomField(stream) == stream[1 + RomLen]

\* snapshot64_snapshot_read_module into a detached cart from the last
\* module written, which the stream may cut short anywhere.  SMR_B reads
\* romconfig, SMR_BA the ROM (one byte here, so a short stream either
\* holds it or leaves it and the mapping as they were).  With both read, the
\* slot's module restores cfg and snapshot64_common_attach registers the
\* cart unless export_add refuses.
SnapshotRead ==
    /\ ~attached
    /\ snap # NoSnapshot
    /\ \E stream \in Prefixes(snap.data) :
         /\ Len(stream) >= 1
         /\ romconfig' = stream[1]
         /\ IF Len(stream) >= 1 + RomLen
            THEN /\ roml_banks' = RomField(stream)
                 /\ cfg' = snap.cfg
                 /\ attached' \in BOOLEAN
            ELSE UNCHANGED <<roml_banks, cfg, attached>>
    /\ UNCHANGED <<snap, io2_was_read>>

-----------------------------------------------------------------------------

Init ==
    /\ romconfig = 0
    /\ roml_banks = 0
    /\ cfg = NoCartConfig
    /\ attached = FALSE
    /\ snap = NoSnapshot
    /\ io2_was_read = FALSE

Next ==
    \/ \E v \in StoreValues : IO2Store(v)
    \/ IO2Read
    \/ Freeze
    \/ Reset
    \/ Attach
    \/ Detach
    \/ SnapshotWrite
    \/ SnapshotRead

Spec == Init /\ [][Next]_vars

-----------------------------------------------------------------------------
(* Properties.                                                             *)

\* romconfig, the byte the IO2 peek and the snapshot show, stays a flag
\* through stores of any value, freezes and snapshot loads.
TypeOK ==
    /\ romconfig \in 0..1
    /\ roml_banks \in 0..255
    /\ cfg \in ConfigType(0)
    /\ attached \in BOOLEAN
    /\ io2_was_read \in BOOLEAN

\* The IO2 peek tells the truth about the mapping: while attached, ROM is
\* mapped (Ultimax) exactly when romconfig is 1 and off (RAM) when it is 0,
\* across stores, freezes, resets and snapshot loads.
RomConfigMatchesMapping ==
    attached => cfg.mode = IF romconfig = 1 THEN CMODE_ULTIMAX ELSE CMODE_RAM

\* Spec section 8, round trip: loading the module written last and
\* attaching gives the ROM reads and IO2 peek the cart showed when saved.
SnapshotRoundTrip ==
    [][(SnapshotRead /\ attached') => BusView' = snap.view]_vars

\* The file's header: "any read access seems to disable the cartridge".
ReadDisablesCart ==
    (attached /\ io2_was_read) => romconfig = 0

=============================================================================
