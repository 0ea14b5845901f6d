--------------------------- MODULE TurtleGraphics ---------------------------
(***************************************************************************)
(* The Turtle Graphics II cartridge (src/.../c64/cart/turtlegraphics.c)    *)
(* composed with the main-slot configuration of CartConfig, and its        *)
(* CARTSTB snapshot module as a stream of bytes.                           *)
(*                                                                         *)
(* State: the static turtlegraphics_bank, the 16K roml_banks (one byte per *)
(* 8K bank), the slot configuration, whether the IO1 source is registered, *)
(* the last module written, and what the last snapshot load did.          *)
(*                                                                         *)
(* A snapshot module is a record: its version minor, its bytes in field    *)
(* order, and the slot configuration the cartridge system's own module     *)
(* saved beside it.  The ROML array is RomLen bytes long.                  *)
(***************************************************************************)
EXTENDS Naturals, SequencesExt, CartConfig

CONSTANTS
    Images,      \* ROM images attach can load: [0..1 -> bytes], one byte per bank
    OldModules   \* modules on disk written by earlier versions of the writer

Banks  == 0..1
RomLen == 2

ASSUME Images \subseteq [Banks -> 0..255]

VARIABLES turtlegraphics_bank, roml_banks, cfg, attached, snap, last_load

vars == <<turtlegraphics_bank, roml_banks, cfg, attached, snap, last_load>>

\* CARTSTB version 0.1
SNAP_MINOR == 1

NoSnapshot == [none |-> TRUE]
NoLoad == [minor |-> SNAP_MINOR, complete |-> FALSE, ok |-> FALSE]

\* The bytes of roml_banks in the order SMW_BA writes them.
RomBytes(rom) == [i \in 1..RomLen |-> rom[i - 1]]

\* The bytes turtlegraphics_snapshot_write_module writes: bank, then ROML.
Written(bank, rom) == <<bank>> \o RomBytes(rom)

-----------------------------------------------------------------------------
(* What the CPU and the monitor see: ROML in 8K game mode (the cart has no *)
(* ROMH), and the IO1 peek that always returns 0.                          *)

BusView ==
    [roml |-> IF RomlVisible(cfg)
              THEN <<"rom", cfg.roml_bank, roml_banks[cfg.roml_bank % 2]>>
              ELSE <<"c64">>,
     io1  |-> 0]

-----------------------------------------------------------------------------
(* Operations.                                                             *)

\* Mutant: the bank variable given the mode byte's bank field (1 << SHIFT).
SwitchToBank1Shifted ==
    /\ turtlegraphics_bank' = 1 * 2^CMODE_BANK_SHIFT
    /\ cfg' = ConfigChanged(ModeByte(CMODE_8KGAME, 1), CMODE_READ)

\* turtlegraphics_io1_store and turtlegraphics_io1_read both switch to bank 1.
SwitchToBank1 ==
    /\ turtlegraphics_bank' = 1
    /\ cfg' = ConfigChanged(ModeByte(CMODE_8KGAME, 1), CMODE_READ)

IO1Store ==
    /\ attached
    /\ SwitchToBank1
    /\ UNCHANGED <<roml_banks, attached, snap, last_load>>

\* The read is never valid, and still switches the bank.
IO1Read ==
    /\ attached
    /\ SwitchToBank1
    /\ UNCHANGED <<roml_banks, attached, snap, last_load>>

\* Mutant: config_init without "turtlegraphics_bank = 0".
ResetKeepsBank ==
    /\ attached
    /\ cfg' = ConfigChanged(ModeByte(CMODE_8KGAME, 0), CMODE_READ)
    /\ UNCHANGED <<turtlegraphics_bank, roml_banks, attached, snap, last_load>>

\* Machine reset: turtlegraphics_config_init maps 8K game bank 0.
Reset ==
    /\ attached
    /\ cfg' = ConfigChanged(ModeByte(CMODE_8KGAME, 0), CMODE_READ)
    /\ turtlegraphics_bank' = 0
    /\ UNCHANGED <<roml_banks, attached, snap, last_load>>

\* turtlegraphics_bin_attach / _crt_attach of an image whose chips passed
\* the header checks, then turtlegraphics_config_setup copying both banks
\* and mapping bank 0.  A refused export_add changes nothing.
Attach ==
    /\ ~attached
    /\ \E img \in Images :
         /\ roml_banks' = img
         /\ cfg' = ConfigChanged(ModeByte(CMODE_8KGAME, 0), CMODE_READ)
         /\ turtlegraphics_bank' = 0
         /\ attached' = TRUE
    /\ UNCHANGED <<snap, last_load>>

\* turtlegraphics_detach
Detach ==
    /\ attached
    /\ attached' = FALSE
    /\ cfg' = NoCartConfig
    /\ UNCHANGED <<turtlegraphics_bank, roml_banks, snap, last_load>>

\* turtlegraphics_snapshot_write_module: the bank byte, then ROML.  The
\* view is history, kept for the round trip.
SnapshotWrite ==
    /\ attached
    /\ snap' = [minor |-> SNAP_MINOR, data |-> Written(turtlegraphics_bank, roml_banks),
                cfg |-> cfg, view |-> BusView]
    /\ UNCHANGED <<turtlegraphics_bank, roml_banks, cfg, attached, last_load>>

\* The modules a load may meet: the last one written or one of an
\* earlier version; the stream may end anywhere inside it.
Modules == (IF snap = NoSnapshot THEN {} ELSE {snap}) \cup OldModules

\* Mutant: the ROML array refused unless more than its length is left.
RomlReadableStrict(rest) == Len(rest) > RomLen

\* SMR_BA(m, roml_banks, 0x4000) succeeds when the rest holds the array.
RomlReadable(rest) == Len(rest) >= RomLen

\* Mutant: the two 8K banks taken from the stream in reverse order.
RestoreRomSwapped(rest) == [b \in Banks |-> rest[RomLen - b]]

\* The ROML bytes SMR_BA stores into roml_banks.
RestoreRom(rest) == [b \in Banks |-> rest[b + 1]]

\* turtlegraphics_snapshot_read_module into a detached cart, from a module
\* of a version the reader accepts (a newer one fails before any read, a
\* step left to stuttering).  SMR_B_INT reads the bank byte whatever the
\* version; SMR_BA then reads ROML.  Whether a short array overwrites the
\* bytes the stream still has is up to snapshot.c, outside these sources,
\* so the model allows both.  On success the slot's module restores
\* cfg and turtlegraphics_common_attach registers the cart unless
\* export_add refuses.
SnapshotRead ==
    /\ ~attached
    /\ \E m \in Modules : \E stream \in Prefixes(m.data) :
         /\ m.minor <= SNAP_MINOR
         /\ Len(stream) >= 1
         /\ turtlegraphics_bank' = Head(stream)
         /\ LET rest == Tail(stream)
                ok   == RomlReadable(rest)
                full == stream = m.data
            IN /\ IF ok
                  THEN /\ roml_banks' = RestoreRom(rest)
                       /\ cfg' = m.cfg
                       /\ attached' \in BOOLEAN
                  ELSE /\ roml_banks' \in
                              {roml_banks,
                               [b \in Banks |-> IF b + 1 <= Len(rest) THEN rest[b + 1]
                                                ELSE roml_banks[b]]}
                       /\ UNCHANGED <<cfg, attached>>
               /\ last_load' = [minor |-> m.minor, complete |-> full, ok |-> ok]
    /\ UNCHANGED snap

-----------------------------------------------------------------------------

Init ==
    /\ turtlegraphics_bank = 0
    /\ roml_banks = [b \in Banks |-> 0]
    /\ cfg = NoCartConfig
    /\ attached = FALSE
    /\ snap = NoSnapshot
    /\ last_load = NoLoad

Next ==
    \/ IO1Store
    \/ IO1Read
    \/ Reset
    \/ Attach
    \/ Detach
    \/ SnapshotWrite
    \/ SnapshotRead

Spec == Init /\ [][Next]_vars

-----------------------------------------------------------------------------
(* Properties.                                                             *)

\* The bank byte is one of the two 8K banks: io1 accesses, resets and
\* snapshot loads never leave turtlegraphics_bank outside 0..1.
TypeOK ==
    /\ turtlegraphics_bank \in Banks
    /\ roml_banks \in [Banks -> 0..255]
    /\ cfg \in ConfigType(CMODE_BANK_MASK)
    /\ attached \in BOOLEAN
    /\ last_load \in [minor : 0..SNAP_MINOR, complete : BOOLEAN, ok : BOOLEAN]

\* The bank turtlegraphics_dump reports is the bank the slot maps: after
\* any sequence of io1 accesses, resets, attaches and snapshot loads, an
\* attached cart shows 8K game mode with ROML bank turtlegraphics_bank.
BankMatchesConfig ==
    attached => /\ cfg.mode = CMODE_8KGAME
                /\ cfg.roml_bank = turtlegraphics_bank

\* Spec 4.5: a whole module of a version the reader accepts loads; older
\* modules lack the fields added later and the reader defaults them.
CompleteModulesLoad ==
    last_load.complete => last_load.ok

\* Spec section 8, round trip: loading the whole module written last and
\* attaching gives the ROML reads and IO1 peek the cart showed when saved.
SnapshotRoundTrip ==
    [][(SnapshotRead /\ attached'
        /\ last_load'.complete /\ last_load'.minor = SNAP_MINOR)
       => BusView' = snap.view]_vars

=============================================================================
