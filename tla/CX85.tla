-------------------------------- MODULE CX85 --------------------------------
(***************************************************************************)
(* The Atari CX85 keypad joyport device                                    *)
(* (src/vice-emu-code-r44576-trunk-vice/src/joyport/cx85.c).               *)
(*                                                                         *)
(* The keyboard layer reports keypad presses and releases by row and      *)
(* column to the handler registered with keyboard_register_joy_keypad;    *)
(* handle_keys stores them in keys[row * 5 + col].  Enabling the device    *)
(* clears keys and registers handle_keys; disabling unregisters it.  The  *)
(* joyport reads the five KEY lines through cx85_read_dig and the PRESS   *)
(* line through cx85_read_pot.  down is the keypad as the user holds it:  *)
(* events reach handle_keys only while it is registered.                  *)
(***************************************************************************)
EXTENDS Naturals, FiniteSets

CONSTANTS
    JOYPORT_UP_BIT, JOYPORT_DOWN_BIT, JOYPORT_LEFT_BIT,
    JOYPORT_RIGHT_BIT, JOYPORT_FIRE_BIT,   \* joyport.h (not in src/)
    Positions   \* the <<row, col>> pairs the keyboard layer reports

KEYPAD_KEYS_NUM == 20
KeyIndex == 0..(KEYPAD_KEYS_NUM - 1)

KEYPAD_KEY_ESCAPE == 0
KEYPAD_KEY_7      == 1
KEYPAD_KEY_8      == 2
KEYPAD_KEY_9      == 3
KEYPAD_KEY_MINUS  == 4
KEYPAD_KEY_NO     == 5
KEYPAD_KEY_4      == 6
KEYPAD_KEY_5      == 7
KEYPAD_KEY_6      == 8
KEYPAD_KEY_ENTER  == 9
KEYPAD_KEY_DELETE == 10
KEYPAD_KEY_1      == 11
KEYPAD_KEY_2      == 12
KEYPAD_KEY_3      == 13
KEYPAD_KEY_YES    == 15
KEYPAD_KEY_0      == 16
KEYPAD_KEY_DOT    == 18

\* The 17 keys the keypad has.
RealKeys == {0, 1, 2, 3, 4, 5, 6, 7, 8, 9, 10, 11, 12, 13, 15, 16, 18}

VARIABLES
    cx85_enabled,   \* 0 or 1
    registered,     \* handle_keys is the keyboard layer's keypad callback
    keys,           \* keys[0..19]
    down            \* history: the positions the user holds down

vars == <<cx85_enabled, registered, keys, down>>

Index(pos) == pos[1] * 5 + pos[2]

-----------------------------------------------------------------------------
(* cx85_read_dig and cx85_read_pot, as operators of the key array.         *)

\* The OR of keys[k] over a list of keys; the keyboard layer passes
\* pressed as 0 or 1.
AnyOf(ks, S) == IF \E k \in S : ks[k] # 0 THEN 1 ELSE 0

Key3Lines == {KEYPAD_KEY_MINUS, KEYPAD_KEY_ENTER, KEYPAD_KEY_DOT, KEYPAD_KEY_0,
              KEYPAD_KEY_3, KEYPAD_KEY_2, KEYPAD_KEY_1, KEYPAD_KEY_YES,
              KEYPAD_KEY_ESCAPE}
Key2Lines == {KEYPAD_KEY_9, KEYPAD_KEY_8, KEYPAD_KEY_7, KEYPAD_KEY_NO,
              KEYPAD_KEY_MINUS, KEYPAD_KEY_ENTER, KEYPAD_KEY_DOT, KEYPAD_KEY_0,
              KEYPAD_KEY_ESCAPE}

\* Mutant: KEYPAD_KEY_6 missing from the KEY1 OR list.
Key1LinesNo6 == {KEYPAD_KEY_ENTER, KEYPAD_KEY_2, KEYPAD_KEY_8, KEYPAD_KEY_5,
                 KEYPAD_KEY_MINUS, KEYPAD_KEY_3, KEYPAD_KEY_9}

Key1Lines == {KEYPAD_KEY_ENTER, KEYPAD_KEY_2, KEYPAD_KEY_8, KEYPAD_KEY_5,
              KEYPAD_KEY_MINUS, KEYPAD_KEY_3, KEYPAD_KEY_9, KEYPAD_KEY_6}
Key0Lines == {KEYPAD_KEY_DOT, KEYPAD_KEY_1, KEYPAD_KEY_7, KEYPAD_KEY_4,
              KEYPAD_KEY_MINUS, KEYPAD_KEY_3, KEYPAD_KEY_9, KEYPAD_KEY_6}

\* cx85_read_dig: KEY4 (not escape) on fire, KEY3 on right, KEY2 on
\* left, KEY1 on down, KEY0 on up, and the top three bits set.  The bits
\* are distinct, so |= is +.
ReadDig(ks) ==
      (1 - AnyOf(ks, {KEYPAD_KEY_ESCAPE})) * 2^JOYPORT_FIRE_BIT
    + AnyOf(ks, Key3Lines) * 2^JOYPORT_RIGHT_BIT
    + AnyOf(ks, Key2Lines) * 2^JOYPORT_LEFT_BIT
    + AnyOf(ks, Key1Lines) * 2^JOYPORT_DOWN_BIT
    + AnyOf(ks, Key0Lines) * 2^JOYPORT_UP_BIT
    + 224

\* cx85_read_pot: 0xff when any of the 20 entries is set.
ReadPot(ks) == IF \E i \in KeyIndex : ks[i] # 0 THEN 255 ELSE 0

-----------------------------------------------------------------------------
(* Operations.                                                             *)

\* Mutant: the (3,4) hole not ignored.
IsHoleNo34(row, col) == (row = 2 /\ col = 4) \/ (row = 3 /\ col = 2)

\* The positions with no key behind them.
IsHole(row, col) ==
    (row = 2 /\ col = 4) \/ (row = 3 /\ col = 2) \/ (row = 3 /\ col = 4)

\* handle_keys (row, col, pressed)
HandleKeys(row, col, pressed) ==
    keys' = IF IsHole(row, col) THEN keys
            ELSE [keys EXCEPT ![row * 5 + col] = pressed]

\* The user presses or releases a key; the keyboard layer calls the
\* registered keypad handler, if any.
KeyEvent ==
    \E pos \in Positions, pressed \in {0, 1} :
        /\ down' = [down EXCEPT ![Index(pos)] = pressed]
        /\ IF registered THEN HandleKeys(pos[1], pos[2], pressed)
                         ELSE UNCHANGED keys
        /\ UNCHANGED <<cx85_enabled, registered>>

\* Mutant: enabling registers the handler without clearing keys.
SetEnabledNoClear(enabled) ==
    LET new_state == IF enabled # 0 THEN 1 ELSE 0 IN
    /\ new_state # cx85_enabled
    /\ registered' = (new_state = 1)
    /\ UNCHANGED keys
    /\ cx85_enabled' = new_state
    /\ UNCHANGED down

\* Mutant: disabling leaves handle_keys registered.
SetEnabledKeepsHandler(enabled) ==
    LET new_state == IF enabled # 0 THEN 1 ELSE 0 IN
    /\ new_state # cx85_enabled
    /\ IF new_state = 1
       THEN /\ keys' = [i \in KeyIndex |-> 0]
            /\ registered' = TRUE
       ELSE UNCHANGED <<registered, keys>>
    /\ cx85_enabled' = new_state
    /\ UNCHANGED down

\* joyport_cx85_set_enabled (port, enabled): nothing when the state is
\* unchanged; enabling clears keys and registers handle_keys; disabling
\* registers NULL.
SetEnabled(enabled) ==
    LET new_state == IF enabled # 0 THEN 1 ELSE 0 IN
    /\ new_state # cx85_enabled
    /\ IF new_state = 1
       THEN /\ keys' = [i \in KeyIndex |-> 0]
            /\ registered' = TRUE
       ELSE /\ registered' = FALSE
            /\ UNCHANGED keys
    /\ cx85_enabled' = new_state
    /\ UNCHANGED down

-----------------------------------------------------------------------------

Init ==
    /\ cx85_enabled = 0
    /\ registered = FALSE
    /\ keys = [i \in KeyIndex |-> 0]
    /\ down = [i \in KeyIndex |-> 0]

\* The early return for an unchanged state is a step that changes nothing.
Next ==
    \/ KeyEvent
    \/ \E enabled \in {0, 1} : SetEnabled(enabled)

Spec == Init /\ [][Next]_vars

-----------------------------------------------------------------------------
(* Properties.                                                             *)

TypeOK ==
    /\ cx85_enabled \in {0, 1}
    /\ keys \in [KeyIndex -> {0, 1}]
    /\ registered = (cx85_enabled = 1)

\* The truth table in the comment at the top of cx85.c (KEY4..KEY0 of a
\* single pressed key), as the byte read_dig returns.
TableRow(k4, k3, k2, k1, k0) ==
    k4 * 2^JOYPORT_FIRE_BIT + k3 * 2^JOYPORT_RIGHT_BIT + k2 * 2^JOYPORT_LEFT_BIT
    + k1 * 2^JOYPORT_DOWN_BIT + k0 * 2^JOYPORT_UP_BIT + 224

Table ==
    [k \in RealKeys |->
        CASE k = KEYPAD_KEY_0      -> TableRow(1, 1, 1, 0, 0)
          [] k = KEYPAD_KEY_1      -> TableRow(1, 1, 0, 0, 1)
          [] k = KEYPAD_KEY_2      -> TableRow(1, 1, 0, 1, 0)
          [] k = KEYPAD_KEY_3      -> TableRow(1, 1, 0, 1, 1)
          [] k = KEYPAD_KEY_4      -> TableRow(1, 0, 0, 0, 1)
          [] k = KEYPAD_KEY_5      -> TableRow(1, 0, 0, 1, 0)
          [] k = KEYPAD_KEY_6      -> TableRow(1, 0, 0, 1, 1)
          [] k = KEYPAD_KEY_7      -> TableRow(1, 0, 1, 0, 1)
          [] k = KEYPAD_KEY_8      -> TableRow(1, 0, 1, 1, 0)
          [] k = KEYPAD_KEY_9      -> TableRow(1, 0, 1, 1, 1)
          [] k = KEYPAD_KEY_DOT    -> TableRow(1, 1, 1, 0, 1)
          [] k = KEYPAD_KEY_MINUS  -> TableRow(1, 1, 1, 1, 1)
          [] k = KEYPAD_KEY_ENTER  -> TableRow(1, 1, 1, 1, 0)
          [] k = KEYPAD_KEY_ESCAPE -> TableRow(0, 1, 1, 0, 0)
          [] k = KEYPAD_KEY_NO     -> TableRow(1, 0, 1, 0, 0)
          [] k = KEYPAD_KEY_DELETE -> TableRow(1, 0, 0, 0, 0)
          [] k = KEYPAD_KEY_YES    -> TableRow(1, 1, 0, 0, 0)]

OneKey(k) == [i \in KeyIndex |-> IF i = k THEN 1 ELSE 0]

\* With one key held the lines read as the header's table says, with PRESS
\* active; with none held PRESS is inactive.  So every key, Delete
\* included (whose KEY lines match an idle keypad), is told apart, and
\* the keypad state now read agrees with the table when one key is down.
DecodeMatchesTable ==
    /\ \A k \in RealKeys : ReadDig(OneKey(k)) = Table[k] /\ ReadPot(OneKey(k)) = 255
    /\ ReadPot([i \in KeyIndex |-> 0]) = 0
    /\ \A k \in RealKeys : keys = OneKey(k) => ReadDig(keys) = Table[k]

\* While the device is enabled, PRESS is active only when a key the keypad
\* has is held: a key-matrix position with no key behind it never reads
\* as pressed.
NoPhantomPress ==
    cx85_enabled = 1 => (ReadPot(keys) = 255 => \E k \in RealKeys : keys[k] = 1)

\* While the device is enabled, every key that reads as pressed is held
\* down: a key released while the device was disabled (the release never
\* reached handle_keys) does not stay pressed after it is enabled again.
NoStuckKey ==
    cx85_enabled = 1 => \A i \in KeyIndex : keys[i] = 1 => down[i] = 1

=============================================================================
