------------------------------ MODULE Keyboard ------------------------------
(***************************************************************************)
(* intr_keyboard_handler of device/keyboard.c: the scancodes of a keyboard *)
(* come in one byte per interrupt, and the handler keeps which modifiers   *)
(* are held in five static variables.  A character is the pair of the row  *)
(* and the column of keymap it is taken from.                              *)
(*                                                                         *)
(* The person at the keyboard presses, holds and releases keys in any      *)
(* order.  Every byte carries, for the properties only, what the key press *)
(* it ends was meant to type.                                              *)
(***************************************************************************)
EXTENDS Naturals, Sequences, SequencesExt

CONSTANTS
  Keys,      \* the make codes of the keyboard's keys
  Repeats,   \* the keys that repeat their make code while held
  bufsize,   \* of kbd_buf
  MaxWire    \* bound: bytes the keyboard controller keeps

(* Seven bits, with the prefix or without it; the break code of 0x60 would  *)
(* be the prefix.                                                          *)
KeyCodes == (1 .. \h7f \cup \he001 .. \he07f) \ {\h60, \he060}

ASSUME KeyboardAssumption ==
  /\ Keys \subseteq KeyCodes /\ Repeats \subseteq Keys
  /\ bufsize \in Nat \ {0} /\ MaxWire \in Nat

VARIABLES
  ctrl_status, shift_status, alt_status, caps_lock_status, ext_scancode,
  kbd_buf,   \* the characters not yet read
  pressed,   \* the keys held down
  caps,      \* the person has switched caps lock on
  wire       \* the bytes the handler has not seen

hvars == <<ctrl_status, shift_status, alt_status, caps_lock_status, ext_scancode>>
kvars  == <<hvars, kbd_buf, pressed, caps, wire>>

shift_l_make == \h2a
shift_r_make == \h36
alt_l_make   == \h38
alt_r_make   == \he038
ctrl_l_make  == \h1d
ctrl_r_make  == \he01d
caps_lock_make == \h3a

Shifts == {shift_l_make, shift_r_make}
Alts   == {alt_l_make, alt_r_make}
Ctrls  == {ctrl_l_make, ctrl_r_make}

Low(code)     == code % \h100
IsBreak(code) == Low(code) >= \h80

(* The character of keymap[index][shift].  Rows whose columns are equal    *)
(* have one character; the row of v has the A of another row.              *)
SameInBoth == {\h01, \h0e, \h0f, \h1c, \h37, \h39}
Invisible  == {Low(k) : k \in Shifts \cup Alts \cup Ctrls \cup {caps_lock_make}}
keymap(index, shift) ==
  CASE index = \h2f /\ shift -> <<\h1e, TRUE>>
    [] index \in SameInBoth  -> <<index, FALSE>>
    [] OTHER                 -> <<index, shift>>

(* The keys the handler shifts with shift alone, not with caps lock. *)
ShiftOnly(code) ==
  code < \h0e \/ code \in {\h29, \h1a, \h1b, \h2b, \h27, \h28, \h33, \h34, \h35}
shift_IgnoresCaps(code) ==  \* mutant: caps lock does not invert shift
  IF ShiftOnly(code) THEN shift_status ELSE shift_status \/ caps_lock_status
shift(code) ==
  IF ShiftOnly(code) THEN shift_status ELSE shift_status # caps_lock_status

break_code_Ctrl(make_code) ==  \* mutant: the right control key is forgotten
  /\ ctrl_status'  = (ctrl_status /\ make_code # ctrl_l_make)
  /\ shift_status' = (shift_status /\ make_code \notin Shifts)
  /\ alt_status'   = (alt_status /\ make_code \notin Alts)
  /\ UNCHANGED <<caps_lock_status, kbd_buf>>
break_code(make_code) ==
  /\ ctrl_status'  = (ctrl_status /\ make_code \notin Ctrls)
  /\ shift_status' = (shift_status /\ make_code \notin Shifts)
  /\ alt_status'   = (alt_status /\ make_code \notin Alts)
  /\ UNCHANGED <<caps_lock_status, kbd_buf>>

(* A modifier is compared without its 0xe0 prefix, which index dropped. *)
make_modifier(index) ==
  /\ ctrl_status'  = (ctrl_status \/ index \in Ctrls)
  /\ shift_status' = (shift_status \/ index \in Shifts)
  /\ alt_status'   = (alt_status \/ index \in Alts)
  /\ caps_lock_status' = (caps_lock_status # (index = caps_lock_make))
  /\ UNCHANGED kbd_buf

make_visible(code, want) ==
  /\ kbd_buf' = IF Len(kbd_buf) = bufsize - 1 THEN kbd_buf
                ELSE Append(kbd_buf, [char |-> keymap(Low(code), shift(code)), want |-> want])
  /\ UNCHANGED <<ctrl_status, shift_status, alt_status, caps_lock_status>>

(* A complete code: a break, a make of a known key, or "Unknow key!". *)
scancode(code, want) ==
  IF IsBreak(code) THEN break_code(code - \h80)
  ELSE IF (0 < code /\ code < \h3b) \/ code \in {alt_r_make, ctrl_r_make}
       THEN IF Low(code) \in Invisible THEN make_modifier(Low(code))
                                       ELSE make_visible(code, want)
       ELSE UNCHANGED <<ctrl_status, shift_status, alt_status, caps_lock_status, kbd_buf>>

intr_keyboard_handler ==
  /\ wire # <<>> /\ wire' = Tail(wire)
  /\ LET b == Head(wire) IN
     IF b.byte = \he0
     THEN /\ ext_scancode' = TRUE
          /\ UNCHANGED <<ctrl_status, shift_status, alt_status, caps_lock_status, kbd_buf>>
     ELSE /\ ext_scancode' = FALSE
          /\ scancode(IF ext_scancode THEN \he000 + b.byte ELSE b.byte, b.want)
  /\ UNCHANGED <<pressed, caps>>

(* ioq_getchar by some thread. *)
ioq_getchar ==
  /\ kbd_buf # <<>> /\ kbd_buf' = Tail(kbd_buf)
  /\ UNCHANGED <<hvars, pressed, caps, wire>>

-----------------------------------------------------------------------------

(* The keyboard: one or two bytes per event, not beyond MaxWire of them.   *)
Letters == \h10 .. \h19 \cup \h1e .. \h26 \cup \h2c .. \h32
Meant(k) == <<k, IF k \in Letters THEN (pressed \cap Shifts # {}) # caps
                 ELSE k \notin SameInBoth /\ pressed \cap Shifts # {}>>

Send(code, want) ==
  LET e0   == IF code >= \he000 THEN <<[byte |-> \he0, want |-> want]>> ELSE <<>>
      sent == wire \o e0 \o <<[byte |-> Low(code), want |-> want]>>
  IN  Len(sent) <= MaxWire /\ wire' = sent

Press ==
  /\ \E k \in Keys \ pressed :
       /\ Send(k, Meant(k))
       /\ pressed' = pressed \cup {k}
       /\ caps' = (caps # (k = caps_lock_make))
  /\ UNCHANGED <<hvars, kbd_buf>>

Hold ==
  /\ \E k \in Repeats \cap pressed : Send(k, Meant(k))
  /\ UNCHANGED <<hvars, kbd_buf, pressed, caps>>

LetGo ==
  /\ \E k \in pressed : Send(k + \h80, Meant(k)) /\ pressed' = pressed \ {k}
  /\ UNCHANGED <<hvars, kbd_buf, caps>>

KeyboardInit ==
  /\ ctrl_status = FALSE /\ shift_status = FALSE /\ alt_status = FALSE
  /\ caps_lock_status = FALSE /\ ext_scancode = FALSE
  /\ kbd_buf = <<>> /\ pressed = {} /\ caps = FALSE /\ wire = <<>>

KeyboardNext == intr_keyboard_handler \/ ioq_getchar \/ Press \/ Hold \/ LetGo

KeyboardSpec == KeyboardInit /\ [][KeyboardNext]_kvars

-----------------------------------------------------------------------------

(* keyboard.c:43: the variables "用来记录按键是否被按下", record whether the  *)
(* keys are held down.  So they do once the handler has caught up.         *)
ModifiersFollow ==
  wire = <<>> =>
    /\ shift_status <=> pressed \cap Shifts # {}
    /\ ctrl_status <=> pressed \cap Ctrls # {}
    /\ alt_status <=> pressed \cap Alts # {}
    /\ caps_lock_status = caps

(* keyboard.c:188-198: caps lock or shift makes a letter a capital, both   *)
(* make it small, and the state of the keyboard at the key press counts,   *)
(* however late its interrupt is handled.                                  *)
TypedAsMeant == \A i \in DOMAIN kbd_buf : kbd_buf[i].char = kbd_buf[i].want
=============================================================================
