-------------------------------- MODULE Input --------------------------------
(***************************************************************************)
(* The PS/2 interrupt handlers of src/idt.c and the main loop that polls   *)
(* what they leave behind.  The keyboard handler leaves its last character *)
(* in a one-place mailbox, last_key_pressed, that ui_handle_keyboard reads *)
(* and clears with interrupts on; the mouse handler puts packets of three  *)
(* bytes together and keeps the position and the left button up to date.   *)
(*                                                                         *)
(* Handlers run with interrupts off, so each is one step; a step can come  *)
(* between any two statements of the main loop.  The translation tables    *)
(* are constants: a key has a character with and without shift.            *)
(***************************************************************************)
EXTENDS Integers, Sequences

CONSTANTS Keys,                        \* character keys
          PlainChar, ShiftChar,        \* scancode_ascii_normal, scancode_ascii_shift
          Capital,                     \* the capital of each small letter
          Accents,                     \* characters that wait for a letter
          Composed,                    \* the accented character of an accent and a letter
          MaxTyped,                    \* bound on the characters typed
          ScreenWidth, ScreenHeight,
          Headers, Motions,            \* bytes the mouse sends, first and other
          Acknowledge                  \* the byte that answers "enable reporting"

Shifts == {"left", "right"}
None   == "none"
Bit3(byte)   == (byte \div 8) % 2 = 1
Signed(byte) == IF byte >= 128 THEN byte - 256 ELSE byte

ASSUME InputAssumption ==
  /\ MaxTyped \in Nat /\ ScreenWidth \in Nat \ {0} /\ ScreenHeight \in Nat \ {0}
  /\ Headers \subseteq 0 .. 255 /\ Motions \subseteq 0 .. 255 /\ Acknowledge \in 0 .. 255
  /\ \A b \in Headers : Bit3(b)

VARIABLES
  held,              \* shift keys the user holds down
  shift_pressed, caps_lock, active_dead_key,
  last_key_pressed,  \* empty, or the number and the character of the last key
  typed,             \* characters the handler has produced
  pc, handled,       \* where ui_handle_keyboard is, the numbers it took
  packet,            \* bytes of the packet the mouse still has to send
  sent,              \* the last packet the mouse began, whole
  mouse_cycle, mouse_byte, mouse_x, mouse_y, mouse_left_clicked

keyboard == <<held, shift_pressed, caps_lock, active_dead_key, last_key_pressed, typed>>
loop     == <<pc, handled>>
mouse    == <<packet, sent, mouse_cycle, mouse_byte, mouse_x, mouse_y, mouse_left_clicked>>
vars     == <<keyboard, loop, mouse>>

(* idt_init reads the acknowledgement away when it has already come; else  *)
(* it is the first byte the handler sees.                                  *)
Init ==
  /\ held = {} /\ shift_pressed = FALSE /\ caps_lock = FALSE /\ active_dead_key = None
  /\ last_key_pressed = <<>> /\ typed = 0
  /\ pc = "idle" /\ handled = <<>>
  /\ packet \in {<<>>, <<Acknowledge>>} /\ sent = packet
  /\ mouse_cycle = 0 /\ mouse_byte = <<0, 0, 0>>
  /\ mouse_x = ScreenWidth \div 2 /\ mouse_y = ScreenHeight \div 2
  /\ mouse_left_clicked = FALSE

-----------------------------------------------------------------------------
(* The keyboard *)

PressShift(s) ==
  /\ held' = held \union {s} /\ shift_pressed' = TRUE
  /\ UNCHANGED <<caps_lock, active_dead_key, last_key_pressed, typed, loop, mouse>>

ReleaseOnlyLeft(s) ==
  /\ s \in held /\ held' = held \ {s}
  /\ shift_pressed' = IF s = "left" THEN FALSE ELSE shift_pressed
  /\ UNCHANGED <<caps_lock, active_dead_key, last_key_pressed, typed, loop, mouse>>

ReleaseShift(s) ==
  /\ s \in held /\ held' = held \ {s} /\ shift_pressed' = FALSE
  /\ UNCHANGED <<caps_lock, active_dead_key, last_key_pressed, typed, loop, mouse>>

CapsLock ==
  /\ caps_lock' = ~caps_lock
  /\ UNCHANGED <<held, shift_pressed, active_dead_key, last_key_pressed, typed, loop, mouse>>

RawChar(key) ==
  LET c == IF shift_pressed THEN ShiftChar[key] ELSE PlainChar[key]
  IN  IF ~shift_pressed /\ caps_lock /\ c \in DOMAIN Capital THEN Capital[c] ELSE c

ApplyAccent(dead, base) ==
  IF <<dead, base>> \in DOMAIN Composed THEN Composed[dead, base] ELSE base

Produce(char) ==
  /\ typed' = typed + 1
  /\ last_key_pressed' = <<typed + 1, char>>
  /\ active_dead_key' = None

(* The first accent waits; the same one again stands for itself; another   *)
(* one meanwhile is ignored.                                               *)
TypeAccent(accent) ==
  IF active_dead_key = None
  THEN active_dead_key' = accent /\ UNCHANGED <<last_key_pressed, typed>>
  ELSE IF active_dead_key = accent THEN Produce(accent)
  ELSE UNCHANGED <<active_dead_key, last_key_pressed, typed>>

TypeLetter(c) ==
  Produce(IF active_dead_key = None THEN c ELSE ApplyAccent(active_dead_key, c))

PressKey(key) ==
  LET c == RawChar(key) IN
  /\ typed < MaxTyped
  /\ IF c \in Accents THEN TypeAccent(c) ELSE TypeLetter(c)
  /\ UNCHANGED <<held, shift_pressed, caps_lock, loop, mouse>>

-----------------------------------------------------------------------------
(* ui_handle_keyboard takes the character: it tests the mailbox, reads it, and  *)
(* only then clears it.                                                    *)

LookAndClear ==
  /\ pc = "idle" /\ last_key_pressed # <<>>
  /\ pc' = "reading" /\ last_key_pressed' = <<>>
  /\ UNCHANGED <<held, shift_pressed, caps_lock, active_dead_key, typed, handled, mouse>>

Look ==
  /\ pc = "idle" /\ last_key_pressed # <<>>
  /\ pc' = "reading"
  /\ UNCHANGED <<keyboard, handled, mouse>>

ReadKey ==
  /\ pc = "reading"
  /\ handled' = IF last_key_pressed = <<>> THEN handled ELSE Append(handled, last_key_pressed[1])
  /\ pc' = "clearing"
  /\ UNCHANGED <<keyboard, mouse>>

LeaveKey ==
  /\ pc = "clearing" /\ pc' = "idle"
  /\ UNCHANGED <<keyboard, handled, mouse>>

ClearKey ==
  /\ pc = "clearing"
  /\ last_key_pressed' = <<>>
  /\ pc' = "idle"
  /\ UNCHANGED <<held, shift_pressed, caps_lock, active_dead_key, typed, handled, mouse>>

-----------------------------------------------------------------------------
(* The mouse *)

Within(n, size) == IF n < 0 THEN 0 ELSE IF n >= size THEN size - 1 ELSE n

BeginPacket(h, dx, dy) ==
  /\ packet = <<>>
  /\ packet' = <<h, dx, dy>> /\ sent' = packet'
  /\ UNCHANGED <<mouse_cycle, mouse_byte, mouse_x, mouse_y, mouse_left_clicked, keyboard, loop>>

MovePointer(bytes) ==
  /\ mouse_left_clicked' = (bytes[1] % 2 = 1)
  /\ mouse_x' = Within(mouse_x + Signed(bytes[2]), ScreenWidth)
  /\ mouse_y' = Within(mouse_y - Signed(bytes[3]), ScreenHeight)

CheckEveryByte(data) ==
  IF ~Bit3(data)
  THEN UNCHANGED <<mouse_cycle, mouse_byte, mouse_x, mouse_y, mouse_left_clicked>>
  ELSE /\ mouse_byte' = [mouse_byte EXCEPT ![mouse_cycle + 1] = data]
       /\ mouse_cycle' = (mouse_cycle + 1) % 3
       /\ IF mouse_cycle = 2 THEN MovePointer(mouse_byte')
          ELSE UNCHANGED <<mouse_x, mouse_y, mouse_left_clicked>>

(* Only the first byte of a packet is checked: it has bit 3 set. *)
AcceptByte(data) ==
  IF mouse_cycle = 0 /\ ~Bit3(data)
  THEN UNCHANGED <<mouse_cycle, mouse_byte, mouse_x, mouse_y, mouse_left_clicked>>
  ELSE /\ mouse_byte' = [mouse_byte EXCEPT ![mouse_cycle + 1] = data]
       /\ mouse_cycle' = (mouse_cycle + 1) % 3
       /\ IF mouse_cycle = 2 THEN MovePointer(mouse_byte')
          ELSE UNCHANGED <<mouse_x, mouse_y, mouse_left_clicked>>

MouseInterrupt ==
  /\ packet # <<>>
  /\ packet' = Tail(packet)
  /\ AcceptByte(Head(packet))
  /\ UNCHANGED <<sent, keyboard, loop>>

-----------------------------------------------------------------------------
MainLoop == Look \/ ReadKey \/ ClearKey

Next ==
  \/ \E s \in Shifts : PressShift(s) \/ ReleaseShift(s)
  \/ CapsLock
  \/ \E k \in Keys : PressKey(k)
  \/ MainLoop
  \/ \E h \in Headers, dx, dy \in Motions : BeginPacket(h, dx, dy)
  \/ MouseInterrupt

(* The main loop is fair: its task is never kept off the CPU for ever. *)
Spec == Init /\ [][Next]_vars /\ WF_vars(MainLoop)

-----------------------------------------------------------------------------
Bytes == 0 .. 255

(* Type invariant; whatever bytes arrive, in step or not, the pointer stays *)
(* on the screen; and with both shift keys up, in whatever order they were  *)
(* pressed and released, no character is translated as if one were down.    *)
TypeOK ==
  /\ held \subseteq Shifts /\ (held = {} => ~shift_pressed) /\ caps_lock \in BOOLEAN
  /\ active_dead_key \in Accents \union {None} /\ typed \in 0 .. MaxTyped
  /\ last_key_pressed = <<>> \/ last_key_pressed[1] \in 1 .. typed
  /\ pc \in {"idle", "reading", "clearing"}
  /\ mouse_cycle \in 0 .. 2 /\ mouse_byte \in Bytes \X Bytes \X Bytes
  /\ mouse_x \in 0 .. ScreenWidth - 1 /\ mouse_y \in 0 .. ScreenHeight - 1
  /\ mouse_left_clicked \in BOOLEAN

(* Every character is taken at most once and in the order typed, wherever  *)
(* the keyboard interrupt falls between the reading and the clearing of    *)
(* last_key_pressed.                                                       *)
KeysTakenOnceInOrder == \A i, j \in DOMAIN handled : i < j => handled[i] < handled[j]

(* A character is lost only to a later one, or when it comes between the   *)
(* reading and the clearing: any other that waits is taken.                *)
WaitingKeyIsTaken ==
  \A n \in 1 .. MaxTyped :
    (last_key_pressed # <<>> /\ last_key_pressed[1] = n /\ pc # "clearing")
      ~> (\E i \in DOMAIN handled : handled[i] = n) \/ typed > n

(* The handler has taken as many bytes of the packet as the mouse has sent. *)
InStep == mouse_cycle = (3 - Len(packet)) % 3

(* Once handler and mouse agree on where packets begin, they never cease   *)
(* to, and every packet moves the pointer by its own three bytes.          *)
StaysInStep ==
  [][InStep => /\ InStep'
               /\ mouse_cycle = 2 /\ mouse_cycle' = 0 => mouse_byte' = sent]_vars
=============================================================================
