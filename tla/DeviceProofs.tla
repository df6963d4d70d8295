---------------------------- MODULE DeviceProofs -----------------------------
(***************************************************************************)
(* Theorems about Input, for every keyboard layout, every screen and every *)
(* stream of mouse packets, and about Serial, for lines, logs and files of *)
(* any length.                                                             *)
(***************************************************************************)
EXTENDS Input, Serial, TLAPS, SequenceTheorems, WellFoundedInduction

-----------------------------------------------------------------------------
(* Keyboard and mouse *)


KeyboardInv ==
  /\ held \subseteq Shifts /\ (held = {} => shift_pressed = FALSE) /\ caps_lock \in BOOLEAN
  /\ active_dead_key \in Accents \union {None} /\ typed \in 0 .. MaxTyped
  /\ last_key_pressed = <<>> \/ last_key_pressed[1] \in 1 .. typed

(* The mailbox holds the last key typed; what is taken from it is newer    *)
(* than what was taken before, until it is cleared.                        *)
LoopInv ==
  /\ pc \in {"idle", "reading", "clearing"}
  /\ handled \in Seq(Nat)
  /\ \A i \in DOMAIN handled : handled[i] <= typed
  /\ last_key_pressed # <<>> =>
       /\ last_key_pressed[1] = typed
       /\ pc # "clearing" => \A i \in DOMAIN handled : handled[i] < typed

KInv == KeyboardInv /\ LoopInv /\ KeysTakenOnceInOrder

LEMMA KInit == Init => KInv
<1> SUFFICES ASSUME Init PROVE KInv
  OBVIOUS
<1>1. KeyboardInv
  <2>1. held = {} /\ shift_pressed = FALSE /\ caps_lock \in BOOLEAN
    BY Zenon DEF Init
  <2>2. active_dead_key = None /\ last_key_pressed = <<>> /\ typed = 0
    BY DEF Init
  <2>3. QED
    BY <2>1, <2>2, InputAssumption DEF KeyboardInv
<1>2. pc = "idle" /\ handled = <<>> /\ typed = 0 /\ last_key_pressed = <<>>
  BY DEF Init
<1>3. LoopInv
  BY <1>2 DEF LoopInv
<1>4. KeysTakenOnceInOrder
  BY <1>2 DEF KeysTakenOnceInOrder
<1>5. QED
  BY <1>1, <1>3, <1>4 DEF KInv

LEMMA ProducedKey ==
  ASSUME KInv, typed < MaxTyped, NEW char, Produce(char), UNCHANGED <<held, shift_pressed, caps_lock, loop>>
  PROVE  KInv'
<1>1. /\ typed \in Nat /\ MaxTyped \in Nat /\ typed' = typed + 1 /\ last_key_pressed' = <<typed + 1, char>>
      /\ active_dead_key' = None
      /\ UNCHANGED <<held, shift_pressed, caps_lock, pc, handled>>
  BY InputAssumption DEF Produce, KInv, KeyboardInv, loop
<1>2. last_key_pressed'[1] = typed' /\ last_key_pressed' # <<>>
  BY <1>1
<1>3. KeyboardInv'
  BY <1>1, <1>2 DEF KInv, KeyboardInv
<1>4. \A i \in DOMAIN handled : handled[i] \in Nat /\ handled[i] < typed'
  BY <1>1 DEF KInv, LoopInv
<1>5. LoopInv'
  BY <1>1, <1>2, <1>4 DEF KInv, LoopInv
<1>6. KeysTakenOnceInOrder'
  BY <1>1 DEF KInv, KeysTakenOnceInOrder
<1>7. QED
  BY <1>3, <1>5, <1>6 DEF KInv

LEMMA PressKeyStep ==
  ASSUME KInv, NEW key \in Keys, PressKey(key)
  PROVE  KInv'
<1> DEFINE c == RawChar(key)
<1>1. typed < MaxTyped /\ UNCHANGED <<held, shift_pressed, caps_lock, loop>>
      /\ IF c \in Accents THEN TypeAccent(c) ELSE TypeLetter(c)
  BY DEF PressKey
<1> HIDE DEF c
<1>2. ASSUME NEW char, Produce(char) PROVE KInv'
  BY <1>1, <1>2, ProducedKey
<1>3. CASE active_dead_key' \in Accents \union {None} /\ UNCHANGED <<last_key_pressed, typed>>
  BY <1>1, <1>3 DEF KInv, KeyboardInv, LoopInv, KeysTakenOnceInOrder, loop
<1>4. QED
  BY <1>1, <1>2, <1>3 DEF TypeAccent, TypeLetter, KInv, KeyboardInv

LEMMA ReadKeyStep == KInv /\ ReadKey => KInv'
<1> SUFFICES ASSUME KInv, ReadKey PROVE KInv'
  OBVIOUS
<1>1. /\ pc = "reading" /\ pc' = "clearing"
      /\ UNCHANGED <<held, shift_pressed, caps_lock, active_dead_key, last_key_pressed, typed>>
      /\ typed \in Nat
  BY DEF ReadKey, keyboard, KInv, KeyboardInv
<1>2. KeyboardInv'
  BY <1>1 DEF KInv, KeyboardInv
<1>3. CASE last_key_pressed = <<>>
  BY <1>1, <1>2, <1>3 DEF ReadKey, KInv, LoopInv, KeysTakenOnceInOrder
<1>4. CASE last_key_pressed # <<>>
  <2>1. handled' = Append(handled, typed) /\ handled \in Seq(Nat)
        /\ \A i \in DOMAIN handled : handled[i] < typed
    BY <1>1, <1>4 DEF ReadKey, KInv, LoopInv
  <2>2. /\ handled' \in Seq(Nat) /\ Len(handled) \in Nat /\ DOMAIN handled = 1 .. Len(handled)
        /\ DOMAIN handled' = 1 .. Len(handled) + 1
        /\ handled'[Len(handled) + 1] = typed
        /\ \A i \in 1 .. Len(handled) : handled'[i] = handled[i] /\ handled[i] \in Nat
    BY <1>1, <2>1
  <2>3. \A i \in DOMAIN handled' : i \in DOMAIN handled \/ i = Len(handled) + 1
    BY <2>2
  <2>4. LoopInv'
    BY <1>1, <1>4, <2>1, <2>2, <2>3 DEF KInv, LoopInv
  <2>5. KeysTakenOnceInOrder'
    BY <1>1, <2>1, <2>2, <2>3 DEF KInv, KeysTakenOnceInOrder
  <2>6. QED
    BY <1>2, <2>4, <2>5 DEF KInv
<1>5. QED
  BY <1>3, <1>4

LEMMA KStep == KInv /\ [Next]_vars => KInv'
<1> SUFFICES ASSUME KInv, [Next]_vars PROVE KInv'
  OBVIOUS
<1> USE DEF KInv, KeyboardInv, LoopInv, KeysTakenOnceInOrder
<1>1. ASSUME NEW s \in Shifts, PressShift(s) PROVE KInv'
  <2>1. held' # {} /\ held' \subseteq Shifts /\ shift_pressed' = TRUE
    BY <1>1 DEF PressShift
  <2>2. UNCHANGED <<caps_lock, active_dead_key, last_key_pressed, typed, pc, handled>>
    BY <1>1 DEF PressShift, loop
  <2>3. QED
    BY <2>1, <2>2
<1>2. ASSUME NEW s \in Shifts, ReleaseShift(s) PROVE KInv'
  BY <1>2 DEF ReleaseShift, loop
<1>3. CASE CapsLock
  BY <1>3 DEF CapsLock, loop
<1>4. ASSUME NEW k \in Keys, PressKey(k) PROVE KInv'
  BY <1>4, PressKeyStep
<1>5. CASE Look
  BY <1>5 DEF Look, keyboard
<1>6. CASE ReadKey
  BY <1>6, ReadKeyStep
<1>7. CASE ClearKey
  BY <1>7 DEF ClearKey
<1>8. CASE UNCHANGED <<keyboard, loop>>
  BY <1>8 DEF keyboard, loop
<1> HIDE DEF KInv
<1>9. QED
  BY <1>1, <1>2, <1>3, <1>4, <1>5, <1>6, <1>7, <1>8
     DEF Next, MainLoop, BeginPacket, MouseInterrupt, vars

-----------------------------------------------------------------------------
(* The mouse.  What the mouse still has to send of the packet it began.    *)
Triple(s) == s \in Bytes \X Bytes \X Bytes

PacketInv ==
  \/ packet = <<>>
  \/ packet = <<Acknowledge>> /\ mouse_cycle = 0
  \/ /\ Triple(sent) /\ Bit3(sent[1])
     /\ packet \in {<<sent[1], sent[2], sent[3]>>, <<sent[2], sent[3]>>, <<sent[3]>>}

(* In step, the handler has the bytes already sent at their places.        *)
StepInv ==
  /\ Triple(mouse_byte) /\ mouse_cycle \in 0 .. 2
  /\ InStep /\ Len(packet) \in 1 .. 2 =>
       Triple(sent) /\ mouse_byte[1] = sent[1] /\ (Len(packet) = 1 => mouse_byte[2] = sent[2])

PointerInv ==
  /\ mouse_x \in 0 .. ScreenWidth - 1 /\ mouse_y \in 0 .. ScreenHeight - 1
  /\ mouse_left_clicked \in BOOLEAN

MInv == PacketInv /\ StepInv /\ PointerInv

LEMMA MInit == Init => MInv
<1> SUFFICES ASSUME Init PROVE MInv
  OBVIOUS
<1>1. mouse_cycle = 0 /\ mouse_byte = <<0, 0, 0>>
  BY DEF Init
<1>2. PacketInv
  BY <1>1 DEF Init, PacketInv
<1>3. Len(packet) \in 0 .. 1
  BY DEF Init
<1>4. Triple(mouse_byte)
  BY <1>1 DEF Triple, Bytes
<1>5. StepInv
  <2>1. (3 - 1) % 3 = 2
    OBVIOUS
  <2>2. InStep => Len(packet) # 1
    <3>1. mouse_cycle = 0
      BY <1>1
    <3>2. Len(packet) = 1 => (3 - Len(packet)) % 3 = 2
      BY <2>1
    <3>3. QED
      BY <3>1, <3>2 DEF InStep
  <2>3. QED
    BY <1>1, <1>3, <1>4, <2>2 DEF StepInv
<1>6. mouse_x \in 0 .. ScreenWidth - 1 /\ mouse_y \in 0 .. ScreenHeight - 1
  BY InputAssumption DEF Init
<1>7. mouse_left_clicked \in BOOLEAN
  BY Zenon DEF Init
<1>8. QED
  BY <1>2, <1>5, <1>6, <1>7 DEF MInv, PointerInv

LEMMA BeginPacketStep ==
  ASSUME MInv, NEW h \in Headers, NEW dx \in Motions, NEW dy \in Motions, BeginPacket(h, dx, dy)
  PROVE  MInv'
<1>1. /\ packet' = <<h, dx, dy>> /\ sent' = <<h, dx, dy>>
      /\ UNCHANGED <<mouse_cycle, mouse_byte, mouse_x, mouse_y, mouse_left_clicked>>
  BY DEF BeginPacket
<1>2. h \in Bytes /\ dx \in Bytes /\ dy \in Bytes /\ Bit3(h)
  BY InputAssumption DEF Bytes
<1>3. Triple(sent') /\ Bit3(sent'[1]) /\ packet' = <<sent'[1], sent'[2], sent'[3]>>
  BY <1>1, <1>2 DEF Triple
<1>4. Len(packet') = 3
  BY <1>1
<1>5. PacketInv'
  BY <1>3 DEF PacketInv
<1>6. StepInv'
  BY <1>1, <1>4 DEF MInv, StepInv
<1>7. QED
  BY <1>1, <1>5, <1>6 DEF MInv, PointerInv

(* Wherever its bytes come from, the pointer stays on the screen.          *)
LEMMA PointerStays ==
  ASSUME PointerInv, NEW bytes, Triple(bytes), MovePointer(bytes)
  PROVE  PointerInv'
<1>1. /\ bytes[1] \in Bytes /\ Signed(bytes[2]) \in Int /\ Signed(bytes[3]) \in Int
  BY DEF Triple, Bytes, Signed
<1>2. mouse_left_clicked' = (bytes[1] % 2 = 1)
  BY DEF MovePointer
<1>3. mouse_left_clicked' \in BOOLEAN
  BY <1>2, Zenon
<1>4. \A n \in Int, size \in Nat \ {0} : Within(n, size) \in 0 .. size - 1
  BY DEF Within
<1>5. mouse_x + Signed(bytes[2]) \in Int /\ mouse_y - Signed(bytes[3]) \in Int
  BY <1>1, InputAssumption DEF PointerInv
<1>6. mouse_x' \in 0 .. ScreenWidth - 1 /\ mouse_y' \in 0 .. ScreenHeight - 1
  BY <1>4, <1>5, InputAssumption DEF MovePointer
<1>7. QED
  BY <1>3, <1>6 DEF PointerInv

LEMMA OnePlaceChanges ==
  ASSUME NEW s, Triple(s), NEW i \in 1 .. 3, NEW b \in Bytes
  PROVE  /\ Triple([s EXCEPT ![i] = b])
         /\ [s EXCEPT ![i] = b][i] = b
         /\ \A j \in 1 .. 3 : j # i => [s EXCEPT ![i] = b][j] = s[j]
<1>1. PICK x \in Bytes, y \in Bytes, z \in Bytes : s = <<x, y, z>>
  BY DEF Triple
<1>2. i = 1 \/ i = 2 \/ i = 3
  OBVIOUS
<1>3. [s EXCEPT ![1] = b] = <<b, y, z>> /\ [s EXCEPT ![2] = b] = <<x, b, z>>
      /\ [s EXCEPT ![3] = b] = <<x, y, b>>
  BY <1>1
<1>4. QED
  BY <1>1, <1>2, <1>3 DEF Triple

LEMMA SamePlacesSameTriple ==
  ASSUME NEW s, NEW t, Triple(s), Triple(t), s[1] = t[1], s[2] = t[2], s[3] = t[3]
  PROVE  s = t
<1>1. PICK x \in Bytes, y \in Bytes, z \in Bytes : s = <<x, y, z>>
  BY DEF Triple
<1>2. PICK u \in Bytes, v \in Bytes, w \in Bytes : t = <<u, v, w>>
  BY DEF Triple
<1>3. QED
  BY <1>1, <1>2

(* What accepting a byte does: it is skipped, or takes the next place.     *)
Skipped(data) ==
  mouse_cycle = 0 /\ ~Bit3(data) /\ mouse_cycle' = 0 /\ mouse_byte' = mouse_byte

Placed(data) ==
  /\ mouse_cycle' = (mouse_cycle + 1) % 3
  /\ mouse_byte'[mouse_cycle + 1] = data
  /\ \A j \in 1 .. 3 : j # mouse_cycle + 1 => mouse_byte'[j] = mouse_byte[j]

LEMMA AcceptByteFacts ==
  ASSUME StepInv, PointerInv, NEW data \in Bytes, AcceptByte(data)
  PROVE  Triple(mouse_byte') /\ PointerInv' /\ (Skipped(data) \/ Placed(data))
<1>1. Triple(mouse_byte) /\ mouse_cycle \in 0 .. 2 /\ mouse_cycle + 1 \in 1 .. 3
  BY DEF StepInv
<1>2. CASE /\ mouse_cycle = 0 /\ ~Bit3(data)
           /\ UNCHANGED <<mouse_cycle, mouse_byte, mouse_x, mouse_y, mouse_left_clicked>>
  BY <1>1, <1>2 DEF PointerInv, Skipped
<1>3. CASE /\ mouse_byte' = [mouse_byte EXCEPT ![mouse_cycle + 1] = data]
           /\ mouse_cycle' = (mouse_cycle + 1) % 3
           /\ IF mouse_cycle = 2 THEN MovePointer(mouse_byte')
              ELSE UNCHANGED <<mouse_x, mouse_y, mouse_left_clicked>>
  <2>1. Triple(mouse_byte') /\ Placed(data)
    <3> DEFINE i == mouse_cycle + 1
               new == [mouse_byte EXCEPT ![i] = data]
    <3>1. Triple(new) /\ new[i] = data /\ \A j \in 1 .. 3 : j # i => new[j] = mouse_byte[j]
      BY <1>1, OnePlaceChanges
    <3>2. mouse_byte' = new /\ mouse_cycle' = (mouse_cycle + 1) % 3
      BY <1>3
    <3> HIDE DEF new
    <3>3. QED
      BY <3>1, <3>2 DEF Placed
  <2>2. PointerInv'
    BY <1>3, <2>1, PointerStays DEF PointerInv
  <2>3. QED
    BY <2>1, <2>2
<1>4. QED
  BY <1>2, <1>3 DEF AcceptByte

(* A byte of a packet taken in step goes to its own place.                 *)
OwnPlaces ==
  InStep => InStep' /\ (mouse_cycle = 2 /\ mouse_cycle' = 0 => mouse_byte' = sent)

LEMMA MouseInterruptStep == MInv /\ MouseInterrupt => MInv' /\ OwnPlaces
<1> SUFFICES ASSUME MInv, MouseInterrupt PROVE MInv' /\ OwnPlaces
  OBVIOUS
<1> DEFINE data == Head(packet)
           n == Len(packet)
<1>1. packet # <<>> /\ packet' = Tail(packet) /\ AcceptByte(data) /\ sent' = sent
  BY DEF MouseInterrupt
<1>2. Triple(mouse_byte) /\ mouse_cycle \in 0 .. 2
  BY DEF MInv, StepInv
<1>m. /\ (3 - 3) % 3 = 0 /\ (3 - 2) % 3 = 1 /\ (3 - 1) % 3 = 2 /\ (3 - 0) % 3 = 0
      /\ (0 + 1) % 3 = 1 /\ (1 + 1) % 3 = 2 /\ (2 + 1) % 3 = 0
  OBVIOUS
<1>3. CASE packet = <<Acknowledge>> /\ mouse_cycle = 0
  <2>1. data \in Bytes /\ packet' = <<>> /\ n = 1 /\ Len(packet') = 0
    BY <1>1, <1>3, InputAssumption DEF Bytes
  <2>2. Triple(mouse_byte') /\ PointerInv' /\ (Skipped(data) \/ Placed(data))
    BY <1>1, <2>1, AcceptByteFacts DEF MInv
  <2>3. mouse_cycle' \in {0, 1} /\ ~InStep
    BY <1>3, <1>m, <2>1, <2>2 DEF Skipped, Placed, InStep
  <2>4. PacketInv' /\ StepInv'
    BY <2>1, <2>2, <2>3 DEF PacketInv, StepInv
  <2>5. QED
    BY <2>2, <2>3, <2>4 DEF MInv, OwnPlaces
<1>4. CASE /\ Triple(sent) /\ Bit3(sent[1])
           /\ packet \in {<<sent[1], sent[2], sent[3]>>, <<sent[2], sent[3]>>, <<sent[3]>>}
  <2>1. sent[1] \in Bytes /\ sent[2] \in Bytes /\ sent[3] \in Bytes
    BY <1>4 DEF Triple
  <2>2. \/ n = 3 /\ data = sent[1] /\ packet' = <<sent[2], sent[3]>> /\ Len(packet') = 2
        \/ n = 2 /\ data = sent[2] /\ packet' = <<sent[3]>> /\ Len(packet') = 1
        \/ n = 1 /\ data = sent[3] /\ packet' = <<>> /\ Len(packet') = 0
    <3>1. CASE packet = <<sent[1], sent[2], sent[3]>>
      BY <1>1, <3>1
    <3>2. CASE packet = <<sent[2], sent[3]>>
      BY <1>1, <3>2
    <3>3. CASE packet = <<sent[3]>>
      BY <1>1, <3>3
    <3>4. QED
      BY <1>4, <3>1, <3>2, <3>3
  <2> HIDE DEF data, n
  <2>3. Triple(mouse_byte') /\ PointerInv' /\ (Skipped(data) \/ Placed(data))
    BY <1>1, <2>1, <2>2, AcceptByteFacts DEF MInv
  <2>4. PacketInv'
    BY <1>1, <1>4, <2>2 DEF PacketInv
  <2>5. mouse_cycle' \in 0 .. 2
    BY <1>2, <1>m, <2>3 DEF Skipped, Placed
  <2>6. CASE ~InStep
    <3>1. ~(InStep' /\ Len(packet') \in 1 .. 2)
      <4>1. n = 3 => mouse_cycle \in {1, 2} /\ mouse_cycle' \in {2, 0} /\ Len(packet') = 2
        BY <1>2, <1>m, <2>2, <2>3, <2>6 DEF InStep, Skipped, Placed, n
      <4>2. n = 2 => mouse_cycle \in {0, 2} /\ mouse_cycle' \in {0, 1} /\ Len(packet') = 1
        BY <1>2, <1>m, <2>2, <2>3, <2>6 DEF InStep, Skipped, Placed, n
      <4>3. n = 1 => Len(packet') = 0
        BY <2>2
      <4>4. (n = 3 => (3 - Len(packet')) % 3 = 1) /\ (n = 2 => (3 - Len(packet')) % 3 = 2)
        BY <1>m, <4>1, <4>2
      <4>5. QED
        BY <2>2, <4>1, <4>2, <4>3, <4>4 DEF InStep
    <3>2. QED
      BY <2>3, <2>4, <2>5, <2>6, <3>1 DEF MInv, StepInv, OwnPlaces
  <2>7. CASE InStep
    <3>1. n = 3 => mouse_cycle = 0
      BY <1>m, <2>7 DEF InStep, n
    <3>2. n = 2 => mouse_cycle = 1 /\ mouse_byte[1] = sent[1]
      BY <1>m, <2>7 DEF InStep, n, MInv, StepInv
    <3>3. n = 1 => mouse_cycle = 2 /\ mouse_byte[1] = sent[1] /\ mouse_byte[2] = sent[2]
      BY <1>m, <2>7 DEF InStep, n, MInv, StepInv
    <3>4. Placed(data)
      BY <1>4, <2>2, <2>3, <3>1, <3>2, <3>3 DEF Skipped
    <3>5. n = 3 => mouse_cycle' = 1 /\ mouse_byte'[1] = sent[1]
      BY <1>m, <2>2, <3>1, <3>4 DEF Placed
    <3>6. n = 2 => mouse_cycle' = 2 /\ mouse_byte'[1] = sent[1] /\ mouse_byte'[2] = sent[2]
      BY <1>m, <2>2, <3>2, <3>4 DEF Placed
    <3>7. n = 1 => mouse_cycle' = 0 /\ mouse_byte'[1] = sent[1] /\ mouse_byte'[2] = sent[2]
                   /\ mouse_byte'[3] = sent[3]
      BY <1>m, <2>2, <3>3, <3>4 DEF Placed
    <3>8. InStep'
      BY <1>m, <2>2, <3>5, <3>6, <3>7 DEF InStep
    <3>9. mouse_cycle = 2 => mouse_byte' = sent
      BY <1>4, <2>2, <2>3, <3>1, <3>2, <3>7, SamePlacesSameTriple
    <3>10. StepInv'
      BY <1>1, <1>4, <2>2, <2>3, <2>5, <3>5, <3>6, SMTT(30) DEF StepInv
    <3>11. QED
      BY <2>3, <2>4, <3>8, <3>9, <3>10 DEF MInv, OwnPlaces
  <2>8. QED
    BY <2>6, <2>7
<1>5. QED
  BY <1>1, <1>3, <1>4 DEF MInv, PacketInv

LEMMA MStep == MInv /\ [Next]_vars => MInv' /\ OwnPlaces
<1> SUFFICES ASSUME MInv, [Next]_vars PROVE MInv' /\ OwnPlaces
  OBVIOUS
<1>1. CASE MouseInterrupt
  BY <1>1, MouseInterruptStep
<1>2. ASSUME NEW h \in Headers, NEW dx \in Motions, NEW dy \in Motions, BeginPacket(h, dx, dy)
      PROVE  MInv' /\ OwnPlaces
  <2>1. packet = <<>> /\ packet' = <<h, dx, dy>> /\ Len(packet) = 0 /\ Len(packet') = 3
        /\ mouse_cycle' = mouse_cycle /\ (3 - 3) % 3 = (3 - 0) % 3
    BY <1>2 DEF BeginPacket
  <2>2. OwnPlaces
    BY <2>1 DEF OwnPlaces, InStep
  <2>3. QED
    BY <1>2, <2>2, BeginPacketStep
<1>3. CASE UNCHANGED mouse
  BY <1>3 DEF mouse, MInv, PacketInv, StepInv, PointerInv, InStep, OwnPlaces
<1>4. QED
  BY <1>1, <1>2, <1>3
     DEF Next, MainLoop, vars, PressShift, ReleaseShift, CapsLock, PressKey, Look, ReadKey, ClearKey

-----------------------------------------------------------------------------
(* The two invariants hold in every reachable state: of the keyboard's     *)
(* side and the polling loop, and of the mouse's side.                     *)
THEOREM Invariance == Spec => [](KInv /\ MInv)
<1>1. KInv /\ MInv /\ [Next]_vars => (KInv /\ MInv)'
  BY KStep, MStep
<1>2. QED
  BY <1>1, KInit, MInit, PTL DEF Spec

(* Type correctness: with both shift keys up nothing is typed as if one    *)
(* were down, and the pointer is on the screen whatever bytes arrive.      *)
THEOREM TypeCorrect == Spec => []TypeOK
<1>1. KInv /\ MInv => TypeOK
  BY DEF KInv, KeyboardInv, LoopInv, MInv, StepInv, PointerInv, Triple, TypeOK
<1>2. QED
  BY <1>1, Invariance, PTL

(* Every character is taken at most once and in order, wherever the        *)
(* keyboard interrupt comes between test, reading and clearing.            *)
THEOREM KeysAlwaysInOrder == Spec => []KeysTakenOnceInOrder
<1>1. KInv => KeysTakenOnceInOrder
  BY DEF KInv
<1>2. QED
  BY <1>1, Invariance, PTL

(* Once in step, packets stay framed, for every stream of packets whose    *)
(* first bytes have bit 3 set, motion bytes with that bit included.        *)
THEOREM PacketsStayFramed == Spec => StaysInStep
<1>1. KInv /\ MInv /\ [Next]_vars =>
        [InStep => /\ InStep'
                   /\ mouse_cycle = 2 /\ mouse_cycle' = 0 => mouse_byte' = sent]_vars
  BY MStep DEF OwnPlaces
<1>2. QED
  BY <1>1, Invariance, PTL DEF Spec, StaysInStep
-----------------------------------------------------------------------------
(* The serial link: text the terminal displays *)

(* Every nonempty set of naturals has a smallest member. *)
LEMMA Smallest ==
  ASSUME NEW S, S \subseteq Nat, S # {}
  PROVE  \E n \in S : \A m \in S : n <= m
<1> DEFINE less == OpToRel(<, Nat)
<1>1. IsWellFoundedOn(less, Nat)
  BY NatLessThanWellFounded
<1>2. \A i, j \in Nat : i < j => <<i, j>> \in less
  BY DEF OpToRel
<1> HIDE DEF less
<1>3. PICK n \in S : \A m \in S : ~(<<m, n>> \in less)
  BY <1>1, WFMin
<1>4. ASSUME NEW m \in S PROVE n <= m
  <2>1. n \in Nat /\ m \in Nat
    OBVIOUS
  <2>2. ~(m < n)
    BY <1>2, <1>3, <2>1
  <2> QED
    BY <2>1, <2>2
<1> QED
  BY <1>4

(* The function in Displayed, for the first n characters. *)
Displaying(f, text, out, n) ==
  f = [k \in 0 .. n |-> IF k = 0 THEN text ELSE Display(f[k - 1], out[k])]

LEMMA DisplayingExists ==
  ASSUME NEW text, NEW out, NEW n \in Nat
  PROVE  \E f : Displaying(f, text, out, n)
<1> DEFINE Missing == {m \in Nat : ~\E f : Displaying(f, text, out, m)}
<1> SUFFICES ASSUME Missing # {} PROVE FALSE
  OBVIOUS
<1>1. PICK m \in Missing : \A k \in Missing : m <= k
  <2>1. Missing \subseteq Nat
    OBVIOUS
  <2> HIDE DEF Missing
  <2> QED
    BY <2>1, Smallest
<1>2. CASE m = 0
  <2> DEFINE f == [k \in 0 .. 0 |-> text]
  <2>1. Displaying(f, text, out, 0)
    BY DEF Displaying
  <2> QED
    BY <1>1, <1>2, <2>1
<1>3. CASE m # 0
  <2>1. m \in Nat /\ m - 1 \in Nat /\ m - 1 \notin Missing
    BY <1>1, <1>3
  <2>2. PICK f : Displaying(f, text, out, m - 1)
    BY <2>1
  <2> DEFINE g == [k \in 0 .. m |-> IF k = m THEN Display(f[m - 1], out[m]) ELSE f[k]]
  <2>3. ASSUME NEW k \in 0 .. m PROVE g[k] = IF k = 0 THEN text ELSE Display(g[k - 1], out[k])
    <3>1. CASE k = 0
      BY <2>1, <2>2, <1>3, <3>1 DEF Displaying
    <3>2. CASE k # 0 /\ k = m
      <4>1. m - 1 \in 0 .. m /\ m - 1 # m
        BY <2>1
      <4>2. g[m - 1] = f[m - 1] /\ g[m] = Display(f[m - 1], out[m])
        BY <2>1, <4>1
      <4> QED
        BY <3>2, <4>2
    <3>3. CASE k # 0 /\ k # m
      <4>1. k - 1 \in 0 .. m /\ k - 1 # m /\ k \in 0 .. m - 1
        BY <2>1, <3>3
      <4>2. g[k - 1] = f[k - 1] /\ g[k] = f[k]
        BY <3>3, <4>1
      <4>3. f[k] = Display(f[k - 1], out[k])
        BY <2>2, <3>3, <4>1 DEF Displaying
      <4> QED
        BY <3>3, <4>2, <4>3
    <3> QED
      BY <3>1, <3>2, <3>3
  <2>4. g = [k \in 0 .. m |-> g[k]]
    OBVIOUS
  <2> HIDE DEF g
  <2>5. Displaying(g, text, out, m)
    BY <2>3, <2>4 DEF Displaying
  <2> QED
    BY <1>1, <2>5
<1> QED
  BY <1>2, <1>3

Displays(f, text, out, n) ==
  /\ Displayed(text, out) = f[n] /\ f[0] = text
  /\ \A k \in 1 .. n : f[k] = Display(f[k - 1], out[k])

LEMMA DisplayedSteps ==
  ASSUME NEW text, NEW out, NEW n \in Nat, Len(out) = n
  PROVE  \E f : Displays(f, text, out, n)
<1> DEFINE f == CHOOSE f : Displaying(f, text, out, n)
<1>1. Displaying(f, text, out, n)
  BY DisplayingExists
<1>2. Displayed(text, out) = f[n]
  BY DEF Displayed, Displaying
<1> HIDE DEF f
<1>3. f[0] = text /\ \A k \in 1 .. n : f[k] = Display(f[k - 1], out[k])
  BY <1>1 DEF Displaying
<1> QED
  BY <1>2, <1>3 DEF Displays

LEMMA DisplayedAppend ==
  ASSUME NEW S, NEW s \in Seq(S), NEW c \in S, NEW text
  PROVE  Displayed(text, Append(s, c)) = Display(Displayed(text, s), c)
<1> DEFINE n == Len(s)
           t == Append(s, c)
<1>1. n \in Nat /\ Len(t) = n + 1 /\ n + 1 \in Nat
  OBVIOUS
<1>2. (\A k \in 1 .. n : t[k] = s[k]) /\ t[n + 1] = c
  OBVIOUS
<1>3. Len(s) = n
  OBVIOUS
<1> HIDE DEF n, t
<1>4. PICK f : Displays(f, text, s, n)
  BY <1>1, <1>3, DisplayedSteps
<1>5. PICK g : Displays(g, text, t, n + 1)
  BY <1>1, DisplayedSteps
<1>6. g[n] = f[n]
  <2> DEFINE Differ == {k \in 0 .. n : f[k] # g[k]}
  <2> SUFFICES ASSUME Differ # {} PROVE FALSE
    BY <1>1 DEF Differ
  <2>1. PICK k \in Differ : \A l \in Differ : k <= l
    <3>1. Differ \subseteq Nat
      OBVIOUS
    <3> HIDE DEF Differ
    <3> QED
      BY <3>1, Smallest
  <2>2. k # 0
    BY <1>4, <1>5, <2>1 DEF Displays
  <2>3. k \in 1 .. n /\ k \in 1 .. n + 1 /\ k - 1 \in 0 .. n /\ k - 1 < k
    BY <1>1, <2>1, <2>2
  <2>4. f[k - 1] = g[k - 1]
    BY <1>1, <2>1, <2>3
  <2> QED
    BY <1>2, <1>4, <1>5, <2>1, <2>3, <2>4 DEF Displays
<1>7. Displayed(text, t) = Display(Displayed(text, s), c)
  BY <1>1, <1>2, <1>4, <1>5, <1>6 DEF Displays
<1> QED
  BY <1>7 DEF t

(* Behind a carriage return it does not matter what was there before: one  *)
(* text ends with the other, which has a carriage return.                  *)
LEMMA DisplayedSame ==
  ASSUME NEW x, NEW y, NEW s, NEW t, NEW n \in Nat, NEW d \in Nat, Len(s) = n, Len(t) = n + d,
         \A k \in 1 .. n : s[k] = t[k + d], NEW p \in 1 .. n, s[p] = CR
  PROVE  Displayed(x, s) = Displayed(y, t)
<1>1. PICK f : Displays(f, x, s, n)
  BY DisplayedSteps
<1>2. n + d \in Nat
  OBVIOUS
<1>3. PICK g : Displays(g, y, t, n + d)
  BY <1>2, DisplayedSteps
<1> DEFINE Differ == {k \in p .. n : f[k] # g[k + d]}
<1> SUFFICES ASSUME Differ # {} PROVE FALSE
  <2>1. n \in p .. n
    OBVIOUS
  <2> QED
    BY <1>1, <1>3, <2>1 DEF Differ, Displays
<1>4. PICK k \in Differ : \A l \in Differ : k <= l
  <2>1. Differ \subseteq Nat
    OBVIOUS
  <2> HIDE DEF Differ
  <2> QED
    BY <2>1, Smallest
<1>5. /\ k \in 1 .. n /\ k \in p .. n /\ k + d \in 1 .. n + d /\ (k + d) - 1 = (k - 1) + d
  BY <1>4
<1>6. f[k] = Display(f[k - 1], s[k]) /\ g[k + d] = Display(g[(k - 1) + d], s[k])
  BY <1>1, <1>3, <1>5 DEF Displays
<1>7. CASE k = p
  BY <1>4, <1>6, <1>7 DEF Display
<1>8. CASE k # p
  <2>1. k - 1 \in p .. n /\ k - 1 < k
    BY <1>5, <1>8
  <2>2. f[k - 1] = g[(k - 1) + d]
    BY <1>4, <1>5, <2>1
  <2> QED
    BY <1>4, <1>6, <2>2
<1> QED
  BY <1>7, <1>8

-----------------------------------------------------------------------------
(* The serial link: log and terminal *)

PortChars ==
  Text \union {CR, LF, BS, "boot_message", "guest_message", "guest", "begin_of", "begins",
               "end_of_file", "file", "not_found", "command", "invalid", "usage"}
       \union UNION {ToSet(Files[name]) : name \in DOMAIN Files}

Ports == [log : Seq(PortChars), text : Seq(PortChars)]

(* What the terminal shows is what the log displays, once it holds the     *)
(* start of a line.                                                        *)
Agree(port) == CR \in ToSet(port.log) => Displayed(<<>>, port.log) = port.text

LEMMA DisplayTypes ==
  ASSUME NEW text \in Seq(PortChars), NEW c \in PortChars
  PROVE  Display(text, c) \in Seq(PortChars)
<1>1. CASE c = CR \/ c = LF
  BY <1>1 DEF Display
<1>2. CASE c # CR /\ c # LF /\ c = BS
  <2>1. CASE text = <<>>
    BY <1>2, <2>1 DEF Display
  <2>2. CASE text # <<>>
    <3>1. Len(text) \in Nat \ {0}
      BY <2>2, EmptySeq
    <3>2. SubSeq(text, 1, Len(text) - 1) \in Seq(PortChars)
      BY <3>1
    <3> QED
      BY <1>2, <2>2, <3>2 DEF Display, Front
  <2> QED
    BY <2>1, <2>2
<1>3. CASE c # CR /\ c # LF /\ c # BS
  BY <1>3 DEF Display
<1> QED
  BY <1>1, <1>2, <1>3

LEMMA TailFacts ==
  ASSUME NEW S, NEW s \in Seq(S), Len(s) # 0
  PROVE  /\ Tail(s) \in Seq(S) /\ Len(s) = Len(Tail(s)) + 1 /\ Len(Tail(s)) \in Nat
         /\ \A k \in 1 .. Len(Tail(s)) : Tail(s)[k] = s[k + 1]
<1>1. s # <<>>
  OBVIOUS
<1> QED
  BY <1>1

(* Each character the log and the terminal get keeps them in agreement, a  *)
(* carriage return brings them there, and the log keeps its length.        *)
LEMMA EmitAgrees ==
  ASSUME NEW port \in Ports, Len(port.log) <= LogSize - 1, NEW c \in PortChars
  PROVE  /\ Emit(port, c) \in Ports
         /\ Len(Emit(port, c).log) \in 1 .. LogSize - 1
         /\ Agree(port) \/ c = CR => Agree(Emit(port, c))
<1> DEFINE log  == port.log
           base == IF Len(log) < LogSize - 1 THEN log ELSE Tail(log)
           more == Append(base, c)
<1>1. log \in Seq(PortChars) /\ Len(log) \in Nat /\ LogSize \in Nat /\ LogSize >= 2
  BY SerialAssumption DEF Ports
<1>2. Emit(port, c) = [log |-> more, text |-> Display(port.text, c)]
  BY DEF Emit, LogAppendChar
<1>3. \/ base = log /\ Len(log) < LogSize - 1
      \/ /\ base = Tail(log) /\ Len(log) = LogSize - 1 /\ Len(log) # 0
  BY <1>1
<1>4. /\ base \in Seq(PortChars) /\ Len(base) \in 0 .. LogSize - 2
  <2>1. CASE base = log /\ Len(log) < LogSize - 1
    BY <1>1, <2>1
  <2>2. CASE base = Tail(log) /\ Len(log) = LogSize - 1 /\ Len(log) # 0
    BY <1>1, <2>2, TailFacts
  <2> QED
    BY <1>3, <2>1, <2>2
<1>5. more \in Seq(PortChars) /\ Len(more) \in 1 .. LogSize - 1
  BY <1>1, <1>4
<1>6. Emit(port, c) \in Ports /\ Len(Emit(port, c).log) \in 1 .. LogSize - 1
  <2>1. port.text \in Seq(PortChars)
    BY DEF Ports
  <2>2. Display(port.text, c) \in Seq(PortChars)
    BY <2>1, DisplayTypes
  <2> HIDE DEF more
  <2> QED
    BY <1>2, <1>5, <2>2 DEF Ports
<1>7. Displayed(<<>>, more) = Display(Displayed(<<>>, base), c)
  BY <1>4, DisplayedAppend
<1>8. CASE c = CR
  <2>1. Display(port.text, c) = <<>> /\ Display(Displayed(<<>>, base), c) = <<>>
    BY <1>8 DEF Display
  <2> HIDE DEF more
  <2> QED
    BY <1>2, <1>6, <1>7, <2>1 DEF Agree
<1>9. CASE c # CR
  <2> SUFFICES ASSUME Agree(port), CR \in ToSet(more) PROVE Displayed(<<>>, more) = Display(port.text, c)
    <3> HIDE DEF more
    <3> QED
      BY <1>2, <1>6, <1>9 DEF Agree
  <2>1. PICK p \in 1 .. Len(base) : base[p] = CR
    <3>1. PICK i \in 1 .. Len(more) : more[i] = CR
      BY <1>5 DEF ToSet
    <3> QED
      BY <1>4, <1>9, <3>1
  <2>2. Displayed(<<>>, base) = port.text
    <3>1. CASE base = log /\ Len(log) < LogSize - 1
      <4>1. CR \in ToSet(log)
        BY <1>1, <2>1, <3>1 DEF ToSet
      <4> QED
        BY <3>1, <4>1 DEF Agree
    <3>2. CASE base = Tail(log) /\ Len(log) = LogSize - 1 /\ Len(log) # 0
      <4> DEFINE m == Len(base)
      <4>1. m \in Nat /\ Len(log) = m + 1 /\ \A k \in 1 .. m : base[k] = log[k + 1]
        BY <1>1, <3>2, TailFacts
      <4>2. CR \in ToSet(log)
        <5>1. p + 1 \in 1 .. Len(log) /\ log[p + 1] = CR
          BY <2>1, <4>1
        <5>2. p + 1 \in DOMAIN log
          BY <1>1, <5>1
        <5> QED
          BY <5>1, <5>2 DEF ToSet
      <4>3. Len(base) = m /\ p \in 1 .. m
        BY <2>1
      <4> HIDE DEF m, base, log
      <4>4. Displayed(<<>>, base) = Displayed(<<>>, log)
        BY <2>1, <4>1, <4>3, DisplayedSame
      <4> QED
        BY <4>2, <4>4 DEF Agree, log
    <3> QED
      BY <1>3, <3>1, <3>2
  <2> QED
    BY <1>7, <2>2
<1> QED
  BY <1>6, <1>8, <1>9

(* The function in Emitted, for the first n characters. *)
Emitting(f, port, str, n) ==
  f = [k \in 0 .. n |-> IF k = 0 THEN port ELSE EmitExpanded(f[k - 1], str[k])]

LEMMA EmittingExists ==
  ASSUME NEW port, NEW str, NEW n \in Nat
  PROVE  \E f : Emitting(f, port, str, n)
<1> DEFINE Missing == {m \in Nat : ~\E f : Emitting(f, port, str, m)}
<1> SUFFICES ASSUME Missing # {} PROVE FALSE
  OBVIOUS
<1>1. PICK m \in Missing : \A k \in Missing : m <= k
  <2>1. Missing \subseteq Nat
    OBVIOUS
  <2> HIDE DEF Missing
  <2> QED
    BY <2>1, Smallest
<1>2. CASE m = 0
  <2> DEFINE f == [k \in 0 .. 0 |-> port]
  <2>1. Emitting(f, port, str, 0)
    BY DEF Emitting
  <2> QED
    BY <1>1, <1>2, <2>1
<1>3. CASE m # 0
  <2>1. m \in Nat /\ m - 1 \in Nat /\ m - 1 \notin Missing
    BY <1>1, <1>3
  <2>2. PICK f : Emitting(f, port, str, m - 1)
    BY <2>1
  <2> DEFINE g == [k \in 0 .. m |-> IF k = m THEN EmitExpanded(f[m - 1], str[m]) ELSE f[k]]
  <2>3. ASSUME NEW k \in 0 .. m PROVE g[k] = IF k = 0 THEN port ELSE EmitExpanded(g[k - 1], str[k])
    <3>1. CASE k = 0
      BY <2>1, <2>2, <1>3, <3>1 DEF Emitting
    <3>2. CASE k # 0 /\ k = m
      <4>1. m - 1 \in 0 .. m /\ m - 1 # m
        BY <2>1
      <4>2. g[m - 1] = f[m - 1] /\ g[m] = EmitExpanded(f[m - 1], str[m])
        BY <2>1, <4>1
      <4> QED
        BY <3>2, <4>2
    <3>3. CASE k # 0 /\ k # m
      <4>1. k - 1 \in 0 .. m /\ k - 1 # m /\ k \in 0 .. m - 1
        BY <2>1, <3>3
      <4>2. g[k - 1] = f[k - 1] /\ g[k] = f[k]
        BY <3>3, <4>1
      <4>3. f[k] = EmitExpanded(f[k - 1], str[k])
        BY <2>2, <3>3, <4>1 DEF Emitting
      <4> QED
        BY <3>3, <4>2, <4>3
    <3> QED
      BY <3>1, <3>2, <3>3
  <2>4. g = [k \in 0 .. m |-> g[k]]
    OBVIOUS
  <2> HIDE DEF g
  <2>5. Emitting(g, port, str, m)
    BY <2>3, <2>4 DEF Emitting
  <2> QED
    BY <1>1, <2>5
<1> QED
  BY <1>2, <1>3

Emits(f, port, str, n) ==
  /\ Emitted(port, str) = f[n] /\ f[0] = port
  /\ \A k \in 1 .. n : f[k] = EmitExpanded(f[k - 1], str[k])

LEMMA EmittedSteps ==
  ASSUME NEW port, NEW str, NEW n \in Nat, Len(str) = n
  PROVE  \E f : Emits(f, port, str, n)
<1> DEFINE f == CHOOSE f : Emitting(f, port, str, n)
<1>1. Emitting(f, port, str, n)
  BY EmittingExists
<1>2. Emitted(port, str) = f[n]
  BY DEF Emitted, Emitting
<1> HIDE DEF f
<1>3. f[0] = port /\ \A k \in 1 .. n : f[k] = EmitExpanded(f[k - 1], str[k])
  BY <1>1 DEF Emitting
<1> QED
  BY <1>2, <1>3 DEF Emits

LEMMA ExpandedAgrees ==
  ASSUME NEW port \in Ports, Len(port.log) <= LogSize - 1, NEW c \in PortChars
  PROVE  /\ EmitExpanded(port, c) \in Ports
         /\ Len(EmitExpanded(port, c).log) \in 1 .. LogSize - 1
         /\ Agree(port) \/ c \in {CR, LF} => Agree(EmitExpanded(port, c))
<1>1. CASE c # LF
  <2>1. EmitExpanded(port, c) = Emit(port, c)
    BY <1>1 DEF EmitExpanded
  <2> QED
    BY <1>1, <2>1, EmitAgrees
<1>2. CASE c = LF
  <2> DEFINE first == Emit(port, CR)
  <2>1. CR \in PortChars /\ LF \in PortChars /\ LogSize \in Nat
    BY SerialAssumption DEF PortChars
  <2>2. first \in Ports /\ Len(first.log) \in 1 .. LogSize - 1 /\ Agree(first)
    BY <2>1, EmitAgrees
  <2>3. Len(first.log) <= LogSize - 1
    BY <2>1, <2>2
  <2>4. EmitExpanded(port, c) = Emit(first, LF)
    BY <1>2 DEF EmitExpanded
  <2> HIDE DEF first
  <2>5. /\ Emit(first, LF) \in Ports /\ Len(Emit(first, LF).log) \in 1 .. LogSize - 1
        /\ Agree(Emit(first, LF))
    BY <2>1, <2>2, <2>3, EmitAgrees
  <2> QED
    BY <2>4, <2>5
<1> QED
  BY <1>1, <1>2

LinesIn(str) == {CR, LF} \intersect ToSet(str)

(* Whatever is written keeps log and terminal in agreement, and brings     *)
(* them there when it ends a line.                                         *)
LEMMA EmittedAgrees ==
  ASSUME NEW port \in Ports, Len(port.log) <= LogSize - 1, NEW str \in Seq(PortChars), Len(str) # 0
  PROVE  /\ Emitted(port, str) \in Ports
         /\ Len(Emitted(port, str).log) \in 1 .. LogSize - 1
         /\ Agree(port) \/ LinesIn(str) # {} => Agree(Emitted(port, str))
         /\ str[Len(str)] = LF => Emitted(port, str).text = <<>>
<1> DEFINE n == Len(str)
<1>1. n \in Nat /\ n \in 1 .. n /\ \A k \in 1 .. n : str[k] \in PortChars
  OBVIOUS
<1>2. Len(str) = n
  OBVIOUS
<1>3. LogSize \in Nat /\ LogSize >= 2
  BY SerialAssumption
<1> HIDE DEF n
<1>4. PICK f : Emits(f, port, str, n)
  BY <1>1, <1>2, EmittedSteps
<1> DEFINE Good(k) == /\ f[k] \in Ports /\ Len(f[k].log) \in 0 .. LogSize - 1
                      /\ k # 0 => Len(f[k].log) # 0
                      /\ Agree(port) \/ (\E i \in 1 .. k : str[i] \in {CR, LF}) => Agree(f[k])
           Bad == {k \in 0 .. n : ~Good(k)}
<1>5. ASSUME NEW k \in 1 .. n, Good(k - 1) PROVE Good(k)
  <2> DEFINE before == f[k - 1]
  <2>1. before \in Ports /\ Len(before.log) <= LogSize - 1 /\ str[k] \in PortChars
    BY <1>1, <1>3, <1>5
  <2>2. f[k] = EmitExpanded(before, str[k])
    BY <1>4 DEF Emits
  <2>3. Agree(port) \/ (\E i \in 1 .. k : str[i] \in {CR, LF}) => Agree(before) \/ str[k] \in {CR, LF}
    <3>1. \A i \in 1 .. k : i = k \/ i \in 1 .. k - 1
      BY <1>1
    <3> QED
      BY <1>5, <3>1
  <2> HIDE DEF before
  <2>4. /\ f[k] \in Ports /\ Len(f[k].log) \in 1 .. LogSize - 1
        /\ Agree(before) \/ str[k] \in {CR, LF} => Agree(f[k])
    BY <2>1, <2>2, ExpandedAgrees
  <2>5. Len(f[k].log) \in 0 .. LogSize - 1 /\ Len(f[k].log) # 0
    BY <1>3, <2>4
  <2> QED
    BY <2>3, <2>4, <2>5
<1>6. Good(0)
  <2>1. Len(port.log) \in Nat
    BY DEF Ports
  <2> QED
    BY <1>3, <1>4, <2>1 DEF Emits
<1>7. Good(n)
  <2> HIDE DEF Good
  <2> SUFFICES ASSUME Bad # {} PROVE FALSE
    BY <1>1
  <2>1. PICK k \in Bad : \A l \in Bad : k <= l
    <3>1. Bad \subseteq Nat
      OBVIOUS
    <3> HIDE DEF Bad
    <3> QED
      BY <3>1, Smallest
  <2>2. k # 0
    BY <1>6, <2>1
  <2>3. k \in 1 .. n /\ k - 1 \in 0 .. n /\ k - 1 < k
    BY <1>1, <2>1, <2>2
  <2> QED
    BY <1>5, <2>1, <2>3
<1>8. Emitted(port, str) = f[n]
  BY <1>4 DEF Emits
<1>9. LinesIn(str) # {} => \E i \in 1 .. n : str[i] \in {CR, LF}
  BY <1>2 DEF LinesIn, ToSet
<1>10. Len(f[n].log) \in 1 .. LogSize - 1
  BY <1>1, <1>3, <1>7
<1>11. str[n] = LF => f[n].text = <<>>
  <2>1. f[n] = EmitExpanded(f[n - 1], str[n])
    BY <1>1, <1>4 DEF Emits
  <2>2. str[n] = LF => f[n] = Emit(Emit(f[n - 1], CR), LF)
    BY <2>1 DEF EmitExpanded
  <2>3. Emit(f[n - 1], CR).text = <<>>
    BY DEF Emit, Display
  <2> QED
    BY <2>2, <2>3 DEF Emit, Display, CR, LF
<1> QED
  BY <1>2, <1>7, <1>8, <1>9, <1>10, <1>11

(* The echo of a character, and of a correction *)
LEMMA EchoChar ==
  ASSUME NEW log, NEW text, NEW c \in Text
  PROVE  Emitted([log |-> log, text |-> text], <<c>>).text = Append(text, c)
<1> DEFINE port == [log |-> log, text |-> text]
<1>1. Len(<<c>>) = 1 /\ <<c>>[1] = c /\ c # CR /\ c # LF /\ c # BS
  BY SerialAssumption
<1>2. PICK f : Emits(f, port, <<c>>, 1)
  BY <1>1, EmittedSteps
<1>3. Emitted(port, <<c>>) = EmitExpanded(port, c)
  BY <1>1, <1>2 DEF Emits
<1>4. EmitExpanded(port, c).text = Display(text, c)
  BY <1>1 DEF EmitExpanded, Emit
<1> QED
  BY <1>1, <1>3, <1>4 DEF Display

LEMMA EchoErase ==
  ASSUME NEW log, NEW text \in Seq(PortChars)
  PROVE  Emitted([log |-> log, text |-> text], <<BS, Space, BS>>).text = IF text = <<>> THEN <<>> ELSE Front(text)
<1> DEFINE port == [log |-> log, text |-> text]
           str  == <<BS, Space, BS>>
           erased == IF text = <<>> THEN <<>> ELSE Front(text)
<1>1. Len(str) = 3 /\ str[1] = BS /\ str[2] = Space /\ str[3] = BS /\ 3 \in Nat
  OBVIOUS
<1>2. Space # CR /\ Space # LF /\ Space # BS /\ BS # CR /\ BS # LF /\ Space \in PortChars /\ BS \in PortChars
  BY SerialAssumption DEF BS, CR, LF, PortChars
<1> HIDE DEF str
<1>3. PICK f : Emits(f, port, str, 3)
  BY <1>1, EmittedSteps
<1>4. /\ Emitted(port, str) = f[3] /\ f[0] = port
      /\ f[1] = EmitExpanded(f[0], BS) /\ f[2] = EmitExpanded(f[1], Space) /\ f[3] = EmitExpanded(f[2], BS)
  <2>1. 1 \in 1 .. 3 /\ 2 \in 1 .. 3 /\ 3 \in 1 .. 3 /\ 1 - 1 = 0 /\ 2 - 1 = 1 /\ 3 - 1 = 2
    OBVIOUS
  <2> QED
    BY <1>1, <1>3, <2>1 DEF Emits
<1>5. f[1].text = Display(text, BS) /\ f[2].text = Display(f[1].text, Space) /\ f[3].text = Display(f[2].text, BS)
  BY <1>2, <1>4 DEF EmitExpanded, Emit
<1>6. f[1].text = erased
  BY <1>2, <1>5 DEF Display
<1>7. erased \in Seq(PortChars)
  <2>1. Display(text, BS) \in Seq(PortChars)
    BY <1>2, DisplayTypes
  <2> QED
    BY <1>5, <1>6, <2>1
<1> HIDE DEF erased
<1>8. f[2].text = Append(erased, Space)
  BY <1>2, <1>5, <1>6 DEF Display
<1>9. f[3].text = erased
  <2> DEFINE longer == Append(erased, Space)
  <2>1. longer # <<>> /\ Len(longer) - 1 = Len(erased) /\ SubSeq(longer, 1, Len(erased)) = erased
    BY <1>2, <1>7
  <2>2. Front(longer) = erased
    BY <2>1 DEF Front
  <2> HIDE DEF longer
  <2>3. Display(longer, BS) = erased
    BY <1>2, <2>1, <2>2 DEF Display
  <2> QED
    BY <1>5, <1>8, <2>3 DEF longer
<1> QED
  BY <1>4, <1>9 DEF str, erased

-----------------------------------------------------------------------------
(* The serial link: line and terminal *)

EndsWith(s, t) == Len(s) <= Len(t) /\ \A i \in 1 .. Len(s) : s[i] = t[Len(t) - Len(s) + i]

LEMMA EndsWithIsSuffix ==
  ASSUME NEW S, NEW s \in Seq(S), NEW t \in Seq(S), EndsWith(s, t)
  PROVE  IsSuffix(s, t)
<1> DEFINE m == Len(s)
           n == Len(t)
           r == Reverse(s)
           q == Reverse(t)
<1>1. m \in Nat /\ n \in Nat /\ m <= n /\ \A i \in 1 .. m : s[i] = t[n - m + i]
  BY DEF EndsWith
<1>2. /\ r = [i \in 1 .. m |-> s[(m - i) + 1]] /\ q = [i \in 1 .. n |-> t[(n - i) + 1]]
  BY DEF Reverse
<1>3. r \in Seq(S) /\ q \in Seq(S) /\ Len(r) = m /\ Len(q) = n
  <2>1. \A i \in 1 .. m : (m - i) + 1 \in 1 .. m
    BY <1>1
  <2>2. \A i \in 1 .. n : (n - i) + 1 \in 1 .. n
    BY <1>1
  <2>3. (\A i \in 1 .. m : s[i] \in S) /\ (\A i \in 1 .. n : t[i] \in S)
    OBVIOUS
  <2> QED
    BY <1>1, <1>2, <2>1, <2>2, <2>3
<1>4. ASSUME NEW i \in 1 .. m PROVE r[i] = q[i]
  <2>1. (m - i) + 1 \in 1 .. m /\ i \in 1 .. n /\ n - m + ((m - i) + 1) = (n - i) + 1
    BY <1>1
  <2> QED
    BY <1>1, <1>2, <2>1
<1> HIDE DEF r, q, m, n
<1>5. SubSeq(r, 1, m) = SubSeq(q, 1, m)
  BY <1>1, <1>3, <1>4
<1> QED
  BY <1>1, <1>3, <1>5 DEF IsSuffix, IsPrefix, r, q

LEMMA EndsWithAppend ==
  ASSUME NEW S, NEW s \in Seq(S), NEW t \in Seq(S), EndsWith(s, t), NEW c \in S
  PROVE  EndsWith(Append(s, c), Append(t, c))
<1>1. Len(s) \in Nat /\ Len(t) \in Nat /\ Len(s) <= Len(t) /\ \A i \in 1 .. Len(s) : s[i] = t[Len(t) - Len(s) + i]
  BY DEF EndsWith
<1>2. Len(Append(s, c)) = Len(s) + 1 /\ Len(Append(t, c)) = Len(t) + 1
  OBVIOUS
<1>3. ASSUME NEW i \in 1 .. Len(s) + 1
      PROVE  Append(s, c)[i] = Append(t, c)[(Len(t) + 1) - (Len(s) + 1) + i]
  <2>1. CASE i = Len(s) + 1
    <3>1. (Len(t) + 1) - (Len(s) + 1) + i = Len(t) + 1
      BY <1>1, <2>1
    <3>2. Append(s, c)[Len(s) + 1] = c /\ Append(t, c)[Len(t) + 1] = c
      OBVIOUS
    <3> QED
      BY <2>1, <3>1, <3>2
  <2>2. CASE i # Len(s) + 1
    <3> DEFINE j == Len(t) - Len(s) + i
    <3>1. i \in 1 .. Len(s) /\ j \in 1 .. Len(t) /\ (Len(t) + 1) - (Len(s) + 1) + i = j
      BY <1>1, <2>2
    <3>2. s[i] = t[j]
      BY <1>1, <3>1
    <3> HIDE DEF j
    <3> QED
      BY <3>1, <3>2
  <2> QED
    BY <2>1, <2>2
<1> QED
  BY <1>1, <1>2, <1>3, SMTT(30) DEF EndsWith

LEMMA FrontFacts ==
  ASSUME NEW S, NEW s \in Seq(S), NEW n \in Nat, Len(s) = n + 1, NEW front, front = Front(s)
  PROVE  front \in Seq(S) /\ Len(front) = n /\ \A i \in 1 .. n : front[i] = s[i]
<1>1. Front(s) = SubSeq(s, 1, n)
  BY DEF Front
<1> QED
  BY <1>1

LEMMA EndsWithFront ==
  ASSUME NEW S, NEW s \in Seq(S), NEW t \in Seq(S), EndsWith(s, t), t # <<>>
  PROVE  EndsWith(IF s = <<>> THEN <<>> ELSE Front(s), Front(t))
<1> DEFINE m == Len(s) - 1
           n == Len(t) - 1
           shorter == Front(s)
           whole   == Front(t)
<1>1. n \in Nat /\ Len(t) = n + 1 /\ m + 1 \in Nat /\ m \in Int /\ Len(s) = m + 1 /\ m <= n
  BY EmptySeq DEF EndsWith
<1>2. \A i \in 1 .. Len(s) : s[i] = t[Len(t) - Len(s) + i]
  BY DEF EndsWith
<1>3. shorter = Front(s) /\ whole = Front(t)
  OBVIOUS
<1> HIDE DEF m, n, shorter, whole
<1>4. Len(whole) = n /\ \A i \in 1 .. n : whole[i] = t[i]
  BY <1>1, <1>3, FrontFacts
<1>5. CASE s = <<>>
  <2>1. EndsWith(<<>>, whole)
    BY <1>1, <1>4 DEF EndsWith
  <2> QED
    BY <1>3, <1>5, <2>1
<1>6. CASE s # <<>>
  <2>1. m \in Nat
    <3>1. Len(s) # 0
      BY <1>6
    <3> QED
      BY <1>1, <3>1
  <2>2. Len(shorter) = m /\ \A i \in 1 .. m : shorter[i] = s[i]
    BY <1>1, <1>3, <2>1, FrontFacts
  <2>3. ASSUME NEW i \in 1 .. m PROVE shorter[i] = whole[n - m + i]
    <3>1. i \in 1 .. Len(s) /\ n - m + i \in 1 .. n /\ Len(t) - Len(s) + i = n - m + i
      BY <1>1, <2>1
    <3>2. s[i] = t[n - m + i]
      BY <1>2, <3>1
    <3> QED
      BY <1>4, <2>2, <3>1, <3>2
  <2>4. EndsWith(shorter, whole)
    BY <1>1, <1>4, <2>2, <2>3 DEF EndsWith
  <2> QED
    BY <1>3, <1>6, <2>4
<1> QED
  BY <1>5, <1>6

EndsLine(str) == str \in Seq(PortChars) /\ Len(str) # 0 /\ str[Len(str)] = LF

LEMMA EndsLineBehind ==
  ASSUME NEW s \in Seq(PortChars), NEW t, EndsLine(t)
  PROVE  EndsLine(s \o t)
<1>1. t \in Seq(PortChars) /\ Len(s) \in Nat /\ Len(t) \in Nat \ {0} /\ t[Len(t)] = LF
  BY DEF EndsLine
<1>2. s \o t \in Seq(PortChars) /\ Len(s \o t) = Len(s) + Len(t)
  BY <1>1
<1>3. (s \o t)[Len(s) + Len(t)] = t[Len(t)]
  BY <1>1
<1> QED
  BY <1>1, <1>2, <1>3 DEF EndsLine

LEMMA TextChars ==
  ASSUME NEW s \in Seq(Text)
  PROVE  s \in Seq(PortChars)
<1>1. Text \subseteq PortChars
  BY DEF PortChars
<1> QED
  BY <1>1

LEMMA SkippedStays ==
  ASSUME NEW S, NEW str \in Seq(S)
  PROVE  SkipSpaces(str) \in Seq(S)
<1> DEFINE n == Len(str)
           Places == {i \in DOMAIN str : str[i] # Space} \union {n + 1}
<1>1. n \in Nat /\ Places \subseteq 1 .. n + 1 /\ Places # {}
  OBVIOUS
<1>2. SkipSpaces(str) = SubSeq(str, Min(Places), n)
  BY DEF SkipSpaces
<1> HIDE DEF Places
<1>3. \E i \in Places : \A j \in Places : i <= j
  <2>1. Places \subseteq Nat
    BY <1>1
  <2> QED
    BY <1>1, <2>1, Smallest
<1>4. Min(Places) \in Places
  BY <1>3 DEF Min
<1>5. Min(Places) \in 1 .. n + 1
  BY <1>1, <1>4
<1> QED
  BY <1>1, <1>2, <1>5

(* Every answer is text the port takes, and ends its line. *)
LEMMA MessageEnds ==
  ASSUME NEW msg \in Seq(PortChars)
  PROVE  EndsLine(Message(msg))
<1>1. <<"guest_message">> \in Seq(PortChars)
  BY DEF PortChars
<1>2. EndsLine(<<CR, LF>>)
  BY DEF EndsLine, PortChars
<1>3. <<"guest_message">> \o msg \in Seq(PortChars)
  BY <1>1
<1> QED
  BY <1>2, <1>3, EndsLineBehind DEF Message

LEMMA CatenateEnds ==
  ASSUME NEW name \in Seq(PortChars)
  PROVE  EndsLine(Catenate(name))
<1>1. CASE name \in DOMAIN Files
  <2> DEFINE first == <<"begin_of">> \o name
             second == first \o <<"begins", CR, LF>>
             third == second \o Files[name]
  <2>1. <<"begin_of">> \in Seq(PortChars) /\ <<"begins", CR, LF>> \in Seq(PortChars)
    BY DEF PortChars
  <2>2. Files[name] \in Seq(PortChars)
    <3>1. Files[name] \in Seq(ToSet(Files[name]))
      BY <1>1, SerialAssumption
    <3>2. ToSet(Files[name]) \subseteq PortChars
      BY <1>1 DEF PortChars
    <3> QED
      BY <3>1, <3>2
  <2>3. EndsLine(<<"end_of_file", CR, LF>>)
    BY DEF EndsLine, PortChars
  <2>4. Catenate(name) = third \o <<"end_of_file", CR, LF>>
    BY <1>1 DEF Catenate
  <2>5. first \in Seq(PortChars)
    BY <2>1
  <2> HIDE DEF first
  <2>6. second \in Seq(PortChars)
    BY <2>1, <2>5
  <2> HIDE DEF second
  <2>7. third \in Seq(PortChars)
    BY <2>2, <2>6
  <2> HIDE DEF third
  <2> QED
    BY <2>3, <2>4, <2>7, EndsLineBehind
<1>2. CASE name \notin DOMAIN Files
  <2>1. <<"file">> \o name \in Seq(PortChars)
    <3>1. <<"file">> \in Seq(PortChars)
      BY DEF PortChars
    <3> QED
      BY <3>1
  <2>2. EndsLine(<<"not_found", CR, LF>>)
    BY DEF EndsLine, PortChars
  <2>3. Catenate(name) = (<<"file">> \o name) \o <<"not_found", CR, LF>>
    BY <1>2 DEF Catenate
  <2> QED
    BY <2>1, <2>2, <2>3, EndsLineBehind
<1> QED
  BY <1>1, <1>2

LEMMA AnswerEnds ==
  ASSUME NEW cmd \in Seq(Text)
  PROVE  EndsLine(Answer(cmd))
<1> DEFINE p == SkipSpaces(cmd)
<1>1. p \in Seq(Text)
  BY SkippedStays
<1> HIDE DEF p
<1>2. CASE p # <<>> /\ Head(p) = Cat
  <2>1. SkipSpaces(Tail(p)) \in Seq(Text)
    <3>1. Tail(p) \in Seq(Text)
      BY <1>1, <1>2
    <3> QED
      BY <3>1, SkippedStays
  <2>2. Answer(cmd) = Catenate(SkipSpaces(Tail(p)))
    BY <1>2 DEF Answer, p
  <2>3. EndsLine(Catenate(SkipSpaces(Tail(p))))
    BY <2>1, TextChars, CatenateEnds
  <2> QED
    BY <2>2, <2>3
<1>3. CASE ~(p # <<>> /\ Head(p) = Cat) /\ p # <<>> /\ Head(p) = Send
  <2>1. Tail(p) \in Seq(Text)
    BY <1>1, <1>3
  <2>2. Answer(cmd) = Message(Tail(p))
    BY <1>3 DEF Answer, p
  <2>3. EndsLine(Message(Tail(p)))
    BY <2>1, TextChars, MessageEnds
  <2> QED
    BY <2>2, <2>3
<1>4. CASE ~(p # <<>> /\ Head(p) = Cat) /\ ~(p # <<>> /\ Head(p) = Send)
  <2>1. p \in Seq(PortChars)
    BY <1>1, TextChars
  <2>2. <<"command">> \o p \in Seq(PortChars)
    <3>1. <<"command">> \in Seq(PortChars)
      BY DEF PortChars
    <3> QED
      BY <2>1, <3>1
  <2>3. EndsLine(<<"invalid", CR, LF, "usage", CR, LF>>)
    BY DEF EndsLine, PortChars
  <2>4. Answer(cmd) = (<<"command">> \o p) \o <<"invalid", CR, LF, "usage", CR, LF>>
    BY <1>4 DEF Answer, p
  <2> QED
    BY <2>2, <2>3, <2>4, EndsLineBehind
<1> QED
  BY <1>2, <1>3, <1>4

-----------------------------------------------------------------------------
(* The serial link: the invariant *)

Port == [log |-> serial_log_buf, text |-> shown]

LinkTypes ==
  /\ fifo \in Seq(HostBytes)
  /\ rx_buf \in Seq(Text) /\ Len(rx_buf) <= RxBufSize - 1
  /\ serial_log_buf \in Seq(PortChars) /\ Len(serial_log_buf) \in 1 .. LogSize - 1
  /\ shown \in Seq(PortChars) /\ serial_guest_idx \in 0 .. MaxGuest
  /\ intact \in BOOLEAN

LinkInv ==
  /\ LinkTypes
  /\ intact => Agree(Port) /\ EndsWith(shown, rx_buf) /\ (quiet => shown = rx_buf)

Wrote(str) ==
  /\ serial_log_buf' \in Seq(PortChars) /\ Len(serial_log_buf') \in 1 .. LogSize - 1
  /\ shown' \in Seq(PortChars) /\ intact' \in BOOLEAN
  /\ intact' => /\ intact \/ LinesIn(str) # {}
                /\ Agree(Port') /\ shown' = Emitted(Port, str).text

LEMMA WriteAgrees ==
  ASSUME LinkInv, NEW str \in Seq(PortChars), Len(str) # 0, NEW transmitted \in BOOLEAN, Write(str, transmitted)
  PROVE  /\ Wrote(str)
         /\ intact' /\ str[Len(str)] = LF => shown' = <<>>
<1> DEFINE next == Emitted(Port, str)
<1>1. LogSize \in Nat /\ Port \in Ports /\ Len(Port.log) <= LogSize - 1
  BY SerialAssumption DEF LinkInv, LinkTypes, Port, Ports
<1>2. /\ next \in Ports /\ Len(next.log) \in 1 .. LogSize - 1
      /\ Agree(Port) \/ LinesIn(str) # {} => Agree(next)
      /\ str[Len(str)] = LF => next.text = <<>>
  BY <1>1, EmittedAgrees
<1>3. /\ serial_log_buf' = next.log
      /\ IF transmitted
         THEN shown' = next.text /\ intact' = (intact \/ {CR, LF} \intersect ToSet(str) # {})
         ELSE shown' = shown /\ intact' = FALSE
  BY DEF Write, Port
<1> HIDE DEF next
<1>4. serial_log_buf' \in Seq(PortChars) /\ Len(serial_log_buf') \in 1 .. LogSize - 1
  BY <1>2, <1>3 DEF Ports
<1>5. CASE transmitted
  <2>1. shown' = next.text /\ (intact' <=> intact \/ LinesIn(str) # {}) /\ intact' \in BOOLEAN
    BY <1>3, <1>5 DEF LinesIn
  <2>2. intact' => Agree(next)
    BY <1>2, <2>1 DEF LinkInv
  <2>3. Port'.log = next.log /\ Port'.text = next.text
    BY <1>3, <2>1 DEF Port
  <2>4. intact' => Agree(Port')
    BY <2>2, <2>3 DEF Agree
  <2>5. shown' \in Seq(PortChars)
    BY <1>2, <2>1 DEF Ports
  <2> QED
    BY <1>2, <1>4, <2>1, <2>4, <2>5 DEF Wrote, next
<1>6. CASE ~transmitted
  BY <1>3, <1>4, <1>6 DEF Wrote, LinkInv, LinkTypes
<1> QED
  BY <1>5, <1>6

Untouched == UNCHANGED <<rx_buf, serial_log_buf, shown, intact, quiet>>

LEMMA UntouchedKept ==
  ASSUME LinkInv, Untouched, fifo' \in Seq(HostBytes), serial_guest_idx' \in 0 .. MaxGuest
  PROVE  LinkInv'
<1>1. Port' = Port
  BY DEF Untouched, Port
<1>2. LinkTypes'
  BY DEF Untouched, LinkInv, LinkTypes
<1>3. intact' => Agree(Port)' /\ EndsWith(shown, rx_buf)' /\ (quiet' => shown' = rx_buf')
  BY <1>1 DEF Untouched, LinkInv, Agree, EndsWith
<1> QED
  BY <1>2, <1>3 DEF LinkInv

(* A line is answered or a message is sent: the terminal's line is empty.  *)
LEMMA LineKept ==
  ASSUME LinkInv, NEW str, EndsLine(str), NEW transmitted \in BOOLEAN, Write(str, transmitted),
         fifo' \in Seq(HostBytes), serial_guest_idx' \in 0 .. MaxGuest,
         rx_buf' = <<>> \/ (rx_buf' = rx_buf /\ ~quiet')
  PROVE  LinkInv'
<1>1. Wrote(str) /\ (intact' => shown' = <<>>)
  BY WriteAgrees DEF EndsLine
<1>2. RxBufSize \in Nat /\ RxBufSize >= 2
  BY SerialAssumption
<1>3. rx_buf' \in Seq(Text) /\ Len(rx_buf') <= RxBufSize - 1
  <2>1. CASE rx_buf' = <<>>
    BY <1>2, <2>1
  <2>2. CASE rx_buf' = rx_buf
    BY <2>2 DEF LinkInv, LinkTypes
  <2> QED
    BY <2>1, <2>2
<1>4. LinkTypes'
  BY <1>1, <1>3 DEF LinkTypes, Wrote
<1>5. intact' => Agree(Port')
  BY <1>1 DEF Wrote
<1>6. intact' => EndsWith(shown', rx_buf')
  BY <1>1, <1>3 DEF EndsWith
<1>7. intact' /\ quiet' => shown' = rx_buf'
  BY <1>1
<1> QED
  BY <1>4, <1>5, <1>6, <1>7 DEF LinkInv, Agree, Port, EndsWith

LEMMA CharKept ==
  ASSUME LinkInv, NEW c \in Text, NEW transmitted \in BOOLEAN, AddChar(c, transmitted),
         fifo' \in Seq(HostBytes), serial_guest_idx' \in 0 .. MaxGuest
  PROVE  LinkInv'
<1>1. CASE ~(Len(rx_buf) < RxBufSize - 1)
  <2>1. Untouched
    BY <1>1 DEF AddChar, Untouched
  <2> QED
    BY <2>1, UntouchedKept
<1>2. CASE Len(rx_buf) < RxBufSize - 1
  <2>1. Write(<<c>>, transmitted) /\ rx_buf' = Append(rx_buf, c) /\ quiet' = quiet
    BY <1>2 DEF AddChar
  <2>2. c \in PortChars /\ c # CR /\ c # LF /\ <<c>> \in Seq(PortChars) /\ Len(<<c>>) # 0
    BY SerialAssumption DEF PortChars
  <2>3. Wrote(<<c>>)
    BY <2>1, <2>2, WriteAgrees
  <2>4. LinesIn(<<c>>) = {}
    BY <2>2 DEF LinesIn, ToSet
  <2>5. Emitted(Port, <<c>>).text = Append(shown, c)
    BY EchoChar DEF Port
  <2>6. intact' => intact /\ Agree(Port') /\ shown' = Append(shown, c)
    BY <2>3, <2>4, <2>5 DEF Wrote
  <2>7. rx_buf \in Seq(PortChars) /\ shown \in Seq(PortChars)
    BY TextChars DEF LinkInv, LinkTypes
  <2>8. intact' => EndsWith(shown', rx_buf')
    <3>1. intact => EndsWith(shown, rx_buf)
      BY DEF LinkInv
    <3>2. intact => EndsWith(Append(shown, c), Append(rx_buf, c))
      BY <2>2, <2>7, <3>1, EndsWithAppend
    <3> QED
      BY <2>1, <2>6, <3>2
  <2>9. intact' /\ quiet' => shown' = rx_buf'
    BY <2>1, <2>6 DEF LinkInv
  <2>10. rx_buf' \in Seq(Text) /\ Len(rx_buf') <= RxBufSize - 1
    <3>1. Len(rx_buf') = Len(rx_buf) + 1 /\ Len(rx_buf) \in Nat /\ rx_buf' \in Seq(Text)
      BY <2>1 DEF LinkInv, LinkTypes
    <3> QED
      BY <1>2, <3>1, SerialAssumption
  <2>11. LinkTypes'
    BY <2>3, <2>10 DEF LinkTypes, Wrote
  <2> QED
    BY <2>6, <2>8, <2>9, <2>11 DEF LinkInv, Agree, Port, EndsWith
<1> QED
  BY <1>1, <1>2

LEMMA EraseKept ==
  ASSUME LinkInv, NEW transmitted \in BOOLEAN, EraseLast(transmitted),
         fifo' \in Seq(HostBytes), serial_guest_idx' \in 0 .. MaxGuest
  PROVE  LinkInv'
<1>1. CASE rx_buf = <<>>
  <2>1. Untouched
    BY <1>1 DEF EraseLast, Untouched
  <2> QED
    BY <2>1, UntouchedKept
<1>2. CASE rx_buf # <<>>
  <2> DEFINE str == <<BS, Space, BS>>
             erased == IF shown = <<>> THEN <<>> ELSE Front(shown)
  <2>1. Write(str, transmitted) /\ rx_buf' = Front(rx_buf) /\ quiet' = quiet
    BY <1>2 DEF EraseLast
  <2>2. str \in Seq(PortChars) /\ Len(str) # 0
    BY SerialAssumption DEF PortChars
  <2>3. LinesIn(str) = {}
    <3>1. Space # CR /\ Space # LF /\ BS # CR /\ BS # LF
      BY SerialAssumption DEF BS, CR, LF
    <3>2. ToSet(str) = {BS, Space}
      BY DEF ToSet
    <3> QED
      BY <3>1, <3>2 DEF LinesIn
  <2>4. rx_buf \in Seq(PortChars) /\ shown \in Seq(PortChars)
    BY TextChars DEF LinkInv, LinkTypes
  <2>5. Emitted(Port, str).text = erased
    BY <2>4, EchoErase DEF Port
  <2> HIDE DEF str
  <2>6. Wrote(str)
    BY <2>1, <2>2, WriteAgrees
  <2> HIDE DEF erased
  <2>7. intact' => intact /\ Agree(Port') /\ shown' = erased
    BY <2>3, <2>5, <2>6 DEF Wrote
  <2>8. intact => EndsWith(erased, Front(rx_buf))
    BY <1>2, <2>4, EndsWithFront DEF LinkInv, erased
  <2>9. intact' => EndsWith(shown', rx_buf')
    BY <2>1, <2>7, <2>8
  <2>10. intact' /\ quiet' => shown' = rx_buf'
    <3>1. intact /\ quiet => shown = rx_buf
      BY DEF LinkInv
    <3> QED
      BY <1>2, <2>1, <2>7, <3>1 DEF erased
  <2>11. rx_buf' \in Seq(Text) /\ Len(rx_buf') <= RxBufSize - 1
    <3> DEFINE n == Len(rx_buf) - 1
               shorter == Front(rx_buf)
    <3>1. rx_buf \in Seq(Text) /\ Len(rx_buf) <= RxBufSize - 1
      BY DEF LinkInv, LinkTypes
    <3>2. n \in Nat /\ Len(rx_buf) = n + 1 /\ n <= RxBufSize - 1
      BY <1>2, <3>1, EmptySeq, SerialAssumption
    <3>3. shorter = Front(rx_buf)
      OBVIOUS
    <3> HIDE DEF n, shorter
    <3>4. shorter \in Seq(Text) /\ Len(shorter) = n
      BY <3>1, <3>2, <3>3, FrontFacts
    <3> QED
      BY <2>1, <3>2, <3>3, <3>4
  <2>12. LinkTypes'
    BY <2>6, <2>11 DEF LinkTypes, Wrote
  <2> QED
    BY <2>7, <2>9, <2>10, <2>12 DEF LinkInv, Agree, Port, EndsWith
<1> QED
  BY <1>1, <1>2

LEMMA EndLineKept ==
  ASSUME LinkInv, NEW transmitted \in BOOLEAN, EndLine(transmitted),
         fifo' \in Seq(HostBytes), serial_guest_idx' \in 0 .. MaxGuest
  PROVE  LinkInv'
<1>1. CASE rx_buf = <<>>
  <2>1. Untouched
    BY <1>1 DEF EndLine, Untouched
  <2> QED
    BY <2>1, UntouchedKept
<1>2. CASE rx_buf # <<>>
  <2> DEFINE str == <<CR, LF>> \o Answer(rx_buf)
  <2>1. Write(str, transmitted) /\ rx_buf' = <<>>
    BY <1>2 DEF EndLine
  <2>2. EndsLine(str)
    <3>1. EndsLine(Answer(rx_buf))
      BY AnswerEnds DEF LinkInv, LinkTypes
    <3>2. <<CR, LF>> \in Seq(PortChars)
      BY DEF PortChars
    <3> QED
      BY <3>1, <3>2, EndsLineBehind
  <2> HIDE DEF str
  <2> QED
    BY <2>1, <2>2, LineKept
<1> QED
  BY <1>1, <1>2

LEMMA LinkKept == LinkInv /\ [NextSerial]_serialVars => LinkInv'
<1> SUFFICES ASSUME LinkInv, [NextSerial]_serialVars PROVE LinkInv'
  OBVIOUS
<1>1. fifo \in Seq(HostBytes) /\ serial_guest_idx \in 0 .. MaxGuest
  BY DEF LinkInv, LinkTypes
<1>2. CASE UNCHANGED serialVars
  <2>1. Untouched /\ fifo' = fifo /\ serial_guest_idx' = serial_guest_idx
    BY <1>2 DEF serialVars, Untouched
  <2> QED
    BY <1>1, <2>1, UntouchedKept
<1>3. CASE \E c \in HostBytes : HostSends(c)
  <2>1. PICK c \in HostBytes : HostSends(c)
    BY <1>3
  <2>2. Untouched /\ serial_guest_idx' = serial_guest_idx /\ fifo' \in Seq(HostBytes)
    BY <1>1, <2>1 DEF HostSends, Untouched
  <2> QED
    BY <1>1, <2>2, UntouchedKept
<1>4. CASE GuestTypes \/ GuestErases
  <2>1. MaxGuest \in Nat
    BY SerialAssumption
  <2>2. Untouched /\ fifo' = fifo /\ serial_guest_idx' \in 0 .. MaxGuest
    BY <1>1, <1>4, <2>1 DEF GuestTypes, GuestErases, Untouched
  <2> QED
    BY <1>1, <2>2, UntouchedKept
<1>5. ASSUME NEW transmitted \in BOOLEAN, GuestSends(transmitted) PROVE LinkInv'
  <2> DEFINE msg == [i \in 1 .. serial_guest_idx |-> "guest"]
  <2>1. msg \in Seq(PortChars)
    <3>1. serial_guest_idx \in Nat /\ "guest" \in PortChars
      BY <1>1, SerialAssumption DEF PortChars
    <3> QED
      BY <3>1
  <2>2. /\ Write(Message(msg), transmitted) /\ ~quiet' /\ rx_buf' = rx_buf /\ fifo' = fifo
        /\ serial_guest_idx' \in 0 .. MaxGuest
    <3>1. Write(Message(msg), transmitted) /\ ~quiet' /\ rx_buf' = rx_buf /\ fifo' = fifo /\ serial_guest_idx' = 0
      BY <1>5 DEF GuestSends
    <3>2. MaxGuest \in Nat
      BY SerialAssumption
    <3> QED
      BY <3>1, <3>2
  <2> HIDE DEF msg
  <2>3. EndsLine(Message(msg))
    BY <2>1, MessageEnds
  <2> QED
    BY <1>1, <2>2, <2>3, LineKept
<1>6. ASSUME NEW transmitted \in BOOLEAN, SerialPoll(transmitted) PROVE LinkInv'
  <2> DEFINE c == Head(fifo)
  <2>1. fifo # <<>> /\ fifo' = Tail(fifo) /\ serial_guest_idx' = serial_guest_idx
    BY <1>6 DEF SerialPoll
  <2>2. fifo' \in Seq(HostBytes) /\ serial_guest_idx' \in 0 .. MaxGuest
    BY <1>1, <2>1
  <2>3. \/ Untouched \/ EndLine(transmitted) \/ EraseLast(transmitted)
        \/ c \in Text /\ AddChar(c, transmitted)
    BY <1>6 DEF SerialPoll, Untouched
  <2> HIDE DEF c
  <2> QED
    BY <2>2, <2>3, UntouchedKept, EndLineKept, EraseKept, CharKept
<1> QED
  BY <1>2, <1>3, <1>4, <1>5, <1>6 DEF NextSerial

LEMMA LinkInit == InitSerial => LinkInv
<1> SUFFICES ASSUME InitSerial PROVE LinkInv
  OBVIOUS
<1> DEFINE start == [log |-> <<>>, text |-> <<>>]
           boot  == <<"boot_message", LF>>
<1>1. LogSize \in Nat /\ LogSize >= 2 /\ RxBufSize \in Nat /\ RxBufSize >= 2 /\ MaxGuest \in Nat
  BY SerialAssumption
<1>2. start \in Ports /\ Len(start.log) <= LogSize - 1
  BY <1>1 DEF Ports
<1>3. Agree(start)
  BY DEF Agree, ToSet
<1>4. boot \in Seq(PortChars) /\ Len(boot) # 0 /\ boot[Len(boot)] = LF
  BY DEF PortChars
<1>5. Booted = Emitted(start, boot)
  BY DEF Booted
<1> HIDE DEF start, boot
<1>6. Booted \in Ports /\ Len(Booted.log) \in 1 .. LogSize - 1 /\ Agree(Booted) /\ Booted.text = <<>>
  BY <1>2, <1>3, <1>4, <1>5, EmittedAgrees
<1>7. serial_log_buf = Booted.log /\ shown = Booted.text /\ rx_buf = <<>> /\ fifo = <<>>
      /\ serial_guest_idx = 0 /\ intact = TRUE
  BY DEF InitSerial
<1>8. Agree(Port)
  BY <1>6, <1>7 DEF Agree, Port
<1>9. EndsWith(shown, rx_buf) /\ shown = rx_buf
  BY <1>6, <1>7 DEF EndsWith
<1>10. LinkTypes
  BY <1>1, <1>6, <1>7 DEF LinkTypes, Ports
<1> QED
  BY <1>8, <1>9, <1>10 DEF LinkInv

(* What the host's terminal shows, what the log gives when it is played to *)
(* a terminal like it, and what the command interpreter will execute are   *)
(* the same line, whatever is lost in the receiver, typed too much,        *)
(* corrected or written in between; and the log and both lines stay in     *)
(* their buffers.                                                          *)
THEOREM BothEndsAlwaysAgree == SpecSerial => []BothEndsAgree
<1>1. LinkInv => BothEndsAgree
  <2> SUFFICES ASSUME LinkInv PROVE BothEndsAgree
    OBVIOUS
  <2>1. rx_buf \in Seq(PortChars) /\ shown \in Seq(PortChars)
    BY TextChars DEF LinkInv, LinkTypes
  <2>2. EchoShowsLine
    BY <2>1, EndsWithIsSuffix DEF LinkInv, EchoShowsLine
  <2>3. LogRepeatsLine
    BY DEF LinkInv, Agree, Port, LogRepeatsLine
  <2>4. ToSet(rx_buf) \subseteq Text
    BY DEF LinkInv, LinkTypes, ToSet
  <2> QED
    BY <2>2, <2>3, <2>4 DEF LinkInv, LinkTypes, BothEndsAgree
<1> QED
  BY <1>1, LinkInit, LinkKept, PTL DEF SpecSerial

==============================================================================
