---------------------------- MODULE NetworkProofs ----------------------------
(***************************************************************************)
(* The driver never loses its place in the receive ring and never gives    *)
(* back room that holds an unread frame, for a ring of any size, frames of *)
(* any length it takes, and any number of them.                            *)
(*                                                                         *)
(* The argument: give every frame the place it would have in a ring that   *)
(* never ends, in words.  Places only grow, the card's is less than one    *)
(* ring ahead of the driver's, and the real ring holds what lies between   *)
(* them modulo its size; two places less than a ring apart never meet.     *)
(***************************************************************************)
EXTENDS Network, FiniteSetTheorems, TLAPS

-----------------------------------------------------------------------------
(* Arithmetic modulo the size of the ring *)

LEMMA DivMod ==
  ASSUME NEW a \in Int, NEW N \in Int, N > 0
  PROVE  a \div N \in Int /\ a % N \in 0 .. N - 1 /\ a = N * (a \div N) + (a % N)
<1>1. a % N \in 0 .. N - 1
  OBVIOUS
<1>2. a \div N \in Int
  OBVIOUS
<1>3. a = N * (a \div N) + (a % N)
  OBVIOUS
<1> QED
  BY <1>1, <1>2, <1>3

LEMMA ModUnique ==
  ASSUME NEW q \in Int, NEW N \in Int, N > 0, NEW r \in 0 .. N - 1
  PROVE  (N * q + r) % N = r
  OBVIOUS

LEMMA ModAdd ==
  ASSUME NEW a \in Int, NEW b \in Int, NEW N \in Int, N > 0
  PROVE  ((a % N) + b) % N = (a + b) % N
<1> DEFINE p == a \div N
           q == ((a % N) + b) \div N
           r == ((a % N) + b) % N
<1>1. p \in Int /\ a % N \in Int /\ a = N * p + (a % N)
  BY DivMod
<1>2. q \in Int /\ r \in 0 .. N - 1 /\ (a % N) + b = N * q + r
  BY <1>1, DivMod
<1> HIDE DEF p, q, r
<1>3. a + b = N * (p + q) + r
  BY <1>1, <1>2
<1>4. p + q \in Int
  BY <1>1, <1>2
<1>5. (N * (p + q) + r) % N = r
  BY <1>2, <1>4, ModUnique
<1> QED
  BY <1>3, <1>5 DEF r

(* The distance between two places in the ring is that between the places. *)
LEMMA ModSub ==
  ASSUME NEW a \in Int, NEW N \in Int, N > 0, NEW i \in 0 .. N - 1
  PROVE  (((a + i) % N) - (a % N)) % N = i
<1> DEFINE p == a \div N
           q == (a + i) \div N
           r == (a + i) % N
<1>1. p \in Int /\ a % N \in Int /\ a = N * p + (a % N)
  BY DivMod
<1>2. q \in Int /\ r \in Int /\ a + i = N * q + r
  BY DivMod
<1> HIDE DEF p, q, r
<1>3. r - (a % N) = N * (p - q) + i
  BY <1>1, <1>2
<1>4. p - q \in Int
  BY <1>1, <1>2
<1>5. (N * (p - q) + i) % N = i
  BY <1>4, ModUnique
<1> QED
  BY <1>3, <1>5 DEF r

(* A place of the ring is found again from its distance. *)
LEMMA ModBack ==
  ASSUME NEW a \in Int, NEW N \in Int, N > 0, NEW w \in 0 .. N - 1
  PROVE  w = (a + ((w - (a % N)) % N)) % N
<1> DEFINE p == a \div N
           q == (w - (a % N)) \div N
           r == (w - (a % N)) % N
<1>1. p \in Int /\ a % N \in Int /\ a = N * p + (a % N)
  BY DivMod
<1>2. q \in Int /\ r \in Int /\ w - (a % N) = N * q + r
  BY <1>1, DivMod
<1> HIDE DEF p, q, r
<1>3. a + r = N * (p - q) + w
  BY <1>1, <1>2
<1>4. p - q \in Int
  BY <1>1, <1>2
<1>5. (N * (p - q) + w) % N = w
  BY <1>4, ModUnique
<1> QED
  BY <1>3, <1>5 DEF r

(* Two places less than a ring apart do not meet. *)
LEMMA ModDistinct ==
  ASSUME NEW a \in Int, NEW b \in Int, NEW N \in Int, N > 0, a < b, b - a < N
  PROVE  a % N # b % N
<1> DEFINE p == a \div N
           q == b \div N
<1>1. p \in Int /\ q \in Int /\ a % N \in Int /\ b % N \in Int
  BY DivMod
<1>2. a = N * p + (a % N) /\ b = N * q + (b % N)
  BY DivMod
<1> HIDE DEF p, q
<1> SUFFICES ASSUME a % N = b % N PROVE FALSE
  OBVIOUS
<1>3. b - a = N * (q - p)
  BY <1>1, <1>2
<1>4. CASE q - p >= 1
  <2>1. N * (q - p) >= N
    BY <1>1, <1>4
  <2> QED
    BY <1>1, <1>3, <2>1
<1>5. CASE p - q >= 0
  <2>1. N * (p - q) >= 0
    BY <1>1, <1>5
  <2>2. N * (q - p) = -(N * (p - q))
    BY <1>1
  <2> QED
    BY <1>1, <1>3, <2>1, <2>2
<1> QED
  BY <1>1, <1>4, <1>5

(* Counting in bytes what was counted in words. *)
LEMMA ModBytes ==
  ASSUME NEW x \in Int, NEW N \in Int, N > 0
  PROVE  (4 * x) % (4 * N) = 4 * (x % N)
<1> DEFINE p == x \div N
           r == x % N
<1>1. p \in Int /\ r \in 0 .. N - 1 /\ x = N * p + r
  BY DivMod
<1> HIDE DEF p, r
<1>2. 4 * x = (4 * N) * p + 4 * r /\ 4 * r \in 0 .. 4 * N - 1 /\ 4 * N \in Int /\ 4 * N > 0
  BY <1>1
<1>3. (4 * x) % (4 * N) = 4 * r
  BY <1>1, <1>2, ModUnique
<1> QED
  BY <1>3 DEF r

(* What the register holds, less 16 and modulo its width, is the offset    *)
(* again modulo the ring's size.                                           *)
LEMMA RegisterKeepsOffset ==
  ASSUME NEW x \in 0 .. RingSize - 1
  PROVE  /\ (x - 16) % RegisterSize \in 0 .. RegisterSize - 1
         /\ (((x - 16) % RegisterSize) + 16) % RingSize = x
<1> DEFINE k == RegisterSize \div RingSize
           q == (x - 16) \div RegisterSize
           r == (x - 16) % RegisterSize
<1>1. RingSize \in Int /\ RingSize > 0 /\ RegisterSize \in Int /\ RegisterSize > 0 /\ x \in Int
  BY NetworkAssumption
<1>2. k \in Int /\ RegisterSize = RingSize * k
  BY <1>1, DivMod, NetworkAssumption
<1>3. q \in Int /\ r \in 0 .. RegisterSize - 1 /\ x - 16 = RegisterSize * q + r
  BY <1>1, DivMod
<1> HIDE DEF k, q
<1>4. r + 16 = RingSize * (-(k * q)) + x
  <2>1. RegisterSize * q = RingSize * (k * q)
    BY <1>1, <1>2, <1>3
  <2>2. k * q \in Int
    BY <1>2, <1>3
  <2>3. RingSize * (-(k * q)) = -(RingSize * (k * q))
    BY <1>1, <2>2
  <2> QED
    BY <1>1, <1>3, <2>1, <2>2, <2>3
<1>5. -(k * q) \in Int
  BY <1>2, <1>3
<1> QED
  BY <1>1, <1>3, <1>4, <1>5, ModUnique

-----------------------------------------------------------------------------
(* The invariant *)

R == RingSize \div 4                               \* words of the ring
SizeOf(n) == InWords(received[n].length + 4)       \* words of a stored frame

(* The frames whose room was given back. *)
Done == IF pc = "advance" THEN rx_count - 1 ELSE rx_count

Frames == [kind : Kinds, length : Lengths, at : Nat]

Shapes ==
  /\ received \in Seq(Frames)
  /\ DOMAIN memory = Words
  /\ pc \in {"idle", "handle", "advance"}
  /\ rx_count \in Nat /\ rx_count <= Len(received)
  /\ pc = "handle" => rx_count < Len(received)
  /\ pc = "advance" => rx_count >= 1
  /\ capr \in 0 .. RegisterSize - 1

(* Where every frame, and the next one, would be in a ring without an end. *)
Places(at) ==
  /\ at \in [1 .. Len(received) + 1 -> Nat]
  /\ \A n \in 1 .. Len(received) : at[n + 1] = at[n] + SizeOf(n)
  /\ \A m \in 1 .. Len(received), n \in 1 .. Len(received) + 1 :
       m < n => at[m] + SizeOf(m) <= at[n]

(* How the real ring holds them. *)
RingHolds(at) ==
  /\ card_pos = 4 * (at[Len(received) + 1] % R)
  /\ rx_offset = 4 * (at[Done + 1] % R)
  /\ CardReadPos = rx_offset
  /\ \A n \in 1 .. Len(received) : received[n].at = 4 * (at[n] % R)
  /\ at[Len(received) + 1] - at[Done + 1] < R
  /\ \A n \in Done + 1 .. Len(received) : \A i \in 0 .. SizeOf(n) - 1 :
       memory[(at[n] + i) % R] = <<n, i>>

Inv == Shapes /\ \E at : Places(at) /\ RingHolds(at)

-----------------------------------------------------------------------------
LEMMA RingWords ==
  /\ R \in Int /\ R > 0 /\ RingSize = 4 * R
  /\ RingSize \in Int /\ RingSize > 0 /\ 0 .. R - 1 \subseteq Words
<1>1. /\ RingSize \in Int /\ RingSize > 0 /\ RingSize % 4 = 0
      /\ Slack \in Int /\ Slack >= 0
  BY NetworkAssumption
<1>2. R \in Int /\ R > 0 /\ RingSize = 4 * R
  BY <1>1 DEF R
<1>3. R <= (RingSize + Slack) \div 4
  BY <1>1, <1>2
<1> QED
  BY <1>1, <1>2, <1>3 DEF Words

(* A frame with its header takes at least a word and less than the ring.   *)
LEMMA FrameSize ==
  ASSUME NEW l \in Lengths
  PROVE  /\ InWords(l + 4) \in Int /\ InWords(l + 4) >= 1 /\ InWords(l + 4) < R
         /\ 4 * InWords(l + 4) <= l + 7
<1>1. l \in Int /\ l >= 1 /\ l + 8 <= RingSize
  BY NetworkAssumption
<1>2. /\ InWords(l + 4) \in Int /\ InWords(l + 4) >= 1
      /\ 4 * InWords(l + 4) <= l + 7
  BY <1>1 DEF InWords
<1> QED
  BY <1>1, <1>2, RingWords

LEMMA SizesOfFrames ==
  ASSUME Shapes, NEW n \in 1 .. Len(received)
  PROVE  SizeOf(n) \in Int /\ SizeOf(n) >= 1 /\ received[n].length \in Lengths
<1>1. received[n] \in Frames
  BY DEF Shapes
<1>2. received[n].length \in Lengths
  BY <1>1 DEF Frames
<1> QED
  BY <1>2, FrameSize DEF SizeOf

LEMMA DoneInRange ==
  ASSUME Shapes
  PROVE  Done \in Nat /\ Done <= Len(received) /\ Len(received) \in Nat
  BY DEF Shapes, Done

(* While there is an unread frame the driver's place is that of the first. *)
LEMMA FindsTheFrame ==
  ASSUME Shapes, NEW at, Places(at), RingHolds(at), Done < Len(received)
  PROVE  /\ memory[rx_offset \div 4] = <<Done + 1, 0>>
         /\ FrameAtOffset = Done + 1
         /\ LengthAtOffset = received[Done + 1].length
<1>1. /\ Done \in Nat /\ Done + 1 \in 1 .. Len(received) /\ SizeOf(Done + 1) >= 1
      /\ SizeOf(Done + 1) \in Int /\ Done + 1 \in Done + 1 .. Len(received)
  BY DoneInRange, SizesOfFrames
<1>2. at[Done + 1] \in Int
  BY <1>1, DoneInRange DEF Places
<1>3. at[Done + 1] % R \in Int
  BY <1>2, RingWords, DivMod
<1>4. rx_offset \div 4 = (at[Done + 1] + 0) % R
  BY <1>2, <1>3 DEF RingHolds
<1>5. 0 \in 0 .. SizeOf(Done + 1) - 1
  BY <1>1
<1>6. memory[(at[Done + 1] + 0) % R] = <<Done + 1, 0>>
  BY <1>1, <1>5 DEF RingHolds
<1> QED
  BY <1>1, <1>4, <1>6 DEF FrameAtOffset, LengthAtOffset

-----------------------------------------------------------------------------
LEMMA InvHolds == Init => Inv
<1> SUFFICES ASSUME Init PROVE Inv
  OBVIOUS
<1> DEFINE at == [n \in 1 .. 1 |-> 0]
<1>1. RegisterSize \in Int /\ RegisterSize >= 16 /\ RegisterSize % RingSize = 0
  BY NetworkAssumption
<1>2. Len(received) = 0 /\ Done = 0 /\ at[1] = 0 /\ at \in [1 .. Len(received) + 1 -> Nat]
  BY DEF Init, Done
<1>3. Shapes
  BY <1>1, <1>2 DEF Init, Shapes
<1>4. Places(at)
  BY <1>2 DEF Places
<1>5. 0 % R = 0
  BY RingWords
<1>6. CardReadPos = 0
  BY <1>1 DEF Init, CardReadPos
<1> HIDE DEF at
<1>7. RingHolds(at)
  BY <1>2, <1>5, <1>6, RingWords DEF Init, RingHolds
<1> QED
  BY <1>3, <1>4, <1>7 DEF Inv

(* A step that leaves the ring, what is stored and the room given back. *)
LEMMA InvUntouched ==
  ASSUME Inv, UNCHANGED <<memory, received, card_pos, capr, rx_offset>>,
         pc' \in {"idle", "handle", "advance"}, rx_count' \in Nat, Done' = Done,
         rx_count' <= Len(received),
         pc' = "handle" => rx_count' < Len(received), pc' = "advance" => rx_count' >= 1
  PROVE  Inv'
<1>1. PICK at : Places(at) /\ RingHolds(at)
  BY DEF Inv
<1>2. Shapes'
  BY DEF Inv, Shapes
<1>3. Places(at)'
  BY <1>1 DEF Places, SizeOf
<1>4. RingHolds(at)'
  BY <1>1 DEF RingHolds, SizeOf, CardReadPos
<1> QED
  BY <1>2, <1>3, <1>4 DEF Inv

-----------------------------------------------------------------------------
(* The room behind the card's position is what is left of the ring.        *)
LEMMA RoomLeft ==
  ASSUME NEW a \in Int, NEW b \in Int, a < b, b - a < R
  PROVE  (4 * (a % R) - 4 * (b % R)) % RingSize = 4 * (R - (b - a))
<1> DEFINE p == a \div R
           q == b \div R
           k == q - p - 1
           room == 4 * (R - (b - a))
<1>1. /\ p \in Int /\ q \in Int /\ a % R \in Int /\ b % R \in Int
      /\ a = R * p + (a % R) /\ b = R * q + (b % R)
  BY DivMod, RingWords
<1> HIDE DEF p, q
<1>2. R \in Int /\ R > 0 /\ RingSize = 4 * R
  BY RingWords
<1>3. k \in Int /\ room \in 0 .. RingSize - 1
  BY <1>1, <1>2
<1>4. 4 * (a % R) - 4 * (b % R) = RingSize * k + room
  BY <1>1, <1>2
<1> HIDE DEF k, room
<1>5. (RingSize * k + room) % RingSize = room
  BY <1>2, <1>3, ModUnique
<1> QED
  BY <1>4, <1>5 DEF room

(* The card stores a frame only where there is room for it. *)
LEMMA FitsInTheRing ==
  ASSUME Shapes, NEW at, Places(at), RingHolds(at), NEW l \in Lengths,
         LET free == (CardReadPos - card_pos) % RingSize
         IN  free = 0 \/ l + 8 < free
  PROVE  at[Len(received) + 1] + InWords(l + 4) - at[Done + 1] < R
<1> DEFINE a == at[Done + 1]
           b == at[Len(received) + 1]
<1>1. /\ a \in Int /\ b \in Int /\ b - a < R
      /\ CardReadPos = 4 * (a % R) /\ card_pos = 4 * (b % R)
  BY DoneInRange DEF Places, RingHolds
<1>2. a <= b
  <2>1. CASE Done = Len(received)
    BY <1>1, <2>1
  <2>2. CASE Done < Len(received)
    <3>1. Done + 1 \in 1 .. Len(received) /\ Done + 1 < Len(received) + 1
      BY <2>2, DoneInRange
    <3>2. SizeOf(Done + 1) \in Int /\ SizeOf(Done + 1) >= 1
      BY <3>1, SizesOfFrames
    <3>3. a + SizeOf(Done + 1) <= b
      BY <3>1, DoneInRange DEF Places
    <3> QED
      BY <1>1, <3>2, <3>3
  <2> QED
    BY <2>1, <2>2, DoneInRange
<1> HIDE DEF a, b
<1>3. /\ InWords(l + 4) \in Int /\ InWords(l + 4) < R /\ 4 * InWords(l + 4) <= l + 7
      /\ l \in Int /\ R \in Int
  BY FrameSize, RingWords, NetworkAssumption
<1>4. CASE a = b
  BY <1>1, <1>3, <1>4 DEF a, b
<1>5. CASE a < b
  <2>1. (4 * (a % R) - 4 * (b % R)) % RingSize = 4 * (R - (b - a))
    BY <1>1, <1>5, RoomLeft
  <2>2. l + 8 < 4 * (R - (b - a))
    BY <1>1, <1>3, <1>5, <2>1
  <2>3. b + InWords(l + 4) - a < R
    BY <1>1, <1>3, <2>2
  <2> QED
    BY <2>3 DEF a, b
<1> QED
  BY <1>1, <1>2, <1>4, <1>5

LEMMA InvAfterReceive ==
  ASSUME Inv, NEW kind \in Kinds, NEW l \in Lengths, Receive(kind, l)
  PROVE  Inv'
<1> DEFINE size == InWords(l + 4)
<1>0. PICK last : last = Len(received)
  OBVIOUS
<1>1. PICK at : Places(at) /\ RingHolds(at)
  BY DEF Inv
<1>2. PICK next : next = [n \in 1 .. last + 2 |-> IF n <= last + 1 THEN at[n] ELSE at[last + 1] + size]
  OBVIOUS
<1>3. Shapes /\ last \in Nat /\ Done \in Nat /\ Done <= last
  BY <1>0, DoneInRange DEF Inv
<1>4. size \in Int /\ size >= 1 /\ size < R /\ R \in Int /\ R > 0
  BY FrameSize, RingWords
<1>5. at[last + 1] + size - at[Done + 1] < R
  BY <1>0, <1>1, <1>3, FitsInTheRing DEF Receive
<1>6. /\ received' = Append(received, [kind |-> kind, length |-> l, at |-> card_pos])
      /\ card_pos' = (card_pos + 4 * size) % RingSize
      /\ UNCHANGED <<capr, rx_offset, rx_count, pc>>
  BY DEF Receive
<1>7. /\ Len(received') = last + 1 /\ received'[last + 1].length = l
      /\ received'[last + 1].at = card_pos
      /\ \A n \in 1 .. last : received'[n] = received[n]
  BY <1>0, <1>3, <1>6 DEF Shapes
<1>8. /\ SizeOf(last + 1)' = size
      /\ \A n \in 1 .. last : SizeOf(n)' = SizeOf(n)
  BY <1>7 DEF SizeOf
<1>9. \A n \in 1 .. last + 1 : at[n] \in Nat
  BY <1>0, <1>1, <1>3 DEF Places
<1>10. /\ card_pos = 4 * (at[last + 1] % R)
       /\ \A n \in 1 .. last : received[n].at = 4 * (at[n] % R)
  BY <1>0, <1>1 DEF RingHolds
<1>11. at[last + 1] % R \in Nat
  BY <1>3, <1>4, <1>9, DivMod
<1>12. /\ next \in [1 .. last + 2 -> Nat] /\ next[last + 2] = at[last + 1] + size
       /\ \A n \in 1 .. last + 1 : next[n] = at[n]
  BY <1>2, <1>3, <1>4, <1>9
<1> HIDE DEF size
<1>13. Done' = Done
  BY <1>6 DEF Done
<1>14. Shapes'
  <2>1. [kind |-> kind, length |-> l, at |-> card_pos] \in Frames
    <3>1. card_pos \in Nat
      BY <1>10, <1>11
    <3> QED
      BY <3>1 DEF Frames
  <2>2. received' \in Seq(Frames)
    BY <1>3, <1>6, <2>1 DEF Shapes
  <2>3. DOMAIN memory' = Words
    BY DEF Receive
  <2> QED
    BY <1>0, <1>3, <1>6, <1>7, <2>2, <2>3 DEF Shapes
<1>15. \A m \in 1 .. last : at[m] + SizeOf(m) <= at[last + 1]
  BY <1>0, <1>1, <1>3 DEF Places
<1>16. Places(next)'
  <2>1. next \in [1 .. Len(received') + 1 -> Nat]
    BY <1>3, <1>7, <1>12
  <2>2. \A n \in 1 .. last + 1 : next[n + 1] = next[n] + SizeOf(n)'
    <3> SUFFICES ASSUME NEW n \in 1 .. last + 1
                 PROVE  next[n + 1] = next[n] + SizeOf(n)'
      OBVIOUS
    <3>1. CASE n = last + 1
      BY <1>3, <1>8, <1>12, <3>1
    <3>2. CASE n # last + 1
      <4>1. n \in 1 .. last /\ n + 1 \in 1 .. last + 1
        BY <1>3, <3>2
      <4>2. at[n + 1] = at[n] + SizeOf(n)
        BY <1>0, <1>1, <4>1 DEF Places
      <4> QED
        BY <1>8, <1>12, <4>1, <4>2
    <3> QED
      BY <3>1, <3>2
  <2>3. \A m \in 1 .. last + 1, n \in 1 .. last + 2 : m < n => next[m] + SizeOf(m)' <= next[n]
    <3> SUFFICES ASSUME NEW m \in 1 .. last + 1, NEW n \in 1 .. last + 2, m < n
                 PROVE  next[m] + SizeOf(m)' <= next[n]
      OBVIOUS
    <3>1. CASE m = last + 1
      BY <1>3, <1>4, <1>8, <1>9, <1>12, <3>1
    <3>2. CASE m # last + 1
      <4>1. m \in 1 .. last /\ next[m] + SizeOf(m)' = at[m] + SizeOf(m)
        BY <1>3, <1>8, <1>12, <3>2
      <4>2. CASE n = last + 2
        <5>1. SizeOf(m) \in Int /\ at[m] \in Nat /\ at[last + 1] \in Nat
          BY <1>0, <1>3, <1>9, <4>1, SizesOfFrames
        <5> QED
          BY <1>4, <1>12, <1>15, <4>1, <4>2, <5>1
      <4>3. CASE n \in 1 .. last + 1
        BY <1>0, <1>1, <1>12, <4>1, <4>3 DEF Places
      <4> QED
        BY <1>3, <4>2, <4>3
    <3> QED
      BY <3>1, <3>2
  <2> QED
    BY <1>3, <1>7, <2>1, <2>2, <2>3 DEF Places
<1>17. card_pos' = 4 * (next[last + 2] % R)
  <2>1. at[last + 1] \in Int /\ at[last + 1] % R \in Int /\ card_pos = 4 * (at[last + 1] % R)
    BY <1>3, <1>9, <1>10, <1>11
  <2>2. card_pos' = (4 * ((at[last + 1] % R) + size)) % (4 * R)
    BY <1>4, <1>6, <2>1, RingWords
  <2>3. card_pos' = 4 * (((at[last + 1] % R) + size) % R)
    BY <1>4, <2>1, <2>2, ModBytes
  <2>4. ((at[last + 1] % R) + size) % R = (at[last + 1] + size) % R
    BY <1>4, <2>1, ModAdd
  <2> QED
    BY <1>3, <1>12, <2>3, <2>4
<1>18. ASSUME NEW w \in 0 .. R - 1
       PROVE  memory'[w] = IF (w - (at[last + 1] % R)) % R < size
                           THEN <<last + 1, (w - (at[last + 1] % R)) % R>> ELSE memory[w]
  <2>1. at[last + 1] % R \in Int /\ card_pos \div 4 = at[last + 1] % R
    BY <1>10, <1>11
  <2>2. w \in Words /\ w < RingSize \div 4 /\ RingSize \div 4 = R
    BY <1>4, RingWords DEF R
  <2> QED
    BY <1>0, <2>1, <2>2 DEF Receive, size
<1>19. \A i \in 0 .. size - 1 : memory'[(at[last + 1] + i) % R] = <<last + 1, i>>
  <2> SUFFICES ASSUME NEW i \in 0 .. size - 1
               PROVE  memory'[(at[last + 1] + i) % R] = <<last + 1, i>>
    OBVIOUS
  <2>1. at[last + 1] \in Int /\ at[last + 1] + i \in Int /\ i \in 0 .. R - 1 /\ i < size
    BY <1>3, <1>4, <1>9
  <2>2. (at[last + 1] + i) % R \in 0 .. R - 1
    BY <1>4, <2>1, DivMod
  <2>3. (((at[last + 1] + i) % R) - (at[last + 1] % R)) % R = i
    BY <1>4, <2>1, ModSub
  <2> QED
    BY <1>18, <2>1, <2>2, <2>3
<1>20. ASSUME NEW n \in Done + 1 .. last, NEW i \in 0 .. SizeOf(n) - 1
       PROVE  memory'[(at[n] + i) % R] = <<n, i>>
  <2> DEFINE a == at[n] + i
             w == a % R
             j == (w - (at[last + 1] % R)) % R
             b == at[last + 1] + j
  <2>1. /\ n \in 1 .. last /\ SizeOf(n) \in Int /\ at[n] \in Int /\ at[last + 1] \in Int
        /\ i \in Int /\ i >= 0 /\ i < SizeOf(n) /\ a \in Int
    BY <1>0, <1>3, <1>9, SizesOfFrames
  <2>2. at[Done + 1] \in Int /\ at[Done + 1] <= at[n]
    <3>1. CASE n = Done + 1
      BY <2>1, <3>1
    <3>2. CASE n # Done + 1
      <4>1. Done + 1 \in 1 .. last /\ n \in 1 .. last + 1 /\ Done + 1 < n
        BY <1>3, <2>1, <3>2
      <4>2. at[Done + 1] + SizeOf(Done + 1) <= at[n]
        BY <1>0, <1>1, <4>1 DEF Places
      <4>3. SizeOf(Done + 1) \in Int /\ SizeOf(Done + 1) >= 1 /\ at[Done + 1] \in Int
        BY <1>0, <1>3, <1>9, <4>1, SizesOfFrames
      <4> QED
        BY <2>1, <4>2, <4>3
    <3> QED
      BY <3>1, <3>2
  <2>3. w \in 0 .. R - 1 /\ memory[w] = <<n, i>>
    <3>1. w \in 0 .. R - 1
      BY <1>4, <2>1, DivMod
    <3> QED
      BY <1>0, <1>1, <3>1 DEF RingHolds
  <2>4. at[last + 1] % R \in Int /\ j \in Int /\ j >= 0 /\ j < R
    <3>1. at[last + 1] % R \in Int
      BY <1>4, <2>1, DivMod
    <3> HIDE DEF w
    <3>2. w - (at[last + 1] % R) \in Int
      BY <2>3, <3>1
    <3>3. j \in 0 .. R - 1
      BY <1>4, <3>2, DivMod
    <3> QED
      BY <1>4, <3>1, <3>3
  <2>5. ~(j < size)
    <3> SUFFICES ASSUME j < size PROVE FALSE
      OBVIOUS
    <3>1. w = b % R
      <4> HIDE DEF w
      <4> QED
        BY <1>4, <2>1, <2>3, ModBack
    <3>2. a < b /\ b - a < R /\ b \in Int
      <4> HIDE DEF j
      <4>1. at[n] + SizeOf(n) <= at[last + 1]
        BY <1>15, <2>1
      <4> QED
        BY <1>4, <1>5, <2>1, <2>2, <2>4, <4>1
    <3>3. a % R # b % R
      <4> HIDE DEF a, b
      <4> QED
        BY <1>4, <2>1, <3>2, ModDistinct
    <3> QED
      BY <3>1, <3>3
  <2> QED
    BY <1>18, <2>3, <2>5
<1>21. RingHolds(next)'
  <2>1. rx_offset = 4 * (at[Done + 1] % R) /\ CardReadPos = rx_offset
    BY <1>1 DEF RingHolds
  <2>2. next[Done + 1] = at[Done + 1]
    BY <1>3, <1>12
  <2>3. rx_offset' = 4 * (next[Done + 1] % R) /\ CardReadPos' = rx_offset'
    BY <1>6, <2>1, <2>2 DEF CardReadPos
  <2>4. next[last + 2] - next[Done + 1] < R
    BY <1>3, <1>4, <1>5, <1>9, <1>12, <2>2
  <2>5. ASSUME NEW n \in Done + 1 .. last + 1, NEW i \in 0 .. SizeOf(n)' - 1
        PROVE  memory'[(next[n] + i) % R] = <<n, i>>
    <3>1. next[n] = at[n]
      BY <1>3, <1>12
    <3>2. CASE n = last + 1
      BY <1>8, <1>19, <3>1, <3>2
    <3>3. CASE n # last + 1
      <4>1. n \in Done + 1 .. last /\ n \in 1 .. last
        BY <1>3, <3>3
      <4> QED
        BY <1>8, <1>20, <3>1, <4>1
    <3> QED
      BY <3>2, <3>3
  <2>6. Len(received') = last + 1 /\ last + 1 + 1 = last + 2
    BY <1>3, <1>7
  <2>7. \A n \in 1 .. last + 1 : received'[n].at = 4 * (next[n] % R)
    <3> SUFFICES ASSUME NEW n \in 1 .. last + 1
                 PROVE  received'[n].at = 4 * (next[n] % R)
      OBVIOUS
    <3>1. next[n] = at[n]
      BY <1>12
    <3>2. CASE n = last + 1
      BY <1>7, <1>10, <3>1, <3>2
    <3>3. CASE n # last + 1
      <4>1. n \in 1 .. last
        BY <1>3, <3>3
      <4> QED
        BY <1>7, <1>10, <3>1, <4>1
    <3> QED
      BY <3>2, <3>3
  <2> QED
    BY <1>13, <1>17, <2>3, <2>4, <2>5, <2>6, <2>7 DEF RingHolds
<1> QED
  BY <1>14, <1>16, <1>21 DEF Inv

-----------------------------------------------------------------------------
(* The driver gives back the room of the frame it handled, no more.        *)
LEMMA InvAfterAdvance ==
  ASSUME Inv, Advance
  PROVE  Inv'
<1>0. PICK done : done = Done
  OBVIOUS
<1>1. PICK at : Places(at) /\ RingHolds(at)
  BY DEF Inv
<1>2. /\ Shapes /\ done \in Nat /\ done = rx_count - 1 /\ done < Len(received)
      /\ Len(received) \in Nat /\ done + 1 \in 1 .. Len(received) /\ rx_count \in Nat
  BY <1>0, DoneInRange DEF Inv, Shapes, Done, Advance
<1>3. /\ pc' = "idle" /\ rx_offset' = NextOffset /\ capr' = (NextOffset - 16) % RegisterSize
      /\ UNCHANGED <<memory, received, card_pos, rx_count>>
  BY DEF Advance, card
<1>4. Done' = done + 1
  BY <1>2, <1>3 DEF Done
<1>5. /\ at[done + 1] \in Nat /\ at[done + 2] \in Nat /\ at[Len(received) + 1] \in Nat
      /\ at[done + 2] = at[done + 1] + SizeOf(done + 1)
      /\ SizeOf(done + 1) \in Int /\ SizeOf(done + 1) >= 1
      /\ received[done + 1].length \in Lengths
  <2>1. at[done + 1 + 1] = at[done + 1] + SizeOf(done + 1) /\ done + 1 + 1 = done + 2
    BY <1>1, <1>2 DEF Places
  <2>2. \A n \in 1 .. Len(received) + 1 : at[n] \in Nat
    BY <1>1 DEF Places
  <2> QED
    BY <1>2, <2>1, <2>2, SizesOfFrames
<1>6. NextOffset = 4 * (at[done + 2] % R)
  <2> DEFINE l == received[done + 1].length
             a == at[done + 1]
             x == a % R
             size == SizeOf(done + 1)
  <2>1. R \in Int /\ R > 0 /\ RingSize = 4 * R /\ l \in Int /\ l >= 0
    BY <1>5, RingWords, NetworkAssumption
  <2>2. size \in Int /\ size = (l + 4 + 3) \div 4 /\ at[done + 2] = a + size /\ a \in Int
    BY <1>5 DEF SizeOf, InWords
  <2>3. LengthAtOffset = l
    BY <1>0, <1>1, <1>2, FindsTheFrame
  <2>4. rx_offset = 4 * x
    BY <1>0, <1>1 DEF RingHolds
  <2> HIDE DEF a, l, size
  <2>5. x \in Int
    BY <2>1, <2>2, DivMod
  <2>6. (x + size) % R = (a + size) % R
    BY <2>1, <2>2, ModAdd
  <2> HIDE DEF x
  <2>7. (4 * x + l + 4 + 3) \div 4 = x + size
    BY <2>1, <2>2, <2>5
  <2>8. NextOffset = (4 * (x + size)) % (4 * R)
    BY <2>1, <2>2, <2>3, <2>4, <2>5, <2>7 DEF NextOffset
  <2>9. x + size \in Int
    BY <2>2, <2>5
  <2>10. (4 * (x + size)) % (4 * R) = 4 * ((x + size) % R)
    BY <2>1, <2>9, ModBytes
  <2> QED
    BY <2>2, <2>6, <2>8, <2>10
<1>7. NextOffset \in 0 .. RingSize - 1
  <2>1. at[done + 2] % R \in 0 .. R - 1
    BY <1>5, RingWords, DivMod
  <2> QED
    BY <1>6, <2>1, RingWords
<1>8. capr' \in 0 .. RegisterSize - 1 /\ CardReadPos' = NextOffset
  BY <1>3, <1>7, RegisterKeepsOffset DEF CardReadPos
<1>9. Shapes'
  BY <1>2, <1>3, <1>8 DEF Shapes
<1>10. Places(at)'
  BY <1>1, <1>3 DEF Places, SizeOf
<1>11. RingHolds(at)'
  <2>1. at[Len(received) + 1] - at[done + 2] < R
    BY <1>0, <1>1, <1>5, RingWords, SMTT(30) DEF RingHolds
  <2>2. \A n \in done + 2 .. Len(received) : \A i \in 0 .. SizeOf(n) - 1 :
          memory[(at[n] + i) % R] = <<n, i>>
    <3>1. \A n \in done + 2 .. Len(received) : n \in done + 1 .. Len(received)
      BY <1>2
    <3> QED
      BY <1>0, <1>1, <3>1 DEF RingHolds
  <2>3. done + 1 + 1 = done + 2
    BY <1>2
  <2>4. /\ card_pos = 4 * (at[Len(received) + 1] % R)
        /\ \A n \in 1 .. Len(received) : received[n].at = 4 * (at[n] % R)
    BY <1>1 DEF RingHolds
  <2> QED
    BY <1>3, <1>4, <1>6, <1>8, <2>1, <2>2, <2>3, <2>4 DEF RingHolds, SizeOf
<1> QED
  BY <1>9, <1>10, <1>11 DEF Inv

(* There is a frame to handle when the card's position is not the driver's. *)
LEMMA InvAfterBegin ==
  ASSUME Inv, BeginPoll
  PROVE  Inv'
<1>1. PICK at : Places(at) /\ RingHolds(at)
  BY DEF Inv
<1>2. Shapes /\ Done = rx_count /\ rx_count \in Nat /\ rx_count <= Len(received)
  BY DEF Inv, Shapes, Done, BeginPoll
<1>3. rx_count # Len(received)
  BY <1>1, <1>2 DEF RingHolds, BeginPoll
<1>4. pc' = "handle" /\ UNCHANGED <<memory, received, card_pos, capr, rx_offset, rx_count>>
  BY DEF BeginPoll, card
<1>5. Done' = Done
  BY <1>2, <1>4 DEF Done
<1> QED
  BY <1>2, <1>3, <1>4, <1>5, InvUntouched DEF Shapes

LEMMA InvAfterHandle ==
  ASSUME Inv, HandleFrame
  PROVE  Inv'
<1>1. PICK at : Places(at) /\ RingHolds(at)
  BY DEF Inv
<1>2. /\ Shapes /\ Done = rx_count /\ rx_count \in Nat /\ rx_count < Len(received)
      /\ Len(received) \in Nat
  BY DoneInRange DEF Inv, Shapes, Done, HandleFrame
<1>3. FrameAtOffset = rx_count + 1
  BY <1>1, <1>2, FindsTheFrame
<1>4. pc' = "advance" /\ rx_count' = rx_count + 1
  BY <1>2, <1>3 DEF HandleFrame
<1>5. Done' = Done
  BY <1>2, <1>4 DEF Done
<1>6. UNCHANGED <<memory, received, card_pos, capr, rx_offset>>
  BY DEF HandleFrame
<1> QED
  BY <1>2, <1>4, <1>5, <1>6, InvUntouched

LEMMA InvKept == Inv /\ [Next]_vars => Inv'
<1> SUFFICES ASSUME Inv, [Next]_vars PROVE Inv'
  OBVIOUS
<1>1. ASSUME NEW k \in Kinds, NEW l \in Lengths, Receive(k, l)
      PROVE  Inv'
  BY <1>1, InvAfterReceive
<1>2. ASSUME UNCHANGED <<memory, received, card_pos, capr, rx_offset, rx_count, pc>>
      PROVE  Inv'
  <2>1. Done' = Done
    BY <1>2 DEF Done
  <2> QED
    BY <1>2, <2>1, InvUntouched DEF Inv, Shapes
<1>3. CASE SendQuery
  BY <1>2, <1>3 DEF SendQuery
<1>4. CASE UNCHANGED vars
  BY <1>2, <1>4 DEF vars
<1> QED
  BY <1>1, <1>3, <1>4, InvAfterBegin, InvAfterHandle, InvAfterAdvance DEF Next, net_poll, PollEmpty

-----------------------------------------------------------------------------
LEMMA StepFromInv == Inv => OffsetInStep
<1> SUFFICES ASSUME Inv PROVE OffsetInStep
  OBVIOUS
<1>1. PICK at : Places(at) /\ RingHolds(at)
  BY DEF Inv
<1>2. Shapes /\ Done \in Nat /\ Done <= Len(received) /\ Len(received) \in Nat
  BY DoneInRange DEF Inv
<1>3. at[Done + 1] \in Nat
  <2>1. Done + 1 \in 1 .. Len(received) + 1
    BY <1>2
  <2> QED
    BY <1>1, <2>1 DEF Places
<1>4. rx_offset \in 0 .. RingSize - 4 /\ rx_offset % 4 = 0
  <2>1. at[Done + 1] % R \in 0 .. R - 1
    BY <1>3, RingWords, DivMod
  <2> QED
    BY <1>1, <2>1, RingWords DEF RingHolds
<1>5. ASSUME pc # "advance"
      PROVE  IF rx_count < Len(received) THEN memory[rx_offset \div 4] = <<rx_count + 1, 0>>
             ELSE rx_offset = card_pos
  <2>1. Done = rx_count
    BY <1>5 DEF Done
  <2>2. CASE rx_count < Len(received)
    BY <1>1, <1>2, <2>1, <2>2, FindsTheFrame
  <2>3. CASE rx_count = Len(received)
    BY <1>1, <1>2, <2>1, <2>3 DEF RingHolds
  <2> QED
    BY <1>2, <2>1, <2>2, <2>3
<1>6. capr \in 0 .. RegisterSize - 1
  BY <1>2 DEF Shapes
<1> QED
  BY <1>4, <1>5, <1>6 DEF OffsetInStep

LEMMA UnreadFromInv == Inv => UnreadFramesSurvive
<1> SUFFICES ASSUME Inv, NEW n \in rx_count + 1 .. Len(received)
             PROVE  \E first \in 0 .. RingSize \div 4 - 1 :
                      \A i \in 0 .. InWords(received[n].length + 4) - 1 :
                        memory[(first + i) % (RingSize \div 4)] = <<n, i>>
  BY DEF UnreadFramesSurvive
<1>1. PICK at : Places(at) /\ RingHolds(at)
  BY DEF Inv
<1>2. /\ Shapes /\ n \in Done + 1 .. Len(received) /\ n \in 1 .. Len(received)
      /\ Len(received) \in Nat
  BY DEF Inv, Shapes, Done
<1>3. at[n] \in Nat /\ SizeOf(n) \in Int
  <2>1. at[n] \in Nat
    BY <1>1, <1>2 DEF Places
  <2>2. SizeOf(n) \in Int
    BY <1>2, SizesOfFrames
  <2> QED
    BY <2>1, <2>2
<1>4. at[n] % R \in 0 .. R - 1
  BY <1>3, RingWords, DivMod
<1>5. ASSUME NEW i \in 0 .. SizeOf(n) - 1
      PROVE  memory[((at[n] % R) + i) % R] = <<n, i>>
  <2>1. i \in Int /\ at[n] \in Int /\ R \in Int /\ R > 0
    BY <1>3, RingWords
  <2>2. ((at[n] % R) + i) % R = (at[n] + i) % R
    BY <2>1, ModAdd
  <2> QED
    BY <1>1, <1>2, <2>2 DEF RingHolds
<1> QED
  BY <1>4, <1>5 DEF R, SizeOf

(* Lengths, alignment, the end of the ring and the width of the card's     *)
(* register never put the driver's offset out of step with the card's.     *)
THEOREM AlwaysInStep == Spec => []OffsetInStep
  BY InvHolds, InvKept, StepFromInv, PTL DEF Spec

(* The card never has room to store a frame over one the driver has not    *)
(* handled, however the two steps of a poll and the arrivals interleave.   *)
THEOREM UnreadAlwaysSurvive == Spec => []UnreadFramesSurvive
  BY InvHolds, InvKept, UnreadFromInv, PTL DEF Spec

-----------------------------------------------------------------------------
(* What is answered *)

Kind(n)     == received[n].kind
Asked(n)    == Kind(n) \in Requests
Seen(n)     == Complete(n, Tested[Kind(n)])
Handled(n)  == Asked(n) /\ Complete(n, Copied[Kind(n)])
Spoiled(n)  == Asked(n) /\ Seen(n) /\ ~Handled(n)

SpoiledOnes == {n \in 1 .. rx_count : Spoiled(n)}
Unseen      == {n \in 1 .. rx_count : ~Seen(n)}
GarbledAt   == {i \in DOMAIN sent : sent[i] = Garbled}

GarbledAsMany ==
  /\ Cardinality(SpoiledOnes) <= Cardinality(GarbledAt)
  /\ Cardinality(GarbledAt) <= Cardinality(SpoiledOnes) + Cardinality(Unseen)

(* The words behind the ring are never written; what went out is an answer *)
(* to each request handled so far whose copied bytes lie together, one     *)
(* garbled frame for each that is seen but not so, and perhaps one for     *)
(* each frame not even seen.                                               *)
Answers ==
  /\ \A w \in Words : w >= R => memory[w] = Stale
  /\ sent \in Seq(Int)
  /\ card_descriptor = tx_buffer_num
  /\ Answered = {n \in 1 .. rx_count : Handled(n)}
  /\ \A i, j \in DOMAIN sent : i < j /\ sent[i] > 0 /\ sent[j] > 0 => sent[i] < sent[j]
  /\ GarbledAsMany

(* Bytes the card stored before the ring's end are found behind the        *)
(* header; of others, the words behind the ring are not the frame's.       *)
LEMMA OwnIfComplete ==
  ASSUME Inv, Answers, Done < Len(received), NEW bytes \in Nat \ {0}, bytes <= Slack
  PROVE  Own(Done + 1, bytes) <=> Complete(Done + 1, bytes)
<1> DEFINE n == Done + 1
           l == received[n].length
           size == SizeOf(n)
           words == InWords(bytes)
<1>1. PICK at : Places(at) /\ RingHolds(at)
  BY DEF Inv
<1>2. /\ Shapes /\ n \in 1 .. Len(received) /\ n \in Done + 1 .. Len(received) /\ n \in Nat
      /\ n >= 1
  BY DoneInRange DEF Inv
<1>3. size \in Int /\ l \in Lengths
  BY <1>2, SizesOfFrames
<1>4. l \in Int /\ l >= 1 /\ Slack \in Int /\ Slack % 4 = 0
  BY <1>3, NetworkAssumption
<1>5. /\ words \in Int /\ words >= 1
      /\ bytes + 4 <= l => words <= size - 1
  <2>1. size = (l + 4 + 3) \div 4
    BY DEF SizeOf, InWords
  <2>2. words = (bytes + 3) \div 4
    BY DEF InWords
  <2> HIDE DEF size, words, l, n
  <2> QED
    BY <1>4, <2>1, <2>2, SMTT(30)
<1> HIDE DEF words
<1>6. PICK p : p = at[n] % R
  OBVIOUS
<1>7. R \in Int /\ R > 0 /\ RingSize = 4 * R
  BY RingWords
<1>8. at[n] \in Int
  BY <1>1, <1>2 DEF Places
<1>9. p \in 0 .. R - 1
  BY <1>6, <1>7, <1>8, DivMod
<1>10. rx_offset = 4 * p /\ received[n].at = 4 * p
  BY <1>1, <1>2, <1>6 DEF RingHolds
<1>11. rx_offset \div 4 = p
  BY <1>9, <1>10
<1>12. Complete(n, bytes) <=> bytes + 4 <= l /\ p + 1 + words <= R
  BY <1>5, <1>7, <1>9, <1>10 DEF Complete, words
<1>13. Own(n, bytes) <=> bytes + 4 <= l /\ \A i \in 1 .. words : memory[p + i] = <<n, i>>
  BY <1>11 DEF Own, words
<1>14. ASSUME bytes + 4 <= l, p + 1 + words <= R, NEW i \in 1 .. words
       PROVE  memory[p + i] = <<n, i>>
  <2>1. i \in 0 .. SizeOf(n) - 1 /\ i \in Int /\ p + i \in 0 .. R - 1
    BY <1>3, <1>5, <1>7, <1>9, <1>14
  <2>2. (at[n] + i) % R = p + i
    <3>1. ((at[n] % R) + i) % R = (at[n] + i) % R
      BY <1>7, <1>8, <2>1, ModAdd
    <3>2. (p + i) % R = p + i
      BY <1>7, <2>1
    <3> QED
      BY <1>6, <3>1, <3>2
  <2>3. memory[(at[n] + i) % R] = <<n, i>>
    BY <1>1, <1>2, <2>1 DEF RingHolds
  <2> QED
    BY <2>2, <2>3
<1>15. ASSUME p + 1 + words > R PROVE ~\A i \in 1 .. words : memory[p + i] = <<n, i>>
  <2> DEFINE i == R - p
  <2>1. i \in 1 .. words /\ p + i = R
    BY <1>5, <1>7, <1>9, <1>15
  <2>2. R \in Words
    <3>1. Slack >= 4
      BY <1>4
    <3>2. R + 1 <= (4 * R + Slack) \div 4 /\ (4 * R + Slack) \div 4 \in Int
      BY <1>4, <1>7, <3>1
    <3> QED
      BY <1>7, <3>2 DEF Words
  <2>3. memory[p + i] = <<0, 0>>
    BY <1>7, <2>1, <2>2 DEF Answers, Stale
  <2>4. <<0, 0>> # <<n, i>>
    BY <1>2
  <2> HIDE DEF i
  <2> QED
    BY <2>1, <2>3, <2>4
<1>16. p + 1 + words \in Int /\ R \in Int
  BY <1>5, <1>7, <1>9
<1>17. p + 1 + words <= R \/ p + 1 + words > R
  BY <1>16
<1> HIDE DEF n, l
<1> QED
  BY <1>12, <1>13, <1>14, <1>15, <1>17 DEF n

LEMMA AnswersAtInit == Init => Answers
<1> SUFFICES ASSUME Init PROVE Answers
  OBVIOUS
<1>1. sent = <<>> /\ rx_count = 0 /\ GarbledAt = {} /\ SpoiledOnes = {} /\ Unseen = {} /\ Answered = {}
  BY DEF Init, GarbledAt, SpoiledOnes, Unseen, Answered, ToSet
<1>2. \A w \in Words : memory[w] = Stale
  BY DEF Init
<1>3. Cardinality({}) = 0
  BY FS_EmptySet
<1>4. GarbledAsMany
  BY <1>1, <1>3 DEF GarbledAsMany
<1> QED
  BY <1>1, <1>2, <1>4 DEF Init, Answers

(* What is told of a frame does not depend on the ones behind it. *)
LEMMA ToldOfAFrame ==
  ASSUME NEW n, received'[n] = received[n]
  PROVE  /\ Seen(n)' = Seen(n) /\ Handled(n)' = Handled(n) /\ Spoiled(n)' = Spoiled(n)
BY DEF Seen, Handled, Spoiled, Asked, Kind, Complete

(* A step that neither sends nor handles: the frames handled stay as they  *)
(* were and nothing is written behind the ring.                            *)
LEMMA AnswersUntouched ==
  ASSUME Inv, Answers, UNCHANGED <<sent, card_descriptor, tx_buffer_num, rx_count>>,
         \A n \in 1 .. rx_count : received'[n] = received[n],
         \A w \in Words : w >= R => memory'[w] = memory[w]
  PROVE  Answers'
<1>1. \A n \in 1 .. rx_count : Seen(n)' = Seen(n) /\ Handled(n)' = Handled(n) /\ Spoiled(n)' = Spoiled(n)
  BY ToldOfAFrame
<1>2. /\ SpoiledOnes' = SpoiledOnes /\ Unseen' = Unseen
      /\ GarbledAt' = GarbledAt /\ Answered' = Answered
  BY <1>1 DEF SpoiledOnes, Unseen, GarbledAt, Answered
<1>3. {n \in 1 .. rx_count : Handled(n)}' = {n \in 1 .. rx_count : Handled(n)}
  BY <1>1
<1>4. GarbledAsMany'
  BY <1>2 DEF Answers, GarbledAsMany
<1> QED
  BY <1>2, <1>3, <1>4 DEF Answers

(* One frame more behind the ones already sent. *)
LEMMA SentGrows ==
  ASSUME Answers, NEW frame \in Int, sent' = Append(sent, frame)
  PROVE  /\ sent' \in Seq(Int) /\ DOMAIN sent' = DOMAIN sent \cup {Len(sent) + 1}
         /\ Len(sent) \in Nat /\ DOMAIN sent = 1 .. Len(sent)
         /\ sent'[Len(sent) + 1] = frame
         /\ \A i \in DOMAIN sent : sent'[i] = sent[i]
  BY DEF Answers

(* A query or a garbled answer is not the answer to a request. *)
LEMMA AnsweredGrows ==
  ASSUME Answers, NEW frame \in Int, sent' = Append(sent, frame)
  PROVE  Answered' = Answered \cup ({frame} \ {Query, Garbled})
<1>1. ToSet(sent)' = ToSet(sent) \cup {frame}
  BY SentGrows DEF ToSet
<1> QED
  BY <1>1 DEF Answered

LEMMA GarbledGrows ==
  ASSUME Answers, NEW frame \in Int, sent' = Append(sent, frame)
  PROVE  /\ IsFiniteSet(GarbledAt)
         /\ Cardinality(GarbledAt) \in Nat
         /\ frame # Garbled => GarbledAt' = GarbledAt
         /\ frame = Garbled => Cardinality(GarbledAt') = Cardinality(GarbledAt) + 1
<1>1. IsFiniteSet(DOMAIN sent) /\ GarbledAt \subseteq DOMAIN sent
  BY SentGrows, FS_Interval DEF GarbledAt
<1>2. IsFiniteSet(GarbledAt) /\ Cardinality(GarbledAt) \in Nat
  BY <1>1, FS_Subset, FS_CardinalityType
<1>3. frame # Garbled => GarbledAt' = GarbledAt
  BY SentGrows DEF GarbledAt
<1>4. ASSUME frame = Garbled
      PROVE  Cardinality(GarbledAt') = Cardinality(GarbledAt) + 1
  <2>1. GarbledAt' = GarbledAt \cup {Len(sent) + 1} /\ Len(sent) + 1 \notin GarbledAt
    BY <1>4, SentGrows DEF GarbledAt
  <2> QED
    BY <1>2, <2>1, FS_AddElement
<1> QED
  BY <1>2, <1>3, <1>4

LEMMA AnswersAfterSend ==
  ASSUME Answers, NEW frame \in Int, Send(frame)
  PROVE  /\ sent' = Append(sent, frame)
         /\ card_descriptor' = tx_buffer_num'
  BY DEF Answers, Send

LEMMA AnswersAfterQuery ==
  ASSUME Inv, Answers, SendQuery
  PROVE  Answers'
<1>1. sent' = Append(sent, Query) /\ card_descriptor' = tx_buffer_num' /\ Query \in Int
  BY AnswersAfterSend DEF SendQuery, Query
<1>2. UNCHANGED <<memory, received, rx_count>>
  BY DEF SendQuery
<1>3. Answered' = Answered
  BY <1>1, AnsweredGrows DEF Answered
<1>4. GarbledAt' = GarbledAt
  BY <1>1, GarbledGrows DEF Query, Garbled
<1>5. /\ SpoiledOnes' = SpoiledOnes /\ Unseen' = Unseen
      /\ {n \in 1 .. rx_count : Handled(n)}' = {n \in 1 .. rx_count : Handled(n)}
  BY <1>2 DEF SpoiledOnes, Unseen, Seen, Handled, Spoiled, Asked, Kind, Complete
<1>8. GarbledAsMany'
  BY <1>4, <1>5 DEF Answers, GarbledAsMany
<1>6. \A i, j \in DOMAIN sent' : i < j /\ sent'[i] > 0 /\ sent'[j] > 0 => sent'[i] < sent'[j]
  BY <1>1, SentGrows DEF Answers, Query
<1>7. sent' \in Seq(Int)
  BY <1>1, SentGrows
<1> QED
  BY <1>1, <1>2, <1>3, <1>5, <1>6, <1>7, <1>8 DEF Answers

(* One frame more counts where it is, and nowhere else. *)
LEMMA OneMore ==
  ASSUME NEW c \in Nat, NEW P, NEW Q, P \subseteq 1 .. c,
         Q = P \/ Q = P \cup {c + 1}
  PROVE  /\ IsFiniteSet(P) /\ Cardinality(P) \in Nat
         /\ c + 1 \notin Q => Cardinality(Q) = Cardinality(P)
         /\ c + 1 \in Q => Cardinality(Q) = Cardinality(P) + 1
<1>1. IsFiniteSet(1 .. c) /\ c + 1 \notin P
  BY FS_Interval
<1>2. IsFiniteSet(P) /\ Cardinality(P) \in Nat
  BY <1>1, FS_Subset, FS_CardinalityType
<1>3. c + 1 \notin Q => Q = P
  OBVIOUS
<1>4. c + 1 \in Q => Q = P \cup {c + 1}
  BY <1>1
<1> QED
  BY <1>1, <1>2, <1>3, <1>4, FS_AddElement

(* The frame handled is the oldest unread one: it is answered when it is a *)
(* request whose copied bytes lie together, and is spoiled or unseen when  *)
(* the answer is garbled.                                                  *)
LEMMA AnswersAfterHandle ==
  ASSUME Inv, Answers, HandleFrame
  PROVE  Answers'
<1>1. PICK at : Places(at) /\ RingHolds(at)
  BY DEF Inv
<1>2. /\ Shapes /\ Done = rx_count /\ rx_count \in Nat /\ rx_count < Len(received)
      /\ Len(received) \in Nat
  BY DoneInRange DEF Inv, Shapes, Done, HandleFrame
<1>3. PICK n : n = rx_count + 1
  OBVIOUS
<1>4. FrameAtOffset = n /\ n \in Nat /\ n >= 1 /\ n # 0
  BY <1>1, <1>2, <1>3, FindsTheFrame
<1>5. rx_count' = n /\ UNCHANGED <<memory, received>>
  BY <1>3, <1>4 DEF HandleFrame
<1>6. Kind(n) \in Kinds
  <2>1. received[n] \in Frames
    BY <1>2, <1>3, <1>4 DEF Shapes
  <2> QED
    BY <2>1 DEF Frames, Kind
<1>7. Own(n, Tested[Kind(n)]) <=> Seen(n)
  <2>1. Tested[Kind(n)] \in Nat \ {0} /\ Tested[Kind(n)] <= Slack
    BY <1>6, NetworkAssumption
  <2> QED
    BY <1>2, <1>3, <2>1, OwnIfComplete DEF Seen
<1>8. ASSUME Asked(n)
      PROVE  /\ Own(n, Copied[Kind(n)]) <=> Handled(n)
             /\ Handled(n) => Seen(n)
  <2>1. /\ Tested[Kind(n)] \in Nat \ {0} /\ Copied[Kind(n)] \in Nat
        /\ Tested[Kind(n)] <= Copied[Kind(n)] /\ Copied[Kind(n)] <= Slack
    BY <1>6, <1>8, NetworkAssumption DEF Asked
  <2>2. Copied[Kind(n)] \in Nat \ {0}
    BY <2>1
  <2>3. Own(n, Copied[Kind(n)]) <=> Complete(n, Copied[Kind(n)])
    BY <1>2, <1>3, <2>1, <2>2, OwnIfComplete
  <2>4. received[n].length \in Int /\ received[n].at \in Nat /\ RingSize \in Int
    <3>1. received[n] \in Frames
      BY <1>2, <1>3, <1>4 DEF Shapes
    <3> QED
      BY <3>1, NetworkAssumption DEF Frames
  <2>5. Complete(n, Copied[Kind(n)]) => Complete(n, Tested[Kind(n)])
    <3> DEFINE t == Tested[Kind(n)]
               c == Copied[Kind(n)]
               q == received[n].at
               m == received[n].length
    <3>1. /\ Complete(n, c) <=> c + 4 <= m /\ q + 4 * (1 + InWords(c)) <= RingSize
          /\ Complete(n, t) <=> t + 4 <= m /\ q + 4 * (1 + InWords(t)) <= RingSize
      BY DEF Complete
    <3>2. t \in Nat /\ c \in Nat /\ t <= c /\ q \in Int /\ m \in Int /\ RingSize \in Int
      BY <2>1, <2>4
    <3> HIDE DEF t, c, q, m
    <3>3. InWords(t) \in Int /\ InWords(c) \in Int /\ InWords(t) <= InWords(c)
      BY <3>2, SMTT(30) DEF InWords
    <3>4. Complete(n, c) => Complete(n, t)
      BY <3>1, <3>2, <3>3
    <3> QED
      BY <3>4 DEF t, c
  <2> QED
    BY <1>8, <2>3, <2>5 DEF Handled, Seen
<1>9. \/ Handled(n) /\ ~Spoiled(n) /\ Seen(n) /\ Send(n)
      \/ ~Handled(n) /\ (Spoiled(n) \/ ~Seen(n)) /\ (Spoiled(n) => Seen(n)) /\ Send(Garbled)
      \/ ~Handled(n) /\ ~Spoiled(n) /\ UNCHANGED <<sent, card_descriptor, tx_buffer_num>>
  <2>1. \/ ~Own(n, Tested[Kind(n)]) /\ (Send(Garbled) \/ UNCHANGED <<sent, card_descriptor, tx_buffer_num>>)
        \/ Own(n, Tested[Kind(n)]) /\ ~Asked(n) /\ UNCHANGED <<sent, card_descriptor, tx_buffer_num>>
        \/ Own(n, Tested[Kind(n)]) /\ Asked(n) /\ Own(n, Copied[Kind(n)]) /\ Send(n)
        \/ Own(n, Tested[Kind(n)]) /\ Asked(n) /\ ~Own(n, Copied[Kind(n)]) /\ Send(Garbled)
    BY <1>4 DEF HandleFrame, Kind, Asked
  <2>2. Handled(n) => Asked(n)
    BY DEF Handled
  <2> QED
    BY <1>7, <1>8, <2>1, <2>2 DEF Spoiled
<1>10. /\ {m \in 1 .. rx_count : Handled(m)}' = {m \in 1 .. n : Handled(m)}
       /\ SpoiledOnes' = {m \in 1 .. n : Spoiled(m)}
       /\ Unseen' = {m \in 1 .. n : ~Seen(m)}
  BY <1>5 DEF SpoiledOnes, Unseen, Seen, Handled, Spoiled, Asked, Kind, Complete
<1>11. /\ Cardinality(SpoiledOnes) \in Nat /\ Cardinality(Unseen) \in Nat
       /\ Cardinality(SpoiledOnes') = Cardinality(SpoiledOnes) + (IF Spoiled(n) THEN 1 ELSE 0)
       /\ Cardinality(Unseen') = Cardinality(Unseen) + (IF Seen(n) THEN 0 ELSE 1)
  <2>1. 1 .. n = (1 .. rx_count) \cup {n} /\ n \notin 1 .. rx_count
    BY <1>2, <1>3
  <2>2. /\ SpoiledOnes \subseteq 1 .. rx_count
        /\ SpoiledOnes' = SpoiledOnes \/ SpoiledOnes' = SpoiledOnes \cup {n}
        /\ n \in SpoiledOnes' <=> Spoiled(n)
    BY <1>10, <2>1 DEF SpoiledOnes
  <2>3. /\ Unseen \subseteq 1 .. rx_count
        /\ Unseen' = Unseen \/ Unseen' = Unseen \cup {n}
        /\ n \in Unseen' <=> ~Seen(n)
    BY <1>10, <2>1 DEF Unseen
  <2>4. /\ Cardinality(SpoiledOnes) \in Nat
        /\ n \notin SpoiledOnes' => Cardinality(SpoiledOnes') = Cardinality(SpoiledOnes)
        /\ n \in SpoiledOnes' => Cardinality(SpoiledOnes') = Cardinality(SpoiledOnes) + 1
    <3> DEFINE before == SpoiledOnes
               after == SpoiledOnes'
    <3>1. before \subseteq 1 .. rx_count /\ (after = before \/ after = before \cup {rx_count + 1})
      BY <1>3, <2>2
    <3> HIDE DEF before, after
    <3>2. /\ Cardinality(before) \in Nat
          /\ rx_count + 1 \notin after => Cardinality(after) = Cardinality(before)
          /\ rx_count + 1 \in after => Cardinality(after) = Cardinality(before) + 1
      BY <1>2, <3>1, OneMore, Zenon
    <3> QED
      BY <1>3, <3>2 DEF before, after
  <2>5. /\ Cardinality(Unseen) \in Nat
        /\ n \notin Unseen' => Cardinality(Unseen') = Cardinality(Unseen)
        /\ n \in Unseen' => Cardinality(Unseen') = Cardinality(Unseen) + 1
    <3> DEFINE before == Unseen
               after == Unseen'
    <3>1. before \subseteq 1 .. rx_count /\ (after = before \/ after = before \cup {rx_count + 1})
      BY <1>3, <2>3
    <3> HIDE DEF before, after
    <3>2. /\ Cardinality(before) \in Nat
          /\ rx_count + 1 \notin after => Cardinality(after) = Cardinality(before)
          /\ rx_count + 1 \in after => Cardinality(after) = Cardinality(before) + 1
      BY <1>2, <3>1, OneMore, Zenon
    <3> QED
      BY <1>3, <3>2 DEF before, after
  <2> QED
    BY <2>2, <2>3, <2>4, <2>5
<1>12. \A i \in DOMAIN sent : sent[i] > 0 => sent[i] < n
  <2> SUFFICES ASSUME NEW i \in DOMAIN sent, sent[i] > 0 PROVE sent[i] < n
    OBVIOUS
  <2>1. sent[i] \in Answered
    BY DEF Answers, Answered, ToSet, Query, Garbled
  <2>2. sent[i] \in 1 .. rx_count
    BY <2>1 DEF Answers
  <2> QED
    BY <1>2, <1>3, <2>2
<1>13. Cardinality(GarbledAt) \in Nat
  <2>1. IsFiniteSet(DOMAIN sent) /\ GarbledAt \subseteq DOMAIN sent
    BY FS_Interval DEF GarbledAt, Answers
  <2> QED
    BY <2>1, FS_Subset, FS_CardinalityType
<1>14. CASE Handled(n) /\ ~Spoiled(n) /\ Seen(n) /\ Send(n)
  <2>1. sent' = Append(sent, n) /\ card_descriptor' = tx_buffer_num' /\ n \in Int
    BY <1>4, <1>14, AnswersAfterSend
  <2>2. Answered' = Answered \cup {n}
    BY <1>4, <2>1, AnsweredGrows DEF Query, Garbled
  <2>3. Answered' = {m \in 1 .. n : Handled(m)}
    BY <1>2, <1>3, <1>14, <2>2 DEF Answers
  <2>4. GarbledAt' = GarbledAt
    BY <1>4, <2>1, GarbledGrows DEF Garbled
  <2>5. GarbledAsMany'
    BY <1>11, <1>13, <1>14, <2>4 DEF Answers, GarbledAsMany
  <2>6. sent' \in Seq(Int)
        /\ \A i, j \in DOMAIN sent' : i < j /\ sent'[i] > 0 /\ sent'[j] > 0 => sent'[i] < sent'[j]
    BY <1>12, <2>1, SentGrows DEF Answers
  <2> QED
    BY <1>5, <1>10, <2>1, <2>3, <2>5, <2>6 DEF Answers
<1>15. CASE ~Handled(n) /\ (Spoiled(n) \/ ~Seen(n)) /\ (Spoiled(n) => Seen(n)) /\ Send(Garbled)
  <2>1. sent' = Append(sent, Garbled) /\ card_descriptor' = tx_buffer_num' /\ Garbled \in Int
    BY <1>15, AnswersAfterSend DEF Garbled
  <2>2. Answered' = Answered
    BY <2>1, AnsweredGrows
  <2>3. Answered' = {m \in 1 .. n : Handled(m)}
    BY <1>2, <1>3, <1>15, <2>2 DEF Answers
  <2>4. Cardinality(GarbledAt') = Cardinality(GarbledAt) + 1
    BY <2>1, GarbledGrows
  <2>5. GarbledAsMany'
    BY <1>11, <1>13, <1>15, <2>4 DEF Answers, GarbledAsMany
  <2>6. sent' \in Seq(Int)
        /\ \A i, j \in DOMAIN sent' : i < j /\ sent'[i] > 0 /\ sent'[j] > 0 => sent'[i] < sent'[j]
    BY <2>1, SentGrows DEF Answers, Garbled
  <2> QED
    BY <1>5, <1>10, <2>1, <2>3, <2>5, <2>6 DEF Answers
<1>16. CASE ~Handled(n) /\ ~Spoiled(n) /\ UNCHANGED <<sent, card_descriptor, tx_buffer_num>>
  <2>1. Answered' = {m \in 1 .. n : Handled(m)}
    BY <1>2, <1>3, <1>16 DEF Answers, Answered
  <2>2. GarbledAt' = GarbledAt
    BY <1>16 DEF GarbledAt
  <2>3. GarbledAsMany'
    BY <1>11, <1>13, <1>16, <2>2 DEF Answers, GarbledAsMany
  <2> QED
    BY <1>5, <1>10, <1>16, <2>1, <2>3 DEF Answers
<1> QED
  BY <1>9, <1>14, <1>15, <1>16

LEMMA AnswersKept == Inv /\ Answers /\ [Next]_vars => Answers'
<1> SUFFICES ASSUME Inv, Answers, [Next]_vars PROVE Answers'
  OBVIOUS
<1>1. ASSUME NEW k \in Kinds, NEW l \in Lengths, Receive(k, l)
      PROVE  Answers'
  <2>1. \A n \in 1 .. rx_count : received'[n] = received[n]
    <3>1. received \in Seq(Frames) /\ rx_count \in Nat /\ rx_count <= Len(received)
      BY DEF Inv, Shapes
    <3> QED
      BY <1>1, <3>1 DEF Receive
  <2>2. \A w \in Words : w >= R => memory'[w] = memory[w]
    <3> SUFFICES ASSUME NEW w \in Words, w >= R PROVE memory'[w] = memory[w]
      OBVIOUS
    <3>1. w \in Int /\ ~(w < RingSize \div 4)
      BY RingWords DEF Words, R
    <3> QED
      BY <1>1, <3>1 DEF Receive
  <2> QED
    BY <1>1, <2>1, <2>2, AnswersUntouched DEF Receive
<1>2. ASSUME UNCHANGED <<memory, received, sent, card_descriptor, tx_buffer_num, rx_count>>
      PROVE  Answers'
  BY <1>2, AnswersUntouched
<1>3. CASE BeginPoll \/ Advance \/ UNCHANGED vars
  BY <1>2, <1>3 DEF BeginPoll, Advance, card, vars
<1> QED
  BY <1>1, <1>3, AnswersAfterQuery, AnswersAfterHandle DEF Next, net_poll, PollEmpty

LEMMA AnswersInOrderFromInv == Answers => AnswersInOrder
<1> SUFFICES ASSUME Answers PROVE AnswersInOrder
  OBVIOUS
<1> DEFINE A == {n \in 1 .. rx_count : received[n].kind \in Requests}
           W == {n \in A : Complete(n, Copied[received[n].kind])}
           S == {n \in 1 .. rx_count : Complete(n, Tested[received[n].kind])}
<1>1. W = {n \in 1 .. rx_count : Handled(n)}
  BY DEF Handled, Asked, Kind
<1>2. (A \cap S) \ W = SpoiledOnes
  BY DEF SpoiledOnes, Spoiled, Seen, Handled, Asked, Kind
<1>3. (1 .. rx_count) \ S = Unseen
  BY DEF Unseen, Seen, Kind
<1> QED
  BY <1>1, <1>2, <1>3 DEF Answers, GarbledAsMany, GarbledAt, AnswersInOrder

(* Requests whose copied bytes lie together are answered, each once and in *)
(* the order they came, whatever the sizes of ring and frames and however  *)
(* much the driver tests and copies; garbled answers go out for every      *)
(* request that is seen but shorter than the copy or wraps around in it,   *)
(* and otherwise only for frames that wrap around in what is tested.       *)
THEOREM AlwaysAnsweredInOrder == Spec => []AnswersInOrder
<1>1. Init => Inv /\ Answers
  BY InvHolds, AnswersAtInit
<1>2. Inv /\ Answers /\ [Next]_vars => (Inv /\ Answers)'
  BY InvKept, AnswersKept
<1>3. Inv /\ Answers => AnswersInOrder
  BY AnswersInOrderFromInv
<1> QED
  BY <1>1, <1>2, <1>3, PTL DEF Spec

=============================================================================
