---------------------------- MODULE DesktopProofs -----------------------------
(***************************************************************************)
(* The windows' contents and the loop that draws them, for windows, words, *)
(* texts and canvases of any size, sums of any length and a clock with any *)
(* number of seconds, minutes and hours.                                   *)
(***************************************************************************)
EXTENDS Desktop, TLAPS, SequenceTheorems, WellFoundedInduction

-----------------------------------------------------------------------------
(* Numbers *)

LEMMA DivMod ==
  ASSUME NEW a \in Int, NEW N \in Int, N > 0
  PROVE  a \div N \in Int /\ a % N \in 0 .. N - 1 /\ a = N * (a \div N) + (a % N)
<1>1. a % N \in 0 .. N - 1
  OBVIOUS
<1>2. a \div N \in Int
  OBVIOUS
<1>3. a = N * (a \div N) + (a % N)
  OBVIOUS
<1> QED
  BY <1>1, <1>2, <1>3

LEMMA ModUnique ==
  ASSUME NEW q \in Int, NEW N \in Int, N > 0, NEW r \in 0 .. N - 1
  PROVE  (N * q + r) % N = r
  OBVIOUS

LEMMA ModMultiple ==
  ASSUME NEW q \in Int, NEW N \in Int, N > 0
  PROVE  (N * q) % N = 0 /\ 0 % N = 0
  OBVIOUS

LEMMA DivUnique ==
  ASSUME NEW q \in Int, NEW N \in Int, N > 0, NEW r \in 0 .. N - 1
  PROVE  (N * q + r) \div N = q
  OBVIOUS

(* Every nonempty set of naturals has a smallest member. *)
LEMMA Smallest ==
  ASSUME NEW S, S \subseteq Nat, S # {}
  PROVE  \E n \in S : \A m \in S : n <= m
<1> DEFINE less == OpToRel(<, Nat)
<1>1. IsWellFoundedOn(less, Nat)
  BY NatLessThanWellFounded
<1>2. \A i, j \in Nat : i < j => <<i, j>> \in less
  BY DEF OpToRel
<1> HIDE DEF less
<1>3. PICK n \in S : \A m \in S : ~(<<m, n>> \in less)
  BY <1>1, WFMin
<1>4. ASSUME NEW m \in S PROVE n <= m
  <2>1. n \in Nat /\ m \in Nat
    OBVIOUS
  <2>2. ~(m < n)
    BY <1>2, <1>3, <2>1
  <2> QED
    BY <2>1, <2>2
<1> QED
  BY <1>4

-----------------------------------------------------------------------------
(* Paint: a cell is in the column and the row its place in the array says. *)

LEMMA CellPlace ==
  ASSUME NEW col \in 0 .. Width - 1, NEW row \in Nat
  PROVE  (row * Width + col) % Width = col /\ (row * Width + col) \div Width = row
<1>1. Width \in Int /\ Width > 0 /\ row \in Int /\ row * Width + col = Width * row + col
  BY ApplicationsAssumption
<1> QED
  BY <1>1, ModUnique, DivUnique

(* The brush colours cells next to the pointer only, also at the edges of  *)
(* the canvas and when the pointer has left it between test and use.       *)
THEOREM BrushStays == SpecApps => BrushStaysNearPointer
<1>1. [NextApps]_appVars =>
        [\A px \in -1 .. Width, py \in -1 .. Height : Hold(px, py) =>
           \A i \in DOMAIN paint_canvas : paint_canvas'[i] # paint_canvas[i] =>
             Abs((i % Width) - px) <= 1 /\ Abs(i \div Width - py) <= 1]_appVars
  <2> SUFFICES ASSUME NEW px \in -1 .. Width, NEW py \in -1 .. Height, Hold(px, py),
                      NEW i \in DOMAIN paint_canvas, paint_canvas'[i] # paint_canvas[i]
               PROVE  Abs((i % Width) - px) <= 1 /\ Abs(i \div Width - py) <= 1
    OBVIOUS
  <2>1. Width \in Nat /\ Height \in Nat /\ px \in Int /\ py \in Int
    BY ApplicationsAssumption
  <2>2. i \in Brush(px, py)
    BY DEF Hold
  <2>3. PICK col \in (px - 1 .. px + 1) \intersect (0 .. Width - 1),
             row \in (py - 1 .. py + 1) \intersect (0 .. Height - 1) :
          i = row * Width + col
    BY <2>2 DEF Brush
  <2>4. col \in 0 .. Width - 1 /\ row \in Nat /\ col \in px - 1 .. px + 1 /\ row \in py - 1 .. py + 1
    BY <2>1, <2>3
  <2>5. i % Width = col /\ i \div Width = row
    BY <2>3, <2>4, CellPlace
  <2>6. Abs(col - px) <= 1 /\ Abs(row - py) <= 1
    BY <2>1, <2>4 DEF Abs
  <2> QED
    BY <2>5, <2>6
<1> QED
  BY <1>1, PTL DEF SpecApps, BrushStaysNearPointer

-----------------------------------------------------------------------------
(* The calculator's keys *)

(* Where a key is drawn its column is right, and its row or the one above, *)
(* as the press falls below the fifth row of pixels or not.                *)
LEMMA KeysFollow == KeysDoWhatTheyShow
<1> SUFFICES ASSUME NEW x \in 0 .. CalcWidth, NEW y \in 0 .. CalcHeight, DrawnAt(x, y) # NoKey
             PROVE  KeyAt(x, y) = IF y < 130 \/ (y - 95) % 35 >= 5 THEN DrawnAt(x, y) ELSE DrawnAt(x, y - 35)
  BY DEF KeysDoWhatTheyShow
<1>1. x \in Int /\ y \in Int
  BY DEF CalcWidth, CalcHeight
<1> DEFINE col == (x - 15) \div 43
           row == (y - 95) \div 35
           line == (y - 95) % 35
<1>2. x >= 15 /\ (x - 15) % 43 < 38 /\ y >= 95 /\ line < 30 /\ DrawnAt(x, y) = KeyInGrid(col, row)
  BY DEF DrawnAt
<1>3. col \in Int /\ row \in Int /\ line \in 0 .. 34 /\ y - 95 = 35 * row + line
  BY <1>1
<1>4. Quotient(x - 15, 43) = col
  BY <1>1, <1>2 DEF Quotient, Abs
<1>5. KeyAt(x, y) = KeyInGrid(col, Quotient(y - 100, 35))
  BY <1>4 DEF KeyAt
<1>6. CASE line >= 5
  <2>1. Quotient(y - 100, 35) = row
    <3>1. y - 100 >= 0 /\ y - 100 = 35 * row + (line - 5) /\ line - 5 \in 0 .. 34
      BY <1>1, <1>2, <1>3, <1>6
    <3>2. (35 * row + (line - 5)) \div 35 = row
      BY <1>3, <3>1, DivUnique
    <3> QED
      BY <1>1, <3>1, <3>2 DEF Quotient, Abs
  <2> QED
    BY <1>2, <1>5, <1>6, <2>1
<1>7. CASE line < 5 /\ y < 130
  <2>1. row = 0
    BY <1>1, <1>2, <1>3, <1>7
  <2>2. Quotient(y - 100, 35) = 0
    <3>1. y - 100 < 0 /\ -(y - 100) \in 0 .. 34
      BY <1>1, <1>2, <1>3, <1>7, <2>1
    <3>2. (-(y - 100)) \div 35 = 0
      BY <1>1, <3>1
    <3> QED
      BY <1>1, <3>1, <3>2 DEF Quotient, Abs
  <2> QED
    BY <1>2, <1>5, <1>7, <2>1, <2>2
<1>8. CASE line < 5 /\ ~(y < 130)
  <2>1. /\ y - 100 >= 0 /\ y - 100 = 35 * (row - 1) + (line + 30) /\ line + 30 \in 0 .. 34
        /\ (y - 35) - 95 = 35 * (row - 1) + line /\ y - 35 >= 95 /\ row - 1 \in Int
    BY <1>1, <1>3, <1>8
  <2>2. (35 * (row - 1) + (line + 30)) \div 35 = row - 1
    BY <2>1, DivUnique
  <2>3. Quotient(y - 100, 35) = row - 1
    BY <1>1, <2>1, <2>2 DEF Quotient, Abs
  <2>4. (35 * (row - 1) + line) \div 35 = row - 1 /\ (35 * (row - 1) + line) % 35 = line
    BY <1>3, <2>1, DivUnique, ModUnique
  <2>5. ((y - 35) - 95) \div 35 = row - 1 /\ ((y - 35) - 95) % 35 = line
    BY <2>1, <2>4
  <2>6. DrawnAt(x, y - 35) = KeyInGrid(col, row - 1)
    BY <1>2, <2>1, <2>5 DEF DrawnAt
  <2> QED
    BY <1>5, <1>8, <2>3, <2>6
<1> QED
  BY <1>3, <1>6, <1>7, <1>8

(* A press on a drawn key counts for that key, except that the five upper  *)
(* rows of pixels of a key count for the key above it.                     *)
THEOREM KeysAlwaysDoWhatTheyShow == SpecApps => []KeysDoWhatTheyShow
  BY KeysFollow, PTL

-----------------------------------------------------------------------------
(* What the windows hold *)

Ops == {"none", "C", "="} \union Operations

(* The keys of the calculator are figures, operations, "=" and "C". *)
LEMMA KeyKinds ==
  ASSUME NEW key \in CalcKeys
  PROVE  /\ key \in [figure : -1 .. 9, op : Ops]
         /\ key.op = "none" => key.figure \in 0 .. 9
<1>1. PICK x \in 0 .. CalcWidth, y \in 0 .. CalcHeight : key = KeyAt(x, y) /\ key # NoKey
  BY DEF CalcKeys
<1> DEFINE col == Quotient(x - 15, 43)
           row == Quotient(y - 100, 35)
<1>2. key = KeyInGrid(col, row)
  BY <1>1 DEF KeyAt
<1> HIDE DEF col, row
<1>3. col \in 0 .. 3 /\ row \in 0 .. 3 /\ key = Layout[4 * row + col + 1]
  BY <1>1, <1>2 DEF KeyInGrid
<1>4. PICK k \in 1 .. 16 : key = Layout[k]
  <2>1. 4 * row + col + 1 \in 1 .. 16
    BY <1>3
  <2> QED
    BY <1>3, <2>1
<1>5. /\ Layout[k] \in [figure : -1 .. 9, op : Ops]
      /\ Layout[k].op = "none" => Layout[k].figure \in 0 .. 9
  BY DEF Layout, FigureKey, OperationKey, Ops, Operations
<1> QED
  BY <1>4, <1>5

CalcTypes ==
  /\ calc \in [display : [neg : BOOLEAN, number : 0 .. LongMax + 1], val1 : -LongMax - 1 .. LongMax,
               op : {"none"} \union Operations, clear_next : BOOLEAN]
  /\ calc.display.number = LongMax + 1 => calc.display.neg

(* A negative number on the display is a result, so that the next figure   *)
(* replaces it, and an operation has made it the first operand.            *)
Pending ==
  /\ ~calc.clear_next => ~calc.display.neg
  /\ calc.clear_next /\ calc.op # "none" => calc.val1 = parse_calc_display(calc.display)

CalcInv == CalcTypes /\ Pending

LEMMA QuotientBounds ==
  ASSUME NEW n \in Nat, NEW d \in Nat, d > 0
  PROVE  n \div d \in 0 .. n /\ (d > 1 => 2 * (n \div d) <= n)
<1> DEFINE q == n \div d
           r == n % d
<1>1. q \in Int /\ r \in 0 .. d - 1 /\ n = d * q + r
  BY DivMod
<1> HIDE DEF q, r
<1>2. q >= 0
  <2> SUFFICES ASSUME q <= -1 PROVE FALSE
    BY <1>1
  <2>1. d * q <= -d
    BY <1>1
  <2> QED
    BY <1>1, <2>1
<1>3. d * q >= q
  BY <1>1, <1>2
<1>4. d > 1 => d * q >= 2 * q
  BY <1>1, <1>2
<1> QED
  BY <1>1, <1>2, <1>3, <1>4 DEF q

LEMMA QuotientInRange ==
  ASSUME NEW a \in -LongMax - 1 .. LongMax, NEW b \in -LongMax - 1 .. LongMax, b # 0,
         ~(a = -LongMax - 1 /\ b = -1)
  PROVE  Quotient(a, b) \in -LongMax - 1 .. LongMax
<1>1. LongMax \in Nat /\ LongMax >= 1 /\ a \in Int /\ b \in Int
  BY ApplicationsAssumption
<1>2. Abs(a) \in 0 .. LongMax + 1 /\ Abs(b) \in Nat /\ Abs(b) > 0
  BY <1>1 DEF Abs
<1> DEFINE q == Abs(a) \div Abs(b)
<1>3. q \in 0 .. Abs(a) /\ (Abs(b) > 1 => 2 * q <= Abs(a))
  BY <1>2, QuotientBounds
<1>4. Quotient(a, b) = IF (a < 0) = (b < 0) THEN q ELSE -q
  BY DEF Quotient
<1> HIDE DEF q
<1>5. CASE (a < 0) = (b < 0)
  <2>1. q <= LongMax
    <3>1. CASE Abs(b) > 1
      BY <1>1, <1>2, <1>3, <3>1
    <3>2. CASE Abs(a) <= LongMax
      BY <1>1, <1>2, <1>3, <3>2
    <3>3. Abs(b) > 1 \/ Abs(a) <= LongMax
      BY <1>1, <1>5 DEF Abs
    <3> QED
      BY <3>1, <3>2, <3>3
  <2> QED
    BY <1>1, <1>2, <1>3, <1>4, <1>5, <2>1
<1>6. CASE ~((a < 0) = (b < 0))
  BY <1>1, <1>2, <1>3, <1>4, <1>6
<1> QED
  BY <1>5, <1>6

LEMMA WrappedInRange ==
  ASSUME NEW n \in Int
  PROVE  Wrapped(n) \in -LongMax - 1 .. LongMax
<1>1. 2 * LongMax + 2 \in Int /\ 2 * LongMax + 2 > 0 /\ n + LongMax + 1 \in Int /\ LongMax \in Nat
  BY ApplicationsAssumption
<1>2. (n + LongMax + 1) % (2 * LongMax + 2) \in 0 .. (2 * LongMax + 2) - 1
  BY <1>1, DivMod
<1> QED
  BY <1>1, <1>2 DEF Wrapped

LEMMA ParseInRange ==
  ASSUME NEW d \in [neg : BOOLEAN, number : 0 .. LongMax + 1], d.number = LongMax + 1 => d.neg
  PROVE  parse_calc_display(d) \in -LongMax - 1 .. LongMax
<1>1. d.number \in 0 .. LongMax + 1 /\ LongMax \in Nat
  BY ApplicationsAssumption
<1> QED
  BY <1>1 DEF parse_calc_display

LEMMA ResultInRange ==
  ASSUME NEW op \in {"none"} \union Operations,
         NEW a \in -LongMax - 1 .. LongMax, NEW b \in -LongMax - 1 .. LongMax,
         ~(op = "/" /\ a = -LongMax - 1 /\ b = -1)
  PROVE  Result(op, a, b) \in -LongMax - 1 .. LongMax
<1>1. LongMax \in Nat /\ a \in Int /\ b \in Int /\ a + b \in Int /\ a - b \in Int /\ a * b \in Int
  BY ApplicationsAssumption
<1>2. CASE op = "+"
  BY <1>1, <1>2, WrappedInRange DEF Result
<1>3. CASE op = "-"
  BY <1>1, <1>3, WrappedInRange DEF Result
<1>4. CASE op = "*"
  BY <1>1, <1>4, WrappedInRange DEF Result
<1>5. CASE op = "/" /\ b # 0
  <2>1. Quotient(a, b) \in -LongMax - 1 .. LongMax
    BY <1>5, QuotientInRange
  <2> QED
    BY <1>5, <2>1 DEF Result
<1>6. CASE op = "none" \/ (op = "/" /\ b = 0)
  BY <1>6 DEF Result
<1> QED
  BY <1>2, <1>3, <1>4, <1>5, <1>6 DEF Operations

(* No pending division traps: a second operand of -1 is the first one too. *)
LEMMA NoTrapPending == CalcInv => NoDivisionTraps
<1> SUFFICES ASSUME CalcInv, calc.op = "/", calc.val1 = -LongMax - 1, parse_calc_display(calc.display) = -1
             PROVE  FALSE
  BY DEF NoDivisionTraps
<1>1. LongMax \in Nat /\ LongMax >= 1
  BY ApplicationsAssumption
<1>2. calc.display \in [neg : BOOLEAN, number : 0 .. LongMax + 1] /\ calc.clear_next \in BOOLEAN
  BY DEF CalcInv, CalcTypes
<1>3. CASE calc.clear_next
  BY <1>1, <1>3 DEF CalcInv, Pending
<1>4. CASE ~calc.clear_next
  <2>1. ~calc.display.neg /\ calc.display.number \in Nat
    BY <1>1, <1>2, <1>4 DEF CalcInv, Pending
  <2> QED
    BY <2>1 DEF parse_calc_display
<1> QED
  BY <1>3, <1>4

LEMMA CalcKept ==
  ASSUME CalcInv, NEW key \in CalcKeys, Pressing(key)
  PROVE  CalcInv'
<1>1. key \in [figure : -1 .. 9, op : Ops] /\ (key.op = "none" => key.figure \in 0 .. 9)
  BY KeyKinds
<1>2. LongMax \in Nat /\ Full \in Nat /\ Full > 0 /\ LongMax >= 20 * Full
  BY ApplicationsAssumption
<1>3. CASE key.op = "C"
  <2>1. calc' = [display |-> [neg |-> FALSE, number |-> 0], val1 |-> 0, op |-> "none", clear_next |-> FALSE]
    BY <1>3 DEF Pressing, ClearCalc, Zero, Operations
  <2> QED
    BY <1>2, <2>1 DEF CalcInv, CalcTypes, Pending
<1>4. CASE key.op = "="
  <2> DEFINE b == parse_calc_display(calc.display)
             res == Result(calc.op, calc.val1, b)
  <2>1. PICK d \in Shown(res) : calc' = [calc EXCEPT !.display = d, !.op = "none", !.clear_next = TRUE]
    BY <1>4 DEF Pressing, PressEquals, Operations
  <2>2. b \in -LongMax - 1 .. LongMax
    BY ParseInRange DEF CalcInv, CalcTypes
  <2>3. ~(calc.op = "/" /\ calc.val1 = -LongMax - 1 /\ b = -1)
    BY NoTrapPending DEF NoDivisionTraps
  <2> HIDE DEF b
  <2>4. res \in -LongMax - 1 .. LongMax
    BY <2>2, <2>3, ResultInRange DEF CalcInv, CalcTypes
  <2> HIDE DEF res
  <2>5. d \in [neg : BOOLEAN, number : 0 .. LongMax + 1] /\ (d.number = LongMax + 1 => d.neg)
    <3>1. CASE res < -LongMax
      <4>1. PICK n \in {0, LongMax + 1} : d = [neg |-> TRUE, number |-> n]
        BY <2>1, <3>1, Zenon DEF Shown
      <4>2. n \in 0 .. LongMax + 1
        BY <1>2
      <4> QED
        BY <4>1, <4>2
    <3>2. CASE ~(res < -LongMax)
      <4>1. d = [neg |-> res < 0, number |-> Abs(res)]
        BY <2>1, <3>2 DEF Shown
      <4>2. Abs(res) \in 0 .. LongMax
        BY <1>2, <2>4, <3>2 DEF Abs
      <4> DEFINE sign == res < 0
                 n == Abs(res)
      <4>3. d = [neg |-> sign, number |-> n] /\ n \in 0 .. LongMax
        BY <4>1, <4>2, Zenon
      <4>4. sign \in BOOLEAN
        BY <1>2, <2>4
      <4> HIDE DEF sign, n
      <4> QED
        BY <1>2, <4>3, <4>4
    <3> QED
      BY <3>1, <3>2
  <2> QED
    BY <2>1, <2>5 DEF CalcInv, CalcTypes, Pending
<1>5. CASE key.op \in Operations
  <2>1. calc' = [calc EXCEPT !.val1 = parse_calc_display(calc.display), !.op = key.op, !.clear_next = TRUE]
    BY <1>5 DEF Pressing, PressOperation, Operations
  <2> DEFINE b == parse_calc_display(calc.display)
  <2>2. b \in -LongMax - 1 .. LongMax
    BY ParseInRange DEF CalcInv, CalcTypes
  <2>3. calc'.display = calc.display /\ calc'.val1 = b /\ calc'.clear_next
    BY <2>1 DEF CalcInv, CalcTypes
  <2>4. Pending'
    BY <2>3 DEF Pending
  <2>5. CalcTypes'
    BY <1>5, <2>1, <2>2 DEF CalcInv, CalcTypes
  <2> QED
    BY <2>4, <2>5 DEF CalcInv
<1>6. CASE key.op = "none"
  <2>1. calc' = PressFigure(key.figure) /\ key.figure \in 0 .. 9
    BY <1>1, <1>6 DEF Pressing, Operations
  <2>2. calc.display.number \in 0 .. LongMax + 1
    BY DEF CalcInv, CalcTypes
  <2>3. key.figure \in 0 .. LongMax
    BY <1>2, <2>1
  <2>4. CASE calc.clear_next \/ calc.display = Zero
    <3> DEFINE d == [neg |-> FALSE, number |-> key.figure]
    <3>1. calc' = [calc EXCEPT !.display = d, !.clear_next = FALSE]
      BY <2>1, <2>4 DEF PressFigure
    <3>2. d \in [neg : BOOLEAN, number : 0 .. LongMax + 1] /\ ~d.neg /\ d.number # LongMax + 1
      BY <1>2, <2>3
    <3> HIDE DEF d
    <3> QED
      BY <3>1, <3>2 DEF CalcInv, CalcTypes, Pending
  <2>5. CASE ~(calc.clear_next \/ calc.display = Zero) /\ calc.display.number < Full
    <3> DEFINE n == 10 * calc.display.number + key.figure
    <3>1. calc' = [calc EXCEPT !.display.number = n]
      BY <2>1, <2>5 DEF PressFigure
    <3>2. n \in 0 .. LongMax
      BY <1>2, <2>1, <2>2, <2>5
    <3> HIDE DEF n
    <3>3. n \in 0 .. LongMax + 1 /\ n # LongMax + 1
      BY <1>2, <3>2
    <3>4. CalcTypes'
      BY <3>1, <3>3 DEF CalcInv, CalcTypes
    <3>5. calc'.clear_next = calc.clear_next /\ calc'.display.neg = calc.display.neg
      BY <3>1 DEF CalcInv, CalcTypes
    <3> QED
      BY <2>5, <3>4, <3>5 DEF CalcInv, Pending
  <2>6. CASE ~(calc.clear_next \/ calc.display = Zero) /\ ~(calc.display.number < Full)
    <3>1. calc' = calc
      BY <2>1, <2>6 DEF PressFigure
    <3> QED
      BY <3>1 DEF CalcInv, CalcTypes, Pending
  <2> QED
    BY <2>4, <2>5, <2>6
<1> QED
  BY <1>1, <1>3, <1>4, <1>5, <1>6 DEF Ops

PadWords == Keys \union {Space, "welcome"}

AppTypes ==
  /\ session \in Sessions /\ open \in Seq(session \union {"video"})
  /\ input_buffer \in Seq(Words) /\ Len(input_buffer) <= InputSize /\ programs \in 0 .. FreeTasks
  /\ pad_buffer \in Seq(PadWords) /\ Len(pad_buffer) <= PadSize
  /\ CalcInv
  /\ gallery_photo \in 0 .. 3 /\ current_wallpaper \in -1 .. 4
  /\ DOMAIN app_icon_files = 0 .. NumApps - 1 /\ selected_icon_target_app \in 0 .. NumApps - 1
  /\ paint_color \in Colours /\ \A i \in DOMAIN paint_canvas : paint_canvas[i] \in Colours \union {"black"}

LEMMA RemovedStays ==
  ASSUME NEW S, NEW s \in Seq(S), NEW k \in DOMAIN s
  PROVE  RemoveAt(s, k) \in Seq(S)
<1>1. k \in 1 .. Len(s) /\ Len(s) \in Nat
  OBVIOUS
<1>2. SubSeq(s, 1, k - 1) \in Seq(S) /\ SubSeq(s, k + 1, Len(s)) \in Seq(S)
  BY <1>1
<1> QED
  BY <1>2, ConcatProperties DEF RemoveAt

LEMMA OthersStay ==
  ASSUME NEW S, open \in Seq(S), NEW w
  PROVE  Others(w) \in Seq(S)
<1>1. CASE w \in ToSet(open)
  <2>1. \E i \in DOMAIN open : open[i] = w
    BY <1>1 DEF ToSet
  <2>2. PICK k \in DOMAIN open : k = CHOOSE i \in DOMAIN open : open[i] = w
    BY <2>1
  <2>3. Others(w) = RemoveAt(open, k)
    BY <1>1, <2>2 DEF Others
  <2> QED
    BY <2>3, RemovedStays
<1>2. CASE w \notin ToSet(open)
  BY <1>2 DEF Others
<1> QED
  BY <1>1, <1>2

LEMMA RaisedStays ==
  ASSUME AppTypes, NEW w \in session \union {"video"}, Raise(w)
  PROVE  open' \in Seq(session \union {"video"})
<1>1. Others(w) \in Seq(session \union {"video"})
  BY OthersStay DEF AppTypes
<1> HIDE DEF Others
<1>2. open' = Append(Others(w), w)
  BY DEF Raise
<1> QED
  BY <1>1, <1>2

LEMMA ButtonTypes ==
  ASSUME AppTypes, NEW w, Button(w)
  PROVE  session' = session /\ open' \in Seq(session \union {"video"})
<1>1. w \in session \union {"video"} /\ Raise(w) /\ session' = session
  BY DEF Button
<1> QED
  BY <1>1, RaisedStays

LEMMA ErasedStays ==
  ASSUME NEW S, NEW s \in Seq(S)
  PROVE  Erased(s) \in Seq(S) /\ Len(Erased(s)) <= Len(s)
<1>1. CASE s = <<>>
  BY <1>1 DEF Erased
<1>2. CASE s # <<>>
  <2>1. Len(s) \in Nat \ {0}
    BY <1>2, EmptySeq
  <2>2. Erased(s) = SubSeq(s, 1, Len(s) - 1)
    BY <1>2 DEF Erased, Front
  <2> QED
    BY <2>1, <2>2
<1> QED
  BY <1>1, <1>2

LEMMA TypedStays ==
  ASSUME NEW S, NEW s \in Seq(S), NEW size \in Nat, Len(s) <= size, NEW c \in S
  PROVE  Typed(s, size, c) \in Seq(S) /\ Len(Typed(s, size, c)) <= size
<1>1. CASE Len(s) < size
  <2>1. Typed(s, size, c) = Append(s, c) /\ Len(s) + 1 <= size
    BY <1>1 DEF Typed
  <2>2. Append(s, c) \in Seq(S) /\ Len(Append(s, c)) = Len(s) + 1
    OBVIOUS
  <2> QED
    BY <2>1, <2>2
<1>2. CASE ~(Len(s) < size)
  BY <1>2 DEF Typed
<1> QED
  BY <1>1, <1>2

(* No line starts more programs than there are slots. *)
LEMMA RepliesInRange ==
  ASSUME programs \in 0 .. FreeTasks, NEW line, NEW r \in Replies(line)
  PROVE  r.programs \in 0 .. FreeTasks
<1>1. FreeTasks \in Nat
  BY ApplicationsAssumption
<1>2. \A name : \A a \in Run(name) : a.programs \in 0 .. FreeTasks
  BY <1>1 DEF Run
<1>3. \A text : Reply(text).programs \in 0 .. FreeTasks
  BY DEF Reply
<1> DEFINE command == IF line = <<>> THEN "" ELSE Head(line)
           rest    == IF line = <<>> THEN <<>> ELSE Tail(line)
<1>4. \/ r \in Run(rest) \/ \E text : r = Reply(text)
  BY DEF Replies
<1> QED
  BY <1>2, <1>3, <1>4

LEMMA KeyTypes ==
  ASSUME AppTypes, NEW c \in Keys, TypeKey(c)
  PROVE  AppTypes'
<1>1. /\ InputSize \in Nat /\ PadSize \in Nat
      /\ c = LF \/ c = BS \/ c \in Words
  BY ApplicationsAssumption DEF Keys
<1>2. UNCHANGED <<session, open, calc, gallery, current_wallpaper, app_icon_files, paint>>
  BY DEF TypeKey, sums
<1>3. KeyToPad(c) \/ UNCHANGED <<shell, pad_buffer>> \/ KeyToShell(c)
  BY DEF TypeKey
<1>4. CASE KeyToPad(c)
  <2>1. UNCHANGED <<input_buffer, programs>>
    BY <1>4 DEF KeyToPad, shell
  <2> DEFINE typed == IF c = LF THEN Space ELSE c
  <2>2. pad_buffer' = Erased(pad_buffer) \/ pad_buffer' = Typed(pad_buffer, PadSize, typed)
    BY <1>4 DEF KeyToPad
  <2>3. typed \in PadWords
    BY DEF PadWords
  <2>4. pad_buffer \in Seq(PadWords) /\ Len(pad_buffer) \in Nat /\ Len(pad_buffer) <= PadSize
    BY DEF AppTypes
  <2> HIDE DEF typed
  <2>5. Erased(pad_buffer) \in Seq(PadWords) /\ Len(Erased(pad_buffer)) <= Len(pad_buffer)
    BY <2>4, ErasedStays
  <2>6. Typed(pad_buffer, PadSize, typed) \in Seq(PadWords) /\ Len(Typed(pad_buffer, PadSize, typed)) <= PadSize
    BY <1>1, <2>3, <2>4, TypedStays
  <2>7. pad_buffer' \in Seq(PadWords) /\ Len(pad_buffer') <= PadSize
    <3>1. CASE pad_buffer' = Erased(pad_buffer)
      <4>1. Len(pad_buffer') \in Nat /\ Len(pad_buffer') <= Len(pad_buffer) /\ pad_buffer' \in Seq(PadWords)
        BY <2>5, <3>1
      <4> QED
        BY <1>1, <2>4, <4>1
    <3>2. CASE pad_buffer' = Typed(pad_buffer, PadSize, typed)
      BY <2>6, <3>2
    <3> QED
      BY <2>2, <3>1, <3>2
  <2> QED
    BY <1>2, <2>1, <2>7 DEF AppTypes, CalcInv, CalcTypes, Pending, gallery, paint
<1>5. CASE UNCHANGED <<shell, pad_buffer>>
  BY <1>2, <1>5 DEF AppTypes, CalcInv, CalcTypes, Pending, gallery, paint, shell
<1>6. CASE KeyToShell(c)
  <2>1. input_buffer \in Seq(Words) /\ Len(input_buffer) \in Nat /\ Len(input_buffer) <= InputSize
    BY DEF AppTypes
  <2>2. pad_buffer' = pad_buffer
    BY <1>6 DEF KeyToShell
  <2>3. programs' \in 0 .. FreeTasks
    BY <1>6, RepliesInRange DEF KeyToShell, AppTypes
  <2>4. input_buffer' \in Seq(Words) /\ Len(input_buffer') <= InputSize
    <3>1. CASE c = LF
      <4>1. input_buffer' = <<>>
        BY <1>6, <3>1 DEF KeyToShell
      <4> QED
        BY <1>1, <4>1
    <3>2. CASE c # LF /\ c = BS
      <4>1. input_buffer' = Erased(input_buffer)
        BY <1>6, <3>2 DEF KeyToShell
      <4>2. Erased(input_buffer) \in Seq(Words) /\ Len(Erased(input_buffer)) <= Len(input_buffer)
        BY <2>1, ErasedStays
      <4>3. input_buffer' \in Seq(Words) /\ Len(input_buffer') \in Nat /\ Len(input_buffer') <= Len(input_buffer)
        BY <4>1, <4>2
      <4> QED
        BY <1>1, <2>1, <4>3
    <3>3. CASE c # LF /\ c # BS
      <4>1. input_buffer' = Typed(input_buffer, InputSize, c) /\ c \in Words
        BY <1>1, <1>6, <3>3 DEF KeyToShell
      <4>2. /\ Typed(input_buffer, InputSize, c) \in Seq(Words)
            /\ Len(Typed(input_buffer, InputSize, c)) <= InputSize
        BY <1>1, <2>1, <4>1, TypedStays
      <4> QED
        BY <4>1, <4>2
    <3> QED
      BY <3>1, <3>2, <3>3
  <2> QED
    BY <1>2, <2>2, <2>3, <2>4 DEF AppTypes, CalcInv, CalcTypes, Pending, gallery, paint
<1> QED
  BY <1>3, <1>4, <1>5, <1>6

LEMMA AppTypesKept == AppTypes /\ [NextApps]_appVars => AppTypes'
<1> SUFFICES ASSUME AppTypes, [NextApps]_appVars PROVE AppTypes'
  OBVIOUS
<1>1. CASE UNCHANGED appVars
  BY <1>1 DEF appVars, AppTypes, CalcInv, CalcTypes, Pending, shell, sums, gallery, paint
<1>2. CASE \E w \in session : OpenWindow(w) \/ CloseWindow(w)
  <2>1. PICK w \in session : OpenWindow(w) \/ CloseWindow(w)
    BY <1>2
  <2>2. UNCHANGED <<session, shell, pad_buffer, sums, gallery, current_wallpaper, app_icon_files, paint>>
    BY <2>1 DEF OpenWindow, CloseWindow
  <2>3. open' \in Seq(session \union {"video"})
    <3>1. CASE OpenWindow(w)
      BY <3>1, RaisedStays DEF OpenWindow
    <3>2. CASE CloseWindow(w)
      <4>1. open' = Others(w)
        BY <3>2 DEF CloseWindow
      <4> QED
        BY <4>1, OthersStay DEF AppTypes
    <3> QED
      BY <2>1, <3>1, <3>2
  <2> QED
    BY <2>2, <2>3 DEF AppTypes, CalcInv, CalcTypes, Pending, shell, sums, gallery, paint
<1>3. CASE PressPad
  <2>1. session' = session /\ open' \in Seq(session \union {"video"})
    BY <1>3, ButtonTypes DEF PressPad
  <2>2. /\ UNCHANGED <<shell, sums, gallery, current_wallpaper, app_icon_files, paint>>
        /\ pad_buffer' = pad_buffer \/ pad_buffer' = <<>>
    BY <1>3 DEF PressPad
  <2>3. pad_buffer' \in Seq(PadWords) /\ Len(pad_buffer') <= PadSize
    <3>1. PadSize \in Nat
      BY ApplicationsAssumption
    <3>2. CASE pad_buffer' = pad_buffer
      BY <3>2 DEF AppTypes
    <3>3. CASE pad_buffer' = <<>>
      BY <3>1, <3>3
    <3> QED
      BY <2>2, <3>2, <3>3
  <2> QED
    BY <2>1, <2>2, <2>3 DEF AppTypes, CalcInv, CalcTypes, Pending, shell, sums, gallery, paint
<1>4. CASE PressCalc
  <2>1. session' = session /\ open' \in Seq(session \union {"video"})
    BY <1>4, ButtonTypes DEF PressCalc
  <2>2. CalcInv'
    <3>1. PICK key \in CalcKeys : Pressing(key)
      BY <1>4 DEF PressCalc
    <3> QED
      BY <3>1, CalcKept DEF AppTypes
  <2>3. UNCHANGED <<shell, pad_buffer, gallery, current_wallpaper, app_icon_files, paint>>
    BY <1>4 DEF PressCalc
  <2> QED
    BY <2>1, <2>2, <2>3 DEF AppTypes, shell, gallery, paint
<1>5. CASE PressGallery
  <2>1. session' = session /\ open' \in Seq(session \union {"video"})
    BY <1>5, ButtonTypes DEF PressGallery
  <2>2. UNCHANGED <<shell, pad_buffer, sums, paint>>
    BY <1>5 DEF PressGallery
  <2>3. NumApps \in Nat /\ NumApps > 0
    BY ApplicationsAssumption
  <2>4. (selected_icon_target_app + 1) % NumApps \in 0 .. NumApps - 1
    BY <2>3 DEF AppTypes
  <2>5. /\ gallery_photo' \in 0 .. 3 /\ current_wallpaper' \in -1 .. 4
        /\ selected_icon_target_app' \in 0 .. NumApps - 1
    BY <1>5, <2>4 DEF PressGallery, AppTypes, gallery
  <2>6. DOMAIN app_icon_files' = DOMAIN app_icon_files
    BY <1>5 DEF PressGallery, SetIcon
  <2> QED
    BY <2>1, <2>2, <2>5, <2>6 DEF AppTypes, CalcInv, CalcTypes, Pending, shell, sums, paint
<1>6. CASE PressPlayer
  <2>1. session' = session /\ open' \in Seq(session \union {"video"})
    BY <1>6, ButtonTypes DEF PressPlayer
  <2>2. /\ UNCHANGED <<shell, pad_buffer, sums, gallery, app_icon_files, paint>>
        /\ current_wallpaper' = current_wallpaper \/ current_wallpaper' = 4
    BY <1>6 DEF PressPlayer
  <2> QED
    BY <2>1, <2>2 DEF AppTypes, CalcInv, CalcTypes, Pending, shell, sums, gallery, paint
<1>7. CASE PressPaint
  <2>1. session' = session /\ open' \in Seq(session \union {"video"})
    BY <1>7, ButtonTypes DEF PressPaint
  <2>2. UNCHANGED <<shell, pad_buffer, sums, gallery, current_wallpaper, paint_canvas>>
    BY <1>7 DEF PressPaint
  <2>3. paint_color' \in Colours /\ DOMAIN app_icon_files' = DOMAIN app_icon_files
    BY <1>7 DEF PressPaint, SetIcon, AppTypes
  <2> QED
    BY <2>1, <2>2, <2>3 DEF AppTypes, CalcInv, CalcTypes, Pending, shell, sums, gallery
<1>8. CASE \E c \in Keys : {"shell", "pad"} \intersect session # {} /\ TypeKey(c)
  BY <1>8, KeyTypes
<1>9. CASE \E px \in -1 .. Width, py \in -1 .. Height : Hold(px, py)
  <2>1. PICK px \in -1 .. Width, py \in -1 .. Height : Hold(px, py)
    BY <1>9
  <2>2. UNCHANGED <<session, open, shell, pad_buffer, sums, gallery, current_wallpaper, app_icon_files, paint_color>>
    BY <2>1 DEF Hold
  <2>3. \A i \in DOMAIN paint_canvas' : paint_canvas'[i] \in Colours \union {"black"}
    BY <2>1 DEF Hold, AppTypes
  <2> QED
    BY <2>2, <2>3 DEF AppTypes, CalcInv, CalcTypes, Pending, shell, sums, gallery
<1> QED
  BY <1>1, <1>2, <1>3, <1>4, <1>5, <1>6, <1>7, <1>8, <1>9 DEF NextApps, Press

LEMMA AppTypesInit == InitApps => AppTypes
<1> SUFFICES ASSUME InitApps PROVE AppTypes
  OBVIOUS
<1>1. /\ LongMax \in Nat /\ NumApps \in Nat /\ NumApps > 0 /\ PadSize \in Nat \ {0} /\ InputSize \in Nat
      /\ FreeTasks \in Nat /\ "white" \in Colours
  BY ApplicationsAssumption
<1>2. open \in Seq(session \union {"video"})
  BY DEF InitApps
<1>3. pad_buffer \in Seq(PadWords) /\ Len(pad_buffer) <= PadSize
  BY <1>1 DEF InitApps, PadWords
<1>4. CalcInv
  BY <1>1 DEF InitApps, CalcInv, CalcTypes, Pending, ClearCalc, Zero
<1>5. input_buffer \in Seq(Words) /\ Len(input_buffer) <= InputSize /\ programs \in 0 .. FreeTasks
  BY <1>1 DEF InitApps
<1> QED
  BY <1>1, <1>2, <1>3, <1>4, <1>5 DEF InitApps, AppTypes

(* No field of the windows outgrows its limit, and no line of the shell    *)
(* starts more programs than there are slots.                              *)
THEOREM AppsTypesAlwaysOK == SpecApps => []TypeOKApps
<1>1. AppTypes => TypeOKApps
  <2> SUFFICES ASSUME AppTypes PROVE TypeOKApps
    OBVIOUS
  <2>1. ToSet(open) \subseteq session \union {"video"}
    BY DEF AppTypes, ToSet
  <2>2. calc.display.number \in 0 .. LongMax + 1 /\ calc.val1 \in -LongMax - 1 .. LongMax
    BY DEF AppTypes, CalcInv, CalcTypes
  <2> QED
    BY <2>1, <2>2 DEF AppTypes, TypeOKApps
<1> QED
  BY <1>1, AppTypesInit, AppTypesKept, PTL DEF SpecApps

(* "=" never divides the smallest long long by -1, at which the processor  *)
(* would trap, whatever the compiler makes of that number's display.       *)
THEOREM DivisionNeverTraps == SpecApps => []NoDivisionTraps
<1>1. AppTypes => NoDivisionTraps
  BY NoTrapPending DEF AppTypes
<1> QED
  BY <1>1, AppTypesInit, AppTypesKept, PTL DEF SpecApps

-----------------------------------------------------------------------------
(* The sums *)

(* The function in NumberOf, on the first n of the keys. *)
Typing(f, keys, n) == f = [k \in 0 .. n |-> IF k = 0 THEN 0 ELSE WithFigure(f[k - 1], keys[k])]

LEMMA TypingExists ==
  ASSUME NEW keys, NEW n \in Nat
  PROVE  \E f : Typing(f, keys, n)
<1> DEFINE Missing == {m \in Nat : ~\E f : Typing(f, keys, m)}
<1> SUFFICES ASSUME Missing # {} PROVE FALSE
  OBVIOUS
<1>1. PICK m \in Missing : \A k \in Missing : m <= k
  <2>1. Missing \subseteq Nat
    OBVIOUS
  <2> HIDE DEF Missing
  <2> QED
    BY <2>1, Smallest
<1>2. CASE m = 0
  <2> DEFINE f == [k \in 0 .. 0 |-> 0]
  <2>1. Typing(f, keys, 0)
    BY DEF Typing
  <2> QED
    BY <1>1, <1>2, <2>1
<1>3. CASE m # 0
  <2>1. m \in Nat /\ m - 1 \in Nat /\ m - 1 \notin Missing
    BY <1>1, <1>3
  <2>2. PICK f : Typing(f, keys, m - 1)
    BY <2>1
  <2> DEFINE g == [k \in 0 .. m |-> IF k = m THEN WithFigure(f[m - 1], keys[m]) ELSE f[k]]
  <2>3. ASSUME NEW k \in 0 .. m PROVE g[k] = IF k = 0 THEN 0 ELSE WithFigure(g[k - 1], keys[k])
    <3>1. CASE k = 0
      BY <2>1, <2>2, <1>3, <3>1 DEF Typing
    <3>2. CASE k # 0 /\ k = m
      <4>1. m - 1 \in 0 .. m /\ m - 1 # m
        BY <2>1
      <4>2. g[m - 1] = f[m - 1] /\ g[m] = WithFigure(f[m - 1], keys[m])
        BY <2>1, <4>1
      <4> QED
        BY <3>2, <4>2
    <3>3. CASE k # 0 /\ k # m
      <4>1. k - 1 \in 0 .. m /\ k - 1 # m /\ k \in 0 .. m - 1
        BY <2>1, <3>3
      <4>2. g[k - 1] = f[k - 1] /\ g[k] = f[k]
        BY <3>3, <4>1
      <4>3. f[k] = WithFigure(f[k - 1], keys[k])
        BY <2>2, <3>3, <4>1 DEF Typing
      <4> QED
        BY <3>3, <4>2, <4>3
    <3> QED
      BY <3>1, <3>2, <3>3
  <2>4. g = [k \in 0 .. m |-> g[k]]
    OBVIOUS
  <2> HIDE DEF g
  <2>5. Typing(g, keys, m)
    BY <2>3, <2>4 DEF Typing
  <2> QED
    BY <1>1, <2>5
<1> QED
  BY <1>2, <1>3

(* Keys that begin alike stand for the same numbers as far as they do. *)
LEMMA TypingSame ==
  ASSUME NEW s, NEW t, NEW m \in Nat, NEW n \in Nat, NEW f, NEW g,
         Typing(f, s, m), Typing(g, t, n),
         NEW c \in Nat, c <= m, c <= n, \A k \in 1 .. c : s[k] = t[k]
  PROVE  f[c] = g[c]
<1> DEFINE Differ == {k \in 0 .. c : f[k] # g[k]}
<1> SUFFICES ASSUME Differ # {} PROVE FALSE
  BY DEF Differ
<1>1. PICK k \in Differ : \A l \in Differ : k <= l
  <2>1. Differ \subseteq Nat
    OBVIOUS
  <2> HIDE DEF Differ
  <2> QED
    BY <2>1, Smallest
<1>2. k \in 0 .. c /\ k \in 0 .. m /\ k \in 0 .. n
  BY <1>1
<1>3. /\ f[k] = IF k = 0 THEN 0 ELSE WithFigure(f[k - 1], s[k])
      /\ g[k] = IF k = 0 THEN 0 ELSE WithFigure(g[k - 1], t[k])
  BY <1>2 DEF Typing
<1>4. CASE k = 0
  BY <1>1, <1>3, <1>4
<1>5. CASE k # 0
  <2>1. k - 1 \in 0 .. c /\ k - 1 < k /\ k \in 1 .. c
    BY <1>2, <1>5
  <2>2. f[k - 1] = g[k - 1]
    BY <1>1, <1>2, <2>1
  <2> QED
    BY <1>1, <1>3, <1>5, <2>1, <2>2
<1> QED
  BY <1>4, <1>5

LEMMA NumberTyped ==
  ASSUME NEW keys, NEW n \in Nat, Len(keys) = n
  PROVE  \E f : Typing(f, keys, n) /\ NumberOf(keys) = f[n]
<1> DEFINE f == CHOOSE f : Typing(f, keys, n)
<1>1. Typing(f, keys, n)
  BY TypingExists
<1>2. NumberOf(keys) = f[n]
  BY DEF NumberOf, Typing
<1> HIDE DEF f
<1> QED
  BY <1>1, <1>2

(* A figure behind a run of figures *)
LEMMA NumberAppend ==
  ASSUME NEW S, NEW s \in Seq(S), NEW key \in S
  PROVE  NumberOf(Append(s, key)) = WithFigure(NumberOf(s), key)
<1> DEFINE n == Len(s)
           t == Append(s, key)
<1>1. n \in Nat /\ Len(t) = n + 1 /\ n + 1 \in Nat
  OBVIOUS
<1>2. (\A k \in 1 .. n : t[k] = s[k]) /\ t[n + 1] = key
  OBVIOUS
<1>3. Len(s) = n
  OBVIOUS
<1> HIDE DEF n, t
<1>4. PICK f : Typing(f, s, n) /\ NumberOf(s) = f[n]
  BY <1>1, <1>3, NumberTyped
<1>5. PICK g : Typing(g, t, n + 1) /\ NumberOf(t) = g[n + 1]
  BY <1>1, NumberTyped
<1>6. g[n] = f[n]
  BY <1>1, <1>2, <1>4, <1>5, TypingSame
<1>7. g[n + 1] = WithFigure(g[n], t[n + 1])
  BY <1>1, <1>5 DEF Typing
<1>8. NumberOf(t) = WithFigure(NumberOf(s), key)
  BY <1>2, <1>4, <1>5, <1>6, <1>7
<1> QED
  BY <1>8 DEF t

LEMMA NumberEmpty == NumberOf(<<>>) = 0
<1>1. PICK f : Typing(f, <<>>, 0) /\ NumberOf(<<>>) = f[0]
  BY NumberTyped
<1> QED
  BY <1>1 DEF Typing

CalcKey == {key \in [figure : -1 .. 9, op : {"none", "="} \union Operations] :
              key.op = "none" => key.figure \in 0 .. 9}

Figs(s, first, last) == \A i \in first .. last : s[i].op = "none"
RunFrom(s, first, last) ==
  first \in 1 .. last /\ Figs(s, first, last) /\ (first = 1 \/ ~Figs(s, first - 1, first - 1))
Num(s, first, last) == NumberOf(SubSeq(s, first, last))

(* What one more key leaves as it is, and what it adds. *)
OneMore(s, t, n, key) ==
  /\ t \in Seq(CalcKey) /\ n \in Nat /\ Len(t) = n + 1
  /\ t[n + 1] = key /\ \A k \in 1 .. n : t[k] = s[k] /\ s[k] \in CalcKey
  /\ \A i, m \in 1 .. n : /\ Figs(t, i, m) <=> Figs(s, i, m)
                          /\ Num(t, i, m) = Num(s, i, m)
  /\ \A i \in 1 .. n + 1 : /\ Figs(t, i, n + 1) <=> Figs(s, i, n) /\ key.op = "none"
                           /\ Num(t, i, n + 1) = WithFigure(Num(s, i, n), key)
  /\ Num(s, n + 1, n) = 0

LEMMA OneMoreKey ==
  ASSUME NEW s \in Seq(CalcKey), NEW key \in CalcKey
  PROVE  OneMore(s, Append(s, key), Len(s), key)
<1> DEFINE t == Append(s, key)
           n == Len(s)
<1>1. t \in Seq(CalcKey) /\ n \in Nat /\ Len(t) = n + 1
  OBVIOUS
<1>2. t[n + 1] = key /\ \A k \in 1 .. n : t[k] = s[k] /\ s[k] \in CalcKey
  OBVIOUS
<1>3. ASSUME NEW i \in 1 .. n, NEW m \in 1 .. n
      PROVE  (Figs(t, i, m) <=> Figs(s, i, m)) /\ Num(t, i, m) = Num(s, i, m)
  <2>1. \A k \in i .. m : k \in 1 .. n
    BY <1>1
  <2>2. Figs(t, i, m) <=> Figs(s, i, m)
    BY <1>2, <2>1 DEF Figs
  <2>3. SubSeq(t, i, m) = SubSeq(s, i, m)
    BY <1>1, <1>2
  <2> QED
    BY <2>2, <2>3 DEF Num
<1>4. ASSUME NEW i \in 1 .. n + 1
      PROVE  /\ Figs(t, i, n + 1) <=> Figs(s, i, n) /\ key.op = "none"
             /\ Num(t, i, n + 1) = WithFigure(Num(s, i, n), key)
  <2>1. \A k : k \in i .. n + 1 <=> k \in i .. n \/ k = n + 1
    BY <1>1
  <2>2. \A k \in i .. n : k \in 1 .. n
    BY <1>1
  <2>3. Figs(t, i, n + 1) <=> Figs(s, i, n) /\ key.op = "none"
    BY <1>2, <2>1, <2>2 DEF Figs
  <2>4. SubSeq(s, i, n) \in Seq(CalcKey)
    BY <1>1, <1>2
  <2>5. SubSeq(t, i, n + 1) = Append(SubSeq(s, i, n), key)
    BY <1>1, <1>2, <2>4
  <2> QED
    BY <2>3, <2>4, <2>5, NumberAppend DEF Num
<1>5. Num(s, n + 1, n) = 0
  <2>1. SubSeq(s, n + 1, n) = <<>>
    BY <1>1
  <2> QED
    BY <2>1, NumberEmpty DEF Num
<1> QED
  BY <1>1, <1>2, <1>3, <1>4, <1>5 DEF OneMore

(* The numbers a run of figures may stand for *)
Shorts == 0 .. 10 * Full - 1

FiguresShown(s, c) ==
  \A i \in 1 .. Len(s) : RunFrom(s, i, Len(s)) =>
    c.display = [neg |-> FALSE, number |-> Num(s, i, Len(s))] /\ Num(s, i, Len(s)) \in Shorts

OperandKept(s, c) ==
  \A i, j \in 1 .. Len(s) :
    i < j /\ s[j].op \in Operations /\ RunFrom(s, i, j - 1) /\ Figs(s, j + 1, Len(s)) =>
      c.op = s[j].op /\ c.val1 = Num(s, i, j - 1) /\ Num(s, i, j - 1) \in Shorts

(* The figures pressed last are on the display, the run before the last    *)
(* operation is the first operand; and a figure begins a new number only   *)
(* behind another key.                                                     *)
SumsInv(s, c) ==
  /\ s \in Seq(CalcKey)
  /\ s = <<>> => c = ClearCalc
  /\ s # <<>> => (c.clear_next <=> s[Len(s)].op # "none")
  /\ FiguresShown(s, c) /\ OperandKept(s, c)

(* Both operands of the sum that "=" ends *)
SumShown(s, c) ==
  \A i, j \in 1 .. Len(s) :
    /\ i < j /\ j < Len(s) - 1 /\ s[Len(s)].op = "=" /\ s[j].op \in Operations
    /\ RunFrom(s, i, j - 1) /\ Figs(s, j + 1, Len(s) - 1)
    => LET exact == Exact(s[j].op, Num(s, i, j - 1), Num(s, j + 1, Len(s) - 1))
       IN  s[j].op # "*" \/ exact <= LongMax => parse_calc_display(c.display) = exact

LEMMA WrappedExact ==
  ASSUME NEW r \in -LongMax .. LongMax
  PROVE  Wrapped(r) = r /\ \A d \in Shown(r) : parse_calc_display(d) = r
<1>1. LongMax \in Nat
  BY ApplicationsAssumption
<1> DEFINE N == 2 * LongMax + 2
           m == r + LongMax + 1
<1>2. N \in Int /\ N > 0 /\ m \in 0 .. N - 1 /\ m - LongMax - 1 = r
  BY <1>1
<1>3. Wrapped(r) = (m % N) - LongMax - 1
  BY DEF Wrapped
<1> HIDE DEF N, m
<1>4. m % N = m
  <2>1. (N * 0 + m) % N = m
    BY <1>2, ModUnique
  <2>2. N * 0 + m = m
    BY <1>2
  <2> QED
    BY <2>1, <2>2
<1>5. Wrapped(r) = r
  BY <1>2, <1>3, <1>4
<1>6. ASSUME NEW d \in Shown(r) PROVE parse_calc_display(d) = r
  <2>1. ~(r < -LongMax) /\ r \in Int /\ (r < 0 => -(-r) = r)
    BY <1>1
  <2>2. d = [neg |-> r < 0, number |-> Abs(r)]
    BY <1>6, <2>1 DEF Shown
  <2>3. CASE r < 0
    <3>1. d = [neg |-> TRUE, number |-> -r]
      BY <2>2, <2>3, Zenon DEF Abs
    <3> QED
      BY <2>1, <2>3, <3>1 DEF parse_calc_display
  <2>4. CASE ~(r < 0)
    <3> DEFINE sign == r < 0
    <3>1. d = [neg |-> sign, number |-> IF sign THEN -r ELSE r]
      BY <2>2, Zenon DEF Abs
    <3>2. sign = FALSE
      BY <2>4
    <3> HIDE DEF sign
    <3>3. d = [neg |-> FALSE, number |-> r]
      BY <3>1, <3>2
    <3> QED
      BY <3>3 DEF parse_calc_display
  <2> QED
    BY <2>3, <2>4
<1> QED
  BY <1>5, <1>6

LEMMA ResultExact ==
  ASSUME NEW op \in Operations, NEW a \in Shorts, NEW b \in Shorts,
         op # "*" \/ Exact(op, a, b) <= LongMax
  PROVE  \A d \in Shown(Result(op, a, b)) : parse_calc_display(d) = Exact(op, a, b)
<1>1. /\ LongMax \in Nat /\ Full \in Nat /\ Full > 0 /\ LongMax >= 20 * Full
      /\ a \in Nat /\ b \in Nat /\ a < 10 * Full /\ b < 10 * Full
  BY ApplicationsAssumption DEF Shorts
<1>2. CASE op = "+"
  <2>1. a + b \in -LongMax .. LongMax
    BY <1>1
  <2> QED
    BY <1>2, <2>1, WrappedExact DEF Result, Exact
<1>3. CASE op = "-"
  <2>1. a - b \in -LongMax .. LongMax
    BY <1>1
  <2> QED
    BY <1>3, <2>1, WrappedExact DEF Result, Exact
<1>4. CASE op = "*"
  <2>1. a * b \in Nat /\ a * b <= LongMax
    BY <1>1, <1>4 DEF Exact
  <2>2. a * b \in -LongMax .. LongMax
    BY <1>1, <2>1
  <2> QED
    BY <1>4, <2>2, WrappedExact DEF Result, Exact
<1>5. CASE op = "/" /\ b = 0
  <2>1. 0 \in -LongMax .. LongMax
    BY <1>1
  <2> QED
    BY <1>5, <2>1, WrappedExact DEF Result, Exact
<1>6. CASE op = "/" /\ b # 0
  <2>1. Quotient(a, b) = a \div b
    BY <1>1, <1>6 DEF Quotient, Abs
  <2>2. Quotient(a, b) \in -LongMax .. LongMax
    <3>1. a \div b \in 0 .. a
      BY <1>1, <1>6, QuotientBounds
    <3> QED
      BY <1>1, <2>1, <3>1
  <2> HIDE DEF Quotient
  <2>3. Result(op, a, b) = a \div b /\ Exact(op, a, b) = a \div b
    BY <1>6, <2>1 DEF Result, Exact
  <2> QED
    BY <2>1, <2>2, <2>3, WrappedExact
<1> QED
  BY <1>2, <1>3, <1>4, <1>5, <1>6 DEF Operations

LEMMA OtherNumber ==
  ASSUME NEW S, NEW n, NEW d \in [neg : BOOLEAN, number : S], NEW shows, shows = [d EXCEPT !.number = n]
  PROVE  shows = [neg |-> d.neg, number |-> n]
<1>1. DOMAIN d = {"neg", "number"} /\ d = [field \in DOMAIN d |-> d[field]]
  OBVIOUS
<1>2. [d EXCEPT !.number = n] = [neg |-> d.neg, number |-> n]
  BY <1>1
<1> QED
  BY <1>2

(* A figure *)
LEMMA FigureKeepsSums ==
  ASSUME SumsInv(pressed, calc), CalcTypes, NEW key \in CalcKey, key.op = "none",
         calc' = PressFigure(key.figure), pressed' = Append(pressed, key)
  PROVE  SumsInv(pressed', calc') /\ SumShown(pressed', calc')
<1> DEFINE n == Len(pressed)
           s == pressed
           t == pressed'
<1>1. s \in Seq(CalcKey)
  BY DEF SumsInv
<1>a. OneMore(s, t, n, key)
  BY <1>1, OneMoreKey
<1>2. /\ t \in Seq(CalcKey) /\ n \in Nat /\ Len(t) = n + 1
      /\ t[n + 1] = key /\ \A k \in 1 .. n : t[k] = s[k] /\ s[k] \in CalcKey
      /\ \A i, m \in 1 .. n : /\ Figs(t, i, m) <=> Figs(s, i, m)
                              /\ Num(t, i, m) = Num(s, i, m)
      /\ \A i \in 1 .. n + 1 : /\ Figs(t, i, n + 1) <=> Figs(s, i, n) /\ key.op = "none"
                               /\ Num(t, i, n + 1) = WithFigure(Num(s, i, n), key)
      /\ Num(s, n + 1, n) = 0
  BY <1>a DEF OneMore
<1>3. Full \in Nat /\ Full > 0 /\ key.figure \in 0 .. 9
  BY ApplicationsAssumption DEF CalcKey
<1>4. ~calc'.clear_next /\ calc'.op = calc.op /\ calc'.val1 = calc.val1
  BY DEF PressFigure, CalcTypes
<1>5. ASSUME NEW i \in 1 .. n + 1, RunFrom(t, i, n + 1)
      PROVE  /\ calc'.display = [neg |-> FALSE, number |-> Num(t, i, n + 1)]
             /\ Num(t, i, n + 1) \in Shorts
  <2>1. Num(t, i, n + 1) = WithFigure(Num(s, i, n), key)
    BY <1>2
  <2>2. CASE i = n + 1
    <3>1. n = 0 \/ s[n].op # "none"
      <4>1. CASE n # 0
        <5>1. ~Figs(t, n, n) /\ n \in 1 .. n
          BY <1>2, <1>5, <2>2, <4>1 DEF RunFrom
        <5> QED
          BY <1>2, <5>1 DEF Figs
      <4> QED
        BY <4>1
    <3>2. calc.clear_next \/ calc.display = Zero
      <4>1. CASE n = 0
        <5>1. s = <<>>
          BY <1>1, <4>1, EmptySeq
        <5> QED
          BY <5>1 DEF SumsInv, ClearCalc
      <4>2. CASE n # 0
        <5>1. s # <<>>
          BY <4>2
        <5> QED
          BY <3>1, <4>2, <5>1 DEF SumsInv
      <4> QED
        BY <4>1, <4>2
    <3>3. calc'.display = [neg |-> FALSE, number |-> key.figure]
      BY <3>2 DEF PressFigure, CalcTypes
    <3>4. Num(t, i, n + 1) = key.figure
      BY <1>2, <1>3, <2>1, <2>2 DEF WithFigure
    <3>5. key.figure \in Shorts
      BY <1>3 DEF Shorts
    <3> QED
      BY <3>3, <3>4, <3>5
  <2>3. CASE i # n + 1
    <3>1. i \in 1 .. n /\ n # 0 /\ n \in 1 .. n
      BY <1>2, <2>3
    <3>2. RunFrom(s, i, n)
      <4>1. Figs(s, i, n)
        BY <1>2, <1>5 DEF RunFrom
      <4>2. i = 1 \/ (i - 1 \in 1 .. n /\ ~Figs(t, i - 1, i - 1))
        BY <1>2, <1>5, <3>1 DEF RunFrom
      <4>3. i = 1 \/ ~Figs(s, i - 1, i - 1)
        BY <1>2, <4>2
      <4> QED
        BY <3>1, <4>1, <4>3 DEF RunFrom
    <3> DEFINE v == Num(s, i, n)
    <3>3. calc.display = [neg |-> FALSE, number |-> v] /\ v \in Shorts
      BY <3>1, <3>2 DEF SumsInv, FiguresShown
    <3>4. ~calc.clear_next
      <4>1. s[n].op = "none"
        BY <3>1, <3>2 DEF RunFrom, Figs
      <4>2. s # <<>>
        BY <3>1
      <4> QED
        BY <4>1, <4>2 DEF SumsInv
    <3> HIDE DEF v
    <3>5. WithFigure(v, key) \in Shorts
      BY <1>3, <3>3, SMTT(30) DEF WithFigure, Shorts
    <3>6. calc'.display = [neg |-> FALSE, number |-> WithFigure(v, key)]
      <4>1. CASE v = 0
        <5>1. calc.display = Zero /\ WithFigure(v, key) = key.figure
          BY <1>3, <3>3, <4>1 DEF Zero, WithFigure
        <5> QED
          BY <5>1 DEF PressFigure, CalcTypes
      <4>2. CASE v # 0 /\ v < Full
        <5>1. calc.display # Zero /\ calc.display.number = v
          BY <3>3, <4>2 DEF Zero
        <5>2. calc' = [calc EXCEPT !.display.number = 10 * @ + key.figure]
          BY <3>4, <4>2, <5>1 DEF PressFigure
        <5> DEFINE w == 10 * v + key.figure
        <5>3. calc'.display = [calc.display EXCEPT !.number = w]
          BY <5>1, <5>2 DEF CalcTypes
        <5> HIDE DEF w
        <5>4. calc'.display = [neg |-> FALSE, number |-> w]
          <6>1. calc.display \in [neg : BOOLEAN, number : 0 .. LongMax + 1] /\ calc.display.neg = FALSE
            BY <3>3 DEF CalcTypes
          <6> QED
            BY <5>3, <6>1, OtherNumber
        <5>5. WithFigure(v, key) = w
          BY <4>2 DEF WithFigure, w
        <5> QED
          BY <5>4, <5>5
      <4>3. CASE v # 0 /\ ~(v < Full)
        <5>1. calc.display # Zero /\ calc.display.number = v
          BY <3>3, <4>3 DEF Zero
        <5>2. calc' = calc
          BY <3>4, <4>3, <5>1 DEF PressFigure
        <5> QED
          BY <3>3, <4>3, <5>2 DEF WithFigure
      <4> QED
        BY <4>1, <4>2, <4>3
    <3> QED
      BY <2>1, <3>5, <3>6 DEF v
  <2> QED
    BY <2>2, <2>3
<1>6. ASSUME NEW i \in 1 .. n + 1, NEW j \in 1 .. n + 1, i < j, t[j].op \in Operations,
             RunFrom(t, i, j - 1), Figs(t, j + 1, n + 1)
      PROVE  calc'.op = t[j].op /\ calc'.val1 = Num(t, i, j - 1) /\ Num(t, i, j - 1) \in Shorts
  <2>1. j \in 1 .. n /\ j - 1 \in 1 .. n /\ i \in 1 .. n /\ j + 1 \in 1 .. n + 1
    <3>1. j # n + 1
      BY <1>2, <1>6 DEF Operations
    <3> QED
      BY <1>2, <1>6, <3>1
  <2>2. Figs(s, j + 1, n) /\ t[j] = s[j] /\ Num(t, i, j - 1) = Num(s, i, j - 1)
    BY <1>2, <1>6, <2>1
  <2>3. RunFrom(s, i, j - 1)
    <3>1. Figs(s, i, j - 1)
      BY <1>2, <1>6, <2>1 DEF RunFrom
    <3>2. i = 1 \/ (i - 1 \in 1 .. n /\ ~Figs(t, i - 1, i - 1))
      BY <1>2, <1>6, <2>1 DEF RunFrom
    <3>3. i = 1 \/ ~Figs(s, i - 1, i - 1)
      BY <1>2, <3>2
    <3> QED
      BY <1>6, <2>1, <3>1, <3>3 DEF RunFrom
  <2>4. calc.op = s[j].op /\ calc.val1 = Num(s, i, j - 1) /\ Num(s, i, j - 1) \in Shorts
    BY <1>6, <2>1, <2>2, <2>3 DEF SumsInv, OperandKept
  <2> QED
    BY <1>4, <2>2, <2>4
<1>7. t # <<>> /\ t[Len(t)].op = "none" /\ t[Len(t)].op # "="
  BY <1>2
<1>8. FiguresShown(t, calc')
  BY <1>2, <1>5 DEF FiguresShown
<1>9. OperandKept(t, calc')
  BY <1>2, <1>6, ZenonT(30) DEF OperandKept
<1>10. SumShown(t, calc')
  BY <1>7 DEF SumShown
<1> QED
  BY <1>2, <1>4, <1>7, <1>8, <1>9, <1>10 DEF SumsInv

(* An operation *)
LEMMA OperationKeepsSums ==
  ASSUME SumsInv(pressed, calc), CalcTypes, NEW key \in CalcKey, key.op \in Operations,
         calc' = PressOperation(key.op), pressed' = Append(pressed, key)
  PROVE  SumsInv(pressed', calc') /\ SumShown(pressed', calc')
<1> DEFINE n == Len(pressed)
           s == pressed
           t == pressed'
<1>1. s \in Seq(CalcKey)
  BY DEF SumsInv
<1>a. OneMore(s, t, n, key)
  BY <1>1, OneMoreKey
<1>2. /\ t \in Seq(CalcKey) /\ n \in Nat /\ Len(t) = n + 1
      /\ t[n + 1] = key /\ \A k \in 1 .. n : t[k] = s[k] /\ s[k] \in CalcKey
      /\ \A i, m \in 1 .. n : /\ Figs(t, i, m) <=> Figs(s, i, m)
                              /\ Num(t, i, m) = Num(s, i, m)
      /\ \A i \in 1 .. n + 1 : /\ Figs(t, i, n + 1) <=> Figs(s, i, n) /\ key.op = "none"
                               /\ Num(t, i, n + 1) = WithFigure(Num(s, i, n), key)
      /\ Num(s, n + 1, n) = 0
  BY <1>a DEF OneMore
<1>3. key.op # "none" /\ key.op # "="
  BY DEF Operations
<1>4. calc'.clear_next /\ calc'.op = key.op /\ calc'.val1 = parse_calc_display(calc.display)
  BY DEF PressOperation, CalcTypes
<1>5. \A i \in 1 .. n + 1 : ~Figs(t, i, n + 1)
  BY <1>2, <1>3
<1>6. ASSUME NEW i \in 1 .. n + 1, NEW j \in 1 .. n + 1, i < j, t[j].op \in Operations,
             RunFrom(t, i, j - 1), Figs(t, j + 1, n + 1)
      PROVE  calc'.op = t[j].op /\ calc'.val1 = Num(t, i, j - 1) /\ Num(t, i, j - 1) \in Shorts
  <2>1. j = n + 1
    <3>1. ASSUME j # n + 1 PROVE j + 1 \in 1 .. n + 1
      BY <1>2, <3>1
    <3> QED
      BY <1>5, <1>6, <3>1
  <2>2. i \in 1 .. n /\ n \in 1 .. n /\ j - 1 = n
    BY <1>2, <1>6, <2>1
  <2>3. RunFrom(s, i, n)
    <3>1. Figs(s, i, n)
      BY <1>2, <1>6, <2>2 DEF RunFrom
    <3>2. i = 1 \/ (i - 1 \in 1 .. n /\ ~Figs(t, i - 1, i - 1))
      BY <1>2, <1>6, <2>2 DEF RunFrom
    <3>3. i = 1 \/ ~Figs(s, i - 1, i - 1)
      BY <1>2, <3>2
    <3> QED
      BY <2>2, <3>1, <3>3 DEF RunFrom
  <2>4. calc.display = [neg |-> FALSE, number |-> Num(s, i, n)] /\ Num(s, i, n) \in Shorts
    BY <2>2, <2>3 DEF SumsInv, FiguresShown
  <2>5. Num(t, i, j - 1) = Num(s, i, n)
    BY <1>2, <2>2
  <2>6. parse_calc_display(calc.display) = Num(s, i, n)
    BY <2>4 DEF parse_calc_display
  <2> QED
    BY <1>2, <1>4, <2>1, <2>4, <2>5, <2>6
<1>7. t # <<>> /\ t[Len(t)].op # "none" /\ t[Len(t)].op # "="
  BY <1>2, <1>3
<1>8. FiguresShown(t, calc')
  BY <1>2, <1>5 DEF FiguresShown, RunFrom
<1>9. OperandKept(t, calc')
  BY <1>2, <1>6 DEF OperandKept
<1>10. SumShown(t, calc')
  BY <1>7 DEF SumShown
<1> QED
  BY <1>2, <1>4, <1>7, <1>8, <1>9, <1>10 DEF SumsInv

(* The end of a sum *)
LEMMA EqualsKeepsSums ==
  ASSUME SumsInv(pressed, calc), CalcTypes, NEW key \in CalcKey, key.op = "=",
         calc' \in PressEquals, pressed' = Append(pressed, key)
  PROVE  SumsInv(pressed', calc') /\ SumShown(pressed', calc')
<1> DEFINE n == Len(pressed)
           s == pressed
           t == pressed'
<1>1. s \in Seq(CalcKey)
  BY DEF SumsInv
<1>a. OneMore(s, t, n, key)
  BY <1>1, OneMoreKey
<1>2. /\ t \in Seq(CalcKey) /\ n \in Nat /\ Len(t) = n + 1
      /\ t[n + 1] = key /\ \A k \in 1 .. n : t[k] = s[k] /\ s[k] \in CalcKey
      /\ \A i, m \in 1 .. n : /\ Figs(t, i, m) <=> Figs(s, i, m)
                              /\ Num(t, i, m) = Num(s, i, m)
      /\ \A i \in 1 .. n + 1 : /\ Figs(t, i, n + 1) <=> Figs(s, i, n) /\ key.op = "none"
                               /\ Num(t, i, n + 1) = WithFigure(Num(s, i, n), key)
      /\ Num(s, n + 1, n) = 0
  BY <1>a DEF OneMore
<1>3. /\ calc'.clear_next
      /\ calc'.display \in Shown(Result(calc.op, calc.val1, parse_calc_display(calc.display)))
  BY DEF PressEquals, CalcTypes
<1>4. \A i \in 1 .. n + 1 : ~Figs(t, i, n + 1)
  BY <1>2
<1>5. ASSUME NEW i \in 1 .. n + 1, NEW j \in 1 .. n + 1, i < j, t[j].op \in Operations, Figs(t, j + 1, n + 1)
      PROVE  FALSE
  <2>1. CASE j = n + 1
    BY <1>2, <1>5, <2>1 DEF Operations
  <2>2. CASE j # n + 1
    <3>1. j + 1 \in 1 .. n + 1
      BY <1>2, <2>2
    <3> QED
      BY <1>4, <1>5, <3>1
  <2> QED
    BY <2>1, <2>2
<1>6. ASSUME NEW i \in 1 .. n + 1, NEW j \in 1 .. n + 1, i < j, j < n, t[j].op \in Operations,
             RunFrom(t, i, j - 1), Figs(t, j + 1, n),
             t[j].op # "*" \/ Exact(t[j].op, Num(t, i, j - 1), Num(t, j + 1, n)) <= LongMax
      PROVE  parse_calc_display(calc'.display) = Exact(t[j].op, Num(t, i, j - 1), Num(t, j + 1, n))
  <2>1. i \in 1 .. n /\ j \in 1 .. n /\ j - 1 \in 1 .. n /\ j + 1 \in 1 .. n /\ n \in 1 .. n
    BY <1>2, <1>6
  <2>2. /\ Figs(s, j + 1, n) /\ t[j] = s[j]
        /\ Num(t, i, j - 1) = Num(s, i, j - 1) /\ Num(t, j + 1, n) = Num(s, j + 1, n)
    BY <1>2, <1>6, <2>1
  <2>3. RunFrom(s, i, j - 1)
    <3>1. Figs(s, i, j - 1)
      BY <1>2, <1>6, <2>1 DEF RunFrom
    <3>2. i = 1 \/ (i - 1 \in 1 .. n /\ ~Figs(t, i - 1, i - 1))
      BY <1>2, <1>6, <2>1 DEF RunFrom
    <3>3. i = 1 \/ ~Figs(s, i - 1, i - 1)
      BY <1>2, <3>2
    <3> QED
      BY <1>6, <2>1, <3>1, <3>3 DEF RunFrom
  <2>4. RunFrom(s, j + 1, n)
    <3>1. ~Figs(s, j, j)
      <4>1. s[j].op # "none"
        BY <1>6, <2>2 DEF Operations
      <4>2. j \in j .. j
        BY <2>1
      <4> QED
        BY <4>1, <4>2 DEF Figs
    <3>2. (j + 1) - 1 = j /\ j + 1 \in 1 .. n
      BY <2>1
    <3> QED
      BY <2>2, <3>1, <3>2 DEF RunFrom
  <2> DEFINE a == Num(s, i, j - 1)
             b == Num(s, j + 1, n)
  <2>5. calc.op = s[j].op /\ calc.val1 = a /\ a \in Shorts
    BY <1>6, <2>1, <2>2, <2>3 DEF SumsInv, OperandKept
  <2>6. calc.display = [neg |-> FALSE, number |-> b] /\ b \in Shorts
    BY <2>1, <2>4 DEF SumsInv, FiguresShown
  <2> HIDE DEF a, b
  <2>7. parse_calc_display(calc.display) = b
    BY <2>6 DEF parse_calc_display
  <2>8. s[j].op \in Operations /\ (s[j].op # "*" \/ Exact(s[j].op, a, b) <= LongMax)
    BY <1>6, <2>2 DEF a, b
  <2>9. \A d \in Shown(Result(s[j].op, a, b)) : parse_calc_display(d) = Exact(s[j].op, a, b)
    BY <2>5, <2>6, <2>8, ResultExact
  <2>10. parse_calc_display(calc'.display) = Exact(s[j].op, a, b)
    BY <1>3, <2>5, <2>7, <2>9
  <2> QED
    BY <2>2, <2>10 DEF a, b
<1>7. t # <<>> /\ t[Len(t)].op # "none"
  BY <1>2
<1>8. FiguresShown(t, calc')
  BY <1>2, <1>4 DEF FiguresShown, RunFrom
<1>9. OperandKept(t, calc')
  BY <1>2, <1>5 DEF OperandKept
<1>10. SumShown(t, calc')
  <2>1. Len(t) - 1 = n
    BY <1>2
  <2> QED
    BY <1>2, <1>6, <2>1 DEF SumShown
<1> QED
  BY <1>2, <1>3, <1>7, <1>8, <1>9, <1>10 DEF SumsInv

SumsAlways == AppTypes /\ SumsInv(pressed, calc) /\ SumShown(pressed, calc)

LEMMA SumsKept == SumsAlways /\ [NextApps]_appVars => SumsAlways'
<1> SUFFICES ASSUME SumsAlways, [NextApps]_appVars PROVE SumsAlways'
  OBVIOUS
<1>1. AppTypes' /\ CalcTypes
  BY AppTypesKept DEF SumsAlways, AppTypes, CalcInv
<1>2. CASE UNCHANGED sums
  BY <1>1, <1>2 DEF SumsAlways, sums
<1>3. CASE PressCalc
  <2>1. PICK key \in CalcKeys :
          Pressing(key) /\ pressed' = IF key.op = "C" THEN <<>> ELSE Append(pressed, key)
    BY <1>3 DEF PressCalc
  <2>2. CASE key.op = "C"
    <3>1. calc' = ClearCalc /\ pressed' = <<>>
      BY <2>1, <2>2 DEF Pressing, Operations
    <3>2. pressed' \in Seq(CalcKey) /\ Len(pressed') = 0
      BY <3>1
    <3>3. SumsInv(pressed', calc')
      BY <3>1, <3>2 DEF SumsInv, FiguresShown, OperandKept
    <3>4. SumShown(pressed', calc')
      BY <3>2 DEF SumShown
    <3> QED
      BY <1>1, <3>3, <3>4 DEF SumsAlways
  <2>3. CASE key.op # "C"
    <3>1. key \in CalcKey /\ pressed' = Append(pressed, key)
      BY <2>1, <2>3, KeyKinds DEF CalcKey, Ops
    <3>2. SumsInv(pressed', calc') /\ SumShown(pressed', calc')
      <4>1. CASE key.op = "none"
        <5>1. calc' = PressFigure(key.figure)
          BY <2>1, <4>1 DEF Pressing, Operations
        <5> QED
          BY <1>1, <3>1, <4>1, <5>1, FigureKeepsSums DEF SumsAlways
      <4>2. CASE key.op \in Operations
        <5>1. calc' = PressOperation(key.op)
          BY <2>1, <4>2 DEF Pressing, Operations
        <5> QED
          BY <1>1, <3>1, <4>2, <5>1, OperationKeepsSums DEF SumsAlways
      <4>3. CASE key.op = "="
        <5>1. calc' \in PressEquals
          BY <2>1, <4>3 DEF Pressing, Operations
        <5> QED
          BY <1>1, <3>1, <4>3, <5>1, EqualsKeepsSums DEF SumsAlways
      <4> QED
        BY <3>1, <4>1, <4>2, <4>3 DEF CalcKey
    <3> QED
      BY <1>1, <3>2 DEF SumsAlways
  <2> QED
    BY <2>2, <2>3
<1>4. PressCalc \/ UNCHANGED sums
  <2>1. CASE UNCHANGED appVars
    BY <2>1 DEF appVars
  <2>2. CASE Press /\ ~PressCalc
    BY <2>2 DEF Press, OpenWindow, CloseWindow, PressPad, PressGallery, PressPlayer, PressPaint
  <2>3. CASE \E c \in Keys : {"shell", "pad"} \intersect session # {} /\ TypeKey(c)
    BY <2>3 DEF TypeKey
  <2>4. CASE \E px \in -1 .. Width, py \in -1 .. Height : Hold(px, py)
    BY <2>4 DEF Hold
  <2> QED
    BY <2>1, <2>2, <2>3, <2>4 DEF NextApps
<1> QED
  BY <1>2, <1>3, <1>4

(* After "a op b =" the display shows a op b, whatever was pressed before: *)
(* no key leaves anything behind that changes a later sum.                 *)
THEOREM CalculatorAlwaysExact == SpecApps => []CalculatorIsExact
<1>1. InitApps => SumsAlways
  <2> SUFFICES ASSUME InitApps PROVE SumsAlways
    OBVIOUS
  <2>1. calc = ClearCalc /\ pressed = <<>> /\ pressed \in Seq(CalcKey) /\ Len(pressed) = 0
    BY DEF InitApps
  <2>2. SumsInv(pressed, calc)
    BY <2>1 DEF SumsInv, FiguresShown, OperandKept
  <2>3. SumShown(pressed, calc)
    BY <2>1 DEF SumShown
  <2> QED
    BY <2>2, <2>3, AppTypesInit DEF SumsAlways
<1>2. SumsAlways => CalculatorIsExact
  <2> SUFFICES ASSUME SumsAlways PROVE CalculatorIsExact
    OBVIOUS
  <2> DEFINE n == Len(pressed)
  <2>1. n \in Nat /\ DOMAIN pressed = 1 .. n
    BY DEF SumsAlways, SumsInv
  <2>2. /\ \A first, last : Figs(pressed, first, last) <=> AllFigures(first, last)
        /\ \A first, last : Num(pressed, first, last) = Number(first, last)
    BY DEF Figs, AllFigures, Num, Number
  <2>3. ASSUME NEW i \in 1 .. n, NEW j \in 1 .. n, i < j, AllFigures(i, j - 1),
               i = 1 \/ ~AllFigures(i - 1, i - 1)
        PROVE  RunFrom(pressed, i, j - 1)
    <3>1. i \in 1 .. j - 1
      BY <2>1, <2>3
    <3> QED
      BY <2>2, <2>3, <3>1 DEF RunFrom
  <2> QED
    BY <2>1, <2>2, <2>3 DEF SumsAlways, SumShown, CalculatorIsExact
<1> QED
  BY <1>1, <1>2, SumsKept, PTL DEF SpecApps

-----------------------------------------------------------------------------
(* Frames *)

(* What a handler changed waits for the frame it marked.                   *)
FrameInv ==
  /\ "windows" \in stale => ui_needs_redraw \/ pc = "draw"
  /\ pc \in {"cursor", "yield"} => "windows" \notin stale

LEMMA FrameInvKept == FrameInv /\ [Next]_vars => FrameInv'
<1> SUFFICES ASSUME FrameInv, [Next]_vars PROVE FrameInv'
  OBVIOUS
<1>1. CASE SerialPoll
  BY <1>1 DEF SerialPoll, FrameInv, Goto
<1>2. CASE Compare
  BY <1>2 DEF Compare, FrameInv, Goto
<1>3. CASE Remember
  BY <1>3 DEF Remember, FrameInv, Goto
<1>4. CASE PressButton
  BY <1>4 DEF PressButton, FrameInv, Goto, Mark
<1>5. CASE NoPress
  BY <1>5 DEF NoPress, Nothing, FrameInv, Goto
<1>6. CASE HoldButton
  BY <1>6 DEF HoldButton, HoldOnCanvas, Nothing, NoteChanges, FrameInv, Goto, Mark
<1>7. CASE HandleKeyboard
  BY <1>7 DEF HandleKeyboard, Nothing, NoteChanges, FrameInv, Goto, Mark
<1>8. CASE ReadRegister
  <2>1. pc = "clock" /\ pc' \in {"clock", "test"} /\ UNCHANGED <<ui_needs_redraw, stale>>
    BY <1>8 DEF ReadRegister, Goto
  <2> QED
    BY <2>1 DEF FrameInv
<1>9. CASE Test
  BY <1>9 DEF Test, MustDraw, FrameInv, Goto
<1>10. CASE DrawWindows
  BY <1>10 DEF DrawWindows, FrameInv, Goto
<1>11. CASE DrawCursor
  BY <1>11 DEF DrawCursor, FrameInv, Goto
<1>12. CASE Yield
  BY <1>12 DEF Yield, FrameInv, Goto
<1>13. CASE MovePointer \/ Tick \/ UNCHANGED vars
  BY <1>13 DEF MovePointer, Tick, vars, FrameInv
<1> QED
  BY <1>1, <1>2, <1>3, <1>4, <1>5, <1>6, <1>7, <1>8, <1>9, <1>10, <1>11, <1>12, <1>13 DEF Next, Loop

(* At the end of a frame everything its handlers did to the windows is on  *)
(* the screen, in whatever order presses, keys and held buttons came.      *)
THEOREM FrameAlwaysShowsItsChanges == Spec => []FrameShowsItsChanges
<1>1. Init => FrameInv
  BY DEF Init, FrameInv
<1>2. FrameInv => FrameShowsItsChanges
  BY DEF FrameInv, FrameShowsItsChanges
<1> QED
  BY <1>1, <1>2, FrameInvKept, PTL DEF Spec

-----------------------------------------------------------------------------
(* The clock *)

LEMMA AddWrap ==
  ASSUME NEW S \in Nat, S > 0, NEW i \in 0 .. S - 1, NEW k \in 0 .. S - 1
  PROVE  (i + k) % S = IF i + k < S THEN i + k ELSE i + k - S
<1>1. CASE i + k < S
  <2>1. i + k = S * 0 + (i + k) /\ i + k \in 0 .. S - 1
    BY <1>1
  <2>2. (S * 0 + (i + k)) % S = i + k
    BY <2>1, ModUnique
  <2> QED
    BY <1>1, <2>1, <2>2
<1>2. CASE ~(i + k < S)
  <2>1. i + k = S * 1 + (i + k - S) /\ i + k - S \in 0 .. S - 1
    BY <1>2
  <2>2. (S * 1 + (i + k - S)) % S = i + k - S
    BY <2>1, ModUnique
  <2> QED
    BY <1>2, <2>1, <2>2
<1> QED
  BY <1>1, <1>2

Day == Hours * Unit.hour

LEMMA Lengths ==
  /\ Unit.second = 1 /\ Unit.minute = Seconds /\ Unit.hour = Seconds * Minutes
  /\ Size.second = Seconds /\ Size.minute = Minutes /\ Size.hour = Hours
  /\ Seconds \in 2 .. 60 /\ Minutes \in 1 .. 60 /\ Hours \in 1 .. 24
  /\ Unit.hour \in Nat \ {0} /\ Day \in Nat \ {0} /\ Day = Seconds * (Minutes * Hours)
<1>1. /\ Unit.second = 1 /\ Unit.minute = Seconds /\ Unit.hour = Seconds * Minutes
      /\ Size.second = Seconds /\ Size.minute = Minutes /\ Size.hour = Hours
  BY DEF Unit, Size
<1>2. Seconds \in 2 .. 60 /\ Minutes \in 1 .. 60 /\ Hours \in 1 .. 24
  BY DesktopAssumption
<1>3. Seconds * Minutes \in Nat \ {0}
  BY <1>2
<1>4. Hours * (Seconds * Minutes) \in Nat \ {0}
  BY <1>2, <1>3
<1>5. Hours * (Seconds * Minutes) = Seconds * (Minutes * Hours)
  BY <1>2
<1> QED
  BY <1>1, <1>2, <1>3, <1>4, <1>5 DEF Day

LEMMA PartInRange ==
  ASSUME NEW t \in Nat
  PROVE  /\ Part(t, "second") \in 0 .. Seconds - 1 /\ Part(t, "second") = t % Seconds
         /\ Part(t, "minute") \in 0 .. 59 /\ Part(t, "hour") \in 0 .. 23
<1>1. t \div 1 = t
  OBVIOUS
<1>2. Part(t, "second") = t % Seconds
  BY <1>1, Lengths DEF Part
<1>3. t % Seconds \in 0 .. Seconds - 1
  BY Lengths, DivMod
<1>4. Part(t, "minute") = (t \div Seconds) % Minutes /\ Part(t, "hour") = (t \div Unit.hour) % Hours
  BY Lengths DEF Part
<1>5. t \div Seconds \in Int /\ t \div Unit.hour \in Int
  BY Lengths, DivMod
<1>6. (t \div Seconds) % Minutes \in 0 .. Minutes - 1 /\ (t \div Unit.hour) % Hours \in 0 .. Hours - 1
  BY <1>5, Lengths, DivMod
<1> QED
  BY <1>2, <1>3, <1>4, <1>6, Lengths

(* The second hand goes round, over midnight too. *)
LEMMA NextSecond ==
  ASSUME NEW t \in 0 .. Day - 1
  PROVE  /\ (t + 1) % Day \in 0 .. Day - 1
         /\ Part((t + 1) % Day, "second") = (Part(t, "second") + 1) % Seconds
<1>1. t \in Nat /\ Day \in Nat /\ Day > 0 /\ Seconds \in Nat /\ Seconds > 1
  BY Lengths
<1>2. (t + 1) % Day \in 0 .. Day - 1
  BY <1>1, DivMod
<1> DEFINE q == t \div Seconds
           r == t % Seconds
<1>3. q \in Int /\ r \in 0 .. Seconds - 1 /\ t = Seconds * q + r
  BY <1>1, DivMod
<1>4. Part(t, "second") = r /\ Part((t + 1) % Day, "second") = ((t + 1) % Day) % Seconds
  BY <1>1, <1>2, PartInRange
<1> HIDE DEF q, r
<1>5. (r + 1) % Seconds = IF r + 1 < Seconds THEN r + 1 ELSE 0
  <2>1. (r + 1) % Seconds = IF r + 1 < Seconds THEN r + 1 ELSE r + 1 - Seconds
    BY <1>1, <1>3, AddWrap
  <2> QED
    BY <1>1, <1>3, <2>1
<1>6. (t + 1) % Seconds = (r + 1) % Seconds
  <2>1. CASE r + 1 < Seconds
    <3>1. t + 1 = Seconds * q + (r + 1) /\ r + 1 \in 0 .. Seconds - 1
      BY <1>1, <1>3, <2>1
    <3>2. (Seconds * q + (r + 1)) % Seconds = r + 1
      BY <1>1, <1>3, <3>1, ModUnique
    <3> QED
      BY <1>5, <2>1, <3>1, <3>2
  <2>2. CASE r + 1 = Seconds
    <3>1. t + 1 = Seconds * (q + 1) /\ q + 1 \in Int
      BY <1>1, <1>3, <2>2
    <3>2. (Seconds * (q + 1)) % Seconds = 0
      BY <1>1, <3>1, ModMultiple
    <3>3. ~(r + 1 < Seconds)
      BY <1>1, <2>2
    <3> QED
      BY <1>5, <3>1, <3>2, <3>3
  <2> QED
    BY <1>1, <1>3, <2>1, <2>2
<1>7. ((t + 1) % Day) % Seconds = (t + 1) % Seconds
  <2>1. CASE t + 1 < Day
    <3>1. t + 1 = Day * 0 + (t + 1) /\ t + 1 \in 0 .. Day - 1
      BY <1>1, <2>1
    <3>2. (Day * 0 + (t + 1)) % Day = t + 1
      BY <1>1, <3>1, ModUnique
    <3> QED
      BY <3>1, <3>2
  <2>2. CASE t + 1 = Day
    <3>1. Day = Day * 1
      BY <1>1
    <3>2. Day % Day = 0
      BY <1>1, <3>1, ModMultiple
    <3>3. Day = Seconds * (Minutes * Hours) /\ Minutes * Hours \in Int
      BY Lengths
    <3>4. (Seconds * (Minutes * Hours)) % Seconds = 0 /\ 0 % Seconds = 0
      BY <1>1, <3>3, ModMultiple
    <3> QED
      BY <2>2, <3>2, <3>3, <3>4
  <2> QED
    BY <1>1, <2>1, <2>2
<1> QED
  BY <1>2, <1>4, <1>6, <1>7

(* What a register holds is what it is read for, whether it is decimal or  *)
(* binary.                                                                 *)
Binary(v, f) == IF f.bcd THEN bcd_to_bin(v) ELSE v

LEMMA RegistersConvert ==
  ASSUME NEW f, f \in [bcd : BOOLEAN, hours24 : {TRUE}], NEW v \in 0 .. 59
  PROVE  /\ \A part \in {"second", "minute", "hour"} :
              Register(part, v, f) \in Nat /\ Binary(Register(part, v, f), f) = v
         /\ v < 24 => Brt(Hour24(v, f)) = Brasilia(v)
<1>1. Bcd(v) \in Nat /\ bcd_to_bin(Bcd(v)) = v
  BY DEF Bcd, bcd_to_bin
<1>2. f.hours24
  OBVIOUS
<1>3. ASSUME NEW part \in {"second", "minute", "hour"}
      PROVE  Register(part, v, f) = IF f.bcd THEN Bcd(v) ELSE v
  BY <1>1, <1>2 DEF Register
<1>4. v < 24 => Brt(Hour24(v, f)) = Brasilia(v)
  BY <1>2 DEF Brt, Hour24, Brasilia
<1> QED
  BY <1>1, <1>3, <1>4 DEF Binary

Parts == {"second", "minute", "hour"}

ClockTypes ==
  /\ time \in 0 .. Day - 1 /\ ticks \in 0 .. Seconds - 1 /\ format \in Formats
  /\ clock \in [second : Int, minute : Int, hour : Int]

(* Where the loop stands in reading the registers, the second first.       *)
LoopInv ==
  /\ pc \notin {"clock", "test", "draw"} => clock = Unread
  /\ pc \in {"test", "draw"} => \A part \in Parts : clock[part] # -1
  /\ clock.second = -1 => clock = Unread
  /\ last_sec = IF pc = "draw" THEN Read.second ELSE shown.second

(* What was read is as old as its second, and whole if no time passed.     *)
ReadInv ==
  clock.second # -1 =>
    /\ Read.second \in 0 .. Seconds - 1
    /\ (Read.second + ticks) % Seconds = Part(time, "second")
    /\ ticks = 0 => \A part \in Parts : clock[part] # -1 => clock[part] = Register(part, Part(time, part), format)

(* What is shown is as old as its second; while the registers are read it  *)
(* is the present time or differs from it in the second that was read.     *)
ShownInv ==
  shown.second # 255 =>
    /\ shown.second \in 0 .. Seconds - 1
    /\ clock.second = -1 =>
         /\ (shown.second + ticks) % Seconds = Part(time, "second")
         /\ ticks = 0 => shown = Now
    /\ clock.second # -1 /\ shown.second = Read.second /\ ticks = 0 => shown = Now

ClockInv == ClockTypes /\ (format.hours24 => LoopInv /\ ReadInv /\ ShownInv)

LEMMA NoTicks ==
  ASSUME NEW s \in 0 .. Seconds - 1, NEW k \in 0 .. Seconds - 1
  PROVE  (s + k) % Seconds = s <=> k = 0
<1>1. (s + k) % Seconds = IF s + k < Seconds THEN s + k ELSE s + k - Seconds
  BY Lengths, AddWrap
<1> QED
  BY <1>1, Lengths

LEMMA OneMoreTick ==
  ASSUME NEW s \in 0 .. Seconds - 1, NEW k \in 0 .. Seconds - 1, k + 1 < Seconds
  PROVE  (s + (k + 1)) % Seconds = (((s + k) % Seconds) + 1) % Seconds
<1>1. Seconds \in Nat /\ Seconds > 1 /\ k + 1 \in 0 .. Seconds - 1 /\ 1 \in 0 .. Seconds - 1
  BY Lengths
<1> DEFINE m == (s + k) % Seconds
<1>2. m = IF s + k < Seconds THEN s + k ELSE s + k - Seconds
  BY <1>1, AddWrap
<1>3. m \in 0 .. Seconds - 1
  BY <1>1, <1>2
<1> HIDE DEF m
<1>4. (s + (k + 1)) % Seconds = IF s + (k + 1) < Seconds THEN s + (k + 1) ELSE s + (k + 1) - Seconds
  BY <1>1, AddWrap
<1>5. (m + 1) % Seconds = IF m + 1 < Seconds THEN m + 1 ELSE m + 1 - Seconds
  BY <1>1, <1>3, AddWrap
<1>6. (s + (k + 1)) % Seconds = (m + 1) % Seconds
  BY <1>1, <1>2, <1>4, <1>5
<1> QED
  BY <1>6 DEF m

(* In 24-hour format, the registers of the present time convert to it.     *)
LEMMA FormatConverts ==
  ASSUME ClockTypes, format.hours24
  PROVE  /\ format \in [bcd : BOOLEAN, hours24 : {TRUE}]
         /\ \A part \in Parts :
              /\ Part(time, part) \in 0 .. 59 /\ Register(part, Part(time, part), format) \in Nat
              /\ Binary(Register(part, Part(time, part), format), format) = Part(time, part)
         /\ Brt(Hour24(Part(time, "hour"), format)) = Brasilia(Part(time, "hour"))
<1>1. format \in [bcd : BOOLEAN, hours24 : {TRUE}]
  BY DesktopAssumption DEF ClockTypes
<1>2. time \in Nat
  BY Lengths DEF ClockTypes
<1>3. /\ \A part \in Parts : Part(time, part) \in 0 .. 59
      /\ Part(time, "hour") < 24
  <2>1. /\ Part(time, "second") \in 0 .. Seconds - 1
        /\ Part(time, "minute") \in 0 .. 59 /\ Part(time, "hour") \in 0 .. 23
    BY <1>2, PartInRange
  <2>2. Part(time, "second") \in 0 .. 59
    BY <2>1, Lengths
  <2> QED
    BY <2>1, <2>2 DEF Parts
<1> QED
  BY <1>1, <1>3, RegistersConvert DEF Parts

LEMMA ReadIs ==
  /\ Read.second = Binary(clock.second, format)
  /\ Read = [second |-> Binary(clock.second, format), minute |-> Binary(clock.minute, format),
              hour |-> Brt(Hour24(Binary(clock.hour, format), format))]
  BY DEF Read, Converted, Binary

LEMMA ClockInit == Init => ClockInv
<1> SUFFICES ASSUME Init PROVE ClockInv
  OBVIOUS
<1>1. ClockTypes
  BY Lengths DEF Init, ClockTypes, Unread, Day
<1>2. clock.second = -1 /\ shown.second = 255 /\ last_sec = 255 /\ pc = "serial" /\ clock = Unread
  BY DEF Init, Unread
<1>3. LoopInv /\ ReadInv /\ ShownInv
  BY <1>2 DEF LoopInv, ReadInv, ShownInv
<1> QED
  BY <1>1, <1>3 DEF ClockInv

(* A second passes. *)
LEMMA ClockTick ==
  ASSUME ClockInv, Tick
  PROVE  ClockInv'
<1>1. /\ ticks + 1 < Seconds /\ time' = (time + 1) % Day /\ ticks' = ticks + 1
      /\ UNCHANGED <<pc, format, clock, last_sec, shown>>
  BY Lengths DEF Tick, ClockInv, ClockTypes, Day
<1>2. time' \in 0 .. Day - 1 /\ Part(time', "second") = (Part(time, "second") + 1) % Seconds
  BY <1>1, NextSecond DEF ClockInv, ClockTypes
<1>3. ClockTypes'
  <2>1. Day' = Day
    BY DEF Day
  <2> QED
    BY <1>1, <1>2, <2>1, Lengths DEF ClockInv, ClockTypes
<1>4. ASSUME format.hours24
      PROVE  LoopInv' /\ ReadInv' /\ ShownInv'
  <2>1. LoopInv /\ ReadInv /\ ShownInv /\ ticks \in 0 .. Seconds - 1 /\ ticks' # 0
    BY <1>1, <1>4 DEF ClockInv, ClockTypes
  <2>2. Read' = Read
    BY <1>1 DEF Read
  <2>3. LoopInv'
    BY <1>1, <2>1, <2>2 DEF LoopInv, Unread
  <2>4. ReadInv'
    <3> SUFFICES ASSUME clock.second # -1
                 PROVE  /\ Read.second \in 0 .. Seconds - 1
                        /\ (Read.second + ticks') % Seconds = Part(time', "second")
      BY <1>1, <2>1, <2>2 DEF ReadInv, Part
    <3>1. Read.second \in 0 .. Seconds - 1 /\ (Read.second + ticks) % Seconds = Part(time, "second")
      BY <2>1 DEF ReadInv
    <3>2. (Read.second + (ticks + 1)) % Seconds = (((Read.second + ticks) % Seconds) + 1) % Seconds
      BY <1>1, <2>1, <3>1, OneMoreTick
    <3> QED
      BY <1>1, <1>2, <3>1, <3>2
  <2>5. ShownInv'
    <3> SUFFICES ASSUME shown.second # 255
                 PROVE  /\ shown.second \in 0 .. Seconds - 1
                        /\ clock.second = -1 => (shown.second + ticks') % Seconds = Part(time', "second")
      BY <1>1, <2>1, <2>2 DEF ShownInv, Part
    <3>1. shown.second \in 0 .. Seconds - 1
      BY <2>1 DEF ShownInv
    <3>2. ASSUME clock.second = -1
          PROVE  (shown.second + ticks') % Seconds = Part(time', "second")
      <4>1. (shown.second + ticks) % Seconds = Part(time, "second")
        BY <2>1, <3>2 DEF ShownInv
      <4>2. (shown.second + (ticks + 1)) % Seconds = (((shown.second + ticks) % Seconds) + 1) % Seconds
        BY <1>1, <2>1, <3>1, OneMoreTick
      <4> QED
        BY <1>1, <1>2, <4>1, <4>2
    <3> QED
      BY <3>1, <3>2
  <2> QED
    BY <2>3, <2>4, <2>5
<1> QED
  BY <1>1, <1>3, <1>4 DEF ClockInv

(* One register is read, the second as the first.                          *)
LEMMA ClockRead ==
  ASSUME ClockInv, ReadRegister
  PROVE  ClockInv'
<1>1. PICK i \in 1 .. 3 :
        LET part == RegisterOrder[i] IN
        /\ clock[part] = -1 /\ \A j \in 1 .. i - 1 : clock[RegisterOrder[j]] # -1
        /\ clock' = [clock EXCEPT ![part] = Register(part, Part(time, part), format)]
        /\ ticks' = IF part = "second" THEN 0 ELSE ticks
        /\ IF i = 3 THEN pc' = "test" ELSE pc' = pc
  <2>1. DOMAIN RegisterOrder = 1 .. 3 /\ Len(RegisterOrder) = 3
    BY DEF RegisterOrder
  <2> QED
    BY <2>1 DEF ReadRegister, Goto
<1>2. pc = "clock" /\ UNCHANGED <<time, format, last_sec, shown>>
  BY DEF ReadRegister
<1> DEFINE part == RegisterOrder[i]
           value == Register(part, Part(time, part), format)
<1>3. part \in Parts /\ (part = "second" <=> i = 1) /\ (i = 3 <=> part = "hour")
  BY DEF RegisterOrder, Parts
<1>4. /\ i # 1 => clock["second"] # -1
      /\ i = 3 => clock["minute"] # -1
  BY <1>1 DEF RegisterOrder
<1>5. /\ clock[part] = -1 /\ clock' = [clock EXCEPT ![part] = value]
      /\ ticks' = IF part = "second" THEN 0 ELSE ticks
      /\ IF i = 3 THEN pc' = "test" ELSE pc' = pc
  BY <1>1
<1>6. time \in Nat /\ 0 \in 0 .. Seconds - 1
  BY Lengths DEF ClockInv, ClockTypes
<1>7. value \in Int
  <2>1. Part(time, part) \in Nat
    <3>1. /\ Part(time, "second") \in 0 .. Seconds - 1
          /\ Part(time, "minute") \in 0 .. 59 /\ Part(time, "hour") \in 0 .. 23
      BY <1>6, PartInRange
    <3> QED
      BY <1>3, <3>1, Lengths DEF Parts
  <2>2. \A v \in Nat : Bcd(v) \in Int
    BY DEF Bcd
  <2>3. Part(time, part) % 12 \in Nat
    BY <2>1
  <2> QED
    BY <2>1, <2>2, <2>3 DEF Register
<1> HIDE DEF part, value
<1>8. clock \in [second : Int, minute : Int, hour : Int] /\ clock'[part] = value
      /\ clock' \in [second : Int, minute : Int, hour : Int]
      /\ \A p \in Parts : p # part => clock'[p] = clock[p]
  BY <1>3, <1>5, <1>7 DEF ClockInv, ClockTypes, Parts
<1>9. ClockTypes'
  <2>1. Day' = Day
    BY DEF Day
  <2>2. ticks' \in 0 .. Seconds - 1
    BY <1>5, <1>6 DEF ClockInv, ClockTypes
  <2> QED
    BY <1>2, <1>8, <2>1, <2>2 DEF ClockInv, ClockTypes
<1>10. ASSUME format.hours24
       PROVE  LoopInv' /\ ReadInv' /\ ShownInv'
  <2>1. ClockTypes /\ LoopInv /\ ReadInv /\ ShownInv
    BY <1>10 DEF ClockInv
  <2>2. value \in Nat /\ Binary(value, format) = Part(time, part) /\ Part(time, part) \in Nat
    BY <1>3, <1>10, <2>1, FormatConverts DEF value
  <2>3. clock'.second # -1
    BY <1>3, <1>4, <1>8, <2>2 DEF Parts
  <2>4. LoopInv'
    <3>1. i = 3 => \A p \in Parts : clock'[p] # -1
      BY <1>3, <1>4, <1>8, <2>2 DEF Parts
    <3>2. pc' \in {"clock", "test"} /\ (pc' = "test" => i = 3)
      BY <1>2, <1>5
    <3> QED
      BY <1>2, <2>1, <2>3, <3>1, <3>2 DEF LoopInv
  <2>5. Read'.second = Binary(clock'.second, format) /\ Read.second = Binary(clock.second, format)
    BY <1>2, ReadIs DEF Read, Converted, Binary
  <2>6. CASE i = 1
    <3>1. part = "second" /\ ticks' = 0 /\ clock.second = -1 /\ clock = Unread
      BY <1>3, <1>5, <2>1, <2>6 DEF LoopInv
    <3>2. Read'.second = Part(time, "second") /\ Part(time, "second") \in 0 .. Seconds - 1
      BY <1>6, <1>8, <2>2, <2>5, <3>1, PartInRange
    <3>3. \A p \in Parts : clock'[p] # -1 => p = "second"
      BY <1>8, <3>1 DEF Unread, Parts
    <3>4. ReadInv'
      <4>1. (Read'.second + 0) % Seconds = Part(time, "second")
        BY <1>6, <3>2, NoTicks
      <4>2. clock'["second"] = Register("second", Part(time, "second"), format)
        BY <1>8, <3>1 DEF value
      <4> QED
        BY <1>2, <3>1, <3>2, <3>3, <4>1, <4>2 DEF ReadInv, Part
    <3>5. ShownInv'
      <4> SUFFICES ASSUME shown.second # 255
                   PROVE  /\ shown.second \in 0 .. Seconds - 1
                          /\ shown.second = Read'.second => shown = Now
        BY <1>2, <2>3 DEF ShownInv, Now, Part
      <4>1. shown.second \in 0 .. Seconds - 1 /\ (shown.second + ticks) % Seconds = Part(time, "second")
            /\ (ticks = 0 => shown = Now)
        BY <2>1, <3>1 DEF ShownInv
      <4>2. shown.second = Read'.second => ticks = 0
        BY <2>1, <3>2, <4>1, NoTicks DEF ClockTypes
      <4> QED
        BY <4>1, <4>2
    <3> QED
      BY <2>4, <3>4, <3>5
  <2>7. CASE i # 1
    <3>1. clock.second # -1 /\ clock'.second = clock.second /\ ticks' = ticks /\ Read'.second = Read.second
      BY <1>3, <1>4, <1>5, <1>8, <2>5, <2>7 DEF Parts
    <3>2. ReadInv'
      <4>1. ticks = 0 => \A p \in Parts : clock'[p] # -1 => clock'[p] = Register(p, Part(time, p), format)
        BY <1>8, <2>1, <3>1 DEF ReadInv, value
      <4> QED
        BY <1>2, <2>1, <3>1, <4>1 DEF ReadInv, Part
    <3>3. ShownInv'
      BY <1>2, <2>1, <2>3, <3>1 DEF ShownInv, Now, Part
    <3> QED
      BY <2>4, <3>2, <3>3
  <2> QED
    BY <2>6, <2>7
<1> QED
  BY <1>2, <1>9, <1>10 DEF ClockInv

(* The second read is compared with the one drawn. *)
LEMMA ClockTest ==
  ASSUME ClockInv, Test
  PROVE  ClockInv'
<1>1. /\ pc = "test" /\ last_sec' = Read.second /\ UNCHANGED <<time, format, ticks, shown>>
      /\ \/ pc' = "draw" /\ clock' = clock
         \/ pc' = "yield" /\ clock' = Unread /\ Read.second = last_sec
  BY DEF Test, MustDraw, Goto
<1>2. ClockTypes'
  <2>1. Day' = Day
    BY DEF Day
  <2> QED
    BY <1>1, <2>1 DEF ClockInv, ClockTypes, Unread
<1>3. ASSUME format.hours24
      PROVE  LoopInv' /\ ReadInv' /\ ShownInv'
  <2>1. LoopInv /\ ReadInv /\ ShownInv /\ clock.second # -1
    BY <1>1, <1>3 DEF ClockInv, LoopInv, Parts
  <2>2. CASE pc' = "draw" /\ clock' = clock
    BY <1>1, <2>1, <2>2 DEF LoopInv, ReadInv, ShownInv, Read, Now, Part, Unread
  <2>3. CASE pc' = "yield" /\ clock' = Unread /\ Read.second = last_sec
    <3>1. clock'.second = -1
      BY <2>3 DEF Unread
    <3>2. last_sec = shown.second /\ last_sec' = shown.second
      BY <1>1, <2>1, <2>3 DEF LoopInv
    <3>3. LoopInv' /\ ReadInv'
      BY <1>1, <2>3, <3>1, <3>2 DEF LoopInv, ReadInv, Unread
    <3>4. ShownInv'
      BY <1>1, <2>1, <2>3, <3>1, <3>2 DEF ShownInv, ReadInv, Now, Part
    <3> QED
      BY <3>3, <3>4
  <2> QED
    BY <1>1, <2>2, <2>3
<1> QED
  BY <1>1, <1>2, <1>3 DEF ClockInv

LEMMA ClockDraw ==
  ASSUME ClockInv, DrawWindows
  PROVE  ClockInv'
<1>1. /\ pc = "draw" /\ pc' = "cursor" /\ shown' = Read /\ clock' = Unread
      /\ UNCHANGED <<time, format, ticks, last_sec>>
  BY DEF DrawWindows, Goto
<1>2. ClockTypes'
  <2>1. Day' = Day
    BY DEF Day
  <2> QED
    BY <1>1, <2>1 DEF ClockInv, ClockTypes, Unread
<1>3. ASSUME format.hours24
      PROVE  LoopInv' /\ ReadInv' /\ ShownInv'
  <2>1. LoopInv /\ ReadInv /\ ShownInv /\ clock.second # -1
    BY <1>1, <1>3 DEF ClockInv, LoopInv, Parts
  <2>2. clock'.second = -1
    BY <1>1 DEF Unread
  <2>3. LoopInv' /\ ReadInv'
    BY <1>1, <2>1, <2>2 DEF LoopInv, ReadInv, Unread
  <2>4. ASSUME ticks = 0
        PROVE  Read = Now
    <3>1. \A part \in Parts : clock[part] = Register(part, Part(time, part), format)
      BY <1>1, <2>1, <2>4 DEF LoopInv, ReadInv
    <3>2. \A part \in Parts : Binary(clock[part], format) = Part(time, part)
      BY <1>3, <3>1, FormatConverts DEF ClockInv
    <3>3. Brt(Hour24(Part(time, "hour"), format)) = Brasilia(Part(time, "hour"))
      BY <1>3, FormatConverts DEF ClockInv
    <3> QED
      BY <3>2, <3>3, ReadIs DEF Now, Parts
  <2>5. Now' = Now
    BY <1>1 DEF Now, Part
  <2>6. ShownInv'
    BY <1>1, <2>1, <2>2, <2>4, <2>5 DEF ShownInv, ReadInv, Part
  <2> QED
    BY <2>3, <2>6
<1> QED
  BY <1>1, <1>2, <1>3 DEF ClockInv

(* The rest of the loop leaves the clock alone. *)
LEMMA ClockElsewhere ==
  ASSUME ClockInv, UNCHANGED <<time, format, ticks, clock, last_sec, shown>>,
         \/ pc' = pc
         \/ pc \notin {"clock", "test", "draw"} /\ pc' \notin {"test", "draw"}
  PROVE  ClockInv'
<1>1. ClockTypes'
  BY DEF ClockInv, ClockTypes, Day
<1>2. ASSUME format.hours24
      PROVE  LoopInv' /\ ReadInv' /\ ShownInv'
  <2>1. LoopInv /\ ReadInv /\ ShownInv
    BY <1>2 DEF ClockInv
  <2>2. Read' = Read /\ Now' = Now
    BY DEF Read, Now, Part
  <2>3. LoopInv'
    BY <2>1, <2>2 DEF LoopInv, Unread
  <2>4. ReadInv' /\ ShownInv'
    BY <2>1, <2>2 DEF ReadInv, ShownInv, Part
  <2> QED
    BY <2>3, <2>4
<1> QED
  BY <1>1, <1>2 DEF ClockInv

LEMMA ClockKept == ClockInv /\ [Next]_vars => ClockInv'
<1> SUFFICES ASSUME ClockInv, [Next]_vars PROVE ClockInv'
  OBVIOUS
<1>1. CASE SerialPoll
  BY <1>1, ClockElsewhere DEF SerialPoll, Goto, clockVars
<1>2. CASE Compare
  BY <1>2, ClockElsewhere DEF Compare, Goto, clockVars
<1>3. CASE Remember
  BY <1>3, ClockElsewhere DEF Remember, Goto, clockVars
<1>4. CASE PressButton
  BY <1>4, ClockElsewhere DEF PressButton, Goto, clockVars
<1>5. CASE NoPress
  BY <1>5, ClockElsewhere DEF NoPress, Goto, clockVars
<1>6. CASE HoldButton
  BY <1>6, ClockElsewhere DEF HoldButton, Goto, clockVars
<1>7. CASE HandleKeyboard
  BY <1>7, ClockElsewhere DEF HandleKeyboard, Goto, clockVars
<1>8. CASE ReadRegister
  BY <1>8, ClockRead
<1>9. CASE Test
  BY <1>9, ClockTest
<1>10. CASE DrawWindows
  BY <1>10, ClockDraw
<1>11. CASE DrawCursor
  BY <1>11, ClockElsewhere DEF DrawCursor, Goto, clockVars
<1>12. CASE Yield
  BY <1>12, ClockElsewhere DEF Yield, Goto, clockVars
<1>13. CASE MovePointer
  BY <1>13, ClockElsewhere DEF MovePointer, clockVars
<1>14. CASE Tick
  BY <1>14, ClockTick
<1>15. CASE UNCHANGED vars
  BY <1>15, ClockElsewhere DEF vars, clockVars
<1> QED
  BY <1>1, <1>2, <1>3, <1>4, <1>5, <1>6, <1>7, <1>8, <1>9, <1>10, <1>11, <1>12, <1>13, <1>14, <1>15
     DEF Next, Loop

LEMMA ClockFollows == ClockInv => WrongTimeIsNoticed
<1> SUFFICES ASSUME ClockInv PROVE WrongTimeIsNoticed
  OBVIOUS
<1>1. ASSUME format.hours24, shown.second # 255, pc \notin {"clock", "test", "draw"}
      PROVE  shown = Now \/ shown.second # Now.second
  <2>1. LoopInv /\ ShownInv /\ ticks \in 0 .. Seconds - 1 /\ clock.second = -1
    BY <1>1 DEF ClockInv, ClockTypes, LoopInv, Unread
  <2>2. /\ shown.second \in 0 .. Seconds - 1
        /\ (shown.second + ticks) % Seconds = Part(time, "second")
        /\ ticks = 0 => shown = Now
    BY <1>1, <2>1 DEF ShownInv
  <2>3. Now.second = Part(time, "second")
    BY DEF Now
  <2> QED
    BY <2>1, <2>2, <2>3, NoTicks
<1>2. ASSUME NEW f \in [bcd : BOOLEAN, hours24 : {TRUE}], NEW h \in 0 .. 23, NEW m \in 0 .. 59
      PROVE  Converted([second |-> Register("second", m, f), minute |-> Register("minute", m, f),
                        hour |-> Register("hour", h, f)], f)
               = [second |-> m, minute |-> m, hour |-> Brasilia(h)]
  <2>1. Binary(Register("second", m, f), f) = m /\ Binary(Register("minute", m, f), f) = m
    BY RegistersConvert
  <2>2. Binary(Register("hour", h, f), f) = h /\ Brt(Hour24(h, f)) = Brasilia(h)
    <3>1. h \in 0 .. 59 /\ h < 24
      OBVIOUS
    <3> QED
      BY <3>1, RegistersConvert
  <2> QED
    BY <2>1, <2>2 DEF Converted, Binary
<1> QED
  BY <1>1, <1>2 DEF WrongTimeIsNoticed

(* The task bar shows Brasilia's time, or a second that is not the present *)
(* one, which makes the next frame draw it again: a time torn by a tick    *)
(* between two registers is never mistaken for the present one.            *)
THEOREM WrongTimeIsAlwaysNoticed == Spec => []WrongTimeIsNoticed
<1> QED
  BY ClockInit, ClockKept, ClockFollows, PTL DEF Spec

=============================================================================
