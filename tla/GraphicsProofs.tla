--------------------------- MODULE GraphicsProofs ----------------------------
(***************************************************************************)
(* Theorems about Graphics, for every size of screen and window, every     *)
(* shape and every coordinate.                                             *)
(*                                                                         *)
(* The dirty rectangle is the whole argument: it never leaves the screen,  *)
(* it only grows between two swaps, and every operation that touches a     *)
(* pixel of the screen makes it cover that pixel.                          *)
(***************************************************************************)
EXTENDS Graphics, WellFoundedInduction, TLAPS

InScreenRange ==
  /\ dirty.min_x \in 0 .. Width /\ dirty.max_x \in 0 .. Width
  /\ dirty.min_y \in 0 .. Height /\ dirty.max_y \in 0 .. Height

DirtyRect == Rect(dirty.min_x, dirty.min_y, dirty.max_x - dirty.min_x, dirty.max_y - dirty.min_y)

IInv ==
  /\ target \in {"screen", "cache"}
  /\ InScreenRange /\ dirty.active \in BOOLEAN
  /\ touched \subseteq Screen /\ touched \subseteq DirtyRect
  /\ ~dirty.active => touched = {}
  /\ strayed = FALSE
-------------------------------------------------------------------------------
(* Minima and maxima *)

LEMMA MinOf ==
  ASSUME NEW T \in SUBSET Nat, T # {}
  PROVE  Min(T) \in T /\ \A y \in T : Min(T) <= y
<1>1. PICK x \in T : \A y \in T : ~(<<y, x>> \in OpToRel(<, Nat))
  BY NatLessThanWellFounded, WFMin
<1>2. ASSUME NEW y \in T PROVE x <= y
  <2>1. x \in Nat /\ y \in Nat /\ ~(y < x)
    BY <1>1 DEF OpToRel
  <2>2. QED
    BY <2>1
<1>3. QED
  BY <1>2 DEF Min

LEMMA MaxOf ==
  ASSUME NEW n \in Nat, NEW T \in SUBSET (0 .. n), T # {}
  PROVE  Max(T) \in T /\ \A y \in T : Max(T) >= y
<1> DEFINE U == {n - y : y \in T}
<1>1. U \in SUBSET Nat /\ U # {}
  <2>1. ASSUME NEW y \in T PROVE n - y \in Nat
    OBVIOUS
  <2>2. QED
    BY <2>1
<1>2. Min(U) \in U /\ \A u \in U : Min(U) <= u
  BY <1>1, MinOf
<1>3. PICK x \in T : Min(U) = n - x
  BY <1>2
<1>4. ASSUME NEW y \in T PROVE x >= y
  <2>1. n - x <= n - y
    BY <1>2, <1>3
  <2>2. QED
    BY <2>1
<1>5. QED
  BY <1>4 DEF Max

LEMMA MinOfTwo ==
  ASSUME NEW a \in Int, NEW b \in Int
  PROVE  Min({a, b}) \in {a, b} /\ Min({a, b}) <= a /\ Min({a, b}) <= b
<1>1. \E x \in {a, b} : \A y \in {a, b} : x <= y
  OBVIOUS
<1>2. QED
  BY <1>1 DEF Min

LEMMA MaxOfTwo ==
  ASSUME NEW a \in Int, NEW b \in Int
  PROVE  Max({a, b}) \in {a, b} /\ Max({a, b}) >= a /\ Max({a, b}) >= b
<1>1. \E x \in {a, b} : \A y \in {a, b} : x >= y
  OBVIOUS
<1>2. QED
  BY <1>1 DEF Max

-------------------------------------------------------------------------------
(* Marking *)

(* The rectangle after a step covers what it covered before and more. *)
Grown ==
  /\ InScreenRange'
  /\ dirty'.min_x <= dirty.min_x /\ dirty'.max_x >= dirty.max_x
  /\ dirty'.min_y <= dirty.min_y /\ dirty'.max_y >= dirty.max_y

LEMMA ActiveExtents ==
  ASSUME target \in {"screen", "cache"}
  PROVE  /\ active_width \in 1 .. Width /\ active_height \in 1 .. Height
         /\ target = "screen" => active_width = Width /\ active_height = Height
         /\ ActiveArea \subseteq Screen
<1>1. active_width \in 1 .. Width /\ active_height \in 1 .. Height
      /\ (target = "screen" => active_width = Width /\ active_height = Height)
  BY GraphicsAssumption DEF active_width, active_height
<1>2. 0 .. 0 + active_width - 1 \subseteq 0 .. 0 + Width - 1 /\ 0 .. 0 + active_height - 1 \subseteq 0 .. 0 + Height - 1
  BY <1>1, GraphicsAssumption
<1>3. QED
  BY <1>1, <1>2 DEF ActiveArea, Screen, Rect

LEMMA MarkDirtyGrows ==
  ASSUME IInv, NEW x \in Int, NEW y \in Int, NEW w \in Int, NEW h \in Int,
         w > 0, h > 0, dirty' = MarkDirty(x, y, w, h)
  PROVE  /\ Grown /\ dirty'.active = TRUE
         /\ target = "screen" /\ Rect(x, y, w, h) \subseteq Screen => Rect(x, y, w, h) \subseteq DirtyRect'
<1> DEFINE left == Max({x, 0})
           top == Max({y, 0})
           right == Min({x + w, active_width})
           bottom == Min({y + h, active_height})
<1>1. dirty' = [min_x |-> Min({dirty.min_x, left}), min_y |-> Min({dirty.min_y, top}),
                max_x |-> Max({dirty.max_x, right}), max_y |-> Max({dirty.max_y, bottom}), active |-> TRUE]
  BY DEF MarkDirty
<1>2. active_width \in 1 .. Width /\ active_height \in 1 .. Height
      /\ (target = "screen" => active_width = Width /\ active_height = Height)
  BY ActiveExtents DEF IInv
<1>3. /\ left \in Int /\ left >= x /\ left >= 0 /\ left \in {x, 0}
      /\ top \in Int /\ top >= y /\ top >= 0 /\ top \in {y, 0}
  <2>1. left \in {x, 0} /\ left >= x /\ left >= 0
    BY MaxOfTwo, SMTT(30)
  <2>2. top \in {y, 0} /\ top >= y /\ top >= 0
    BY MaxOfTwo
  <2> HIDE DEF left, top
  <2>3. QED
    BY <2>1, <2>2
<1>4. /\ right \in Int /\ right <= x + w /\ right <= active_width /\ right \in {x + w, active_width}
      /\ bottom \in Int /\ bottom <= y + h /\ bottom <= active_height /\ bottom \in {y + h, active_height}
  <2>1. active_width \in Int /\ active_height \in Int /\ x + w \in Int /\ y + h \in Int
    BY <1>2, GraphicsAssumption
  <2>2. right \in {x + w, active_width} /\ right <= x + w /\ right <= active_width
    BY <2>1, MinOfTwo
  <2>3. bottom \in {y + h, active_height} /\ bottom <= y + h /\ bottom <= active_height
    BY <2>1, MinOfTwo
  <2> HIDE DEF right, bottom
  <2>4. QED
    BY <2>1, <2>2, <2>3
<1> HIDE DEF left, top, right, bottom
<1>5. /\ dirty.min_x \in 0 .. Width /\ dirty.max_x \in 0 .. Width
      /\ dirty.min_y \in 0 .. Height /\ dirty.max_y \in 0 .. Height /\ Width \in Nat /\ Height \in Nat
  BY GraphicsAssumption DEF IInv, InScreenRange
<1>6. /\ dirty'.min_x = Min({dirty.min_x, left}) /\ dirty'.min_y = Min({dirty.min_y, top})
      /\ dirty'.max_x = Max({dirty.max_x, right}) /\ dirty'.max_y = Max({dirty.max_y, bottom})
      /\ dirty'.active = TRUE
  BY <1>1
<1>7. /\ dirty'.min_x \in {dirty.min_x, left} /\ dirty'.min_x <= dirty.min_x /\ dirty'.min_x <= left
      /\ dirty'.min_y \in {dirty.min_y, top} /\ dirty'.min_y <= dirty.min_y /\ dirty'.min_y <= top
  <2>1. dirty.min_x \in Int /\ dirty.min_y \in Int
    BY <1>5
  <2>2. Min({dirty.min_x, left}) \in {dirty.min_x, left} /\ Min({dirty.min_x, left}) <= dirty.min_x
        /\ Min({dirty.min_x, left}) <= left
    BY <1>3, <2>1, MinOfTwo
  <2>3. Min({dirty.min_y, top}) \in {dirty.min_y, top} /\ Min({dirty.min_y, top}) <= dirty.min_y
        /\ Min({dirty.min_y, top}) <= top
    BY <1>3, <2>1, MinOfTwo
  <2>4. QED
    BY <1>6, <2>2, <2>3
<1>8. /\ dirty'.max_x \in {dirty.max_x, right} /\ dirty'.max_x >= dirty.max_x /\ dirty'.max_x >= right
      /\ dirty'.max_y \in {dirty.max_y, bottom} /\ dirty'.max_y >= dirty.max_y /\ dirty'.max_y >= bottom
  <2>1. dirty.max_x \in Int /\ dirty.max_y \in Int
    BY <1>5
  <2>2. Max({dirty.max_x, right}) \in {dirty.max_x, right} /\ Max({dirty.max_x, right}) >= dirty.max_x
        /\ Max({dirty.max_x, right}) >= right
    BY <1>4, <2>1, MaxOfTwo
  <2>3. Max({dirty.max_y, bottom}) \in {dirty.max_y, bottom} /\ Max({dirty.max_y, bottom}) >= dirty.max_y
        /\ Max({dirty.max_y, bottom}) >= bottom
    BY <1>4, <2>1, MaxOfTwo
  <2>4. QED
    BY <1>6, <2>2, <2>3
<1>9. Grown
  BY <1>2, <1>3, <1>4, <1>5, <1>7, <1>8 DEF Grown, InScreenRange
<1>10. ASSUME target = "screen", Rect(x, y, w, h) \subseteq Screen PROVE Rect(x, y, w, h) \subseteq DirtyRect'
  <2>1. <<x, y>> \in Rect(x, y, w, h) /\ <<x + w - 1, y + h - 1>> \in Rect(x, y, w, h)
    BY DEF Rect
  <2>2. x >= 0 /\ y >= 0 /\ x + w - 1 <= Width - 1 /\ y + h - 1 <= Height - 1
    BY <2>1, <1>10, <1>5 DEF Screen, Rect
  <2>3. left = x /\ top = y /\ right = x + w /\ bottom = y + h
    BY <1>2, <1>3, <1>4, <1>5, <1>10, <2>2
  <2>4. /\ dirty'.min_x <= x /\ dirty'.min_x + (dirty'.max_x - dirty'.min_x) - 1 >= x + w - 1
        /\ dirty'.min_y <= y /\ dirty'.min_y + (dirty'.max_y - dirty'.min_y) - 1 >= y + h - 1
        /\ dirty'.min_x \in Int /\ dirty'.max_x \in Int /\ dirty'.min_y \in Int /\ dirty'.max_y \in Int
    BY <2>3, <1>4, <1>5, <1>7, <1>8
  <2>5. QED
    BY <2>4 DEF DirtyRect, Rect
<1>11. QED
  BY <1>6, <1>9, <1>10

LEMMA MarkEachGrows ==
  ASSUME IInv, NEW pixels \in SUBSET Screen, pixels # {}, dirty' = MarkEach(pixels)
  PROVE  Grown /\ dirty'.active = TRUE /\ pixels \subseteq DirtyRect'
<1> DEFINE lows == {dirty.min_x} \union {p[1] : p \in pixels}
           tops == {dirty.min_y} \union {p[2] : p \in pixels}
           highs == {dirty.max_x} \union {p[1] + 1 : p \in pixels}
           bottoms == {dirty.max_y} \union {p[2] + 1 : p \in pixels}
<1>1. dirty' = [min_x |-> Min(lows), min_y |-> Min(tops), max_x |-> Max(highs), max_y |-> Max(bottoms),
                active |-> TRUE]
  BY DEF MarkEach
<1>2. /\ dirty.min_x \in 0 .. Width /\ dirty.max_x \in 0 .. Width
      /\ dirty.min_y \in 0 .. Height /\ dirty.max_y \in 0 .. Height /\ Width \in Nat /\ Height \in Nat
  BY GraphicsAssumption DEF IInv, InScreenRange
<1>3. ASSUME NEW p \in pixels PROVE p[1] \in 0 .. Width - 1 /\ p[2] \in 0 .. Height - 1 /\ p = <<p[1], p[2]>>
  BY <1>2 DEF Screen, Rect
<1>4. Min(lows) \in lows /\ (\A y \in lows : Min(lows) <= y) /\ lows \subseteq 0 .. Width
  <2>1. lows \subseteq 0 .. Width /\ lows \in SUBSET Nat /\ lows # {}
    BY <1>2, <1>3
  <2>2. QED
    BY <2>1, MinOf
<1>5. Min(tops) \in tops /\ (\A y \in tops : Min(tops) <= y) /\ tops \subseteq 0 .. Height
  <2>1. tops \subseteq 0 .. Height /\ tops \in SUBSET Nat /\ tops # {}
    BY <1>2, <1>3
  <2>2. QED
    BY <2>1, MinOf
<1>6. Max(highs) \in highs /\ (\A y \in highs : Max(highs) >= y) /\ highs \subseteq 0 .. Width
  <2>1. highs \in SUBSET (0 .. Width) /\ highs # {}
    BY <1>2, <1>3
  <2>2. QED
    BY <2>1, <1>2, MaxOf
<1>7. Max(bottoms) \in bottoms /\ (\A y \in bottoms : Max(bottoms) >= y) /\ bottoms \subseteq 0 .. Height
  <2>1. bottoms \in SUBSET (0 .. Height) /\ bottoms # {}
    BY <1>2, <1>3
  <2>2. QED
    BY <2>1, <1>2, MaxOf
<1>8. /\ dirty'.min_x = Min(lows) /\ dirty'.min_y = Min(tops) /\ dirty'.max_x = Max(highs)
      /\ dirty'.max_y = Max(bottoms) /\ dirty'.active = TRUE
  BY <1>1
<1>9. Grown
  <2>1. dirty.min_x \in lows /\ dirty.min_y \in tops /\ dirty.max_x \in highs /\ dirty.max_y \in bottoms
    OBVIOUS
  <2> HIDE DEF lows, tops, highs, bottoms
  <2>2. QED
    BY <2>1, <1>4, <1>5, <1>6, <1>7, <1>8 DEF Grown, InScreenRange
<1>10. ASSUME NEW p \in pixels PROVE p \in DirtyRect'
  <2>1. p[1] \in lows /\ p[2] \in tops /\ p[1] + 1 \in highs /\ p[2] + 1 \in bottoms
    OBVIOUS
  <2> HIDE DEF lows, tops, highs, bottoms
  <2>2. dirty'.min_x <= p[1] /\ dirty'.min_y <= p[2] /\ p[1] + 1 <= dirty'.max_x /\ p[2] + 1 <= dirty'.max_y
        /\ dirty'.min_x \in Int /\ dirty'.max_x \in Int /\ dirty'.min_y \in Int /\ dirty'.max_y \in Int
    BY <2>1, <1>2, <1>3, <1>4, <1>5, <1>6, <1>7, <1>8
  <2>3. /\ p[1] \in dirty'.min_x .. dirty'.min_x + (dirty'.max_x - dirty'.min_x) - 1
        /\ p[2] \in dirty'.min_y .. dirty'.min_y + (dirty'.max_y - dirty'.min_y) - 1
    BY <2>2, <1>3
  <2>4. QED
    BY <2>3, <1>3 DEF DirtyRect, Rect
<1>11. QED
  BY <1>8, <1>9, <1>10

-------------------------------------------------------------------------------
(* Drawing *)

(* What a step that draws `pixels` does to the rectangle. *)
Marks(pixels) ==
  /\ Grown
  /\ dirty'.active = TRUE \/ (dirty' = dirty /\ (target = "screen" => pixels = {}))
  /\ target = "screen" => pixels \subseteq DirtyRect'

(* A step that is not a swap: the invariant, and no marking is lost. *)
Safe == IInv' /\ (dirty'.active = TRUE \/ dirty' = dirty)

LEMMA NothingMarked ==
  ASSUME IInv, dirty' = dirty
  PROVE  Grown
BY DEF IInv, InScreenRange, Grown

LEMMA Drawn ==
  ASSUME IInv, NEW pixels \in SUBSET ActiveArea, NEW source \in SUBSET Cache, Store(pixels, source), Marks(pixels)
  PROVE  Safe
<1>1. pixels \subseteq Screen
  BY ActiveExtents DEF IInv
<1>2. UNCHANGED target /\ strayed' = FALSE
      /\ touched' = IF target = "screen" THEN touched \union pixels ELSE touched
  BY <1>1 DEF Store, IInv
<1>3. DirtyRect \subseteq DirtyRect'
  <2>1. /\ dirty.min_x \in Int /\ dirty.max_x \in Int /\ dirty.min_y \in Int /\ dirty.max_y \in Int
        /\ dirty'.min_x \in Int /\ dirty'.max_x \in Int /\ dirty'.min_y \in Int /\ dirty'.max_y \in Int
    BY GraphicsAssumption DEF IInv, InScreenRange, Marks, Grown
  <2>2. /\ dirty.min_x .. dirty.min_x + (dirty.max_x - dirty.min_x) - 1
             \subseteq dirty'.min_x .. dirty'.min_x + (dirty'.max_x - dirty'.min_x) - 1
        /\ dirty.min_y .. dirty.min_y + (dirty.max_y - dirty.min_y) - 1
             \subseteq dirty'.min_y .. dirty'.min_y + (dirty'.max_y - dirty'.min_y) - 1
    BY <2>1 DEF Marks, Grown
  <2>3. QED
    BY <2>2 DEF DirtyRect, Rect
<1>4. touched' \subseteq Screen' /\ touched' \subseteq DirtyRect'
  BY <1>1, <1>2, <1>3 DEF IInv, Marks, Screen
<1>5. InScreenRange' /\ dirty'.active \in BOOLEAN /\ (~dirty'.active => touched' = {})
  BY <1>2 DEF IInv, Marks, Grown
<1>6. QED
  BY <1>2, <1>4, <1>5 DEF IInv, Marks, Safe

LEMMA PutPixelsStep ==
  ASSUME IInv, NEW pixels, PutPixels(pixels)
  PROVE  Safe
<1> DEFINE inside == pixels \intersect ActiveArea
<1>1. Store(inside, {}) /\ dirty' = IF target = "screen" THEN MarkEach(inside) ELSE dirty
  BY DEF PutPixels
<1>2. inside \subseteq Screen /\ inside \subseteq ActiveArea
  BY ActiveExtents DEF IInv
<1> HIDE DEF inside
<1>3. Marks(inside)
  <2>1. CASE target = "screen" /\ inside # {}
    BY <2>1, <1>1, <1>2, MarkEachGrows DEF Marks
  <2>2. CASE target # "screen" \/ inside = {}
    <3>1. dirty' = dirty
      BY <2>2, <1>1 DEF MarkEach
    <3>2. QED
      BY <2>2, <3>1, NothingMarked DEF Marks
  <2>3. QED
    BY <2>1, <2>2
<1>4. QED
  BY <1>1, <1>2, <1>3, Drawn

LEMMA BlendPixelsStep ==
  ASSUME IInv, NEW pixels, BlendPixels(pixels)
  PROVE  Safe
<1>1. target = "screen" /\ ActiveArea = Screen
  BY DEF BlendPixels, ActiveArea, active_width, active_height, Screen
<1>2. PutPixels(pixels)
  BY <1>1 DEF BlendPixels, PutPixels
<1>3. QED
  BY <1>2, PutPixelsStep

(* What is left of a rectangle after clipping is inside the active buffer, *)
(* and its source, shifted back, inside the rectangle it is copied from.   *)
LEMMA ClipInside ==
  ASSUME target \in {"screen", "cache"}, NEW x \in Int, NEW y \in Int, NEW w \in Nat, NEW h \in Nat,
         Visible(x, y, w, h), NEW c, c = Clip(x, y, w, h)
  PROVE  /\ c.x \in Int /\ c.y \in Int /\ c.w \in Nat /\ c.h \in Int
         /\ Rect(c.x, c.y, c.w, c.h) \subseteq ActiveArea
         /\ Rect(c.x - x, c.y - y, c.w, c.h) \subseteq Rect(0, 0, w, h)
<1> DEFINE left == Max({x, 0})
           top == Max({y, 0})
           right == Min({x + w, active_width})
           bottom == Min({y + h, active_height})
<1>1. active_width \in Int /\ active_height \in Int /\ x + w \in Int /\ y + h \in Int
  BY ActiveExtents, GraphicsAssumption
<1>2. left \in {x, 0} /\ left >= x /\ left >= 0
  BY MaxOfTwo
<1>3. top \in {y, 0} /\ top >= y /\ top >= 0
  BY MaxOfTwo, SMTT(30)
<1>4. right \in {x + w, active_width} /\ right <= x + w /\ right <= active_width
  BY <1>1, MinOfTwo
<1>5. bottom \in {y + h, active_height} /\ bottom <= y + h /\ bottom <= active_height
  BY <1>1, MinOfTwo
<1>6. c.x = left /\ c.y = top /\ c.w = right - left /\ c.h = bottom - top
  BY DEF Clip
<1> HIDE DEF left, top, right, bottom
<1>7. left \in Int /\ top \in Int /\ right \in Int /\ bottom \in Int
  BY <1>1, <1>2, <1>3, <1>4, <1>5
<1>8. /\ left .. left + (right - left) - 1 \subseteq 0 .. 0 + active_width - 1
      /\ top .. top + (bottom - top) - 1 \subseteq 0 .. 0 + active_height - 1
  BY <1>1, <1>2, <1>3, <1>4, <1>5, <1>7
<1>9. /\ left - x .. left - x + (right - left) - 1 \subseteq 0 .. 0 + w - 1
      /\ top - y .. top - y + (bottom - top) - 1 \subseteq 0 .. 0 + h - 1
  BY <1>1, <1>2, <1>3, <1>4, <1>5, <1>7
<1>10. right - left \in Nat
  <2>1. x < active_width /\ x + w > 0 /\ active_width > 0
    BY ActiveExtents, GraphicsAssumption DEF Visible
  <2>2. QED
    BY <1>1, <1>2, <1>4, <1>7, <2>1
<1>11. QED
  BY <1>6, <1>7, <1>8, <1>9, <1>10 DEF ActiveArea, Rect

LEMMA RowsOfRect ==
  ASSUME NEW x, NEW y, NEW w \in Nat, NEW h
  PROVE  Rows(x, y, w, h) = Rect(x, y, w, h)
<1>1. ~(w < 0)
  OBVIOUS
<1>2. QED
  BY <1>1 DEF Rows

LEMMA MarkRect ==
  ASSUME IInv, NEW x \in Int, NEW y \in Int, NEW w \in Int, NEW h \in Int,
         Rect(x, y, w, h) \subseteq Screen, dirty' = MarkDirty(x, y, w, h)
  PROVE  Marks(Rect(x, y, w, h))
<1>1. CASE w > 0 /\ h > 0
  BY <1>1, MarkDirtyGrows DEF Marks
<1>2. CASE w <= 0 \/ h <= 0
  <2>1. dirty' = dirty
    BY <1>2 DEF MarkDirty
  <2>2. x .. x + w - 1 = {} \/ y .. y + h - 1 = {}
    BY <1>2
  <2>3. Rect(x, y, w, h) = {}
    BY <2>2 DEF Rect
  <2>4. QED
    BY <2>1, <2>3, NothingMarked DEF Marks
<1>3. QED
  BY <1>1, <1>2

LEMMA DrawRectStep ==
  ASSUME IInv, NEW x \in Int, NEW y \in Int, NEW w \in Nat, NEW h \in Nat, DrawRect(x, y, w, h)
  PROVE  Safe
<1> DEFINE c == Clip(x, y, w, h)
<1>1. Visible(x, y, w, h) /\ Store(Rows(c.x, c.y, c.w, c.h), {}) /\ dirty' = MarkDirty(c.x, c.y, c.w, c.h)
  BY DEF DrawRect
<1>2. c.x \in Int /\ c.y \in Int /\ c.w \in Nat /\ c.h \in Int /\ Rect(c.x, c.y, c.w, c.h) \subseteq ActiveArea
  BY <1>1, ClipInside DEF IInv
<1>3. Rect(c.x, c.y, c.w, c.h) \subseteq Screen
  BY <1>2, ActiveExtents DEF IInv
<1> HIDE DEF c
<1>4. Marks(Rect(c.x, c.y, c.w, c.h))
  BY <1>1, <1>2, <1>3, MarkRect
<1>5. Store(Rect(c.x, c.y, c.w, c.h), {})
  BY <1>1, <1>2, RowsOfRect
<1>6. QED
  BY <1>2, <1>4, <1>5, Drawn

LEMMA BlitStep ==
  ASSUME IInv, NEW x \in Int, NEW y \in Int, Blit(x, y)
  PROVE  Safe
<1> DEFINE c == Clip(x, y, CacheWidth, CacheHeight)
<1>1. /\ Visible(x, y, CacheWidth, CacheHeight)
      /\ Store(Rows(c.x, c.y, c.w, c.h), Rows(c.x - x, c.y - y, c.w, c.h))
      /\ dirty' = MarkDirty(c.x, c.y, c.w, c.h)
  BY DEF Blit
<1>2. /\ c.x \in Int /\ c.y \in Int /\ c.w \in Nat /\ c.h \in Int
      /\ Rect(c.x, c.y, c.w, c.h) \subseteq ActiveArea
      /\ Rect(c.x - x, c.y - y, c.w, c.h) \subseteq Cache
  <2>1. CacheWidth \in Nat /\ CacheHeight \in Nat
    BY GraphicsAssumption
  <2>2. QED
    BY <1>1, <2>1, ClipInside DEF IInv, Cache
<1>3. Rect(c.x, c.y, c.w, c.h) \subseteq Screen
  BY <1>2, ActiveExtents DEF IInv
<1> HIDE DEF c
<1>4. Marks(Rect(c.x, c.y, c.w, c.h))
  BY <1>1, <1>2, <1>3, MarkRect
<1>5. Store(Rect(c.x, c.y, c.w, c.h), Rect(c.x - x, c.y - y, c.w, c.h))
  BY <1>1, <1>2, RowsOfRect
<1>6. QED
  BY <1>2, <1>4, <1>5, Drawn

LEMMA LandscapeStep ==
  ASSUME IInv, NEW x \in Int, NEW y \in Int, NEW w \in Nat, NEW h \in Nat, DrawLandscape(x, y, w, h)
  PROVE  Safe
<1>1. /\ target = "screen" /\ Rect(x, y, w, h) \subseteq Screen /\ Store(Rect(x, y, w, h), {})
      /\ dirty' = MarkDirty(x, y, w, h)
  BY DEF DrawLandscape
<1>2. Rect(x, y, w, h) \subseteq ActiveArea
  BY <1>1 DEF ActiveArea, active_width, active_height, Screen
<1>3. QED
  BY <1>1, <1>2, MarkRect, Drawn

LEMMA ClearStep ==
  ASSUME IInv, Clear
  PROVE  Safe
<1>1. target = "screen" /\ Store(Screen, {}) /\ dirty' = MarkDirty(0, 0, Width, Height)
  BY DEF Clear, active_width, active_height
<1>2. Screen = Rect(0, 0, Width, Height) /\ Screen \subseteq ActiveArea
  BY <1>1 DEF ActiveArea, active_width, active_height, Screen
<1>3. Width \in Int /\ Height \in Int
  BY GraphicsAssumption
<1>4. Marks(Screen)
  BY <1>1, <1>2, <1>3, MarkRect
<1>5. QED
  BY <1>1, <1>2, <1>4, Drawn

LEMMA SetTargetStep ==
  ASSUME IInv, NEW t \in {"screen", "cache"}, SetTarget(t)
  PROVE  Safe
<1>1. target' = t /\ UNCHANGED <<touched, dirty, strayed>>
  BY DEF SetTarget
<1>2. QED
  BY <1>1 DEF Safe, IInv, InScreenRange, DirtyRect, Screen, Rect

(* A swap copies all that is dirty, and so all that was touched. *)
LEMMA SwapStep ==
  ASSUME IInv, SwapBuffers
  PROVE  IInv' /\ touched' = {}
<1> DEFINE bw == dirty.max_x - dirty.min_x
           bh == dirty.max_y - dirty.min_y
<1>1. /\ target = "screen" /\ touched' = touched \ Copied /\ dirty' = NotDirty /\ UNCHANGED target
      /\ strayed' = (strayed \/ ~(Copied \subseteq Screen))
  BY DEF SwapBuffers
<1>2. /\ dirty.min_x \in 0 .. Width /\ dirty.max_x \in 0 .. Width
      /\ dirty.min_y \in 0 .. Height /\ dirty.max_y \in 0 .. Height /\ Width \in Nat /\ Height \in Nat
  BY GraphicsAssumption DEF IInv, InScreenRange
<1>3. Copied = IF bw <= 0 \/ bh <= 0 THEN {}
               ELSE IF bw = Width /\ bh = Height THEN Screen
               ELSE DirtyRect
  BY <1>1 DEF Copied, active_width, active_height, DirtyRect
<1>4. DirtyRect \subseteq Screen
  <2>1. /\ dirty.min_x .. dirty.min_x + bw - 1 \subseteq 0 .. 0 + Width - 1
        /\ dirty.min_y .. dirty.min_y + bh - 1 \subseteq 0 .. 0 + Height - 1
    BY <1>2
  <2>2. QED
    BY <2>1 DEF DirtyRect, Screen, Rect
<1>5. bw <= 0 \/ bh <= 0 => DirtyRect = {}
  <2>1. bw <= 0 \/ bh <= 0 => dirty.min_x .. dirty.min_x + bw - 1 = {} \/ dirty.min_y .. dirty.min_y + bh - 1 = {}
    BY <1>2
  <2>2. QED
    BY <2>1 DEF DirtyRect, Rect
<1> HIDE DEF bw, bh
<1>6. Copied \subseteq Screen /\ touched \subseteq Copied
  BY <1>3, <1>4, <1>5 DEF IInv
<1>7. touched' = {} /\ strayed' = FALSE
  BY <1>1, <1>6 DEF IInv
<1>8. InScreenRange' /\ dirty'.active = FALSE
  BY <1>1, <1>2 DEF NotDirty, InScreenRange
<1>9. QED
  BY <1>1, <1>7, <1>8 DEF IInv

LEMMA NextStep ==
  ASSUME IInv, Next
  PROVE  Safe \/ (IInv' /\ touched' = {})
<1>1. Coords \subseteq Int /\ Sizes \subseteq Nat
  BY GraphicsAssumption
<1>2. ASSUME NEW s \in Shapes, NEW x \in Coords, NEW y \in Coords, DrawShape(s, x, y) \/ DrawCursor(s, x, y)
      PROVE  Safe
  BY <1>2, PutPixelsStep, BlendPixelsStep DEF DrawShape, DrawCursor
<1>3. ASSUME NEW x \in Coords, NEW y \in Coords, NEW w \in Sizes, NEW h \in Sizes,
             DrawRect(x, y, w, h) \/ DrawRectAlpha(x, y, w, h) \/ DrawLandscape(x, y, w, h)
      PROVE  Safe
  BY <1>1, <1>3, DrawRectStep, BlendPixelsStep, LandscapeStep DEF DrawRectAlpha
<1>4. ASSUME NEW x \in Coords, NEW y \in Coords, NEW w \in Sizes, NEW h \in Sizes, NEW s \in Shapes,
             DrawPicture(x, y, w, h, At(s, x, y)) \/ DrawFrame(x, y, w, h, At(s, x, y))
      PROVE  Safe
  BY <1>4, PutPixelsStep DEF DrawPicture, DrawFrame
<1>5. ASSUME NEW x \in Coords, NEW y \in Coords, Blit(x, y) PROVE Safe
  BY <1>1, <1>5, BlitStep
<1>6. ASSUME NEW t \in {"screen", "cache"}, SetTarget(t) PROVE Safe
  BY <1>6, SetTargetStep
<1>7. QED
  BY <1>2, <1>3, <1>4, <1>5, <1>6, ClearStep, SwapStep DEF Next

LEMMA InitHolds == Init => IInv
<1> SUFFICES ASSUME Init PROVE IInv
  OBVIOUS
<1>1. dirty = NotDirty /\ target = "screen" /\ touched = {} /\ strayed = FALSE
  BY DEF Init
<1>2. InScreenRange /\ dirty.active = FALSE
  BY <1>1, GraphicsAssumption DEF NotDirty, InScreenRange
<1>3. QED
  BY <1>1, <1>2 DEF IInv

LEMMA Stutters ==
  ASSUME IInv, UNCHANGED vars
  PROVE  IInv'
BY DEF vars, IInv, InScreenRange, DirtyRect, Screen, Rect

LEMMA Invariant == Spec => []IInv
<1>1. IInv /\ [Next]_vars => IInv'
  BY NextStep, Stutters DEF Safe
<1>2. QED
  BY <1>1, InitHolds, PTL DEF Spec

(* No drawing operation leaves the buffer it draws into or reads from, and *)
(* the dirty rectangle never leaves the screen.                            *)
THEOREM StaysInsideItsBuffer == Spec => []DrawsInsideItsBuffer
<1>1. IInv => DrawsInsideItsBuffer
  BY DEF IInv, InScreenRange, DrawsInsideItsBuffer
<1>2. QED
  BY <1>1, Invariant, PTL

(* A swap shows everything drawn since the last one. *)
THEOREM SwapsShowEverything == Spec => SwapShowsEverything
<1>1. IInv /\ [Next]_vars => [dirty.active /\ ~dirty'.active => touched' = {}]_vars
  <2> SUFFICES ASSUME IInv, Next PROVE dirty.active /\ ~dirty'.active => touched' = {}
    OBVIOUS
  <2>1. Safe \/ touched' = {}
    BY NextStep
  <2>2. QED
    BY <2>1 DEF Safe
<1>2. QED
  BY <1>1, Invariant, PTL DEF Spec, SwapShowsEverything
===============================================================================
