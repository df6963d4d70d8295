------------------------------ MODULE Graphics ------------------------------
(***************************************************************************)
(* The double-buffered drawing layer of src/gfx.c with the two picture     *)
(* decoders that draw through it, src/bmp.c and src/bgif.c.  Everything is *)
(* drawn into a buffer in memory, the back buffer or (while ui_init paints *)
(* the window frames) a window's cache; gfx_swap_buffers then copies to    *)
(* the framebuffer only the rectangle that was marked dirty since the      *)
(* previous swap.                                                          *)
(*                                                                         *)
(* Colours are left out: `touched` holds the pixels of the back buffer     *)
(* that were written since they were last copied to the framebuffer.  The  *)
(* behaviour starts at the end of gfx_init, after its own clear and swap.  *)
(***************************************************************************)
EXTENDS Integers, FiniteSetsExt

CONSTANTS Width, Height,             \* of the screen
          CacheWidth, CacheHeight,   \* of a window's cache
          Coords, Sizes,             \* the coordinates and extents callers pass
          Shapes,                    \* the pixel sets of glyphs, icons and the cursor
          Shadow                     \* offset of the cursor's shadow

ASSUME GraphicsAssumption ==
  /\ Width \in Nat \ {0} /\ Height \in Nat \ {0}
  /\ CacheWidth \in 1 .. Width /\ CacheHeight \in 1 .. Height
  /\ Coords \subseteq Int /\ Sizes \subseteq Nat
  /\ \A s \in Shapes : IsFiniteSet(s) /\ s \subseteq Nat \X Nat
  /\ Shadow \in Nat

VARIABLES target,    \* the active buffer: "screen" (the back buffer) or "cache"
          touched,   \* pixels the framebuffer does not show yet
          dirty,     \* dirty_min_x .. dirty_active
          strayed    \* history: an access fell outside the buffer it was meant for
vars == <<target, touched, dirty, strayed>>

-----------------------------------------------------------------------------
Rect(x, y, w, h) == (x .. x + w - 1) \X (y .. y + h - 1)
Screen == Rect(0, 0, Width, Height)
Cache  == Rect(0, 0, CacheWidth, CacheHeight)

active_width  == IF target = "screen" THEN Width ELSE CacheWidth
active_height == IF target = "screen" THEN Height ELSE CacheHeight
ActiveArea    == Rect(0, 0, active_width, active_height)

NotDirty == [min_x |-> Width, min_y |-> Height, max_x |-> 0, max_y |-> 0, active |-> FALSE]

MarkAsOnlyDirty(x, y, w, h) ==
  [min_x |-> Max({x, 0}), min_y |-> Max({y, 0}),
   max_x |-> Min({x + w, active_width}), max_y |-> Min({y + h, active_height}), active |-> TRUE]

(* gfx_mark_dirty: grow the rectangle by the visible part of another one. *)
MarkDirty(x, y, w, h) ==
  IF w <= 0 \/ h <= 0 THEN dirty
  ELSE [min_x  |-> Min({dirty.min_x, Max({x, 0})}),
        min_y  |-> Min({dirty.min_y, Max({y, 0})}),
        max_x  |-> Max({dirty.max_x, Min({x + w, active_width})}),
        max_y  |-> Max({dirty.max_y, Min({y + h, active_height})}),
        active |-> TRUE]

(* gfx_mark_dirty of each pixel of a set, one by one. *)
MarkEach(pixels) ==
  IF pixels = {} THEN dirty
  ELSE [min_x  |-> Min({dirty.min_x} \union {p[1] : p \in pixels}),
        min_y  |-> Min({dirty.min_y} \union {p[2] : p \in pixels}),
        max_x  |-> Max({dirty.max_x} \union {p[1] + 1 : p \in pixels}),
        max_y  |-> Max({dirty.max_y} \union {p[2] + 1 : p \in pixels}),
        active |-> TRUE]

(* Write `pixels` of the active buffer, having read `source` of a cache. *)
Store(pixels, source) ==
  /\ touched' = IF target = "screen" THEN touched \union (pixels \intersect Screen) ELSE touched
  /\ strayed' = (strayed \/ ~(pixels \subseteq ActiveArea) \/ ~(source \subseteq Cache))
  /\ UNCHANGED target

(* gfx_put_pixel of each pixel of a set. *)
PutPixels(pixels) ==
  LET inside == pixels \intersect ActiveArea IN
  /\ Store(inside, {})
  /\ dirty' = IF target = "screen" THEN MarkEach(inside) ELSE dirty

(* gfx_put_pixel_alpha of each pixel: always into the back buffer. *)
BlendPixels(pixels) ==
  LET inside == pixels \intersect Screen IN
  /\ target = "screen"
  /\ Store(inside, {})
  /\ dirty' = MarkEach(inside)

Init ==
  /\ target = "screen" /\ touched = {} /\ dirty = NotDirty /\ strayed = FALSE

-----------------------------------------------------------------------------
At(shape, x, y) == {<<x + p[1], y + p[2]>> : p \in shape}

(* Characters, strings, numbers and the paint canvas. *)
DrawShape(shape, x, y) == PutPixels(At(shape, x, y))

(* The cursor: a translucent shadow, then the arrow itself. *)
DrawCursor(shape, x, y) ==
  LET shadow == At(shape, x + Shadow, y + Shadow)
  IN  BlendPixels((shadow \union At(shape, x, y)) \intersect Screen)

DrawRectAlpha(x, y, w, h) == BlendPixels(Rect(x, y, w, h))

Clear ==
  /\ target = "screen"
  /\ Store(Screen, {})
  /\ dirty' = MarkDirty(0, 0, active_width, active_height)

VisibleUnlessRight(x, y, w, h) == y < active_height /\ x + w > 0 /\ y + h > 0
Visible(x, y, w, h) == x < active_width /\ y < active_height /\ x + w > 0 /\ y + h > 0

ClipLeftOnly(x, y, w, h) ==
  LET start_x == Max({x, 0})
      start_y == Max({y, 0})
  IN  [x |-> start_x, y |-> start_y, w |-> x + w - start_x, h |-> y + h - start_y]

(* The part of a rectangle inside the active buffer, by its corner and size. *)
Clip(x, y, w, h) ==
  LET start_x == Max({x, 0})
      start_y == Max({y, 0})
  IN  [x |-> start_x, y |-> start_y,
       w |-> Min({x + w, active_width}) - start_x,
       h |-> Min({y + h, active_height}) - start_y]

(* What h rows of w pixels touch: a negative w becomes a huge size_t, and  *)
(* each row runs on beyond the buffer's.                                   *)
Rows(x, y, w, h) == Rect(x, y, IF w < 0 THEN Width + 1 ELSE w, h)

(* Marks the screen dirty even when a cache is the target: harmless. *)
DrawRect(x, y, w, h) ==
  LET c == Clip(x, y, w, h) IN
  /\ Visible(x, y, w, h)
  /\ Store(Rows(c.x, c.y, c.w, c.h), {})
  /\ dirty' = MarkDirty(c.x, c.y, c.w, c.h)

(* Copy a window's cache to its place on the screen. *)
Blit(dx, dy) ==
  LET c == Clip(dx, dy, CacheWidth, CacheHeight) IN
  /\ target = "screen" /\ Visible(dx, dy, CacheWidth, CacheHeight)
  /\ Store(Rows(c.x, c.y, c.w, c.h), Rows(c.x - dx, c.y - dy, c.w, c.h))
  /\ dirty' = MarkDirty(c.x, c.y, c.w, c.h)

(* The landscapes write the back buffer without clipping: their callers    *)
(* pass the screen or a canvas inside a window, and windows stay inside it. *)
DrawLandscape(x, y, w, h) ==
  /\ target = "screen" /\ w > 0 /\ h > 0 /\ Rect(x, y, w, h) \subseteq Screen
  /\ Store(Rect(x, y, w, h), {})
  /\ dirty' = MarkDirty(x, y, w, h)

(* A .bmp picture scaled to w by h, but for its transparent pixels. *)
DrawPicture(x, y, w, h, opaque) ==
  w > 0 /\ h > 0 /\ PutPixels(opaque \intersect Rect(x, y, w, h))

(* One frame of an animation: the pixels that changed since the last one,  *)
(* each put on its own, then the box around them marked once more.         *)
DrawFrame(x, y, w, h, changed) ==
  /\ target = "screen" /\ w > 0 /\ h > 0 /\ x < Width /\ y < Height
  /\ PutPixels(changed \intersect Rect(x, y, w, h))

SetTarget(t) == target' = t /\ UNCHANGED <<touched, dirty, strayed>>

(* What a swap copies: the dirty rectangle, row by row, or everything. *)
Copied ==
  LET bw == dirty.max_x - dirty.min_x
      bh == dirty.max_y - dirty.min_y
  IN  IF bw <= 0 \/ bh <= 0 THEN {}
      ELSE IF bw = active_width /\ bh = active_height THEN Screen
      ELSE Rect(dirty.min_x, dirty.min_y, bw, bh)

SwapBuffers ==
  /\ target = "screen" /\ dirty.active
  /\ touched' = touched \ Copied
  /\ strayed' = (strayed \/ ~(Copied \subseteq Screen))
  /\ dirty' = NotDirty
  /\ UNCHANGED target

Next ==
  \/ \E s \in Shapes, x, y \in Coords : DrawShape(s, x, y) \/ DrawCursor(s, x, y)
  \/ \E x, y \in Coords, w, h \in Sizes :
       \/ DrawRect(x, y, w, h)
       \/ DrawRectAlpha(x, y, w, h)
       \/ DrawLandscape(x, y, w, h)
       \/ \E s \in Shapes : \/ DrawPicture(x, y, w, h, At(s, x, y))
                             \/ DrawFrame(x, y, w, h, At(s, x, y))
  \/ \E x, y \in Coords : Blit(x, y)
  \/ \E t \in {"screen", "cache"} : SetTarget(t)
  \/ Clear
  \/ SwapBuffers

Spec == Init /\ [][Next]_vars

-----------------------------------------------------------------------------
(* No drawing operation, clipped or not, writes a pixel outside the buffer *)
(* it draws into, reads outside a window's cache, or copies pixels beyond  *)
(* the framebuffer: the dirty rectangle, which the row-by-row copy relies  *)
(* on, never leaves the screen.                                            *)
DrawsInsideItsBuffer ==
  /\ ~strayed
  /\ {dirty.min_x, dirty.max_x} \subseteq 0 .. Width
  /\ {dirty.min_y, dirty.max_y} \subseteq 0 .. Height

(* When gfx_swap_buffers clears the dirty rectangle, the framebuffer shows  *)
(* everything that had been drawn: no sequence of draws, clipped at any     *)
(* edge, leaves a pixel out of the rectangle, and no swap a row or column.  *)
SwapShowsEverything == [][dirty.active /\ ~dirty'.active => touched' = {}]_vars
=============================================================================
