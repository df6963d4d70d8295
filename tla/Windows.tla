------------------------------- MODULE Windows -------------------------------
(***************************************************************************)
(* The window manager of src/ui.c: stacking, dragging, closing, the start  *)
(* menu and the desktop icons, as ui_handle_mouse drives them.             *)
(*                                                                         *)
(* The handler reads mouse_x and mouse_y afresh in every statement while   *)
(* the mouse interrupt may move them (the click sound alone takes many     *)
(* milliseconds), so each statement is a step and sees a pointer position  *)
(* of its own, any of Points.  Points is a product of columns and rows: a  *)
(* read torn between two positions is one of them too.  The button is read *)
(* once per call.  What the buttons inside a window do is left out: none   *)
(* moves, opens or closes a window.                                        *)
(***************************************************************************)
EXTENDS Integers, FiniteSets

CONSTANTS WindowIds,                   \* the windows, a range of naturals
          WinWidth, WinHeight,         \* extent of each
          StartX, StartY, StartOpen,   \* the table ui_init fills in
          DesktopWidth, DesktopHeight, \* the screen without the task bar
          Columns, Rows,               \* pointer positions
          TitleHeight,                 \* of the bar a window is dragged by
          CloseBox,                    \* the close button, from the upper right corner
          IconAt,                      \* by column of icons: the window of the one at a point
          MenuArea, MenuItems,         \* the start menu's points, its items' windows
          StartButton, PowerButtons,   \* points of these
          MaxZ                         \* bound on top_z_index

None   == -1
Points == Columns \X Rows
NumWindows == Cardinality(WindowIds)

ASSUME WindowsAssumption ==
  /\ IsFiniteSet(WindowIds) /\ WindowIds = 0 .. NumWindows - 1
  /\ DesktopWidth \in Nat /\ DesktopHeight \in Nat
  /\ \A i \in WindowIds :
       /\ WinWidth[i] \in 1 .. DesktopWidth /\ WinHeight[i] \in 1 .. DesktopHeight
       /\ StartX[i] \in 0 .. DesktopWidth - WinWidth[i]
       /\ StartY[i] \in 0 .. DesktopHeight - WinHeight[i]
  /\ Columns \subseteq Nat /\ Rows \subseteq Nat /\ TitleHeight \in Nat
  /\ StartOpen \subseteq WindowIds
  /\ IconAt \in [1 .. 2 -> [Points -> WindowIds \union {None}]] /\ MenuItems \subseteq WindowIds

VARIABLES windows,            \* position, z_index and is_open of each
          top_z_index,
          dragging_window_id, drag_off_x, drag_off_y,
          prev_mouse_left, start_menu_open,
          pc, click, clicked_win   \* where ui_handle_mouse is, its locals
vars == <<windows, top_z_index, dragging_window_id, drag_off_x, drag_off_y, prev_mouse_left,
          start_menu_open, pc, click, clicked_win>>
drag == <<dragging_window_id, drag_off_x, drag_off_y>>
call == <<prev_mouse_left, click>>

Init ==
  /\ windows = [i \in WindowIds |-> [x |-> StartX[i], y |-> StartY[i], z_index |-> i + 1,
                                     is_open |-> i \in StartOpen]]
  /\ top_z_index = NumWindows
  /\ dragging_window_id = None /\ drag_off_x = 0 /\ drag_off_y = 0
  /\ prev_mouse_left = FALSE /\ start_menu_open = FALSE
  /\ pc = "idle" /\ click = FALSE /\ clicked_win = None

-----------------------------------------------------------------------------
(* The frame of a window for the pointer, right and lower edges included. *)
InFrame(p, i) ==
  LET w == windows[i] IN
  /\ w.x <= p[1] /\ p[1] <= w.x + WinWidth[i]
  /\ w.y <= p[2] /\ p[2] <= w.y + WinHeight[i]

(* find_clicked_window: the first open window of the greatest z_index. *)
find_clicked_window(p) ==
  LET hits == {i \in WindowIds : windows[i].is_open /\ InFrame(p, i)}
      top  == {i \in hits : \A j \in hits : windows[j].z_index <= windows[i].z_index}
  IN  IF hits = {} THEN None ELSE CHOOSE i \in top : \A j \in top : i <= j

RaiseOntoTop(ids) ==
  /\ windows' = [i \in WindowIds |->
       IF i \in ids THEN [windows[i] EXCEPT !.z_index = top_z_index, !.is_open = TRUE]
       ELSE windows[i]]
  /\ UNCHANGED top_z_index

(* bring_to_front of each window of a set, in their order. *)
BringToFront(ids) ==
  /\ windows' = [i \in WindowIds |->
       IF i \in ids
       THEN [windows[i] EXCEPT !.z_index = top_z_index + Cardinality({j \in ids : j <= i}),
                               !.is_open = TRUE]
       ELSE windows[i]]
  /\ top_z_index' = top_z_index + Cardinality(ids)

-----------------------------------------------------------------------------
(* ui_handle_mouse, statement by statement. *)

(* Sample the button; a press goes through the whole handler, anything     *)
(* else straight to the dragging at its end.                               *)
SampleButton(pressed) ==
  /\ pc = "idle"
  /\ pressed /\ ~prev_mouse_left => top_z_index < MaxZ
  /\ click' = pressed /\ prev_mouse_left' = pressed
  /\ pc' = IF pressed /\ ~prev_mouse_left THEN "power" ELSE "drag"
  /\ UNCHANGED <<windows, top_z_index, drag, start_menu_open, clicked_win>>

(* Switching off or restarting never returns. *)
PressPower(p) ==
  /\ pc = "power"
  /\ pc' = IF start_menu_open /\ p \in PowerButtons THEN "off" ELSE "left icons"
  /\ UNCHANGED <<windows, top_z_index, drag, start_menu_open, call, clicked_win>>

(* Icons react even where a window covers them, at most one of a column. *)
PressIcon(p, column) ==
  /\ IF IconAt[column][p] = None THEN UNCHANGED <<windows, top_z_index>>
     ELSE BringToFront({IconAt[column][p]})
  /\ UNCHANGED <<drag, start_menu_open, call, clicked_win>>

PressLeftIcon(p)  == pc = "left icons" /\ pc' = "right icons" /\ PressIcon(p, 1)
PressRightIcon(p) == pc = "right icons" /\ pc' = "start" /\ PressIcon(p, 2)

PressStart(p) ==
  /\ pc = "start"
  /\ IF p \in StartButton THEN start_menu_open' = ~start_menu_open /\ pc' = "idle"
     ELSE UNCHANGED start_menu_open /\ pc' = "menu"
  /\ UNCHANGED <<windows, top_z_index, drag, call, clicked_win>>

(* A press on the open menu opens its items' windows; neighbouring items   *)
(* share a row of pixels, and each is tested with a position of its own,   *)
(* so any of them may be hit.  The menu closes wherever the press is.      *)
PressMenu(p, items) ==
  /\ pc = "menu"
  /\ start_menu_open' = FALSE
  /\ IF start_menu_open /\ p \in MenuArea THEN BringToFront(items) /\ pc' = "idle"
     ELSE UNCHANGED <<windows, top_z_index>> /\ pc' = "windows"
  /\ UNCHANGED <<drag, call, clicked_win>>

PressWithoutRaising(p) ==
  /\ pc = "windows"
  /\ clicked_win' = find_clicked_window(p)
  /\ pc' = IF clicked_win' = None THEN "drag" ELSE "close"
  /\ UNCHANGED <<windows, top_z_index, drag, start_menu_open, call>>

PressWindow(p) ==
  /\ pc = "windows"
  /\ clicked_win' = find_clicked_window(p)
  /\ IF clicked_win' = None THEN UNCHANGED <<windows, top_z_index>> /\ pc' = "drag"
     ELSE BringToFront({clicked_win'}) /\ pc' = "close"
  /\ UNCHANGED <<drag, start_menu_open, call>>

OnCloseBox(p, i) ==
  LET w == windows[i] IN
  <<p[1] - (w.x + WinWidth[i]), p[2] - w.y>> \in CloseBox

PressClose(p) ==
  /\ pc = "close"
  /\ IF OnCloseBox(p, clicked_win)
     THEN /\ windows' = [windows EXCEPT ![clicked_win].is_open = FALSE]
          /\ dragging_window_id' = None /\ pc' = "idle"
     ELSE UNCHANGED <<windows, dragging_window_id>> /\ pc' = "title"
  /\ UNCHANGED <<top_z_index, drag_off_x, drag_off_y, start_menu_open, call, clicked_win>>

PressTitle(p) ==
  LET w == windows[clicked_win] IN
  /\ pc = "title"
  /\ IF w.y <= p[2] /\ p[2] <= w.y + TitleHeight
     THEN /\ dragging_window_id' = clicked_win
          /\ drag_off_x' = p[1] - w.x /\ drag_off_y' = p[2] - w.y
     ELSE UNCHANGED drag
  /\ pc' = "drag"
  /\ UNCHANGED <<windows, top_z_index, start_menu_open, call, clicked_win>>

KeptFromLeft(n, size, limit) == IF n < 0 THEN 0 ELSE n

(* Push a window back inside the desktop, first from the left, then from   *)
(* the right.                                                              *)
KeptInside(n, size, limit) ==
  LET m == IF n < 0 THEN 0 ELSE n
  IN  IF m + size > limit THEN limit - size ELSE m

DragWithoutEnd(p) ==
  LET i == dragging_window_id IN
  /\ pc = "drag" /\ pc' = "idle"
  /\ IF click /\ i # None
     THEN windows' = [windows EXCEPT
            ![i].x = KeptInside(p[1] - drag_off_x, WinWidth[i], DesktopWidth),
            ![i].y = KeptInside(p[2] - drag_off_y, WinHeight[i], DesktopHeight)]
     ELSE UNCHANGED windows
  /\ UNCHANGED <<top_z_index, drag, start_menu_open, call, clicked_win>>

(* The end of the handler: move the dragged window, or let it go. *)
DragOrRelease(p) ==
  LET i == dragging_window_id IN
  /\ pc = "drag" /\ pc' = "idle"
  /\ IF click /\ i # None
     THEN windows' = [windows EXCEPT
            ![i].x = KeptInside(p[1] - drag_off_x, WinWidth[i], DesktopWidth),
            ![i].y = KeptInside(p[2] - drag_off_y, WinHeight[i], DesktopHeight)]
     ELSE UNCHANGED windows
  /\ dragging_window_id' = IF click THEN i ELSE None
  /\ UNCHANGED <<top_z_index, drag_off_x, drag_off_y, start_menu_open, call, clicked_win>>

Next ==
  \/ \E pressed \in BOOLEAN : SampleButton(pressed)
  \/ \E p \in Points :
       \/ PressPower(p)
       \/ PressLeftIcon(p)
       \/ PressRightIcon(p)
       \/ PressStart(p)
       \/ \E items \in SUBSET MenuItems : PressMenu(p, items)
       \/ PressWindow(p)
       \/ PressClose(p)
       \/ PressTitle(p)
       \/ DragOrRelease(p)

Spec == Init /\ [][Next]_vars

-----------------------------------------------------------------------------
(* However the pointer jumps while a window is dragged, the window stays   *)
(* inside the desktop: the landscapes of the gallery are drawn into it     *)
(* without clipping.                                                       *)
WindowsStayOnDesktop ==
  \A i \in WindowIds :
    /\ windows[i].x \in 0 .. DesktopWidth - WinWidth[i]
    /\ windows[i].y \in 0 .. DesktopHeight - WinHeight[i]

(* The order in which ui_render draws: by z_index, then by number. *)
DrawnAfter(i, j) ==
  \/ windows[i].z_index > windows[j].z_index
  \/ windows[i].z_index = windows[j].z_index /\ i > j

(* A press goes to the window one sees: of the open windows at a point,    *)
(* find_clicked_window finds the one that ui_render draws last, and it     *)
(* does draw it: ui_render stops at top_z_index.                           *)
ClickFindsWhatIsSeen ==
  \A p \in Points :
    LET found == find_clicked_window(p) IN
    \A i \in WindowIds :
      windows[i].is_open /\ InFrame(p, i) =>
        /\ found # None /\ (i = found \/ DrawnAfter(found, i))
        /\ windows[found].z_index \in 1 .. top_z_index

(* The window being dragged is open and in front of every other: no press  *)
(* that opens, raises or closes a window leaves a drag of another behind.  *)
DraggedIsInFront ==
  dragging_window_id # None =>
    /\ windows[dragging_window_id].is_open
    /\ windows[dragging_window_id].z_index = top_z_index

(* A window is closed only while it is in front of all others, although    *)
(* the pointer may have moved since the press that raised it.              *)
OnlyTheFrontCloses ==
  [][\A i \in WindowIds :
       windows[i].is_open /\ ~windows'[i].is_open => windows[i].z_index = top_z_index]_vars
=============================================================================
