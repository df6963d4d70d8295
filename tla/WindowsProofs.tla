---------------------------- MODULE WindowsProofs ----------------------------
(***************************************************************************)
(* Theorems about Windows, for any number of windows of any extent, any    *)
(* desktop, icons and menu, and a pointer that may be anywhere at every    *)
(* statement of ui_handle_mouse.                                           *)
(***************************************************************************)
EXTENDS Windows, FiniteSetTheorems, WellFoundedInduction, TLAPS

WindowType == [x : Int, y : Int, z_index : Int, is_open : BOOLEAN]
TableOK(ws) == ws \in [WindowIds -> WindowType]

Front(i) == windows[i].is_open /\ windows[i].z_index = top_z_index

(* Ranks: from 1 to top_z_index, and no two windows of one rank. *)
Ranked ==
  /\ \A i \in WindowIds : 1 <= windows[i].z_index /\ windows[i].z_index <= top_z_index
  /\ \A i, j \in WindowIds : i # j => windows[i].z_index # windows[j].z_index

TypeInv ==
  /\ TableOK(windows)
  /\ top_z_index \in Nat
  /\ dragging_window_id \in WindowIds \union {None}
  /\ drag_off_x \in Int /\ drag_off_y \in Int
  /\ click \in BOOLEAN /\ click = prev_mouse_left
  /\ clicked_win \in WindowIds \union {None}

(* A drag lasts only while the button is down, and no press begins while   *)
(* one lasts: a press needs a call in between that saw the button up, and  *)
(* such a call goes straight to the end of the handler, where drags end.   *)
DragInv ==
  /\ dragging_window_id # None =>
       /\ pc \in {"idle", "drag"} /\ (pc = "idle" => click)
       /\ Front(dragging_window_id)
  /\ pc \in {"close", "title"} => clicked_win \in WindowIds /\ Front(clicked_win)

IInv == TypeInv /\ Ranked /\ WindowsStayOnDesktop /\ DragInv

LEMMA Numbers ==
  /\ NumWindows \in Nat /\ \A i \in WindowIds : i \in Nat /\ i < NumWindows /\ i # None
  /\ \A i \in WindowIds :
       /\ WinWidth[i] \in Nat /\ WinHeight[i] \in Nat /\ StartX[i] \in Nat /\ StartY[i] \in Nat
       /\ 1 <= WinWidth[i] /\ WinWidth[i] <= DesktopWidth
       /\ 1 <= WinHeight[i] /\ WinHeight[i] <= DesktopHeight
       /\ StartX[i] <= DesktopWidth - WinWidth[i] /\ StartY[i] <= DesktopHeight - WinHeight[i]
  /\ \A p \in Points : p[1] \in Nat /\ p[2] \in Nat
<1>1. NumWindows \in Nat
  BY WindowsAssumption, FS_CardinalityType DEF NumWindows
<1>2. \A i \in WindowIds : i \in Nat /\ i < NumWindows /\ i # None
  BY <1>1, WindowsAssumption DEF None
<1>3. \A p \in Points : p[1] \in Nat /\ p[2] \in Nat
  BY WindowsAssumption DEF Points
<1>4. QED
  BY <1>1, <1>2, <1>3, WindowsAssumption

LEMMA InitHoldsIInv == Init => IInv
<1> SUFFICES ASSUME Init PROVE IInv
  OBVIOUS
<1> DEFINE w(i) == [x |-> StartX[i], y |-> StartY[i], z_index |-> i + 1,
                    is_open |-> i \in StartOpen]
<1>1. windows = [i \in WindowIds |-> w(i)]
  BY DEF Init
<1>2. ASSUME NEW i \in WindowIds
      PROVE  /\ w(i) \in WindowType /\ w(i).x = StartX[i] /\ w(i).y = StartY[i]
             /\ w(i).z_index = i + 1
  <2>1. StartX[i] \in Int /\ StartY[i] \in Int /\ i + 1 \in Int /\ (i \in StartOpen) \in BOOLEAN
    BY Numbers
  <2>2. QED
    BY <2>1 DEF WindowType
<1> HIDE DEF w
<1>3. TypeInv
  <2>1. TableOK(windows)
    BY <1>1, <1>2 DEF TableOK
  <2>2. /\ top_z_index = NumWindows /\ dragging_window_id = None /\ drag_off_x = 0 /\ drag_off_y = 0
        /\ clicked_win = None
    BY DEF Init
  <2>3. click \in BOOLEAN /\ click = prev_mouse_left
    BY Zenon DEF Init
  <2>4. QED
    BY <2>1, <2>2, <2>3, Numbers DEF TypeInv
<1>4. Ranked
  <2>1. top_z_index = NumWindows /\ \A i \in WindowIds : windows[i].z_index = i + 1
    BY <1>1, <1>2 DEF Init
  <2>2. QED
    BY <2>1, Numbers DEF Ranked
<1>5. WindowsStayOnDesktop
  BY <1>1, <1>2, Numbers, WindowsAssumption DEF WindowsStayOnDesktop
<1>6. DragInv
  BY DEF Init, DragInv
<1>7. QED
  BY <1>3, <1>4, <1>5, <1>6 DEF IInv

-----------------------------------------------------------------------------
(* The new ranks that bring_to_front hands out are distinct, in the order  *)
(* of the windows.                                                         *)
Rank(ids, i) == Cardinality({j \in ids : j <= i})

LEMMA RankFacts ==
  ASSUME NEW ids \in SUBSET WindowIds
  PROVE  /\ Cardinality(ids) \in Nat
         /\ \A i \in ids : /\ Rank(ids, i) \in Nat
                           /\ 1 <= Rank(ids, i) /\ Rank(ids, i) <= Cardinality(ids)
         /\ \A i, j \in ids : i < j => Rank(ids, i) < Rank(ids, j)
         /\ \A k \in WindowIds : ids = {k} => Cardinality(ids) = 1
<1> DEFINE upTo(i) == {j \in ids : j <= i}
<1>1. IsFiniteSet(ids) /\ Cardinality(ids) \in Nat
  BY WindowsAssumption, FS_Subset, FS_CardinalityType
<1>2. \A i \in ids : IsFiniteSet(upTo(i)) /\ Rank(ids, i) \in Nat /\ Rank(ids, i) <= Cardinality(ids)
  BY <1>1, FS_Subset, FS_CardinalityType DEF Rank
<1>3. ASSUME NEW i \in ids PROVE 1 <= Rank(ids, i)
  <2>1. i \in upTo(i)
    BY Numbers
  <2>2. Cardinality(upTo(i)) # 0
    BY <1>2, <2>1, FS_EmptySet
  <2>3. QED
    BY <1>2, <2>2 DEF Rank
<1>4. ASSUME NEW i \in ids, NEW j \in ids, i < j PROVE Rank(ids, i) < Rank(ids, j)
  <2>1. upTo(i) \subseteq upTo(j) /\ j \in upTo(j) /\ j \notin upTo(i)
    BY <1>4, Numbers
  <2>2. Cardinality(upTo(i)) <= Cardinality(upTo(j)) /\ Cardinality(upTo(i)) # Cardinality(upTo(j))
    BY <1>2, <2>1, FS_Subset
  <2>3. QED
    BY <1>2, <2>2 DEF Rank
<1>5. \A k \in WindowIds : ids = {k} => Cardinality(ids) = 1
  BY FS_Singleton
<1>6. QED
  BY <1>1, <1>2, <1>3, <1>4, <1>5

(* What bring_to_front leaves behind. *)
Raised(ids) ==
  /\ TableOK(windows') /\ top_z_index' \in Nat
  /\ Ranked'
  /\ \A i \in WindowIds : /\ windows'[i].x = windows[i].x /\ windows'[i].y = windows[i].y
                          /\ windows[i].is_open => windows'[i].is_open
  /\ \A k \in WindowIds : ids = {k} => Front(k)'

LEMMA BringToFrontRaises ==
  ASSUME TypeInv, Ranked, NEW ids \in SUBSET WindowIds, BringToFront(ids)
  PROVE  Raised(ids)
<1> DEFINE z(i) == top_z_index + Rank(ids, i)
           new(i) == [windows[i] EXCEPT !.z_index = z(i), !.is_open = TRUE]
<1>1. /\ windows' = [i \in WindowIds |-> IF i \in ids THEN new(i) ELSE windows[i]]
      /\ top_z_index' = top_z_index + Cardinality(ids)
  BY DEF BringToFront, Rank
<1>2. /\ top_z_index \in Nat /\ Cardinality(ids) \in Nat
      /\ \A i \in ids : z(i) \in Int /\ top_z_index < z(i) /\ z(i) <= top_z_index'
      /\ \A i, j \in ids : i < j => z(i) < z(j)
  <2>1. top_z_index \in Nat
    BY DEF TypeInv
  <2>2. ids \subseteq WindowIds /\ Cardinality(ids) \in Nat
    BY RankFacts
  <2>3. \A i \in ids : /\ Rank(ids, i) \in Nat
                        /\ 1 <= Rank(ids, i) /\ Rank(ids, i) <= Cardinality(ids)
    BY RankFacts
  <2>4. \A i, j \in ids : i < j => Rank(ids, i) < Rank(ids, j)
    BY RankFacts
  <2>5. top_z_index' = top_z_index + Cardinality(ids)
    BY <1>1
  <2>6. QED
    BY <2>1, <2>2, <2>3, <2>4, <2>5
<1> HIDE DEF z
<1>3. ASSUME NEW i \in ids
      PROVE  /\ new(i) \in WindowType /\ new(i).x = windows[i].x /\ new(i).y = windows[i].y
             /\ new(i).z_index = z(i)
  BY <1>2 DEF TypeInv, TableOK, WindowType
<1>4. \A i \in ids : new(i).is_open
  BY DEF TypeInv, TableOK, WindowType
<1> HIDE DEF new
<1>5. TableOK(windows') /\ top_z_index' \in Nat
  BY <1>1, <1>2, <1>3 DEF TypeInv, TableOK
<1>6. \A i \in WindowIds : windows'[i].x = windows[i].x /\ windows'[i].y = windows[i].y
  BY <1>1, <1>3
<1>7. \A i \in WindowIds : windows[i].is_open => windows'[i].is_open
  BY <1>1, <1>4
<1>8. Ranked'
  <2>1. \A i \in WindowIds : windows[i].z_index \in Int
    BY DEF TypeInv, TableOK, WindowType
  <2>2. \A i \in WindowIds : i \in ids => windows'[i].z_index = z(i)
    BY <1>1, <1>3
  <2>3. \A i \in WindowIds : i \notin ids => windows'[i].z_index = windows[i].z_index
    BY <1>1
  <2>4. \A i \in WindowIds : 1 <= windows'[i].z_index /\ windows'[i].z_index <= top_z_index'
    BY <1>1, <1>2, <2>1, <2>2, <2>3 DEF Ranked
  <2>5. \A i, j \in WindowIds : i # j => windows'[i].z_index # windows'[j].z_index
    BY <1>2, <2>1, <2>2, <2>3, Numbers DEF Ranked
  <2>6. QED
    BY <2>4, <2>5 DEF Ranked
<1>9. ASSUME NEW k \in WindowIds, ids = {k} PROVE Front(k)'
  <2>1. z(k) = top_z_index'
    <3>1. Cardinality(ids) = 1
      BY <1>9, RankFacts
    <3>2. QED
      BY <1>1, <1>2, <1>9, <3>1
  <2>2. windows'[k] = new(k)
    BY <1>1, <1>9
  <2>3. windows'[k].is_open
    BY <1>4, <1>9, <2>2
  <2>4. QED
    BY <1>3, <1>9, <2>1, <2>2, <2>3 DEF Front
<1>10. QED
  BY <1>5, <1>6, <1>7, <1>8, <1>9 DEF Raised

(* Pushing a window back inside works from wherever the pointer took it.   *)
LEMMA KeptInsideIsInside ==
  ASSUME NEW n \in Int, NEW size \in Nat, NEW limit \in Nat, size <= limit
  PROVE  KeptInside(n, size, limit) \in 0 .. limit - size
BY DEF KeptInside

-----------------------------------------------------------------------------
(* The steps that leave the windows as they are, those that only raise     *)
(* some, and the two that move or close one.                               *)
SamePlaces == \A i \in WindowIds : windows'[i].x = windows[i].x /\ windows'[i].y = windows[i].y

LEMMA PlacesStay == WindowsStayOnDesktop /\ SamePlaces => WindowsStayOnDesktop'
BY DEF WindowsStayOnDesktop, SamePlaces

NoDrag == dragging_window_id = None

LEMMA PressBegins == IInv /\ pc \notin {"idle", "drag"} => NoDrag
BY DEF IInv, DragInv, NoDrag

LEMMA QuietKeepsIInv ==
  ASSUME IInv, UNCHANGED <<windows, top_z_index>>, TypeInv', DragInv'
  PROVE  IInv'
<1>1. windows' = windows /\ top_z_index' = top_z_index
  OBVIOUS
<1>2. Ranked' /\ WindowsStayOnDesktop'
  BY <1>1 DEF IInv, Ranked, WindowsStayOnDesktop
<1>3. QED
  BY <1>2 DEF IInv

LEMMA RaisingKeepsIInv ==
  ASSUME IInv, NEW ids \in SUBSET WindowIds, BringToFront(ids), pc' # "close" /\ pc' # "title",
         NoDrag, UNCHANGED <<drag, call>>, clicked_win' \in WindowIds \union {None}
  PROVE  IInv'
<1>1. Raised(ids)
  BY BringToFrontRaises DEF IInv
<1>2. TypeInv'
  BY <1>1 DEF IInv, TypeInv, Raised, drag, call
<1>3. WindowsStayOnDesktop'
  BY <1>1, PlacesStay DEF IInv, Raised, SamePlaces
<1>4. DragInv'
  BY DEF NoDrag, DragInv, drag
<1>5. QED
  BY <1>1, <1>2, <1>3, <1>4 DEF IInv, Raised

LEMMA SampleButtonKeepsIInv ==
  ASSUME IInv, NEW pressed \in BOOLEAN, SampleButton(pressed)
  PROVE  IInv'
<1>1. /\ windows' = windows /\ top_z_index' = top_z_index /\ UNCHANGED drag
      /\ click' = pressed /\ prev_mouse_left' = pressed /\ clicked_win' = clicked_win
      /\ pc = "idle" /\ pc' = (IF pressed /\ ~prev_mouse_left THEN "power" ELSE "drag")
  BY DEF SampleButton
<1>2. TypeInv'
  BY <1>1 DEF IInv, TypeInv, drag
<1>3. pc' = "power" => NoDrag
  BY <1>1 DEF IInv, TypeInv, DragInv, NoDrag
<1>4. DragInv'
  BY <1>1, <1>3 DEF IInv, DragInv, Front, NoDrag, drag
<1>5. QED
  BY <1>1, <1>2, <1>4, QuietKeepsIInv

LEMMA PressPowerKeepsIInv ==
  ASSUME IInv, NEW p \in Points, PressPower(p)
  PROVE  IInv'
<1>1. /\ UNCHANGED <<windows, top_z_index, drag, call, clicked_win>>
      /\ pc' \in {"off", "left icons"} /\ NoDrag
  BY PressBegins DEF PressPower
<1>2. TypeInv' /\ DragInv'
  BY <1>1 DEF IInv, TypeInv, DragInv, NoDrag, drag, call
<1>3. QED
  BY <1>1, <1>2, QuietKeepsIInv

LEMMA PressIconKeepsIInv ==
  ASSUME IInv, NEW p \in Points, NEW column \in 1 .. 2, NoDrag, PressIcon(p, column),
         pc' \in {"right icons", "start"}
  PROVE  IInv'
<1>1. UNCHANGED <<drag, call, clicked_win>>
  BY DEF PressIcon
<1>2. CASE UNCHANGED <<windows, top_z_index>>
  <2>1. TypeInv' /\ DragInv'
    BY <1>1, <1>2 DEF IInv, TypeInv, DragInv, NoDrag, drag, call
  <2>2. QED
    BY <1>2, <2>1, QuietKeepsIInv
<1>3. CASE IconAt[column][p] # None /\ BringToFront({IconAt[column][p]})
  <2>1. IconAt[column][p] \in WindowIds
    BY <1>3, WindowsAssumption
  <2>2. {IconAt[column][p]} \in SUBSET WindowIds /\ clicked_win' \in WindowIds \union {None}
    BY <1>1, <2>1 DEF IInv, TypeInv
  <2>3. QED
    BY <1>1, <1>3, <2>2, RaisingKeepsIInv
<1>4. QED
  BY <1>2, <1>3 DEF PressIcon

LEMMA PressMenuKeepsIInv ==
  ASSUME IInv, NEW p \in Points, PressStart(p) \/ \E items \in SUBSET MenuItems : PressMenu(p, items)
  PROVE  IInv'
<1>1. /\ UNCHANGED <<drag, call, clicked_win>> /\ NoDrag
      /\ pc' \in {"idle", "menu", "windows"}
  BY PressBegins DEF PressStart, PressMenu
<1>2. CASE UNCHANGED <<windows, top_z_index>>
  <2>1. TypeInv' /\ DragInv'
    BY <1>1, <1>2 DEF IInv, TypeInv, DragInv, NoDrag, drag, call
  <2>2. QED
    BY <1>2, <2>1, QuietKeepsIInv
<1>3. ASSUME NEW items \in SUBSET MenuItems, BringToFront(items)
      PROVE  IInv'
  <2>1. items \in SUBSET WindowIds /\ clicked_win' \in WindowIds \union {None}
    BY <1>1, WindowsAssumption DEF IInv, TypeInv
  <2>2. QED
    BY <1>1, <1>3, <2>1, RaisingKeepsIInv
<1>4. QED
  BY <1>2, <1>3 DEF PressStart, PressMenu

-----------------------------------------------------------------------------
(* find_clicked_window: the one of the greatest rank, if any is hit.       *)
Hits(p) == {i \in WindowIds : windows[i].is_open /\ InFrame(p, i)}

LEMMA FoundIsOnTop ==
  ASSUME TableOK(windows), top_z_index \in Nat, Ranked, NEW p
  PROVE  /\ find_clicked_window(p) \in Hits(p) \union {None}
         /\ Hits(p) # {} => find_clicked_window(p) \in Hits(p)
         /\ \A i \in Hits(p) : windows[i].z_index <= windows[find_clicked_window(p)].z_index
<1> DEFINE hits == Hits(p)
           top  == {i \in hits : \A j \in hits : windows[j].z_index <= windows[i].z_index}
           found == CHOOSE i \in top : \A j \in top : i <= j
<1>1. find_clicked_window(p) = IF hits = {} THEN None ELSE found
  BY DEF find_clicked_window, Hits
<1>2. /\ hits \subseteq WindowIds
      /\ \A i \in hits : windows[i].z_index \in Int /\ windows[i].z_index <= top_z_index
  BY DEF Hits, TableOK, WindowType, Ranked
<1>3. ASSUME hits # {} PROVE \E i \in hits : top = {i}
  <2> DEFINE depths == {top_z_index - windows[i].z_index : i \in hits}
  <2>1. depths # {} /\ depths \subseteq Nat
    BY <1>2, <1>3
  <2>2. PICK d \in depths : \A e \in depths : ~(<<e, d>> \in OpToRel(<, Nat))
    BY <2>1, NatLessThanWellFounded, WFMin
  <2>3. PICK i \in hits : d = top_z_index - windows[i].z_index
    BY <2>2
  <2>4. ASSUME NEW j \in hits PROVE windows[j].z_index <= windows[i].z_index
    <3>1. top_z_index - windows[j].z_index \in depths
      OBVIOUS
    <3>2. d \in Nat /\ top_z_index - windows[j].z_index \in Nat
          /\ ~(top_z_index - windows[j].z_index < d)
      BY <2>1, <2>2, <3>1 DEF OpToRel
    <3>3. QED
      BY <1>2, <2>3, <3>2
  <2>5. \A j \in hits : windows[i].z_index <= windows[j].z_index => j = i
    BY <1>2, <2>4 DEF Ranked
  <2>6. QED
    BY <1>2, <2>4, <2>5
<1>4. ASSUME hits # {}
      PROVE  found \in hits /\ \A j \in hits : windows[j].z_index <= windows[found].z_index
  <2>1. PICK i \in hits : top = {i}
    BY <1>3, <1>4
  <2>2. i <= i
    BY <1>2, Numbers
  <2>3. found = i
    BY <2>1, <2>2
  <2>4. QED
    BY <2>1, <2>3
<1>5. QED
  BY <1>1, <1>4

LEMMA PressWindowKeepsIInv ==
  ASSUME IInv, NEW p \in Points, PressWindow(p)
  PROVE  IInv'
<1>1. /\ UNCHANGED <<drag, call>> /\ NoDrag /\ clicked_win' = find_clicked_window(p)
      /\ (clicked_win' = None => UNCHANGED <<windows, top_z_index>> /\ pc' = "drag")
      /\ (clicked_win' # None => BringToFront({clicked_win'}) /\ pc' = "close")
  BY PressBegins DEF PressWindow
<1>2. clicked_win' \in WindowIds \union {None}
  BY <1>1, FoundIsOnTop DEF IInv, TypeInv, Hits
<1>3. CASE clicked_win' = None
  <2>1. TypeInv' /\ DragInv'
    BY <1>1, <1>2, <1>3 DEF IInv, TypeInv, DragInv, NoDrag, drag, call
  <2>2. QED
    BY <1>1, <1>3, <2>1, QuietKeepsIInv
<1>4. CASE clicked_win' # None
  <2>1. Raised({clicked_win'})
    BY <1>1, <1>2, <1>4, BringToFrontRaises DEF IInv
  <2>2. TypeInv'
    BY <1>1, <1>2, <2>1 DEF IInv, TypeInv, Raised, drag, call
  <2>3. WindowsStayOnDesktop'
    BY <2>1, PlacesStay DEF IInv, Raised, SamePlaces
  <2>4. clicked_win' \in WindowIds
    BY <1>2, <1>4
  <2>5. Front(clicked_win)'
    BY <2>1, <2>4 DEF Raised, Front
  <2>6. dragging_window_id' = None
    BY <1>1 DEF NoDrag, drag
  <2>7. DragInv'
    BY <2>4, <2>5, <2>6 DEF DragInv
  <2>8. QED
    BY <2>1, <2>2, <2>3, <2>7 DEF IInv, Raised
<1>5. QED
  BY <1>3, <1>4

(* A step that changes one window's entry but not its rank. *)
LEMMA OneEntryChanges ==
  ASSUME TypeInv, Ranked, NEW i \in WindowIds, NEW new \in WindowType,
         new.z_index = windows[i].z_index, windows' = [windows EXCEPT ![i] = new],
         top_z_index' = top_z_index
  PROVE  TableOK(windows') /\ Ranked'
<1>1. windows'[i] = new /\ \A j \in WindowIds : windows'[j].z_index = windows[j].z_index
  BY DEF TypeInv, TableOK
<1>2. TableOK(windows')
  BY DEF TypeInv, TableOK
<1>3. QED
  BY <1>1, <1>2 DEF Ranked

LEMMA PressCloseKeepsIInv ==
  ASSUME IInv, NEW p \in Points, PressClose(p)
  PROVE  IInv'
<1> DEFINE i == clicked_win
           new == [windows[i] EXCEPT !.is_open = FALSE]
<1>1. /\ UNCHANGED <<top_z_index, drag_off_x, drag_off_y, call, clicked_win>>
      /\ NoDrag /\ i \in WindowIds /\ Front(i)
  BY PressBegins DEF PressClose, IInv, DragInv
<1>2. CASE windows' = windows /\ dragging_window_id' = dragging_window_id /\ pc' = "title"
  <2>1. TypeInv' /\ DragInv'
    BY <1>1, <1>2 DEF IInv, TypeInv, DragInv, NoDrag, Front, call
  <2>2. QED
    BY <1>1, <1>2, <2>1, QuietKeepsIInv
<1>3. CASE /\ windows' = [windows EXCEPT ![i].is_open = FALSE]
           /\ dragging_window_id' = None /\ pc' = "idle"
  <2>1. windows' = [windows EXCEPT ![i] = new] /\ windows[i] \in WindowType
    BY <1>1, <1>3 DEF IInv, TypeInv, TableOK
  <2>2. /\ new \in WindowType /\ new.z_index = windows[i].z_index
        /\ new.x = windows[i].x /\ new.y = windows[i].y
    BY <2>1 DEF WindowType
  <2> HIDE DEF new
  <2>3. TableOK(windows') /\ Ranked'
    BY <1>1, <2>1, <2>2, OneEntryChanges DEF IInv
  <2>4. SamePlaces
    BY <1>1, <2>1, <2>2 DEF SamePlaces, IInv, TypeInv, TableOK
  <2>5. WindowsStayOnDesktop'
    BY <2>4, PlacesStay DEF IInv
  <2>6. TypeInv'
    BY <1>1, <1>3, <2>3 DEF IInv, TypeInv, call
  <2>7. DragInv'
    BY <1>3 DEF DragInv
  <2>8. QED
    BY <2>3, <2>5, <2>6, <2>7 DEF IInv
<1>4. QED
  BY <1>2, <1>3 DEF PressClose

LEMMA PressTitleKeepsIInv ==
  ASSUME IInv, NEW p \in Points, PressTitle(p)
  PROVE  IInv'
<1>1. /\ UNCHANGED <<windows, top_z_index, call, clicked_win>> /\ pc' = "drag"
      /\ NoDrag /\ clicked_win \in WindowIds /\ Front(clicked_win)
      /\ \/ UNCHANGED drag
         \/ /\ dragging_window_id' = clicked_win
            /\ drag_off_x' = p[1] - windows[clicked_win].x
            /\ drag_off_y' = p[2] - windows[clicked_win].y
  BY PressBegins DEF PressTitle, IInv, DragInv
<1>2. windows[clicked_win].x \in Int /\ windows[clicked_win].y \in Int
  BY <1>1 DEF IInv, TypeInv, TableOK, WindowType
<1>3. TypeInv'
  BY <1>1, <1>2, Numbers DEF IInv, TypeInv, drag, call
<1>4. DragInv'
  BY <1>1 DEF DragInv, NoDrag, Front, drag
<1>5. QED
  BY <1>1, <1>3, <1>4, QuietKeepsIInv

LEMMA DragOrReleaseKeepsIInv ==
  ASSUME IInv, NEW p \in Points, DragOrRelease(p)
  PROVE  IInv'
<1> DEFINE i == dragging_window_id
           nx == KeptInside(p[1] - drag_off_x, WinWidth[i], DesktopWidth)
           ny == KeptInside(p[2] - drag_off_y, WinHeight[i], DesktopHeight)
           new == [windows[i] EXCEPT !.x = nx, !.y = ny]
<1>1. /\ UNCHANGED <<top_z_index, drag_off_x, drag_off_y, call, clicked_win>>
      /\ dragging_window_id' = (IF click THEN i ELSE None) /\ pc' = "idle"
  BY DEF DragOrRelease
<1>2. CASE UNCHANGED windows
  <2>1. TypeInv' /\ DragInv'
    BY <1>1, <1>2 DEF IInv, TypeInv, DragInv, Front, call
  <2>2. QED
    BY <1>1, <1>2, <2>1, QuietKeepsIInv
<1>3. CASE /\ click /\ i # None
           /\ windows' = [windows EXCEPT ![i].x = nx, ![i].y = ny]
  <2>1. i \in WindowIds /\ Front(i)
    BY <1>3 DEF IInv, TypeInv, DragInv
  <2>2. /\ nx \in 0 .. DesktopWidth - WinWidth[i]
        /\ ny \in 0 .. DesktopHeight - WinHeight[i]
    <3>1. p[1] - drag_off_x \in Int /\ p[2] - drag_off_y \in Int
      BY Numbers DEF IInv, TypeInv
    <3>2. /\ WinWidth[i] \in Nat /\ DesktopWidth \in Nat /\ WinWidth[i] <= DesktopWidth
          /\ WinHeight[i] \in Nat /\ DesktopHeight \in Nat /\ WinHeight[i] <= DesktopHeight
      BY <2>1, Numbers, WindowsAssumption
    <3>3. QED
      BY <3>1, <3>2, KeptInsideIsInside
  <2> HIDE DEF nx, ny
  <2>3. nx \in Int /\ ny \in Int
    BY <2>2
  <2>4. windows' = [windows EXCEPT ![i] = new] /\ windows[i] \in WindowType
    BY <1>3, <2>1 DEF IInv, TypeInv, TableOK
  <2>5. /\ new \in WindowType /\ new.z_index = windows[i].z_index
        /\ new.x = nx /\ new.y = ny
    BY <2>3, <2>4 DEF WindowType
  <2>6. new.is_open = windows[i].is_open
    BY <2>4 DEF WindowType
  <2> HIDE DEF new
  <2>7. TableOK(windows') /\ Ranked'
    BY <1>1, <2>1, <2>4, <2>5, OneEntryChanges DEF IInv
  <2>8. windows'[i] = new /\ \A j \in WindowIds \ {i} : windows'[j] = windows[j]
    BY <2>1, <2>4 DEF IInv, TypeInv, TableOK
  <2>9. WindowsStayOnDesktop'
    BY <2>2, <2>5, <2>8 DEF IInv, WindowsStayOnDesktop
  <2>10. TypeInv'
    BY <1>1, <2>1, <2>7 DEF IInv, TypeInv, call
  <2>11. dragging_window_id' = i /\ click'
    BY <1>1, <1>3 DEF call
  <2>12. Front(i)'
    BY <1>1, <2>1, <2>5, <2>6, <2>8, <2>11 DEF Front
  <2>13. DragInv'
    BY <1>1, <2>11, <2>12 DEF DragInv, Front
  <2>14. QED
    BY <2>7, <2>9, <2>10, <2>13 DEF IInv
<1>4. QED
  BY <1>2, <1>3 DEF DragOrRelease

LEMMA NextKeepsIInv == IInv /\ [Next]_vars => IInv'
<1> SUFFICES ASSUME IInv, [Next]_vars PROVE IInv'
  OBVIOUS
<1>1. ASSUME NEW pressed \in BOOLEAN, SampleButton(pressed) PROVE IInv'
  BY <1>1, SampleButtonKeepsIInv
<1>2. ASSUME NEW p \in Points, PressPower(p) PROVE IInv'
  BY <1>2, PressPowerKeepsIInv
<1>3. ASSUME NEW p \in Points, PressLeftIcon(p) PROVE IInv'
  <2>1. pc = "left icons" /\ pc' = "right icons" /\ PressIcon(p, 1)
    BY <1>3 DEF PressLeftIcon
  <2>2. NoDrag /\ pc' \in {"right icons", "start"}
    BY <2>1, PressBegins
  <2>3. 1 \in 1 .. 2
    OBVIOUS
  <2>4. QED
    BY <2>1, <2>2, <2>3, PressIconKeepsIInv
<1>4. ASSUME NEW p \in Points, PressRightIcon(p) PROVE IInv'
  <2>1. pc = "right icons" /\ pc' = "start" /\ PressIcon(p, 2)
    BY <1>4 DEF PressRightIcon
  <2>2. NoDrag /\ pc' \in {"right icons", "start"}
    BY <2>1, PressBegins
  <2>3. 2 \in 1 .. 2
    OBVIOUS
  <2>4. QED
    BY <2>1, <2>2, <2>3, PressIconKeepsIInv
<1>5. ASSUME NEW p \in Points,
             PressStart(p) \/ \E items \in SUBSET MenuItems : PressMenu(p, items)
      PROVE  IInv'
  BY <1>5, PressMenuKeepsIInv
<1>6. ASSUME NEW p \in Points, PressWindow(p) PROVE IInv'
  BY <1>6, PressWindowKeepsIInv
<1>7. ASSUME NEW p \in Points, PressClose(p) PROVE IInv'
  BY <1>7, PressCloseKeepsIInv
<1>8. ASSUME NEW p \in Points, PressTitle(p) PROVE IInv'
  BY <1>8, PressTitleKeepsIInv
<1>9. ASSUME NEW p \in Points, DragOrRelease(p) PROVE IInv'
  BY <1>9, DragOrReleaseKeepsIInv
<1>10. CASE UNCHANGED vars
  <2>1. TypeInv' /\ DragInv' /\ UNCHANGED <<windows, top_z_index>>
    BY <1>10 DEF IInv, TypeInv, DragInv, Front, vars
  <2>2. QED
    BY <2>1, QuietKeepsIInv
<1>11. QED
  BY <1>1, <1>2, <1>3, <1>4, <1>5, <1>6, <1>7, <1>8, <1>9, <1>10 DEF Next

-----------------------------------------------------------------------------
(* The invariant holds in every reachable state, for any windows, icons    *)
(* and menu, and wherever the pointer is at each statement.                *)
THEOREM Invariance == Spec => []IInv
<1>1. QED
  BY InitHoldsIInv, NextKeepsIInv, PTL DEF Spec

(* However the pointer jumps, a dragged window is inside the desktop: the  *)
(* two clamps, left before right, suffice as no window is wider than it.   *)
THEOREM AlwaysOnDesktop == Spec => []WindowsStayOnDesktop
<1>1. IInv => WindowsStayOnDesktop
  BY DEF IInv
<1>2. QED
  BY <1>1, Invariance, PTL

(* A press goes to the window drawn last of those at the pointer, which is *)
(* among the ranks ui_render walks through.                                *)
THEOREM ClickAlwaysFindsWhatIsSeen == Spec => []ClickFindsWhatIsSeen
<1>1. ASSUME IInv, NEW p \in Points, NEW i \in WindowIds, windows[i].is_open, InFrame(p, i)
      PROVE  LET found == find_clicked_window(p) IN
             /\ found # None /\ (i = found \/ DrawnAfter(found, i))
             /\ windows[found].z_index \in 1 .. top_z_index
  <2> DEFINE found == find_clicked_window(p)
  <2>1. i \in Hits(p)
    BY <1>1 DEF Hits
  <2>2. found \in Hits(p) /\ windows[i].z_index <= windows[found].z_index
    BY <1>1, <2>1, FoundIsOnTop DEF IInv, TypeInv
  <2> HIDE DEF found
  <2>3. found \in WindowIds /\ found # None
    BY <2>2, Numbers DEF Hits
  <2>4. /\ windows[i].z_index \in Int /\ windows[found].z_index \in Int
        /\ 1 <= windows[found].z_index /\ windows[found].z_index <= top_z_index
        /\ i # found => windows[i].z_index # windows[found].z_index
        /\ top_z_index \in Nat
    BY <1>1, <2>3 DEF IInv, TypeInv, TableOK, WindowType, Ranked
  <2>5. i = found \/ DrawnAfter(found, i)
    BY <2>2, <2>4 DEF DrawnAfter
  <2>6. QED
    BY <2>3, <2>4, <2>5 DEF found
<1>2. IInv => ClickFindsWhatIsSeen
  BY <1>1 DEF ClickFindsWhatIsSeen
<1>3. QED
  BY <1>2, Invariance, PTL

(* The window being dragged is always open and in front.                   *)
THEOREM DraggedAlwaysInFront == Spec => []DraggedIsInFront
<1>1. IInv => DraggedIsInFront
  BY DEF IInv, DragInv, DraggedIsInFront, Front
<1>2. QED
  BY <1>1, Invariance, PTL

(* Only the window in front is ever closed.                                *)
THEOREM OnlyTheFrontIsClosed == Spec => OnlyTheFrontCloses
<1> DEFINE Closes == \E i \in WindowIds : windows[i].is_open /\ ~windows'[i].is_open
                                         /\ windows[i].z_index # top_z_index
<1>1. ASSUME IInv, NEW ids \in SUBSET WindowIds, BringToFront(ids) PROVE ~Closes
  BY <1>1, BringToFrontRaises DEF IInv, Raised
<1>2. ASSUME IInv, Next, windows' # windows PROVE ~Closes
  <2>1. ASSUME NEW p \in Points, NEW column \in 1 .. 2, PressIcon(p, column) PROVE ~Closes
    <3>1. IconAt[column][p] \in WindowIds /\ BringToFront({IconAt[column][p]})
      BY <1>2, <2>1, WindowsAssumption DEF PressIcon
    <3>2. {IconAt[column][p]} \in SUBSET WindowIds
      BY <3>1
    <3>3. QED
      BY <1>1, <1>2, <3>1, <3>2
  <2>2. ASSUME NEW p \in Points, NEW items \in SUBSET MenuItems, PressMenu(p, items)
        PROVE  ~Closes
    <3>1. items \in SUBSET WindowIds
      BY WindowsAssumption
    <3>2. QED
      BY <1>1, <1>2, <2>2, <3>1 DEF PressMenu
  <2>3. ASSUME NEW p \in Points, PressWindow(p) PROVE ~Closes
    <3>1. BringToFront({clicked_win'}) /\ clicked_win' = find_clicked_window(p) /\ clicked_win' # None
      BY <1>2, <2>3 DEF PressWindow
    <3>2. clicked_win' \in WindowIds
      BY <1>2, <3>1, FoundIsOnTop DEF IInv, TypeInv, Hits
    <3>3. {clicked_win'} \in SUBSET WindowIds
      BY <3>2
    <3>4. QED
      BY <1>1, <1>2, <3>1, <3>3
  <2>4. ASSUME NEW p \in Points, PressClose(p) PROVE ~Closes
    <3>1. /\ clicked_win \in WindowIds /\ windows[clicked_win].z_index = top_z_index
          /\ windows' = [windows EXCEPT ![clicked_win].is_open = FALSE]
      BY <1>2, <2>4 DEF PressClose, IInv, DragInv, Front
    <3>2. \A i \in WindowIds \ {clicked_win} : windows'[i] = windows[i]
      BY <1>2, <3>1 DEF IInv, TypeInv, TableOK
    <3>3. QED
      BY <3>1, <3>2
  <2>5. ASSUME NEW p \in Points, DragOrRelease(p) PROVE ~Closes
    <3> DEFINE i == dragging_window_id
               nx == KeptInside(p[1] - drag_off_x, WinWidth[i], DesktopWidth)
               ny == KeptInside(p[2] - drag_off_y, WinHeight[i], DesktopHeight)
    <3>1. windows' = [windows EXCEPT ![i].x = nx, ![i].y = ny] /\ i # None
      BY <1>2, <2>5 DEF DragOrRelease
    <3>2. i \in WindowIds /\ Front(i)
      BY <1>2, <3>1 DEF IInv, TypeInv, DragInv
    <3> HIDE DEF nx, ny
    <3>3. \A j \in WindowIds \ {i} : windows'[j] = windows[j]
      BY <1>2, <3>1, <3>2 DEF IInv, TypeInv, TableOK
    <3>4. QED
      BY <3>2, <3>3 DEF Front
  <2>6. ASSUME NEW p \in Points, PressLeftIcon(p) \/ PressRightIcon(p) PROVE ~Closes
    <3>1. 1 \in 1 .. 2 /\ 2 \in 1 .. 2
      OBVIOUS
    <3>2. PressIcon(p, 1) \/ PressIcon(p, 2)
      BY <2>6 DEF PressLeftIcon, PressRightIcon
    <3>3. QED
      BY <2>1, <3>1, <3>2
  <2>7. ASSUME NEW pressed \in BOOLEAN, SampleButton(pressed) PROVE ~Closes
    BY <1>2, <2>7 DEF SampleButton
  <2>8. ASSUME NEW p \in Points, PressPower(p) \/ PressStart(p) \/ PressTitle(p) PROVE ~Closes
    BY <1>2, <2>8 DEF PressPower, PressStart, PressTitle
  <2> HIDE DEF Closes
  <2>9. QED
    BY <1>2, <2>2, <2>3, <2>4, <2>5, <2>6, <2>7, <2>8 DEF Next
<1>3. IInv /\ [Next]_vars =>
        [\A i \in WindowIds :
           windows[i].is_open /\ ~windows'[i].is_open => windows[i].z_index = top_z_index]_vars
  BY <1>2
<1>4. QED
  BY <1>3, Invariance, PTL DEF Spec, OnlyTheFrontCloses
=============================================================================
