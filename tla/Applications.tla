---------------------------- MODULE Applications ------------------------------
(***************************************************************************)
(* What the windows of src/ui.c hold and what their buttons and the        *)
(* keyboard do to it: shell, note pad, calculator, gallery, paint, video   *)
(* and music player.  A press on a button first raises its window; where   *)
(* buttons are is left out, as Windows has the stacking and the dragging.  *)
(*                                                                         *)
(* A word of the shell counts as one character.  What a read or a write of *)
(* a file that is not part of the kernel answers is FileSystem's concern:  *)
(* both answers are possible here.  The serial window's line is Serial's.  *)
(* The arrow keys of the snake set a direction nothing reads.              *)
(***************************************************************************)
EXTENDS Integers, SequencesExt

CONSTANTS Sessions,           \* sets of windows used together in one behaviour
          Words,              \* what is typed
          Programs, Files,    \* words that name what vfs_read has in the kernel
          InputSize, PadSize, \* characters of the fields, 30 and 240
          Full, LongMax,      \* no figure fits behind this, 10^14; largest long long
          Figures,            \* the digits pressed
          MaxKeys,            \* bound on the calculator keys since the last C
          NumApps, PaintApp,  \* icons, 14, and Paint's, 6
          Colours,
          Width, Height,      \* of the canvas, 160 and 120
          FreeTasks           \* task slots left for programs

BS == "BS"
LF == "LF"
Space == " "
Pictures   == <<"foto.bmp", "gallery.bmp", "paint.bmp", "foto.bmp">>
Operations == {"+", "-", "*", "/"}
CalcWidth  == 200
CalcHeight == 260

ASSUME ApplicationsAssumption ==
  /\ InputSize \in Nat /\ PadSize \in Nat \ {0} /\ Full \in Nat \ {0} /\ MaxKeys \in Nat
  /\ Figures \subseteq 0 .. 9 /\ LongMax \in Nat /\ LongMax >= 20 * Full
  /\ NumApps \in Nat /\ PaintApp \in 0 .. NumApps - 1 /\ "white" \in Colours
  /\ Width \in Nat \ {0} /\ Height \in Nat \ {0} /\ FreeTasks \in Nat
  /\ Programs \union Files \subseteq Words /\ {BS, LF} \intersect Words = {}

VARIABLES
  session,
  open,                                       \* open windows, the front one last
  input_buffer, shell_output, programs,       \* shell; ring-3 tasks it started
  pad_buffer,                                 \* note pad
  calc, pressed,                              \* calculator; its keys since the last C
  gallery_photo, current_wallpaper, selected_icon_target_app, app_icon_files,
  paint_canvas, paint_color,
  video_playing, is_playing, current_track

shell   == <<input_buffer, shell_output, programs>>
sums    == <<calc, pressed>>
gallery == <<gallery_photo, selected_icon_target_app>>
paint   == <<paint_canvas, paint_color>>
players == <<video_playing, is_playing, current_track>>
appVars == <<session, open, shell, pad_buffer, sums, gallery, current_wallpaper, app_icon_files, paint, players>>

Zero == [neg |-> FALSE, number |-> 0]
ClearCalc == [display |-> Zero, val1 |-> 0, op |-> "none", clear_next |-> FALSE]

InitApps ==
  /\ session \in Sessions /\ open = <<"video">>
  /\ input_buffer = <<>> /\ shell_output = "ready" /\ programs = 0
  /\ pad_buffer = <<"welcome">>
  /\ calc = ClearCalc /\ pressed = <<>>
  /\ gallery_photo = 0 /\ current_wallpaper = -1 /\ selected_icon_target_app = 0
  /\ app_icon_files = [a \in 0 .. NumApps - 1 |-> "own"]
  /\ paint_canvas = [i \in 0 .. Width * Height - 1 |-> "black"] /\ paint_color = "white"
  /\ video_playing = TRUE /\ is_playing = FALSE /\ current_track = 0

-----------------------------------------------------------------------------
(* Windows *)

Others(w) ==
  IF w \in ToSet(open) THEN RemoveAt(open, CHOOSE i \in DOMAIN open : open[i] = w) ELSE open

Raise(w) == open' = Append(Others(w), w)

(* An icon or an item of the start menu. *)
OpenWindow(w) ==
  /\ w \in session /\ Raise(w)
  /\ UNCHANGED <<session, shell, pad_buffer, sums, gallery, current_wallpaper, app_icon_files, paint, players>>

CloseWindow(w) ==
  /\ w \in ToSet(open) /\ open' = Others(w)
  /\ UNCHANGED <<session, shell, pad_buffer, sums, gallery, current_wallpaper, app_icon_files, paint, players>>

Button(w) == w \in ToSet(open) \intersect session /\ Raise(w) /\ UNCHANGED session

-----------------------------------------------------------------------------
(* The keyboard *)

Erased(text) == IF text = <<>> THEN <<>> ELSE Front(text)
TypedOneMore(text, size, c) == IF Len(text) <= size THEN Append(text, c) ELSE text
Typed(text, size, c) == IF Len(text) < size THEN Append(text, c) ELSE text

KeyToPad(c) ==
  /\ pad_buffer' = IF c = BS THEN Erased(pad_buffer)
                   ELSE Typed(pad_buffer, PadSize, IF c = LF THEN Space ELSE c)
  /\ UNCHANGED shell

(* vfs_read: what is in the kernel is there, anything else may be. *)
Found(name) == IF name \in {<<f>> : f \in Programs \union Files} THEN {TRUE} ELSE BOOLEAN

(* elf_load_and_run: a file that is no program is refused; a program is    *)
(* copied to its place and becomes a task if there is a slot.              *)
Run(name) ==
  IF \E p \in Programs : name = <<p>>
  THEN {[reply |-> IF programs < FreeTasks THEN "running" ELSE "error",
         programs |-> IF programs < FreeTasks THEN programs + 1 ELSE programs]}
  ELSE {[reply |-> "error", programs |-> programs]}

Reply(text) == [reply |-> text, programs |-> programs]

(* What a line may answer, and how many programs run then; a line that is  *)
(* no command, and a write that fails, answer nothing.                     *)
Replies(line) ==
  LET command == IF line = <<>> THEN "" ELSE Head(line)
      rest    == IF line = <<>> THEN <<>> ELSE Tail(line)
  IN  CASE line \in {<<"help">>, <<"ls">>, <<"diskinfo">>} -> {Reply(command)}
        [] command \in {"ping ", "dns "} -> {Reply("sent")}
        [] command = "cat "   -> {Reply(IF found THEN "content" ELSE "missing") : found \in Found(rest)}
        [] command = "write " -> {Reply("saved"), Reply("")}
        [] command = "run "   -> Run(rest)
        [] OTHER -> {Reply("")}

KeyToShell(c) ==
  /\ IF c = LF
     THEN \E r \in Replies(input_buffer) :
            /\ shell_output' = r.reply /\ programs' = r.programs /\ input_buffer' = <<>>
     ELSE /\ input_buffer' = IF c = BS THEN Erased(input_buffer) ELSE Typed(input_buffer, InputSize, c)
          /\ UNCHANGED <<shell_output, programs>>
  /\ UNCHANGED pad_buffer

(* The key goes to the front window if that is the pad or the serial       *)
(* window, and otherwise to the shell, whether it is open or not.          *)
TypeKey(c) ==
  /\ CASE Last(<<"none">> \o open) = "pad"    -> KeyToPad(c)
       [] Last(<<"none">> \o open) = "serial" -> UNCHANGED <<shell, pad_buffer>>
       [] OTHER                               -> KeyToShell(c)
  /\ UNCHANGED <<session, open, sums, gallery, current_wallpaper, app_icon_files, paint, players>>

-----------------------------------------------------------------------------
(* The note pad's buttons: the text goes to nota.txt, or is cleared. *)
PressPad ==
  /\ Button("pad") /\ pad_buffer' \in {pad_buffer, <<>>}
  /\ UNCHANGED <<shell, sums, gallery, current_wallpaper, app_icon_files, paint, players>>

-----------------------------------------------------------------------------
(* The calculator: a display of characters, here a sign and a number, and  *)
(* 64-bit sums, differences and products that wrap around.                 *)

FigureKey(n)     == [figure |-> n, op |-> "none"]
OperationKey(op) == [figure |-> -1, op |-> op]
NoKey            == OperationKey("none")

Layout ==
  << FigureKey(7), FigureKey(8), FigureKey(9), OperationKey("/"),
     FigureKey(4), FigureKey(5), FigureKey(6), OperationKey("*"),
     FigureKey(1), FigureKey(2), FigureKey(3), OperationKey("-"),
     OperationKey("C"), FigureKey(0), OperationKey("="), OperationKey("+") >>

Abs(n) == IF n < 0 THEN -n ELSE n
Quotient(a, b) == IF (a < 0) = (b < 0) THEN Abs(a) \div Abs(b) ELSE -(Abs(a) \div Abs(b))

KeyInGrid(col, row) == IF col \in 0 .. 3 /\ row \in 0 .. 3 THEN Layout[4 * row + col + 1] ELSE NoKey

KeyRoundedDown(x, y) == KeyInGrid((x - 15) \div 43, (y - 100) \div 35)

(* The key a press at a place of the window counts for. *)
KeyAt(x, y) == KeyInGrid(Quotient(x - 15, 43), Quotient(y - 100, 35))

(* The key whose rectangle is drawn there. *)
DrawnAt(x, y) ==
  IF x >= 15 /\ (x - 15) % 43 < 38 /\ y >= 95 /\ (y - 95) % 35 < 30
  THEN KeyInGrid((x - 15) \div 43, (y - 95) \div 35) ELSE NoKey

CalcKeys ==
  {key \in {KeyAt(x, y) : x \in 0 .. CalcWidth, y \in 0 .. CalcHeight} :
     key # NoKey /\ key.figure \in Figures \union {-1}}

Wrapped(n) == ((n + LongMax + 1) % (2 * LongMax + 2)) - LongMax - 1
parse_calc_display(d) == IF d.neg THEN -d.number ELSE d.number

(* What may be shown of a result.  The smallest long long has no opposite: *)
(* -res is undefined for it, and shows the sign alone where it wraps, or,  *)
(* where the compiler relies on its being positive, all the figures, which *)
(* are read back as the smallest long long.                                *)
Shown(res) ==
  IF res < -LongMax THEN {[neg |-> TRUE, number |-> n] : n \in {0, LongMax + 1}}
  ELSE {[neg |-> res < 0, number |-> Abs(res)]}

Result(op, a, b) ==
  CASE op = "+" -> Wrapped(a + b)
    [] op = "-" -> Wrapped(a - b)
    [] op = "*" -> Wrapped(a * b)
    [] op = "/" /\ b # 0 -> Quotient(a, b)
    [] OTHER -> b

PressFigureAfterAll(n) ==
  IF calc.display = Zero THEN [calc EXCEPT !.display.number = n, !.clear_next = FALSE]
  ELSE IF calc.display.number < Full
       THEN [calc EXCEPT !.display.number = 10 * @ + n] ELSE calc

PressFigureKeepingSign(n) ==
  IF calc.clear_next \/ calc.display = Zero
  THEN [calc EXCEPT !.display.number = n, !.clear_next = FALSE]
  ELSE IF calc.display.number < Full
       THEN [calc EXCEPT !.display.number = 10 * @ + n] ELSE calc

PressFigure(n) ==
  IF calc.clear_next \/ calc.display = Zero
  THEN [calc EXCEPT !.display = [neg |-> FALSE, number |-> n], !.clear_next = FALSE]
  ELSE IF calc.display.number < Full
       THEN [calc EXCEPT !.display.number = 10 * @ + n] ELSE calc

PressOperation(op) ==
  [calc EXCEPT !.val1 = parse_calc_display(calc.display), !.op = op, !.clear_next = TRUE]

PressEquals ==
  {[calc EXCEPT !.display = d, !.op = "none", !.clear_next = TRUE] :
     d \in Shown(Result(calc.op, calc.val1, parse_calc_display(calc.display)))}

Pressing(key) ==
  \/ key.op = "C"          /\ calc' = ClearCalc
  \/ key.op = "="          /\ calc' \in PressEquals
  \/ key.op \in Operations /\ calc' = PressOperation(key.op)
  \/ key.op = "none"       /\ calc' = PressFigure(key.figure)

PressCalc ==
  /\ Button("calc")
  /\ \E key \in CalcKeys :
       /\ key.op = "C" \/ Len(pressed) < MaxKeys
       /\ Pressing(key)
       /\ pressed' = IF key.op = "C" THEN <<>> ELSE Append(pressed, key)
  /\ UNCHANGED <<shell, pad_buffer, gallery, current_wallpaper, app_icon_files, paint, players>>

-----------------------------------------------------------------------------
(* Gallery and players *)

(* All icons are then written to icons.cfg. *)
SetIcon(app, picture) == app_icon_files' = [app_icon_files EXCEPT ![app] = picture]

PressGallery ==
  /\ Button("gallery")
  /\ \/ /\ \/ gallery_photo' \in 0 .. 3 /\ UNCHANGED selected_icon_target_app
           \/ /\ selected_icon_target_app' = (selected_icon_target_app + 1) % NumApps
              /\ UNCHANGED gallery_photo
        /\ UNCHANGED <<current_wallpaper, app_icon_files>>
     \/ current_wallpaper' \in {gallery_photo, -1} /\ UNCHANGED <<gallery, app_icon_files>>
     \/ /\ SetIcon(selected_icon_target_app, Pictures[gallery_photo + 1])
        /\ UNCHANGED <<gallery, current_wallpaper>>
  /\ UNCHANGED <<shell, pad_buffer, sums, paint, players>>

(* Play or pause, the next frame, the animation as wallpaper; in the music *)
(* player play or pause and the next track.                                *)
PressPlayer ==
  /\ \/ /\ Button("video") /\ UNCHANGED <<is_playing, current_track>>
        /\ \/ video_playing' = ~video_playing /\ UNCHANGED current_wallpaper
           \/ current_wallpaper' = 4 /\ UNCHANGED video_playing
     \/ /\ Button("music") /\ UNCHANGED <<video_playing, current_wallpaper>>
        /\ \/ is_playing' = ~is_playing /\ UNCHANGED current_track
           \/ current_track' = (current_track + 1) % 2 /\ UNCHANGED is_playing
  /\ UNCHANGED <<shell, pad_buffer, sums, gallery, app_icon_files, paint>>

-----------------------------------------------------------------------------
(* Paint *)

(* Colours, and the picture's export, which also becomes Paint's icon. *)
PressPaint ==
  /\ Button("paint")
  /\ \/ paint_color' \in Colours /\ UNCHANGED app_icon_files
     \/ SetIcon(PaintApp, "arte.bmp") /\ UNCHANGED paint_color
  /\ UNCHANGED <<shell, pad_buffer, sums, gallery, current_wallpaper, paint_canvas, players>>

BrushInRows(px, py) ==
  {(py + dy) * Width + px + dx : dx \in -1 .. 1, dy \in -1 .. 1} \intersect DOMAIN paint_canvas

(* The cells, by their place in the array, of a 3 by 3 brush. *)
Brush(px, py) ==
  {y * Width + x : x \in (px - 1 .. px + 1) \intersect (0 .. Width - 1),
                   y \in (py - 1 .. py + 1) \intersect (0 .. Height - 1)}

(* The button is held over the canvas.  The pointer's place is read again  *)
(* after the test that it is there, and may have left by then.             *)
Hold(px, py) ==
  /\ "paint" \in ToSet(open) \intersect session
  /\ paint_canvas' = [i \in DOMAIN paint_canvas |->
                        IF i \in Brush(px, py) THEN paint_color ELSE paint_canvas[i]]
  /\ UNCHANGED <<session, open, shell, pad_buffer, sums, gallery, current_wallpaper, app_icon_files, paint_color, players>>

-----------------------------------------------------------------------------
Press ==
  \/ \E w \in session : OpenWindow(w) \/ CloseWindow(w)
  \/ PressPad \/ PressCalc \/ PressGallery \/ PressPlayer \/ PressPaint

Keys == Words \union {BS, LF}

NextApps ==
  \/ Press
  \/ \E c \in Keys : {"shell", "pad"} \intersect session # {} /\ TypeKey(c)
  \/ \E px \in -1 .. Width, py \in -1 .. Height : Hold(px, py)

SpecApps == InitApps /\ [][NextApps]_appVars

-----------------------------------------------------------------------------
(* Properties *)

(* Type invariant, with the limits of the text fields. *)
TypeOKApps ==
  /\ session \in Sessions /\ ToSet(open) \subseteq session \union {"video"}
  /\ input_buffer \in Seq(Words) /\ Len(input_buffer) <= InputSize /\ programs \in 0 .. FreeTasks
  /\ Len(pad_buffer) <= PadSize
  /\ calc.display.number \in 0 .. LongMax + 1 /\ calc.val1 \in -LongMax - 1 .. LongMax
  /\ gallery_photo \in 0 .. 3 /\ current_wallpaper \in -1 .. 4
  /\ selected_icon_target_app \in DOMAIN app_icon_files
  /\ paint_color \in Colours /\ \A i \in DOMAIN paint_canvas : paint_canvas[i] \in Colours \union {"black"}

(* The division of the smallest long long by -1, at which the processor    *)
(* traps and the kernel stops, is never the one "=" would do next: a       *)
(* negative number gets on the display as a result only, so that as second *)
(* operand it is always the first one as well.                             *)
NoDivisionTraps ==
  ~(calc.op = "/" /\ calc.val1 = -LongMax - 1 /\ parse_calc_display(calc.display) = -1)

AllFigures(first, last) == \A i \in first .. last : pressed[i].op = "none"

(* What a run of figures stands for: as many as the display takes. *)
WithFigure(n, key) == IF n < Full THEN 10 * n + key.figure ELSE n

NumberOf(keys) ==
  LET typed[k \in 0 .. Len(keys)] == IF k = 0 THEN 0 ELSE WithFigure(typed[k - 1], keys[k])
  IN  typed[Len(keys)]

Number(first, last) == NumberOf(SubSeq(pressed, first, last))

Exact(op, a, b) ==
  CASE op = "+" -> a + b
    [] op = "-" -> a - b
    [] op = "*" -> a * b
    [] op = "/" -> IF b = 0 THEN 0 ELSE a \div b

(* After "a op b =" the display shows a op b, whatever was pressed before: *)
(* no key leaves anything behind that changes a later sum.  Only a product *)
(* may be too large; and of a chain of operations the last one counts.     *)
CalculatorIsExact ==
  LET n == Len(pressed) IN
  \A i, j \in DOMAIN pressed :
    /\ i < j /\ j < n - 1 /\ pressed[n].op = "=" /\ pressed[j].op \in Operations
    /\ AllFigures(i, j - 1) /\ AllFigures(j + 1, n - 1) /\ (i = 1 \/ ~AllFigures(i - 1, i - 1))
    => LET exact == Exact(pressed[j].op, Number(i, j - 1), Number(j + 1, n - 1))
       IN  pressed[j].op # "*" \/ exact <= LongMax => parse_calc_display(calc.display) = exact

(* A press on a drawn key counts for that key, except that the five upper  *)
(* rows of pixels of a key count for the key above it: the keys are drawn  *)
(* from 95 down and looked up from 100 down.  The layout is fixed, so that *)
(* looking at a calculator nobody has used is enough.                      *)
KeysDoWhatTheyShow ==
  open = <<"video", "calc">> /\ pressed = <<>> =>
    \A x \in 0 .. CalcWidth, y \in 0 .. CalcHeight : DrawnAt(x, y) # NoKey =>
      KeyAt(x, y) = IF y < 130 \/ (y - 95) % 35 >= 5 THEN DrawnAt(x, y) ELSE DrawnAt(x, y - 35)

(* The brush colours cells next to the pointer only, also at the edges of  *)
(* the canvas and when the pointer has left it between test and use.       *)
BrushStaysNearPointer ==
  [][\A px \in -1 .. Width, py \in -1 .. Height : Hold(px, py) =>
       \A i \in DOMAIN paint_canvas : paint_canvas'[i] # paint_canvas[i] =>
         Abs((i % Width) - px) <= 1 /\ Abs(i \div Width - py) <= 1]_appVars
==============================================================================
