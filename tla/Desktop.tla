------------------------------- MODULE Desktop --------------------------------
(***************************************************************************)
(* The loop of src/kernel.c over the handlers of src/ui.c: what they       *)
(* change, when ui_render draws it, and the clock of the task bar that     *)
(* src/rtc.c reads register by register.  The pointer moves and the clock  *)
(* ticks between any two steps of the loop.                                *)
(*                                                                         *)
(* The log of the serial window, the heap's figures and the task table     *)
(* change without a word to ui_render: they are the "figures".  The        *)
(* network shows nothing, so net_poll is left out.                         *)
(***************************************************************************)
EXTENDS Applications

CONSTANTS Places,              \* of the pointer
          Restless,            \* sessions in which the pointer moves
          Seconds, Minutes, Hours, \* of a minute, an hour and a day: 60, 60, 24
          Formats              \* of the clock's registers, [bcd, hours24 : BOOLEAN]

ASSUME DesktopAssumption ==
  /\ Seconds \in 2 .. 60 /\ Minutes \in 1 .. 60 /\ Hours \in 1 .. 24
  /\ Formats \subseteq [bcd : BOOLEAN, hours24 : BOOLEAN]

VARIABLES
  pc,                          \* the statement of the loop that comes next
  mouse, prev_mouse,           \* mouse_x and mouse_y; what the last frame saw
  ui_needs_redraw,
  stale,                       \* what changed since it was drawn
  cursor,                      \* where the arrow was last drawn
  time, format,                \* the CMOS clock: seconds since midnight, UTC
  ticks,                       \* of the clock since the second was last read
  clock,                       \* the registers as read
  last_sec, shown              \* second and time of day last drawn

pointerVars == <<mouse, prev_mouse, cursor>>
clockVars   == <<time, format, ticks, clock, last_sec, shown>>
vars == <<appVars, pc, pointerVars, ui_needs_redraw, stale, clockVars>>

-----------------------------------------------------------------------------
(* The clock *)

Unit == [second |-> 1, minute |-> Seconds, hour |-> Seconds * Minutes]
Size == [second |-> Seconds, minute |-> Minutes, hour |-> Hours]
Part(t, part) == (t \div Unit[part]) % Size[part]

Bcd(v) == 16 * (v \div 10) + (v % 10)

(* With 12-hour registers the bit of the afternoon is added. *)
Register(part, v, f) ==
  LET twelve == IF v % 12 = 0 THEN 12 ELSE v % 12
      coded  == IF part # "hour" \/ f.hours24 THEN v ELSE twelve
  IN  (IF f.bcd THEN Bcd(coded) ELSE coded)
        + (IF part = "hour" /\ ~f.hours24 /\ v >= 12 THEN 128 ELSE 0)

bcd_to_bin(v) == 10 * (v \div 16) + (v % 16)

(* The afternoon's bit is looked for after the conversion, which takes it  *)
(* for a digit when the registers are decimal.                             *)
Hour24(v, f) == IF ~f.hours24 /\ v >= 128 THEN (v - 128 + 12) % 24 ELSE v

Brt(h) == IF h >= 3 THEN h - 3 ELSE h + 24 - 3

(* rtc_get_time_brt, from the registers as read. *)
Converted(regs, f) ==
  LET binary(v) == IF f.bcd THEN bcd_to_bin(v) ELSE v
  IN  [second |-> binary(regs.second), minute |-> binary(regs.minute),
       hour |-> Brt(Hour24(binary(regs.hour), f))]

Read   == Converted(clock, format)
Unread == [second |-> -1, minute |-> -1, hour |-> -1]

(* The loop comes round to the clock again before a whole minute has passed. *)
Tick ==
  /\ ticks < Seconds - 1
  /\ time' = (time + 1) % (Hours * Unit.hour) /\ ticks' = ticks + 1
  /\ UNCHANGED <<appVars, pc, pointerVars, ui_needs_redraw, stale, format, clock, last_sec, shown>>

-----------------------------------------------------------------------------
(* The loop *)

Goto(label) == pc' = label

(* A line from the host, or a message, may have changed the log. *)
SerialPoll ==
  /\ pc = "serial" /\ Goto("compare")
  /\ stale' \in {stale, stale \union {"figures"}}
  /\ UNCHANGED <<appVars, pointerVars, ui_needs_redraw, clockVars>>

(* ui_handle_mouse: a moved pointer is noticed, and then remembered. *)
Compare ==
  /\ pc = "compare"
  /\ IF mouse # prev_mouse THEN ui_needs_redraw' = TRUE /\ Goto("remember")
     ELSE UNCHANGED ui_needs_redraw /\ Goto("press")
  /\ UNCHANGED <<appVars, pointerVars, stale, clockVars>>

Remember ==
  /\ pc = "remember" /\ Goto("press")
  /\ prev_mouse' = mouse
  /\ UNCHANGED <<appVars, mouse, cursor, ui_needs_redraw, stale, clockVars>>

Nothing == UNCHANGED <<appVars, ui_needs_redraw>>
Mark    == ui_needs_redraw' = TRUE

(* What a handler did to the windows is not on the screen yet. *)
NoteChanges == stale' = IF appVars' # appVars THEN stale \union {"windows"} ELSE stale

(* A press marks the frame also where there is no button.  The start menu  *)
(* and a close box end the handler at once.                                *)
PressButton ==
  /\ pc = "press" /\ (Goto("hold") \/ Goto("keyboard"))
  /\ Press \/ UNCHANGED appVars
  /\ Mark /\ NoteChanges
  /\ UNCHANGED <<pointerVars, clockVars>>

NoPress ==
  /\ pc = "press" /\ Goto("hold")
  /\ Nothing /\ UNCHANGED <<pointerVars, stale, clockVars>>

HoldQuietly ==
  (\E px \in -1 .. Width, py \in -1 .. Height : Hold(px, py)) /\ UNCHANGED ui_needs_redraw

(* Paint's canvas marks the frame itself, with the pointer at rest too. *)
HoldOnCanvas == (\E px \in -1 .. Width, py \in -1 .. Height : Hold(px, py)) /\ Mark

HoldButton ==
  /\ pc = "hold" /\ Goto("keyboard")
  /\ HoldOnCanvas \/ Nothing
  /\ NoteChanges
  /\ UNCHANGED <<pointerVars, clockVars>>

HandleKeyboard ==
  /\ pc = "keyboard" /\ Goto("clock")
  /\ \/ Nothing
     \/ (\E c \in Keys : TypeKey(c)) /\ Mark
  /\ NoteChanges
  /\ UNCHANGED <<pointerVars, clockVars>>

SecondLast == <<"hour", "minute", "second">>

(* The order rtc_get_time reads the registers in; the date is not shown. *)
RegisterOrder == <<"second", "minute", "hour">>

ReadRegister ==
  /\ pc = "clock"
  /\ \E i \in DOMAIN RegisterOrder :
       LET part == RegisterOrder[i] IN
       /\ clock[part] = -1 /\ \A j \in 1 .. i - 1 : clock[RegisterOrder[j]] # -1
       /\ clock' = [clock EXCEPT ![part] = Register(part, Part(time, part), format)]
       /\ ticks' = IF part = "second" THEN 0 ELSE ticks
       /\ IF i = Len(RegisterOrder) THEN Goto("test") ELSE UNCHANGED pc
  /\ UNCHANGED <<appVars, pointerVars, ui_needs_redraw, stale, time, format, last_sec, shown>>

MustDrawUnlessIdle == ui_needs_redraw \/ video_playing \/ current_wallpaper = 4

(* A moving picture, or another second than the one drawn. *)
MustDraw ==
  ui_needs_redraw \/ video_playing \/ current_wallpaper = 4 \/ Read.second # last_sec

Test ==
  /\ pc = "test"
  /\ last_sec' = Read.second
  /\ ui_needs_redraw' = FALSE
  /\ IF MustDraw THEN Goto("draw") /\ UNCHANGED clock ELSE Goto("yield") /\ clock' = Unread
  /\ UNCHANGED <<appVars, pointerVars, stale, time, format, ticks, shown>>

DrawWindows ==
  /\ pc = "draw" /\ Goto("cursor")
  /\ shown' = Read /\ clock' = Unread /\ stale' = {}
  /\ UNCHANGED <<appVars, pointerVars, ui_needs_redraw, time, format, ticks, last_sec>>

DrawCursor ==
  /\ pc = "cursor" /\ Goto("yield")
  /\ cursor' = mouse
  /\ UNCHANGED <<appVars, mouse, prev_mouse, ui_needs_redraw, stale, clockVars>>

Yield ==
  /\ pc = "yield" /\ Goto("serial")
  /\ UNCHANGED <<appVars, pointerVars, ui_needs_redraw, stale, clockVars>>

Loop ==
  \/ SerialPoll \/ Compare \/ Remember \/ PressButton \/ NoPress \/ HoldButton
  \/ HandleKeyboard \/ ReadRegister \/ Test \/ DrawWindows \/ DrawCursor \/ Yield

MovePointer ==
  /\ session \in Restless /\ mouse' \in Places \ {mouse}
  /\ UNCHANGED <<appVars, pc, prev_mouse, cursor, ui_needs_redraw, stale, clockVars>>

(* Nothing drawn yet: last_sec is 255, prev_mouse_x is -1. *)
Init ==
  /\ InitApps
  /\ pc = "serial" /\ mouse \in Places /\ prev_mouse = -1 /\ cursor = -1
  /\ ui_needs_redraw = TRUE /\ stale = {"windows", "figures"}
  /\ time \in 0 .. Hours * Unit.hour - 1 /\ format \in Formats /\ ticks = 0
  /\ clock = Unread
  /\ last_sec = 255 /\ shown = [second |-> 255, minute |-> 255, hour |-> 255]

Next == Loop \/ MovePointer \/ Tick

(* The loop runs for ever (MainAlwaysReturns of Scheduler), and so does    *)
(* the clock.                                                              *)
Spec == Init /\ [][Next]_vars /\ WF_vars(Loop) /\ WF_vars(Tick)

-----------------------------------------------------------------------------
(* Properties *)

(* At the end of a frame everything its handlers did to the windows is on  *)
(* the screen, in whatever order presses, keys and held buttons came: no   *)
(* handler changes what is drawn without marking the frame.                *)
FrameShowsItsChanges == pc = "yield" => "windows" \notin stale

Brasilia(h) == (h + 21) % 24

Now == [second |-> Part(time, "second"), minute |-> Part(time, "minute"),
        hour |-> Brasilia(Part(time, "hour"))]

(* The task bar shows Brasilia's time, or a second that is not the present *)
(* one, which makes the next frame draw it again: a time torn by a tick    *)
(* between two registers is never mistaken for the present one.  The       *)
(* conversion is right for every time of the day, as a look at the start   *)
(* shows; all this for 24-hour registers only.                             *)
WrongTimeIsNoticed ==
  /\ format.hours24 /\ shown.second # 255 /\ pc \notin {"clock", "test", "draw"} =>
       shown = Now \/ shown.second # Now.second
  /\ last_sec = 255 /\ pc = "serial" =>
       \A f \in [bcd : BOOLEAN, hours24 : {TRUE}], h \in 0 .. 23, m \in 0 .. 59 :
         Converted([second |-> Register("second", m, f), minute |-> Register("minute", m, f),
                    hour |-> Register("hour", h, f)], f)
           = [second |-> m, minute |-> m, hour |-> Brasilia(h)]

(* Whatever changes is drawn sooner or later, announced or not, and a      *)
(* pointer that rests is drawn where it is, also when it moved away and    *)
(* back between two frames: the next second sees to it.                    *)
ScreenCatchesUp ==
  /\ stale # {} ~> stale = {}
  /\ \A p \in Places : <>[](mouse = p) => <>[](cursor = p)
==============================================================================
