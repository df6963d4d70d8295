------------------------------- MODULE Serial --------------------------------
(***************************************************************************)
(* The serial link of src/serial.c.  The main loop polls one received byte *)
(* per frame, edits it into a line, echoes it, and answers a finished      *)
(* line; the terminal window sends messages of its own.  Everything the    *)
(* kernel writes also goes to a log of bounded size.  The log is modelled, *)
(* the window's drawing of it is not: that prints neither backspaces nor   *)
(* carriage returns, and as many rows as fit from the oldest one on.       *)
(*                                                                         *)
(* A fixed piece of text counts as one character.  The host's terminal is  *)
(* the text left of its cursor, and the host types printable characters    *)
(* and no cursor keys.  Only the main loop writes to the port, so a call   *)
(* is one step; the host sends between any two of them.                    *)
(***************************************************************************)
EXTENDS Integers, SequencesExt

CONSTANTS Text,           \* characters the host types
          Space,          \* the space among them
          Cat, Send,      \* "cat " and "send "
          Files,          \* sys_files: what each name holds
          RxBufSize, LogSize, FifoSize,
          MaxGuest,       \* characters the window's input line holds
          MaxBytes        \* bound on the bytes the host sends

CR  == "CR"
LF  == "LF"
BS  == "BS"
NUL == "NUL"
HostBytes == Text \union {CR, LF, BS, NUL}

ASSUME SerialAssumption ==
  /\ RxBufSize \in Nat /\ RxBufSize >= 2 /\ LogSize \in Nat /\ LogSize >= 2
  /\ FifoSize \in Nat \ {0} /\ MaxGuest \in Nat /\ MaxBytes \in Nat
  /\ Space \in Text /\ Text \intersect {CR, LF, BS, NUL} = {}
  /\ \A name \in DOMAIN Files : Files[name] \in Seq(ToSet(Files[name]))

VARIABLES
  fifo, host_sent,    \* bytes the UART holds, how many the host has sent
  rx_buf,             \* rx_buf up to rx_idx
  serial_log_buf,     \* the log up to serial_log_pos
  serial_guest_idx,   \* length of the window's input line
  shown,              \* the host's terminal: text left of the cursor
  intact,             \* nothing of the terminal's current line was dropped
  quiet               \* no message was written since the line began

serialVars == <<fifo, host_sent, rx_buf, serial_log_buf, serial_guest_idx, shown, intact, quiet>>

-----------------------------------------------------------------------------
(* Writing *)

LogAppendChar(log, c) == Append(IF Len(log) < LogSize - 1 THEN log ELSE Tail(log), c)

(* What a character does to the text left of the cursor. *)
Display(text, c) ==
  IF c = CR THEN <<>>
  ELSE IF c = LF THEN text
  ELSE IF c = BS THEN (IF text = <<>> THEN <<>> ELSE Front(text))
  ELSE Append(text, c)

(* A port is the log and what the terminal shows when nothing is dropped.  *)
Emit(port, c) == [log |-> LogAppendChar(port.log, c), text |-> Display(port.text, c)]

(* serial_write puts a carriage return before every line feed. *)
EmitExpanded(port, c) == IF c = LF THEN Emit(Emit(port, CR), LF) ELSE Emit(port, c)

Emitted(port, str) ==
  LET after[k \in 0 .. Len(str)] == IF k = 0 THEN port ELSE EmitExpanded(after[k - 1], str[k])
  IN  after[Len(str)]

(* serial_write_char gives up after 50000 polls of a transmitter that does *)
(* not empty; the log has the character all the same.                      *)
Write(str, transmitted) ==
  LET port == Emitted([log |-> serial_log_buf, text |-> shown], str) IN
  /\ serial_log_buf' = port.log
  /\ IF transmitted
     THEN shown' = port.text /\ intact' = (intact \/ {CR, LF} \intersect ToSet(str) # {})
     ELSE shown' = shown /\ intact' = FALSE

-----------------------------------------------------------------------------
(* The host's commands *)

SkipSpaces(str) ==
  LET first == Min({i \in DOMAIN str : str[i] # Space} \union {Len(str) + 1})
  IN  SubSeq(str, first, Len(str))

Message(msg) == <<"guest_message">> \o msg \o <<CR, LF>>

Catenate(name) ==
  IF name \in DOMAIN Files
  THEN <<"begin_of">> \o name \o <<"begins", CR, LF>> \o Files[name] \o <<"end_of_file", CR, LF>>
  ELSE <<"file">> \o name \o <<"not_found", CR, LF>>

Answer(cmd) ==
  LET p == SkipSpaces(cmd) IN
  IF p # <<>> /\ Head(p) = Cat THEN Catenate(SkipSpaces(Tail(p)))
  ELSE IF p # <<>> /\ Head(p) = Send THEN Message(Tail(p))
  ELSE <<"command">> \o p \o <<"invalid", CR, LF, "usage", CR, LF>>

-----------------------------------------------------------------------------
Booted == Emitted([log |-> <<>>, text |-> <<>>], <<"boot_message", LF>>)

InitSerial ==
  /\ fifo = <<>> /\ host_sent = 0 /\ rx_buf = <<>> /\ serial_guest_idx = 0
  /\ serial_log_buf = Booted.log /\ shown = Booted.text
  /\ intact = TRUE /\ quiet = TRUE

(* A byte that comes while the UART is full is lost. *)
HostSends(c) ==
  /\ host_sent < MaxBytes /\ host_sent' = host_sent + 1
  /\ fifo' = IF Len(fifo) < FifoSize THEN Append(fifo, c) ELSE fifo
  /\ UNCHANGED <<rx_buf, serial_log_buf, serial_guest_idx, shown, intact, quiet>>

EndLine(transmitted) ==
  IF rx_buf = <<>> THEN UNCHANGED <<rx_buf, serial_log_buf, shown, intact, quiet>>
  ELSE /\ Write(<<CR, LF>> \o Answer(rx_buf), transmitted)
       /\ rx_buf' = <<>> /\ quiet' = TRUE

EraseLast(transmitted) ==
  IF rx_buf = <<>> THEN UNCHANGED <<rx_buf, serial_log_buf, shown, intact, quiet>>
  ELSE /\ Write(<<BS, Space, BS>>, transmitted)
       /\ rx_buf' = Front(rx_buf) /\ UNCHANGED quiet

AddEchoingAll(c, transmitted) ==
  /\ Write(<<c>>, transmitted)
  /\ rx_buf' = IF Len(rx_buf) < RxBufSize - 1 THEN Append(rx_buf, c) ELSE rx_buf
  /\ UNCHANGED quiet

AddChar(c, transmitted) ==
  IF Len(rx_buf) < RxBufSize - 1
  THEN Write(<<c>>, transmitted) /\ rx_buf' = Append(rx_buf, c) /\ UNCHANGED quiet
  ELSE UNCHANGED <<rx_buf, serial_log_buf, shown, intact, quiet>>

(* serial_poll takes one byte. *)
SerialPoll(transmitted) ==
  /\ fifo # <<>> /\ fifo' = Tail(fifo)
  /\ LET c == Head(fifo) IN
       \/ /\ c = NUL
          /\ UNCHANGED <<rx_buf, serial_log_buf, shown, intact, quiet>>
       \/ c \in {CR, LF} /\ EndLine(transmitted)
       \/ c = BS /\ EraseLast(transmitted)
       \/ c \in Text /\ AddChar(c, transmitted)
  /\ UNCHANGED <<host_sent, serial_guest_idx>>

(* The terminal window's input line: a character, a backspace, or Enter    *)
(* (or the button), which sends what is there.                             *)
GuestTypes ==
  /\ serial_guest_idx < MaxGuest /\ serial_guest_idx' = serial_guest_idx + 1
  /\ UNCHANGED <<fifo, host_sent, rx_buf, serial_log_buf, shown, intact, quiet>>

GuestErases ==
  /\ serial_guest_idx > 0 /\ serial_guest_idx' = serial_guest_idx - 1
  /\ UNCHANGED <<fifo, host_sent, rx_buf, serial_log_buf, shown, intact, quiet>>

GuestSends(transmitted) ==
  /\ serial_guest_idx > 0 /\ serial_guest_idx' = 0
  /\ Write(Message([i \in 1 .. serial_guest_idx |-> "guest"]), transmitted)
  /\ quiet' = FALSE
  /\ UNCHANGED <<fifo, host_sent, rx_buf>>

NextSerial ==
  \/ \E c \in HostBytes : HostSends(c)
  \/ \E transmitted \in BOOLEAN : SerialPoll(transmitted) \/ GuestSends(transmitted)
  \/ GuestTypes
  \/ GuestErases

SpecSerial == InitSerial /\ [][NextSerial]_serialVars

-----------------------------------------------------------------------------
(* What the host sees of its line is what will be executed: also when the  *)
(* UART loses bytes, when the line is full, and after corrections.  A      *)
(* message in between hides the part typed before it, and no more.         *)
EchoShowsLine ==
  intact => /\ IsSuffix(shown, rx_buf)
            /\ quiet => shown = rx_buf

Displayed(text, out) ==
  LET after[k \in 0 .. Len(out)] == IF k = 0 THEN text ELSE Display(after[k - 1], out[k])
  IN  after[Len(out)]

(* The log is a true record of the line: played to a terminal like the     *)
(* host's, corrections included, it gives what the host's own shows, once  *)
(* it holds the start of a line and however often it has moved up.         *)
LogRepeatsLine ==
  intact /\ CR \in ToSet(serial_log_buf) => Displayed(<<>>, serial_log_buf) = shown

(* Host, log and command interpreter agree on the current line, which like *)
(* the log and the window's own line stays inside its buffer.              *)
BothEndsAgree ==
  /\ EchoShowsLine /\ LogRepeatsLine
  /\ ToSet(rx_buf) \subseteq Text /\ Len(rx_buf) <= RxBufSize - 1
  /\ Len(serial_log_buf) \in 1 .. LogSize - 1 /\ serial_guest_idx \in 0 .. MaxGuest
=============================================================================
