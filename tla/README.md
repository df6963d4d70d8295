# CapivaraOS: models and proofs

CapivaraOS is a 64-bit kernel without a host system: one address space, a preemptive scheduler,
a window manager, a small FAT32, a network card and PS/2 input, in about 4000 lines of C and
assembly.  This directory holds TLA+ models of its components, model-checking configurations for
small instances, and TLAPS proofs of every invariant they check.  Paths below are relative to
the repository root.

## 1. Inventory

| component | state | operations | who calls it |
|---|---|---|---|
| Kernel heap (`src/memory.c`) | block list, `total_allocated`, `total_free`, `block_count` | `kmalloc`, `kfree`, `krealloc` | everything that allocates: tasks, window caches, file reads and writes |
| Scheduler (`src/task.c`, timer stub in `boot.s`) | task table, `current_task`, `num_tasks`, `system_ticks` | `task_create(_user)`, `task_yield`, `task_sleep`, the timer interrupt | main loop, ELF loader, disk waits |
| File system (`src/fat32.c`, `src/vfs.c`) | sector 0, the root directory sector, data sectors | mount and format, read, write, list | shell, note pad, paint, gallery, icons |
| Disk drivers (`src/ata.c`, `src/ahci.c`) | `ata_lock`, controller registers | sector read and write | file system |
| Graphics (`src/gfx.c`, `src/bmp.c`, `src/bgif.c`) | active buffer, dirty rectangle | draw, blit, clear, swap | `ui_render`, `ui_init` |
| Input (`src/idt.c`) | `shift_pressed`, `caps_lock`, dead key, `last_key_pressed`; packet being assembled, pointer, button | keyboard and mouse interrupt | hardware; polled by `ui.c` |
| Window manager (`src/ui.c`) | window table, `top_z_index`, drag, start menu | `ui_handle_mouse`, `ui_render` | main loop |
| Applications (`src/ui.c`, `run` in `src/elf.c`) | text fields, shell answer, calculator, canvas, gallery, players | buttons and keys | window manager |
| Main loop (`src/kernel.c`, `ui_render`) | `ui_needs_redraw`, `prev_mouse_x/y`, `last_sec` | poll, handle, draw what changed, yield | task 0 |
| Network (`src/net.c`) | receive ring, `rx_offset`, transmit index | `net_poll`, ping, DNS query | main loop, shell; the card |
| Serial link (`src/serial.c`) | line being received, log | `serial_poll`, `serial_write` | main loop, everyone who reports |
| Clock (`src/rtc.c`) | none (CMOS registers) | `rtc_get_time_brt` | task bar, every frame |
| Music and sound (`src/music.c`, `src/sound.c`) | track, note, timer; PC speaker | `music_update`, play/next buttons, click | music task, window manager |
| ELF loader, system calls, ring-3 program (`src/elf.c`, `src/syscall.c`, `src/user_app.c`) | loaded image | load and run, four calls | shell; ring-3 tasks |

**How they interact.** One task, the kernel's own, does nearly everything: its loop
(`src/kernel.c:44-51`) polls the serial port, the mouse, the keyboard and the network card, renders,
and yields.  The timer interrupt (100 Hz) switches tasks; keyboard and mouse interrupts write the
few variables the loop polls; the network card and the UART fill buffers of their own.  There are no
locks besides `ata_lock`, and nothing masks interrupts around shared state.

**What is hard.** (1) Interrupts between two statements that belong together: `task_create_user`
and `task_sleep` against the timer, the reading and clearing of `last_key_pressed` against the
keyboard, `ui_handle_mouse` against the mouse.  (2) Bounded buffers shared with hardware: the receive
ring, the UART, the one-place key mailbox.  (3) Long sequences of legal calls: the heap's list, the
window stack, the dirty rectangle.  (4) Power failing between two sector writes, and a drive that keeps
what it was given in a cache, refuses commands while it is busy, or ends one with an error.  (5) Progress
under a strict priority choice.  (6) One flag, `ui_needs_redraw`, that some thirty places must set.  `PROJECT.json` lists each hazard at its line.

**What correctness means, by component.**  Heap: blocks tile the heap, never overlap, are always
coalesced, and are exactly what callers hold.  Scheduler: only built tasks run, one at a time; a sleep
lasts until it is due, with two exceptions that are named, and ends; the main loop always comes back.  File system: what the
drive took and has settled stays, and names keep their meaning, across crashes.  Graphics: nothing is drawn outside
its buffer, and nothing drawn stays invisible.  Input: keys once and in order, packets
stay framed.  Windows: they stay on the desktop, and a press goes to what one sees.  Network: card and
driver agree on the ring, no unread frame is overwritten, each is handled and answered once.  Serial: the
executed line is the line the host sees, and the log repeats it.  Disk: sectors are read and written whole, and what was stored and
flushed is kept.  Applications: text stays in its fields, no key of the calculator spoils a later sum or leads to a division that traps,
the brush stays at the pointer.  Main loop: no change stays invisible, and a wrong time is never taken for the present one.

## 2. Modules

| module | models | state ↔ code |
|---|---|---|
| `Allocator` | what the heap promises | `live`: buffers handed out |
| `Heap` | `src/memory.c` | `heap.hdr`: address of each header on the list → its fields; `live`: history of what callers hold |
| `Scheduler` | `src/task.c` | `tasks`, `current_task`, `num_tasks`; `wake` is `wake_ticks - system_ticks`; `pc`: where a task stands in `task_create_user` or `task_sleep`; `cut`: history of what ended a sleep early |
| `FileSystem` | `src/fat32.c`, `src/vfs.c` | `formatted`, `dir`, `data`: sectors as a read finds them; `plates`: as a loss of power leaves them; `stage`, `op`: the write in progress; `saved`: history of writes that returned 1 and that the drive took |
| `Graphics` | `src/gfx.c`, `src/bmp.c`, `src/bgif.c` | `target`, `dirty`; `touched`: pixels the framebuffer does not show yet; `strayed`: history |
| `Input` | `src/idt.c`, the poll in `src/ui.c:251-253` | the handlers' variables; `held`, `packet`, `sent`: the devices; `handled`: history |
| `Windows` | `ui_handle_mouse` and what it calls in `src/ui.c` | `windows`, `top_z_index`, `dragging_window_id`, `start_menu_open`; `pc`: the statement reached |
| `Network` | `src/net.c` | `memory` (`rx_buffer`), `rx_offset`, `tx_buffer_num`; `card_*`, `capr`: the card; `received`: the frames it stored, each with the place it begins at; `sent`: history |
| `Serial` | `src/serial.c`, the terminal window's input line | `rx_buf`, `serial_log_buf`, `serial_guest_idx`; `fifo`: UART; `shown`: the host's screen |
| `SectorStore` | what the disk promises its callers | `store`; `settled`: what a loss of power leaves; `call` per caller |
| `Disk` | `src/ata.c` and its drive | `ata_lock`; `pc`: the statement of the transfer; `call`: its arguments and buffer; `regs`, `drive`, `cache`, `media`: the drive; `taken`, `refused`: history of the last transfer |
| `Applications` | what windows hold, `src/ui.c`, `elf_load_and_run` | the variables of the same names; `calc`: display, `calc_val1`, `calc_op`, `calc_clear_next`; `pressed`: history |
| `Desktop` (over `Applications`) | loop of `src/kernel.c`, `ui_render`, `src/rtc.c` | `pc`: next statement; `stale`: changes not drawn yet; `clock`: registers read; `shown`: time drawn |
| `HeapProofs`, `SchedulerProofs`, `WindowsProofs`, `GraphicsProofs`, `NetworkProofs` | theorems about the module named | |
| `DeviceProofs` | theorems about `Input` and `Serial` | |
| `StorageProofs` | theorems about `Disk` and `FileSystem` | |
| `DesktopProofs` | theorems about `Applications` and `Desktop` | |
| `MC*` | instances for TLC | |

Names follow the source.  Each action is a whole handler or call wherever nothing can come in between,
and is split exactly where an interrupt, the card, or a power failure can: stores of
`task_create_user` and `task_sleep`; every statement of `ui_handle_mouse`, each with a pointer position
of its own; test, read and clear of the key mailbox; test, handling and release of a received frame;
single sector writes; single words of a transfer; single registers of the clock.  The exact correspondence, definition by definition, is the `map` of
`PROJECT.json`.

**Faulty variants.**  Some definitions are preceded by one whose name tells a plausible mistake
(`FreePrev` / `NeverFreePrev`, `ClearKey` / `LeaveKey`, `PressFigure` / `PressFigureAfterAll`).  They are
not part of any specification: put in place of the definition that follows, they make the property named
with them in `PROJECT.json` (`mutants`) fail, which shows that the property can tell right from wrong.

## 3. Component by component

**Heap.**  Sizes are bytes; a block is 48 bytes of header, payload, 16 of footer.  The first-fit search,
the split when at least 32 bytes of payload remain, both merges of `kfree`, and both paths of `krealloc`
(in place when the block is large enough, else allocate, copy, free) are modelled.  `Heap` implements `Allocator` under
`live <- live`: a failed allocation stutters.  Payload bytes are left out, so that `krealloc` copies
the right ones is not shown.

**Scheduler.**  `TimerTick` is the PIT interrupt: it can come between any two stores of the interrupted task; `Yield`
is the `int $32` of `task_yield` through the same handler.  A slot counts, and is READY, before it has a stack; the scheduler
does not pick it only because its creator runs at a higher priority, which is the assumption
`UserPriority < MainPriority`.  `task_sleep` stores the state (`src/task.c:91`) before the time (`:92`): a tick in between finds the
time of an earlier sleep, or 0, and makes the task READY at once; the new time is then stored for a task that is awake, and the whole sleep is lost.  And task 0
is run when no task is ready, asleep or not (`src/task.c:130-139`).  `SleepsLastUnlessCut` says that these are the only two ways in which a
sleep is shorter than asked for; `cut` remembers which of them met a task.  No task of the kernel calls `task_sleep` today: the run's `Sleepers`
check it as the interface it is, and the starvation run has none.

**File system.**  The directory has as many entries as fit a sector (16 in the code, 2 in the run); there is no FAT and no
deletion.  A data sector records which contents' which piece is there, so reading back is exact.  The disk is the ATA drive as `Disk`
shows it, one step to a sector: each write may be refused without the caller learning of it, and one the drive took stays in its cache until it
settles on the plates, in any order and at any later time (`Settle`), for `ata_write_sector` sends its flush where the drive need not take
it.  `PowerLoss` can come between any two steps and takes all that has not settled, the directory included; a slot lost that way
is given out again.  `Mount` formats a blank disk.  So a `1` of `fat32_write_file` promises little, and the properties say how much: `saved` has
the files whose write returned 1 and of which the drive took every sector, until power fails before all of them have settled.
The cluster of a file is the number of its slot (`src/fat32.c:118`), so a file of more than one sector
reaches into the next one's: `LostOnlyToOverrun` says that besides refusal and power this is the only way data of a file is lost, and that its
entry and first sector never are.
Names are kept character by character because the 8.3 conversion is what decides whether a file is found: a write stores the name as
typed, a read looks for the 8.3 form, so a name with an extension is never found on the disk, although the shell answers
`ARQUIVO GRAVADO COM SUCESSO!` (`src/ui.c:233`).  `PlainNamesReadBack` says so, and that names without an extension
and short enough do read back, unless an older entry of the same name stands in front: then that one is read, whoever left it there and whether
its write succeeded, and the newer file never.
`vfs_list` never lists what is on the disk, and `icons.cfg` is written and never read.

**Graphics.**  Shapes (glyphs, icons, cursor, frames of an animation) are sets of pixels.  Landscapes are
drawn without clipping (`src/gfx.c`); the model lets them be drawn only where they fit, which the window
manager guarantees (`WindowsStayOnDesktop`).  A rectangle of negative width is filled beyond the end of its rows (`Rows`), as
`(end_x - start_x) * 4` is a `size_t` (`src/gfx.c:272`): that the early returns leave none is part of `DrawsInsideItsBuffer`, and without the one for
the right edge it fails.

**Input.**  Handlers run with interrupts off, so each is a step.  The acknowledgement of the mouse's enable command may
come late and be taken for a first byte: `StaysInStep` starts from the first moment mouse and handler agree, and says nothing of how they
come to: a late acknowledgement, or any byte too many, leaves the handler out of step until a motion byte happens to lack bit 3, which is how the code is.
Extended keys, whose `E0 2A` and `E0 AA` the handler takes for shifts, are not among the modelled bytes.
A character that comes between reading and clearing is lost: `WaitingKeyIsTaken` says these are the only ones
lost besides those a later character replaces.

**Windows.**  All pointer positions are tried at every statement.  Icons are tested before windows and also
react underneath one, so a press can open an icon's window and raise another; neighbouring menu items share
a row of pixels.  The model has both, and the drag and closing properties hold in spite of them.

**Network.**  The card is external: 4-byte header, frames in words, continuation at the ring's start, and a read pointer 16 behind, modulo the
register's width.  A poll is test, handle, release, with the card storing in between.  The WRAP bit is left off, so the card continues a frame
at the ring's start while the driver reads straight on (`src/net.c:204,219`).  Nor does the driver look at a frame's length: it tests and copies
the 42 bytes of an ARP request, tests 35 bytes of an echo request and copies 98 (`src/net.c:224-251`), whatever was received.  `Own` says whether so many bytes are
the frame's own: inside it and before the ring's end.  `AnswersInOrder` is exact about it: every request whose bytes that are copied lie together
in the ring is answered once, in order and of its own bytes, also where its padding or further data wraps around; an echo that is recognised but shorter than what is
copied, or that wraps around within it, gets an answer of foreign bytes; and a frame that wraps around within what is tested may or may not get one.

**Serial.**  A fixed text counts as one character.  A transmitter that does not empty drops characters (all of a
call's or none); the log keeps them.  `BothEndsAgree` relates what is executed, what the host's terminal shows, and
what the log, read as that terminal would read it, says of the current line, whenever nothing of the line was dropped: the log is a true record of
what was sent.  What the window draws of the log is another matter and not modelled: it passes over carriage returns, draws erased characters beside
those that replaced them, and starts with the oldest line it has, so that the latest ones may lie below its last row (`src/ui.c:749-763`).  The window lists
`HOST: cat <arquivo> | ls | echo <msg>` (`src/ui.c:773`) although the interpreter knows `cat` and `send`
(`src/serial.c:151,167`); `ls` and `echo` get the "invalido" answer.

**Disk.**  A sector moves in 256 words through one data port, with interrupts on and another task possibly between any two
words; the run has 2 words.  The drive works on its own: busy, then ready for data, then busy storing; it ignores
a command while it is at work, may end one with an error, writes its cache to the plates when it likes, and loses it when power fails.
Three things the model makes visible.  The flush command (0xE7) follows the last word at once, so that a drive still storing the sector need not take it, and the
wait after it is then a wait for the sector only: `KeptOnceFlushed` says that a write that ended
without an error has its sector stored, and on the plates, with all that was written before it, when the flush was taken; and
nothing else.  No error bit is read: a read that ends with an error waits for ever with the lock, a write that does answers 1.  `TransfersEnd` is about the kernel's own task: its calls return, unless it meets such an error or
another task has the lock.  The second exception is there because the task that waits for the lock spins and yields (`src/ata.c:22-25`) while the scheduler prefers it to
every other: a holder of lower priority never runs again.  And `ahci_init` has no caller, so the other branch of each function is never taken.
`SectorStore` is what remains for the callers: each call takes effect at one instant on a whole sector, a write
may be refused unnoticed, and only what has settled outlives a loss of power.

**Applications.**  One action per button or key.  A word of the shell is one character; files outside the kernel may or may not
be found, which is `FileSystem`'s matter.  Keys go to the shell whenever neither the note pad nor the serial window is in front.
The calculator is 64-bit arithmetic that wraps, with at most 15 digits typed: `CalculatorIsExact` compares the display with
exact arithmetic on what was pressed.  Division by zero shows 0; of a chain of operations only the last counts.  The smallest `long long`, which products can reach,
has no opposite, and `-res` (`src/ui.c:447`) is undefined for it: the sign alone may be shown, or, as `gcc -O3` of the `Dockerfile` does it, all its figures, which are read back as
that number.  `Shown` has both.  So it can be an operand, and its quotient by -1 would stop the machine; `NoDivisionTraps` says that no
keys lead to that, because a negative number gets on the display only as a result, which the next figure replaces, and an operation makes it both operands.  Keys are
drawn from row 95 and looked up from row 100, so the top five rows of a key count for the one above: `KeysDoWhatTheyShow`
states exactly that.  (The video player's buttons are drawn at 30-170, 180-350 and 360-550 and hit at 30-180, 200-360 and
380-550; where buttons are is not modelled otherwise.)

**Desktop.**  The loop with the handlers of `Applications` inside it, one step per statement that another actor can come before.
`stale` collects what has changed since it was drawn: `windows` for what handlers change, `figures` for the log, the
heap's counters and the task table, which change without a word to `ui_render` and are drawn with the next second.
The clock's registers are read one by one while it ticks, so a torn time is possible; `WrongTimeIsNoticed` says that it shows a second
that is not the present one, so that the next frame draws again.  With 12-hour registers the conversion takes the bit of the afternoon for a
digit when the registers are decimal, and midnight for noon (`src/rtc.c:49-56`): the property is stated for 24-hour registers, which is how
emulated clocks are set up.

## 4. Runs

| run | question | instance | states |
|---|---|---|---|
| `heap` | counters, callers' view, refinement of `Allocator` | 5 smallest blocks, requests of 0, 16, 33, 100 and past the limit | 6.6·10³ |
| `scheduler` | ticks between any two stores | table of 4, priorities 5, 3, 2, tasks 0 to 2 sleep for 0 or 2 ticks | 1.4·10⁴ |
| `scheduler_starvation` | does every ready task run? | as above, nobody sleeps | counterexample |
| `filesystem` | crashes, refusals and the drive's cache between sector writes | 2 slots, a plain name and a linked one with a dot, files of 0, 300 and 513 bytes, 2 contents (symmetric) | 2.0·10⁶ |
| `graphics` | clipping, dirty rectangle | 4×3 screen, 3×2 cache, coordinates -1..4 | 10⁴ |
| `input` | races of handlers with the poll, framing | 2 characters typed, two shift keys, two accents, 3×2 screen | 2.6·10⁵ |
| `windows` | drags, presses, stacking under a jumping pointer | 3 windows on 5×4, `top_z_index` up to 6 | 1.7·10⁵ |
| `network` | ring shared with the card | 32-byte ring, 4 frames of 5 or 12 bytes, 1 byte tested, 1 or 8 copied, 2 queries, register of 64 | 1.1·10⁵ |
| `serial` | line, echo and log | line of 3, log of 7, UART of 2, 5 bytes sent | 1.3·10⁶ |
| `disk` | two transfers at once, errors, power failure, refinement of `SectorStore` | 2 tasks, 2 sectors of 2 words, 2 values | 8.2·10⁴ |
| `applications` | any sequence of keys and presses | each window in a session of its own; 6 calculator keys, 3 digits, largest number 255; 3×3 canvas | 6.4·10⁵ |
| `desktop` | what is drawn, and when | the player with a pointer that never rests, and with Paint; minute of 2 seconds, hour of 1 minute, day of 2 hours | 3.4·10⁵ |

**Why the bounds are enough.**  Each bound lets the limit it stands for be reached and passed: a heap that
fills, splits without remainder and merges on both sides; a task table that fills; a directory that fills, a file
that overruns its neighbour, a name written twice, a slot lost and given out again; rectangles that miss the screen, straddle every edge and
cover it; a window for each role (front, middle, back) and a pointer beyond every edge; a ring that
wraps within what is tested, within what is copied and behind it, a frame shorter than what is copied, a register that wraps less often than the ring, and every descriptor used and reused; a line, a log and a UART that are full; a transfer that
can be cut between its words, and a sector that could be half of one value and half of another; two operands, an operation and a result, with keys
left over from an earlier sum, and a product that wraps to the smallest number, which is then divided; a second, a minute and an hour that end between two registers.  The applications share no state but the
window stack, the wallpaper and the icons, so that trying them one session at a time loses only their mere order.  The conversion of the clock is
checked for every hour and minute of a real day, whatever the day of the run.
`MaxTyped`, `MaxZ`, `MaxFrames`, `MaxQueries`, `MaxBytes` and `MaxKeys` bound counters the code does not, and are
named in the guards.

Only `windows` runs with `CHECK_DEADLOCK FALSE`: the power buttons stop the machine.

**Fairness.**  `WF(TimerTick)`: the PIT is periodic and interrupts stay enabled outside the
handlers.  `WF(MainLoop)` of `Input` and `WF(net_poll)` of `Network`: the main loop polls for ever, and its task
gets the CPU again and again: this is `MainAlwaysReturns` of `Scheduler`, and also justifies `WF(Loop)` of `Desktop`.  `WF(Client(Main))` of
`Disk`: the kernel's own task gets the CPU again and again by the same property; no other task is given any fairness, since a task of lower priority never runs
while task 0 spins on the lock (two transfers at once are more than this kernel runs today, as `scheduler_starvation` shows, and are modelled because the lock is
there for them).  `WF(Device)`: a drive ends what it began.  `WF(Tick)` of `Desktop`: the
clock runs; the loop is taken to come back to it in less than a minute.  User input, the card, the
host, errors and power failures are never fair.

**Finding.**  `scheduler_starvation`: `schedule()` picks only the highest ready priority and the main loop
never sleeps, so the music task and ring-3 programs never run, against the README's "Round-Robin".
Other things the code does that a user would not expect are stated by the properties as they are: names with an extension, overlapping files,
a sleep lost to a tick, frames around the ring's end and echoes shorter than 98 bytes, the flush that is not waited for, the upper rows of
the calculator's keys (section 3).

## 5. Proofs

`tlapm` proves every invariant and every action property the runs check, and the two refinements, for every value of
the constants that the modules' assumptions allow.  What each proof rests on:

* **HeapProofs**: `TypeOK`, `ListTilesHeap`, `NoFreeNeighbours`, `HoldersMatchBlocks`, `CountersMatchBlocks`, and that `Heap`
  implements `Allocator`; besides, that blocks never overlap (`BlocksAlwaysApart`) and that a heap whose buffers are all freed is the
  one block it began as (`FreeingAllRestores`), which no run repeats.  Assumed: `HeapAssumption` (a
  16-aligned start, a size that holds one block).  The inductive invariant `IInv` joins type, tiling (each block ends where its
  successor begins, `prev` mirrors `next`), coalescing, the counters and the callers' view.  Tiling is needed because a
  merge reads the neighbour's header: that it is a header, and the only one there, is what tiling says.
  Coalescing is inductive only together with it: a split leaves a free remainder whose successor is known
  to be used because the block it was cut from was free.  `FreeingAllRestores` follows without induction over
  the list: with nothing in use, two blocks would be free neighbours.  The counters are sums over a set of blocks.  To add one
  block to such a sum, or take one away, its value must not depend on the order of adding: the sum is shown to be the number of
  members of a set with as many pairs for each block as it has bytes (`Pairs`), where order plays no part.
* **SchedulerProofs**: `TypeOK`, `RunsOnlyBuiltTasks`, `SleepsLastUnlessCut`.  Assumed:
  `SchedulerAssumption` (table of at least two, the kernel's own priority above the others).  The inductive
  invariant `IInv` adds `SlotsOK` (which priorities the slots in use have), `OnlyCurrentRuns` (at most one task is RUNNING, the one on the CPU) and `BuilderRuns`: while a slot is
  under construction its creator, the kernel's own task, is on the CPU.  Together they are what makes
  the properties inductive: a tick then chooses among ready tasks of which the creator has the strictly
  highest priority, so the choice never falls on the unfinished slot.  For
  `SleepsLastUnlessCut`, `SleepInv` follows a sleep through its two stores: a task that left the CPU, or its SLEEPING state, between
  them is marked as cut, and one that is awake before its time is marked, or is task 0 standing in.
* **WindowsProofs**: `WindowsStayOnDesktop`, `ClickFindsWhatIsSeen`, `DraggedIsInFront`, `OnlyTheFrontCloses`, for any number and
  size of windows.  The key part of the invariant is `Ranked` (the z-indices are different and between 1 and `top_z_index`, so the
  highest hit is one window) and `DragInv`: no press begins while a drag lasts, because a press needs a call of
  the handler that saw the button up, and that call ends the drag.
* **DeviceProofs**, of `Input`: `TypeOK`, `KeysTakenOnceInOrder`, `StaysInStep`.  Two invariants that share nothing: `KInv` for keyboard,
  mailbox and poll (what is in the mailbox is newer than all that was taken), `MInv` for the mouse (the handler's count
  is the number of bytes of the present packet that were delivered).
* **DeviceProofs**, of `Serial`: `BothEndsAgree`, for a line, a log and a UART of any size and any contents of the files.  Assumed:
  `SerialAssumption`.  What is written goes to log and terminal character by character, with a carriage return before each line feed
  (`Emitted`), and what the log stands for is read off it character by character (`Displayed`): both are recursive functions, and
  `Agree` says they give the same text once the log holds the start of a line.  The log forgets from its front, so what has to be
  shown is that the forgotten part does not matter (`DisplayedSame`): whatever came before, a carriage return
  leaves nothing of it.  That is why a log without one need not agree.  The invariant `LinkInv` adds that the line the interpreter
  collects is the tail of what the terminal shows, and all of it when no message came in between: an erased character is then
  the same one at both ends, and an erasure of nothing is not sent.
* **GraphicsProofs**: `DrawsInsideItsBuffer` and `SwapShowsEverything`, for every size of screen and cache and every
  shape and coordinate.  `IInv` says that the dirty rectangle is within the screen and covers every touched pixel.  Each operation is
  reduced to two lemmas: what is left after clipping is inside the buffer (`ClipInside`), and marking only
  ever grows the rectangle, by at least what is drawn (`MarkDirtyGrows`, `MarkEachGrows`).  No clipped width is negative, so rows end where they
  should (`RowsOfRect`).
* **StorageProofs**, of `Disk`: `KeptOnceFlushed`, and that `Disk` implements `SectorStore`, for any number of tasks, sectors, words and
  values.  `LockInv` (one client inside the lock) and `QuietInv` (a drive at work works for a client that waits for it) let the drive's
  phase be read off the client's place (`ReadInv`, `WriteInv`): while a read moves, buffer and drive hold the sector between them;
  while a write moves, the drive holds the words sent so far.  A read takes effect when the drive looks the sector up, a write when
  the drive stores it or gives up; all other steps inside the lock are not seen by the callers (`Unseen`).
* **StorageProofs**, of `FileSystem`: `TypeOK`, `LostOnlyToOverrun` and `PlainNamesReadBack`, for a directory of any size and any names,
  file sizes and contents.  Assumed: the disk holds the longest file in the last slot (`DiskLargeEnough`), and the two files that a
  read takes from the kernel image without looking on the disk have an extension (`NamesAssumption`; they are `app.elf` and
  `animacao.bgif`).  Slots are taken in order, so that the used ones are a beginning of the directory, on the plates too (`PlatesShape`): the directory is one sector and
  settles whole, and one that a loss of power brings back is an earlier one.
  The write in progress has a slot that no file in `saved` has (`WriteIsLast`): a sector it shares with another file lies beyond its own
  slot's home, counted from the other one, and no file without a later slot in its reach is touched.  Of a file that stays in `saved` through a loss of power every
  sector had settled (`InvAfterPowerLoss`).  The entry of a file in `saved` has the
  name its write was called with, in the form it is stored in.  For a name without a dot and of at most eight characters that is
  the very form a read looks for (`PlainNamesAreWanted`), so the first entry of the name is found, the file's own if no older one has the name, and its sectors are those
  that `LostOnlyToOverrun` speaks of; where the name has a dot the stored form has one at that place and the form looked for never
  has any (`DottedNamesAreNotWanted`).
* **NetworkProofs**: `OffsetInStep`, `UnreadFramesSurvive` and `AnswersInOrder`, for a ring of any size, any number of frames and any
  lengths the ring takes.  Assumed: `NetworkAssumption` (sizes are multiples of 4, the register's width is a multiple of the ring's size).
  The invariant gives each frame the place it would have in a ring without an end (`Places`) and says that the real ring holds, modulo its
  size, what lies between the driver's place and the card's, which are less than a ring apart (`RingHolds`); that two such places never
  meet (`ModDistinct`) and that the register keeps the offset (`RegisterKeepsOffset`) is arithmetic proved first.  For the answers,
  `Answers` adds that the words behind the ring are never written, that the driver's descriptor is the one the card transmits next, and
  which requests were answered: what is copied is the frame's own exactly when the card stored so many of its bytes without
  wrapping (`OwnIfComplete`), and the garbled answers are counted, none missing for a recognised request that is not copied whole, and none more than one for each frame
  that is not told whole (`GarbledAsMany`).
* **DesktopProofs**, of `Applications`: `TypeOKApps`, `BrushStaysNearPointer`, `KeysDoWhatTheyShow`, `CalculatorIsExact`, `NoDivisionTraps`, for any limits of
  the fields, any canvas and any number of keys.  Assumed: `ApplicationsAssumption`, of which only one part says something about
  arithmetic: the longest number that can be typed leaves a `long long` room for a sum of two (`LongMax >= 20 * Full`).
  The calculator's invariant `SumsInv` speaks of any keys since the last `C`: a run of figures that was pressed last is on the display,
  the run before the last operation is the first operand, and a figure begins a new number only behind another kind of
  key.  So whatever an earlier sum left in `calc_val1` or `calc_clear_next` is replaced before it is used.  `NoDivisionTraps` rests on `Pending`: a display that the
  next figure would go behind is not negative, and any other is the first operand if an operation waits.  What a run of figures stands for is a
  recursive function of the keys (`NumberOf`); that one more key changes it by one figure (`OneMoreKey`), and that two functions with the same
  equations are the same (`TypingExists` and the lemmas after it), is proved from the least length at which they would differ.
* **DesktopProofs**, of `Desktop`: `FrameShowsItsChanges` and `WrongTimeIsNoticed`, for any lengths of minute, hour and day
  up to the real ones.  The first rests on `FrameInv`: what a handler changed waits for the frame it marked, through every
  statement between.  The second on `ClockInv`: the second is read first, so everything read or shown is as old as its second
  (`ReadInv`, `ShownInv`).  If the second read is still the present one, no tick came in between, since the loop comes back within a minute,
  and the other registers were whole; if it is not, the next frame sees the difference.

**Recursion.**  The library's induction theorems need an operator as a parameter, which the provers cannot instantiate.  Where a proof
speaks of a recursive function it argues from the least number at which the claim would fail
(`NatLessThanWellFounded`, `WFMin`), once for each function: `Emitted`, `Displayed`, `NumberOf`.

**Only model-checked.**  The liveness properties (`MainAlwaysReturns`, `SleepEnds`, `WaitingKeyIsTaken`, `EveryFrameIsHandled`,
`TransfersEnd`, `ScreenCatchesUp`), since fairness and `ENABLED` are outside the prover; and the counterexample of
`scheduler_starvation`.

## 6. Not modelled

Page tables, boot and descriptor tables (set-up with interrupts off); exception handlers (they print and
halt); `ahci.c` (never reached: `ata_init` has no caller, although `src/ui.c:717` announces it); the music sequencer, ring-3
programs beyond their start, and system calls (their tasks are created and never dispatched, as `scheduler_starvation` shows: a model would
describe steps the program does not take); the vector of `util.c` (unused); the copying of ELF segments, which has no step in between
but writes them to their address before it is known whether there is a task slot (`src/elf.c:41`); the date; host tools.
Where buttons and icons are inside a window is abstracted, except for the calculator's keys.  Colours, fonts, checksums and payloads are
abstracted everywhere.

## 7. What could follow

1. The address space shared by ELF images and the heap, if programs ever run.
2. `Windows` composed with `Graphics`: what is drawn on top is where a press lands, landscapes included.
3. Proofs: that a heap's payloads survive `krealloc`, once the model keeps them; windows and pixels together, once item 2 exists.

## 8. Running

    tlc -workers 2 -config MCHeap.cfg MCHeap       # any MC*.cfg with its module
    tlapm HeapProofs.tla
    tlapm SchedulerProofs.tla                      # any *Proofs module
