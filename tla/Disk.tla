-------------------------------- MODULE Disk ----------------------------------
(***************************************************************************)
(* The ATA driver of src/ata.c: sectors moved word by word through the     *)
(* ports of a drive that works on its own, under a test-and-set lock.      *)
(*                                                                         *)
(* The drive is external.  It takes a command only while it is neither     *)
(* busy nor moving data, keeps what it is given in a cache, and may end a  *)
(* command with an error instead of data.  Nobody calls ahci_init, so      *)
(* ahci_is_active is always false and its branch is left out.  A loop that *)
(* polls the status (and yields in between) is a step taken once the       *)
(* status is the one it waits for.                                         *)
(***************************************************************************)
EXTENDS Integers, Sequences, FiniteSets

CONSTANTS Clients,     \* tasks that call the driver
          Main,        \* of these, the kernel's own task
          Lbas,        \* sectors
          Values,      \* what a word may hold
          Words,       \* words of a sector, 256 in the code
          Zero         \* what a new disk holds

ASSUME DiskAssumption ==
  Main \in Clients /\ Words \in Nat \ {0} /\ Zero \in Values /\ Lbas # {}

Sectors == [1..Words -> Values]
Blank   == [i \in 1..Words |-> Zero]

VARIABLES
  ata_lock,
  pc,            \* where each client is in ata_read_sector or ata_write_sector
  call,          \* its arguments, its buffer and the index of its loop
  regs,          \* the sector in the drive's address registers
  drive,         \* the drive: phase, command, sector, words of its buffer
  cache, media,  \* what the drive holds, and what is on the plates
  taken,         \* the drive took the last flush command (history)
  refused        \* the last transfer, or its flush, ended with an error (history)

vars == <<ata_lock, pc, call, regs, drive, cache, media, taken, refused>>

(* BSY and DRQ, the two status bits the driver looks at. *)
Bsy == drive.phase \in {"fetching", "accepting", "storing", "flushing"}
Drq == drive.phase \in {"sending", "receiving"}

Holding == {"ready", "select", "command", "busy", "data", "move", "flush", "settle", "release"}

NoCall == [op |-> "read", lba |-> CHOOSE l \in Lbas : TRUE, buffer |-> <<>>, i |-> 1]

Goto(c, label) == pc' = [pc EXCEPT ![c] = label]

Init ==
  /\ ata_lock = 0 /\ pc = [c \in Clients |-> "idle"]
  /\ call = [c \in Clients |-> NoCall] /\ regs = NoCall.lba
  /\ drive = [phase |-> "idle", lba |-> regs, words |-> <<>>]
  /\ cache = [l \in Lbas |-> Blank] /\ media = cache /\ taken = FALSE /\ refused = FALSE

-----------------------------------------------------------------------------
(* The driver *)

Start(c) ==
  /\ pc[c] = "idle" /\ Goto(c, "acquire")
  /\ \E l \in Lbas, v \in Values, op \in {"read", "write"} :
       call' = [call EXCEPT ![c] = [op |-> op, lba |-> l, i |-> 1,
                  buffer |-> IF op = "read" THEN <<>> ELSE [j \in 1..Words |-> v]]]
  /\ UNCHANGED <<ata_lock, regs, drive, cache, media, taken, refused>>

AcquireUntested(c) ==
  /\ pc[c] = "acquire" /\ Goto(c, "ready") /\ ata_lock' = 1
  /\ UNCHANGED <<call, regs, drive, cache, media, taken, refused>>

AcquireAta(c) ==
  /\ pc[c] = "acquire" /\ ata_lock = 0
  /\ ata_lock' = 1 /\ Goto(c, "ready")
  /\ UNCHANGED <<call, regs, drive, cache, media, taken, refused>>

WaitBsyOnlyBefore(c) ==
  /\ \/ pc[c] = "ready"  /\ ~Bsy /\ Goto(c, "select")
     \/ pc[c] = "busy"   /\ Goto(c, "data")
     \/ pc[c] = "settle" /\ Goto(c, "release")
  /\ UNCHANGED <<ata_lock, call, regs, drive, cache, media, taken, refused>>

(* ata_wait_bsy, before the command, after it, and after the flush. *)
WaitBsy(c) ==
  /\ ~Bsy
  /\ \/ pc[c] = "ready"  /\ Goto(c, "select")
     \/ pc[c] = "busy"   /\ Goto(c, "data")
     \/ pc[c] = "settle" /\ Goto(c, "release")
  /\ UNCHANGED <<ata_lock, call, regs, drive, cache, media, taken, refused>>

Select(c) ==
  /\ pc[c] = "select" /\ Goto(c, "command")
  /\ regs' = call[c].lba
  /\ UNCHANGED <<ata_lock, call, drive, cache, media, taken, refused>>

(* 0x20 or 0x30 to the command port; a drive at work does not take it. *)
Command(c) ==
  /\ pc[c] = "command" /\ Goto(c, "busy")
  /\ drive' = IF Bsy \/ Drq THEN drive
              ELSE [phase |-> IF call[c].op = "read" THEN "fetching" ELSE "accepting",
                    lba |-> regs, words |-> <<>>]
  /\ refused' = FALSE
  /\ UNCHANGED <<ata_lock, call, regs, cache, media, taken>>

WaitDrq(c) ==
  /\ pc[c] = "data" /\ Drq /\ Goto(c, "move")
  /\ UNCHANGED <<ata_lock, call, regs, drive, cache, media, taken, refused>>

(* One inw of the loop; a drive with nothing to send gives a word of no meaning. *)
ReadWord(c) ==
  /\ pc[c] = "move" /\ call[c].op = "read"
  /\ IF drive.phase = "sending"
     THEN /\ call' = [call EXCEPT ![c].buffer = Append(@, Head(drive.words))]
          /\ drive' = [drive EXCEPT !.words = Tail(@),
                         !.phase = IF Len(drive.words) = 1 THEN "idle" ELSE @]
     ELSE /\ call' = [call EXCEPT ![c].buffer = Append(@, Zero)]
          /\ UNCHANGED drive
  /\ IF Len(call[c].buffer) = Words - 1 THEN Goto(c, "release") ELSE UNCHANGED pc
  /\ UNCHANGED <<ata_lock, regs, cache, media, taken, refused>>

(* One outw; with the last word the drive becomes busy storing the sector. *)
WriteWord(c) ==
  /\ pc[c] = "move" /\ call[c].op = "write"
  /\ call' = [call EXCEPT ![c].i = @ + 1]
  /\ drive' = IF drive.phase # "receiving" THEN drive
              ELSE [drive EXCEPT !.words = Append(@, call[c].buffer[call[c].i]),
                      !.phase = IF Len(drive.words) = Words - 1 THEN "storing" ELSE @]
  /\ IF call[c].i = Words THEN Goto(c, "flush") ELSE UNCHANGED pc
  /\ UNCHANGED <<ata_lock, regs, cache, media, taken, refused>>

(* 0xE7 follows the last word at once: a drive still storing the sector *)
(* does not take it, and the wait after it is a wait for the sector.    *)
FlushAndReturn(c) ==
  /\ pc[c] = "flush" /\ Goto(c, "release")
  /\ taken' = ~(Bsy \/ Drq)
  /\ drive' = IF taken' THEN [drive EXCEPT !.phase = "flushing"] ELSE drive
  /\ UNCHANGED <<ata_lock, call, regs, cache, media, refused>>

Flush(c) ==
  /\ pc[c] = "flush" /\ Goto(c, "settle")
  /\ taken' = ~(Bsy \/ Drq)
  /\ drive' = IF taken' THEN [drive EXCEPT !.phase = "flushing"] ELSE drive
  /\ UNCHANGED <<ata_lock, call, regs, cache, media, refused>>

ReleaseAta(c) ==
  /\ pc[c] = "release" /\ Goto(c, "idle") /\ ata_lock' = 0
  /\ call' = [call EXCEPT ![c] = NoCall]
  /\ UNCHANGED <<regs, drive, cache, media, taken, refused>>

Client(c) ==
  \/ AcquireAta(c) \/ WaitBsy(c) \/ Select(c) \/ Command(c) \/ WaitDrq(c)
  \/ ReadWord(c) \/ WriteWord(c) \/ Flush(c) \/ ReleaseAta(c)

-----------------------------------------------------------------------------
(* The drive *)

Fetch ==
  /\ drive.phase = "fetching"
  /\ drive' = [drive EXCEPT !.phase = "sending", !.words = cache[drive.lba]]
  /\ UNCHANGED <<ata_lock, pc, call, regs, cache, media, taken, refused>>

Accept ==
  /\ drive.phase = "accepting"
  /\ drive' = [drive EXCEPT !.phase = "receiving"]
  /\ UNCHANGED <<ata_lock, pc, call, regs, cache, media, taken, refused>>

Store ==
  /\ drive.phase = "storing"
  /\ drive' = [drive EXCEPT !.phase = "idle", !.words = <<>>]
  /\ cache' = [cache EXCEPT ![drive.lba] = drive.words]
  /\ UNCHANGED <<ata_lock, pc, call, regs, media, taken, refused>>

FlushCache ==
  /\ drive.phase = "flushing"
  /\ drive' = [drive EXCEPT !.phase = "idle"]
  /\ media' = cache
  /\ UNCHANGED <<ata_lock, pc, call, regs, cache, taken, refused>>

Device == Fetch \/ Accept \/ Store \/ FlushCache

(* The command, or the flush, ends with ERR set, BSY and DRQ clear.  The   *)
(* driver reads no error bit.                                              *)
Error ==
  /\ drive.phase \in {"fetching", "accepting", "storing", "flushing"}
  /\ drive' = [drive EXCEPT !.phase = "error", !.words = <<>>]
  /\ refused' = TRUE
  /\ UNCHANGED <<ata_lock, pc, call, regs, cache, media, taken>>

WriteBack ==
  /\ \E l \in Lbas : media' = [media EXCEPT ![l] = cache[l]] /\ media' # media
  /\ UNCHANGED <<ata_lock, pc, call, regs, drive, cache, taken, refused>>

(* The machine restarts: the lock is a static that starts at 0. *)
PowerFails ==
  /\ ata_lock' = 0 /\ pc' = [c \in Clients |-> "idle"] /\ call' = [c \in Clients |-> NoCall]
  /\ drive' = [drive EXCEPT !.phase = "idle", !.words = <<>>]
  /\ cache' = media
  /\ UNCHANGED <<regs, media, taken, refused>>

Next ==
  \/ \E c \in Clients : Start(c) \/ Client(c)
  \/ Device \/ Error \/ WriteBack \/ PowerFails

(* A drive ends what it began, and the kernel's own task runs again and    *)
(* again.  No other task does: while that one waits it only yields, and    *)
(* schedule() then picks it again before any task of a lower priority.     *)
(* Nothing makes a client call.                                            *)
Fairness == WF_vars(Device) /\ WF_vars(Client(Main))

Spec == Init /\ [][Next]_vars /\ Fairness
-----------------------------------------------------------------------------
(* Properties *)

(* When a write is about to return, and neither it nor its flush ended     *)
(* with an error, its sector is stored; and if the drive took the flush,   *)
(* it is on the plates with everything written before it, since the wait   *)
(* after 0xE7 is then a wait for the flush.  The flush follows the last    *)
(* word without a wait for the sector, so the drive need not take it: the  *)
(* sector may then be in the cache only.  And a write that was refused     *)
(* returns 1 like any other.                                               *)
KeptOnceFlushed ==
  \A c \in Clients :
    pc[c] = "release" /\ call[c].op = "write" /\ ~refused =>
      cache[call[c].lba] = call[c].buffer /\ (taken => media = cache)

(* Where a call is for its caller: it has taken effect once the drive has  *)
(* looked the sector up, or has stored it, whatever of it is still moving. *)
Looked(c) ==
  pc[c] \in {"move", "release"} \/ (pc[c] \in {"busy", "data"} /\ drive.phase = "sending")

Stored(c) == pc[c] \in {"flush", "settle", "release"} /\ drive.phase # "storing"

Caller(c) ==
  IF pc[c] = "idle" THEN [op |-> "read", lba |-> NoCall.lba, data |-> <<>>, phase |-> "none"]
  ELSE [op |-> call[c].op, lba |-> call[c].lba,
        data |-> call[c].buffer \o (IF call[c].op = "read" /\ Looked(c) THEN drive.words ELSE <<>>),
        phase |-> IF (call[c].op = "read" /\ Looked(c)) \/ (call[c].op = "write" /\ Stored(c))
                  THEN "done" ELSE "pending"]

SS == INSTANCE SectorStore WITH
  Initial <- Blank, store <- cache, settled <- media, call <- [c \in Clients |-> Caller(c)]

(* The driver and its drive implement the store of whole sectors: no call  *)
(* returns words of another's transfer or of another sector, and a loss of *)
(* power leaves every sector whole.                                        *)
StoreSpec == SS!Spec

(* A call of the kernel's own task returns, but for two cases: the drive   *)
(* has ended its command with an error (ata_wait_drq looks at no error bit *)
(* and then waits for ever, with the lock), or another task has the lock,  *)
(* of which nothing says that it runs while this one spins.                *)
TransfersEnd ==
  pc[Main] # "idle" ~>
    \/ pc[Main] = "idle"
    \/ pc[Main] = "data" /\ drive.phase = "error"
    \/ \E c \in Clients \ {Main} : pc[c] \in Holding
==============================================================================
