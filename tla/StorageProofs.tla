----------------------------- MODULE StorageProofs ----------------------------
(***************************************************************************)
(* The disk: its driver, and the files on it.  Neither part uses the other *)
(* (a sector write of FileSystem is one operation of SectorStore).         *)
(*                                                                         *)
(* The driver and its drive implement SectorStore, for any number of       *)
(* tasks, sectors, words and values.  The argument: whoever is past the    *)
(* lock is alone there, and the drive does nothing but that client's       *)
(* command.  What the drive is doing therefore follows from where the      *)
(* client stands, and the words that the client and the drive hold between *)
(* them are the sector.                                                    *)
(*                                                                         *)
(* The files: what crashes, failed writes and later writes can do to one   *)
(* whose write returned 1, and what its name reads back, for a directory,  *)
(* names and files of any size.  The argument: slots are taken in order    *)
(* and never given back, so that the write in progress is always that of   *)
(* the last slot.  A sector it shares with an earlier file therefore lies  *)
(* beyond its own slot's home, counted from the earlier one, which is what *)
(* the property allows.                                                    *)
(***************************************************************************)
EXTENDS Disk, FileSystem, SequenceTheorems, TLAPS

Phases == {"idle", "fetching", "sending", "accepting", "receiving", "storing", "flushing", "error"}

Labels == {"idle", "acquire"} \cup Holding

(* Between the command and the end of the work it started. *)
Working == {"busy", "data", "move", "flush", "settle"}

Calls == [op : {"read", "write"}, lba : Lbas, buffer : Seq(Values), i : Nat]

TypeInv ==
  /\ ata_lock \in {0, 1}
  /\ pc \in [Clients -> Labels]
  /\ call \in [Clients -> Calls]
  /\ regs \in Lbas
  /\ drive \in [phase : Phases, lba : Lbas, words : Seq(Values)]
  /\ cache \in [Lbas -> Sectors] /\ media \in [Lbas -> Sectors]
  /\ taken \in BOOLEAN /\ refused \in BOOLEAN

LockInv ==
  /\ \A c \in Clients : pc[c] \in Holding => ata_lock = 1
  /\ \A c, d \in Clients : pc[c] \in Holding /\ pc[d] \in Holding => c = d

(* Without a client that waits for it the drive is at rest. *)
QuietInv == (\A c \in Clients : pc[c] \notin Working) => drive.phase \in {"idle", "error"}

CallInv(c) ==
  /\ pc[c] # "idle" /\ call[c].op = "write" => call[c].buffer \in Sectors
  /\ pc[c] \in {"acquire", "ready", "select", "command", "busy", "data"} =>
       /\ call[c].i = 1
       /\ call[c].op = "read" => call[c].buffer = <<>>
  /\ pc[c] = "command" => regs = call[c].lba

ReadInv(c) ==
  call[c].op = "read" =>
    /\ pc[c] \in {"busy", "data"} =>
         /\ drive.phase \in {"fetching", "sending", "error"} /\ drive.lba = call[c].lba
         /\ drive.phase = "sending" => Len(drive.words) = Words
    /\ pc[c] = "move" =>
         /\ drive.phase = "sending" /\ drive.words # <<>>
         /\ Len(call[c].buffer) + Len(drive.words) = Words
    /\ pc[c] = "release" => drive.phase = "idle" /\ drive.words = <<>>
    /\ pc[c] \notin {"flush", "settle"}

(* The drive has the first n words of the client's sector. *)
Received(c, n) ==
  /\ drive.lba = call[c].lba /\ Len(drive.words) = n
  /\ \A j \in 1..n : drive.words[j] = call[c].buffer[j]

Unstored(c) == drive.phase = "storing" /\ Received(c, Words)

(* The sector is in the cache, or the drive gave an error. *)
Landed(c) == refused \/ cache[call[c].lba] = call[c].buffer

WriteInv(c) ==
  call[c].op = "write" =>
    /\ pc[c] \in {"busy", "data"} =>
         drive.phase = "error" \/ (drive.phase \in {"accepting", "receiving"} /\ Received(c, 0))
    /\ pc[c] = "move" =>
         drive.phase = "receiving" /\ call[c].i \in 1..Words /\ Received(c, call[c].i - 1)
    /\ pc[c] = "flush" => (drive.phase \in {"idle", "error"} /\ Landed(c)) \/ Unstored(c)
    /\ pc[c] = "settle" /\ taken =>
         /\ Landed(c)
         /\ \/ drive.phase = "flushing"
            \/ drive.phase = "idle" /\ media = cache
            \/ drive.phase = "error" /\ refused
    /\ pc[c] = "settle" /\ ~taken => (drive.phase \in {"idle", "error"} /\ Landed(c)) \/ Unstored(c)
    /\ pc[c] = "release" =>
         drive.phase \in {"idle", "error"} /\ Landed(c) /\ (taken => refused \/ media = cache)

At(c) == CallInv(c) /\ ReadInv(c) /\ WriteInv(c)

IInv == TypeInv /\ LockInv /\ QuietInv /\ \A c \in Clients : At(c)
-------------------------------------------------------------------------------
(* What a step leaves of the invariant *)

LEMMA LabelTypes == Working \subseteq Holding /\ "idle" \notin Holding /\ "acquire" \notin Holding
BY DEF Working, Holding

(* A client outside the lock is not concerned by what the drive does. *)
LEMMA AtOutside ==
  ASSUME NEW d \in Clients, At(d), pc[d] \notin Holding, pc'[d] = pc[d], call'[d] = call[d]
  PROVE  At(d)'
<1>1. pc'[d] \notin {"ready", "select", "command", "busy", "data", "move", "flush", "settle", "release"}
  BY DEF Holding
<1>2. CallInv(d)'
  BY <1>1 DEF At, CallInv
<1>3. ReadInv(d)' /\ WriteInv(d)'
  BY <1>1 DEF ReadInv, WriteInv
<1>4. QED
  BY <1>2, <1>3 DEF At

LEMMA AtUntouched ==
  ASSUME NEW d \in Clients, At(d), pc'[d] = pc[d], call'[d] = call[d], drive' = drive, regs' = regs,
         taken' = taken, refused' = refused, cache' = cache, media = cache => media' = cache'
  PROVE  At(d)'
<1>1. CallInv(d)'
  BY DEF At, CallInv
<1>2. ReadInv(d)'
  BY DEF At, ReadInv
<1>3. ASSUME NEW n PROVE Received(d, n)' <=> Received(d, n)
  BY DEF Received
<1>4. Unstored(d)' <=> Unstored(d)
  BY <1>3 DEF Unstored
<1>l. Landed(d)' <=> Landed(d)
  BY DEF Landed
<1>5. WriteInv(d)'
  BY <1>3, <1>4, <1>l DEF At, WriteInv
<1>6. QED
  BY <1>1, <1>2, <1>5 DEF At

(* Steps of the client that has the lock, and of the drive that works for it. *)
LEMMA StepWithin ==
  ASSUME IInv, NEW c \in Clients, pc[c] \in Holding, pc'[c] \in Holding, ata_lock' = ata_lock,
         \A d \in Clients : d # c => pc'[d] = pc[d] /\ call'[d] = call[d],
         pc'[c] \in Working \/ drive'.phase \in {"idle", "error"},
         TypeInv', At(c)'
  PROVE  IInv'
<1>1. \A d \in Clients : d # c => pc'[d] \notin Holding /\ pc[d] \notin Holding
  BY DEF IInv, LockInv
<1>2. LockInv'
  BY <1>1 DEF IInv, LockInv
<1>3. QuietInv'
  BY DEF QuietInv
<1>4. ASSUME NEW d \in Clients PROVE At(d)'
  <2>1. CASE d = c
    BY <2>1
  <2>2. CASE d # c
    BY <1>1, <2>2, AtOutside DEF IInv
  <2>3. QED
    BY <2>1, <2>2
<1>5. QED
  BY <1>2, <1>3, <1>4 DEF IInv

LEMMA InitInv == Init => IInv
<1> SUFFICES ASSUME Init PROVE IInv
  OBVIOUS
<1>1. NoCall.lba \in Lbas /\ NoCall \in Calls
  BY DiskAssumption DEF NoCall, Calls
<1>2. Blank \in Sectors /\ <<>> \in Seq(Values)
  BY DiskAssumption DEF Blank, Sectors
<1>3. TypeInv
  BY <1>1, <1>2 DEF Init, TypeInv, Labels, Phases
<1>4. LockInv /\ QuietInv
  BY DEF Init, LockInv, QuietInv, Holding, Working
<1>5. ASSUME NEW c \in Clients PROVE At(c)
  BY DEF Init, At, CallInv, ReadInv, WriteInv
<1>6. QED
  BY <1>3, <1>4, <1>5 DEF IInv

LEMMA StartStep ==
  ASSUME IInv, NEW c \in Clients, Start(c)
  PROVE  IInv'
<1>1. PICK l \in Lbas, v \in Values, kind \in {"read", "write"} :
        call' = [call EXCEPT ![c] = [op |-> kind, lba |-> l, i |-> 1,
                   buffer |-> IF kind = "read" THEN <<>> ELSE [j \in 1..Words |-> v]]]
  BY DEF Start
<1> DEFINE new == [op |-> kind, lba |-> l, i |-> 1,
                   buffer |-> IF kind = "read" THEN <<>> ELSE [j \in 1..Words |-> v]]
<1>2. new.op = kind /\ new.i = 1 /\ (kind = "read" => new.buffer = <<>>) /\ (kind = "write" => new.buffer \in Sectors)
  BY DEF Sectors
<1>3. new \in Calls
  <2>1. [j \in 1..Words |-> v] \in Seq(Values) /\ <<>> \in Seq(Values)
    BY DiskAssumption
  <2>2. QED
    BY <2>1 DEF Calls
<1>4. call' = [call EXCEPT ![c] = new] /\ pc' = [pc EXCEPT ![c] = "acquire"] /\ pc[c] = "idle"
      /\ UNCHANGED <<ata_lock, regs, drive, cache, media, taken, refused>>
  BY <1>1 DEF Start, Goto
<1> HIDE DEF new
<1>5. TypeInv'
  BY <1>3, <1>4 DEF IInv, TypeInv, Labels
<1>6. \A d \in Clients : d # c => pc'[d] = pc[d] /\ call'[d] = call[d]
  BY <1>4 DEF IInv, TypeInv
<1>7. pc'[c] = "acquire" /\ call'[c] = new
  BY <1>4 DEF IInv, TypeInv
<1>8. LockInv' /\ QuietInv'
  BY <1>4, <1>6, <1>7, LabelTypes DEF IInv, LockInv, QuietInv, Working
<1>9. ASSUME NEW d \in Clients PROVE At(d)'
  <2>1. CASE d = c
    <3>1. CallInv(c)'
      BY <1>2, <1>7 DEF CallInv
    <3>2. ReadInv(c)' /\ WriteInv(c)'
      BY <1>7 DEF ReadInv, WriteInv
    <3>3. QED
      BY <2>1, <3>1, <3>2 DEF At
  <2>2. CASE d # c
    BY <2>2, <1>4, <1>6, AtUntouched DEF IInv
  <2>3. QED
    BY <2>1, <2>2
<1>10. QED
  BY <1>5, <1>8, <1>9 DEF IInv

LEMMA AcquireStep ==
  ASSUME IInv, NEW c \in Clients, AcquireAta(c)
  PROVE  IInv'
<1>1. pc' = [pc EXCEPT ![c] = "ready"] /\ pc[c] = "acquire" /\ ata_lock = 0 /\ ata_lock' = 1
      /\ UNCHANGED <<call, regs, drive, cache, media, taken, refused>>
  BY DEF AcquireAta, Goto
<1>2. TypeInv'
  BY <1>1 DEF IInv, TypeInv, Labels, Holding
<1>3. pc'[c] = "ready" /\ \A d \in Clients : d # c => pc'[d] = pc[d]
  BY <1>1 DEF IInv, TypeInv
<1>4. \A d \in Clients : pc[d] \notin Holding
  BY <1>1 DEF IInv, LockInv
<1>5. LockInv'
  BY <1>1, <1>3, <1>4 DEF LockInv
<1>6. QuietInv'
  BY <1>1, <1>3, <1>4, LabelTypes DEF IInv, QuietInv
<1>7. ASSUME NEW d \in Clients PROVE At(d)'
  <2>1. CASE d = c
    BY <2>1, <1>1, <1>3 DEF IInv, At, CallInv, ReadInv, WriteInv
  <2>2. CASE d # c
    BY <2>2, <1>1, <1>3, <1>4, AtOutside DEF IInv
  <2>3. QED
    BY <2>1, <2>2
<1>8. QED
  BY <1>2, <1>5, <1>6, <1>7 DEF IInv

-------------------------------------------------------------------------------
(* The client that has the lock *)

LEMMA WaitBsyStep ==
  ASSUME IInv, NEW c \in Clients, WaitBsy(c)
  PROVE  IInv'
<1>1. UNCHANGED <<ata_lock, call, regs, drive, cache, media, taken, refused>>
  BY DEF WaitBsy
<1>2. PICK label \in {"select", "data", "release"} :
        /\ pc' = [pc EXCEPT ![c] = label]
        /\ (label = "select" /\ pc[c] = "ready") \/ (label = "data" /\ pc[c] = "busy")
           \/ (label = "release" /\ pc[c] = "settle")
  BY DEF WaitBsy, Goto
<1>3. drive.phase \notin {"fetching", "accepting", "storing", "flushing"}
  BY DEF WaitBsy, Bsy
<1>4. pc'[c] = label /\ \A d \in Clients : d # c => pc'[d] = pc[d]
  BY <1>2 DEF IInv, TypeInv
<1>5. TypeInv'
  BY <1>1, <1>2 DEF IInv, TypeInv, Labels, Holding
<1>6. \A n : Received(c, n)' <=> Received(c, n)
  BY <1>1 DEF Received
<1>7. At(c)'
  <2>1. CallInv(c)' /\ ReadInv(c)'
    BY <1>1, <1>2, <1>3, <1>4 DEF IInv, At, CallInv, ReadInv
  <2>2. WriteInv(c)'
    BY <1>1, <1>2, <1>3, <1>4, <1>6 DEF IInv, At, WriteInv, Unstored, Landed
  <2>3. QED
    BY <2>1, <2>2 DEF At
<1>8. pc'[c] \in Working \/ drive'.phase \in {"idle", "error"}
  <2>1. CASE label = "select"
    <3>1. \A d \in Clients : pc[d] \notin Working
      BY <2>1, <1>2 DEF IInv, LockInv, Holding, Working
    <3>2. QED
      BY <3>1, <1>1 DEF IInv, QuietInv
  <2>2. CASE label = "data"
    BY <2>2, <1>4 DEF Working
  <2>3. CASE label = "release"
    BY <2>3, <1>1, <1>2, <1>3 DEF IInv, TypeInv, Calls, At, ReadInv, WriteInv, Unstored
  <2>4. QED
    BY <2>1, <2>2, <2>3
<1>9. pc[c] \in Holding /\ pc'[c] \in Holding
  BY <1>2, <1>4 DEF Holding
<1>10. QED
  BY <1>1, <1>4, <1>5, <1>7, <1>8, <1>9, StepWithin

(* Before the command the drive is at rest. *)
LEMMA QuietBefore ==
  ASSUME IInv, NEW c \in Clients, pc[c] \in {"ready", "select", "command", "release"}
  PROVE  drive.phase \in {"idle", "error"}
<1>1. \A d \in Clients : pc[d] \notin Working
  BY DEF IInv, LockInv, Holding, Working
<1>2. QED
  BY <1>1 DEF IInv, QuietInv

LEMMA SelectStep ==
  ASSUME IInv, NEW c \in Clients, Select(c)
  PROVE  IInv'
<1>1. pc' = [pc EXCEPT ![c] = "command"] /\ pc[c] = "select" /\ regs' = call[c].lba
      /\ UNCHANGED <<ata_lock, call, drive, cache, media, taken, refused>>
  BY DEF Select, Goto
<1>2. pc'[c] = "command" /\ \A d \in Clients : d # c => pc'[d] = pc[d]
  BY <1>1 DEF IInv, TypeInv
<1>3. TypeInv'
  BY <1>1 DEF IInv, TypeInv, Labels, Holding, Calls
<1>4. At(c)'
  BY <1>1, <1>2 DEF IInv, At, CallInv, ReadInv, WriteInv
<1>5. drive'.phase \in {"idle", "error"}
  BY <1>1, QuietBefore
<1>6. pc[c] \in Holding /\ pc'[c] \in Holding
  BY <1>1, <1>2 DEF Holding
<1>7. QED
  BY <1>1, <1>2, <1>3, <1>4, <1>5, <1>6, StepWithin

LEMMA CommandStep ==
  ASSUME IInv, NEW c \in Clients, Command(c)
  PROVE  /\ IInv'
         /\ drive' = [phase |-> IF call[c].op = "read" THEN "fetching" ELSE "accepting",
                      lba |-> call[c].lba, words |-> <<>>]
<1>1. pc' = [pc EXCEPT ![c] = "busy"] /\ pc[c] = "command" /\ refused' = FALSE
      /\ UNCHANGED <<ata_lock, call, regs, cache, media, taken>>
  BY DEF Command, Goto
<1>2. pc'[c] = "busy" /\ \A d \in Clients : d # c => pc'[d] = pc[d]
  BY <1>1 DEF IInv, TypeInv
<1>3. regs = call[c].lba
  BY <1>1 DEF IInv, At, CallInv
<1>4. drive' = [phase |-> IF call[c].op = "read" THEN "fetching" ELSE "accepting",
                lba |-> call[c].lba, words |-> <<>>]
  BY <1>1, <1>3, QuietBefore DEF Command, Bsy, Drq
<1>5. drive'.lba = call[c].lba /\ drive'.words = <<>> /\ drive'.phase \in {"fetching", "accepting"}
      /\ (call[c].op = "read" => drive'.phase = "fetching") /\ (call[c].op = "write" => drive'.phase = "accepting")
  BY <1>4
<1>6. TypeInv'
  <2>1. <<>> \in Seq(Values) /\ call[c].lba \in Lbas
    BY DEF IInv, TypeInv, Calls
  <2>2. drive' \in [phase : Phases, lba : Lbas, words : Seq(Values)]
    BY <2>1, <1>4 DEF Phases
  <2>3. pc' \in [Clients -> Labels]
    BY <1>1 DEF IInv, TypeInv, Labels, Holding
  <2>4. QED
    BY <2>2, <2>3, <1>1 DEF IInv, TypeInv
<1>7. At(c)'
  <2>1. CallInv(c)'
    BY <1>1, <1>2 DEF IInv, At, CallInv
  <2>2. ReadInv(c)'
    BY <1>1, <1>2, <1>5 DEF ReadInv
  <2>3. Received(c, 0)'
    BY <1>1, <1>5 DEF Received
  <2>4. WriteInv(c)'
    BY <1>1, <1>2, <1>5, <2>3 DEF WriteInv
  <2>5. QED
    BY <2>1, <2>2, <2>4 DEF At
<1>8. pc[c] \in Holding /\ pc'[c] \in Holding /\ pc'[c] \in Working
  BY <1>1, <1>2 DEF Holding, Working
<1>9. QED
  BY <1>1, <1>2, <1>4, <1>6, <1>7, <1>8, StepWithin

LEMMA WaitDrqStep ==
  ASSUME IInv, NEW c \in Clients, WaitDrq(c)
  PROVE  IInv' /\ (call[c].op = "read" => drive.phase = "sending")
<1>1. pc' = [pc EXCEPT ![c] = "move"] /\ pc[c] = "data" /\ drive.phase \in {"sending", "receiving"}
      /\ UNCHANGED <<ata_lock, call, regs, drive, cache, media, taken, refused>>
  BY DEF WaitDrq, Goto, Drq
<1>2. pc'[c] = "move" /\ \A d \in Clients : d # c => pc'[d] = pc[d]
  BY <1>1 DEF IInv, TypeInv
<1>3. TypeInv'
  BY <1>1 DEF IInv, TypeInv, Labels, Holding
<1>4. call[c].op = "read" => drive.phase = "sending" /\ Len(drive.words) = Words /\ call[c].buffer = <<>>
  BY <1>1 DEF IInv, At, ReadInv, CallInv
<1>5. call[c].op = "write" => drive.phase = "receiving" /\ Received(c, 0) /\ call[c].i = 1
  BY <1>1 DEF IInv, At, WriteInv, CallInv
<1>6. At(c)'
  <2>1. CallInv(c)'
    BY <1>1, <1>2 DEF IInv, At, CallInv
  <2>2. ReadInv(c)'
    <3>1. Len(<<>>) = 0 /\ Words # 0 /\ 0 + Words = Words
      BY DiskAssumption
    <3>2. call[c].op = "read" => drive.words # <<>> /\ Len(call[c].buffer) + Len(drive.words) = Words
      BY <1>4, <3>1
    <3>3. QED
      BY <1>1, <1>2, <1>4, <3>2 DEF ReadInv
  <2>3. Received(c, 0)' <=> Received(c, 0)
    BY <1>1 DEF Received
  <2>4. WriteInv(c)'
    BY <1>1, <1>2, <1>5, <2>3, DiskAssumption DEF WriteInv
  <2>5. QED
    BY <2>1, <2>2, <2>4 DEF At
<1>7. pc[c] \in Holding /\ pc'[c] \in Holding /\ pc'[c] \in Working
  BY <1>1, <1>2 DEF Holding, Working
<1>8. QED
  BY <1>1, <1>2, <1>3, <1>4, <1>6, <1>7, StepWithin

LEMMA MoveWord ==
  ASSUME NEW s \in Seq(Values), NEW t \in Seq(Values), t # <<>>
  PROVE  /\ Head(t) \in Values /\ Tail(t) \in Seq(Values) /\ Len(Tail(t)) = Len(t) - 1
         /\ Append(s, Head(t)) \in Seq(Values) /\ Len(Append(s, Head(t))) = Len(s) + 1
         /\ Append(s, Head(t)) \o Tail(t) = s \o t
<1>1. Head(t) \in Values /\ Tail(t) \in Seq(Values) /\ Len(Tail(t)) = Len(t) - 1 /\ t = <<Head(t)>> \o Tail(t)
  BY HeadTailProperties
<1>2. Append(s, Head(t)) \in Seq(Values) /\ Len(Append(s, Head(t))) = Len(s) + 1
  BY <1>1, AppendProperties
<1>3. Append(s, Head(t)) = s \o <<Head(t)>> /\ <<Head(t)>> \in Seq(Values)
  BY <1>1, AppendIsConcat
<1>4. (s \o <<Head(t)>>) \o Tail(t) = s \o (<<Head(t)>> \o Tail(t))
  BY <1>1, <1>3, ConcatAssociative
<1>5. QED
  BY <1>1, <1>2, <1>3, <1>4

LEMMA ReadWordStep ==
  ASSUME IInv, NEW c \in Clients, ReadWord(c)
  PROVE  /\ IInv'
         /\ drive.phase = "sending" /\ pc'[c] \in {"move", "release"}
         /\ call'[c] \in Calls /\ call'[c].op = call[c].op /\ call'[c].lba = call[c].lba
         /\ call'[c].buffer \o drive'.words = call[c].buffer \o drive.words
<1>1. pc[c] = "move" /\ call[c].op = "read" /\ UNCHANGED <<ata_lock, regs, cache, media, taken, refused>>
  BY DEF ReadWord
<1>2. drive.phase = "sending" /\ drive.words # <<>> /\ Len(call[c].buffer) + Len(drive.words) = Words
  BY <1>1 DEF IInv, At, ReadInv
<1>3. call[c].buffer \in Seq(Values) /\ drive.words \in Seq(Values)
  BY DEF IInv, TypeInv, Calls
<1>n. PICK a \in Nat, b \in Nat : a = Len(call[c].buffer) /\ b = Len(drive.words)
  BY <1>3
<1>w. (a = Words - 1 <=> b = 1) /\ (a + 1) + (b - 1) = Words
  <2>1. a + b = Words
    BY <1>2, <1>n
  <2>2. QED
    BY <2>1
<1> DEFINE buffer == Append(call[c].buffer, Head(drive.words))
           rest == Tail(drive.words)
           phase == IF Len(drive.words) = 1 THEN "idle" ELSE "sending"
<1>4. call' = [call EXCEPT ![c].buffer = buffer]
  BY <1>2 DEF ReadWord
<1>5. drive' = [drive EXCEPT !.words = rest, !.phase = phase]
  BY <1>2 DEF ReadWord
<1>6. /\ rest \in Seq(Values) /\ Len(rest) = Len(drive.words) - 1
      /\ buffer \in Seq(Values) /\ Len(buffer) = Len(call[c].buffer) + 1
      /\ buffer \o rest = call[c].buffer \o drive.words
  BY <1>2, <1>3, MoveWord
<1>7. IF Len(drive.words) = 1 THEN pc' = [pc EXCEPT ![c] = "release"] ELSE pc' = pc
  <2>1. IF Len(call[c].buffer) = Words - 1 THEN pc' = [pc EXCEPT ![c] = "release"] ELSE pc' = pc
    BY DEF ReadWord, Goto
  <2>2. QED
    BY <2>1, <1>n, <1>w
<1> HIDE DEF buffer, rest, phase
<1>8. /\ call'[c].buffer = buffer /\ call'[c].op = "read" /\ call'[c].lba = call[c].lba /\ call'[c] \in Calls
      /\ \A d \in Clients : d # c => call'[d] = call[d]
  BY <1>1, <1>4, <1>6 DEF IInv, TypeInv, Calls
<1>9. drive'.words = rest /\ drive'.phase = phase
  BY <1>5 DEF IInv, TypeInv
<1>10. /\ pc'[c] = IF Len(drive.words) = 1 THEN "release" ELSE "move"
       /\ \A d \in Clients : d # c => pc'[d] = pc[d]
  BY <1>1, <1>7 DEF IInv, TypeInv
<1>11. TypeInv'
  <2>1. call' \in [Clients -> Calls]
    BY <1>4, <1>6 DEF IInv, TypeInv, Calls
  <2>2. drive' \in [phase : Phases, lba : Lbas, words : Seq(Values)]
    BY <1>5, <1>6 DEF IInv, TypeInv, Phases, phase
  <2>3. pc' \in [Clients -> Labels]
    BY <1>7 DEF IInv, TypeInv, Labels, Holding
  <2>4. QED
    BY <2>1, <2>2, <2>3, <1>1 DEF IInv, TypeInv
<1>12. At(c)'
  <2>1. CallInv(c)' /\ WriteInv(c)'
    BY <1>8, <1>10 DEF CallInv, WriteInv
  <2>2. Len(drive.words) = 1 => rest = <<>>
    BY <1>6, EmptySeq
  <2>3. Len(drive.words) # 1 => rest # <<>> /\ Len(buffer) + Len(rest) = Words
    <3>1. Len(drive.words) \in Nat /\ Len(call[c].buffer) \in Nat /\ Len(rest) \in Nat /\ Len(<<>>) = 0
      BY <1>3, <1>6
    <3>2. Len(buffer) + Len(rest) = Words
      BY <1>6, <1>n, <1>w
    <3>3. Len(drive.words) # 1 => Len(rest) # 0
      BY <3>1, <1>6
    <3>4. QED
      BY <3>1, <3>2, <3>3
  <2>4. ReadInv(c)'
    BY <2>2, <2>3, <1>8, <1>9, <1>10 DEF ReadInv, phase
  <2>5. QED
    BY <2>1, <2>4 DEF At
<1>13. /\ pc[c] \in Holding /\ pc'[c] \in Holding
       /\ pc'[c] \in Working \/ drive'.phase \in {"idle", "error"}
  BY <1>1, <1>9, <1>10 DEF Holding, Working, phase
<1>14. IInv'
  BY <1>1, <1>8, <1>10, <1>11, <1>12, <1>13, StepWithin
<1>15. QED
  BY <1>1, <1>2, <1>6, <1>8, <1>9, <1>10, <1>14

LEMMA WriteWordStep ==
  ASSUME IInv, NEW c \in Clients, WriteWord(c)
  PROVE  /\ IInv'
         /\ call'[c].op = call[c].op /\ call'[c].lba = call[c].lba /\ call'[c].buffer = call[c].buffer
         /\ \/ pc'[c] = "move"
            \/ pc'[c] = "flush" /\ drive'.phase = "storing"
<1>1. pc[c] = "move" /\ call[c].op = "write" /\ call' = [call EXCEPT ![c].i = @ + 1]
      /\ UNCHANGED <<ata_lock, regs, cache, media, taken, refused>>
  BY DEF WriteWord
<1>i. PICK i \in Nat : i = call[c].i
  BY DEF IInv, TypeInv, Calls
<1> DEFINE word == call[c].buffer[i]
           words == Append(drive.words, word)
           phase == IF i = Words THEN "storing" ELSE "receiving"
<1>2. drive.phase = "receiving" /\ i \in 1..Words /\ Received(c, i - 1) /\ call[c].buffer \in Sectors
  BY <1>1, <1>i DEF IInv, At, WriteInv, CallInv
<1>3. drive.words \in Seq(Values) /\ Len(drive.words) = i - 1 /\ drive.lba = call[c].lba
      /\ \A j \in 1..(i - 1) : drive.words[j] = call[c].buffer[j]
  BY <1>2 DEF IInv, TypeInv, Received
<1>4. word \in Values
  BY <1>2 DEF Sectors
<1>5. /\ words \in Seq(Values) /\ Len(words) = i /\ \A j \in 1..i : words[j] = call[c].buffer[j]
  <2>1. words \in Seq(Values) /\ Len(words) = Len(drive.words) + 1 /\ words[Len(drive.words) + 1] = word
        /\ \A j \in 1..Len(drive.words) : words[j] = drive.words[j]
    BY <1>3, <1>4, AppendProperties
  <2> HIDE DEF words
  <2>2. i \in Int /\ Len(drive.words) + 1 = i
    BY <1>2, <1>3, DiskAssumption
  <2>3. QED
    BY <1>3, <2>1, <2>2
<1>6. drive' = [drive EXCEPT !.words = words, !.phase = phase]
  <2>1. Len(drive.words) = Words - 1 <=> i = Words
    BY <1>2, <1>3, DiskAssumption
  <2>2. drive' = [drive EXCEPT !.words = words, !.phase = IF Len(drive.words) = Words - 1 THEN "storing" ELSE @]
    BY <1>2, <1>i DEF WriteWord
  <2>3. QED
    BY <2>1, <2>2, <1>2
<1>7. IF i = Words THEN pc' = [pc EXCEPT ![c] = "flush"] ELSE pc' = pc
  BY <1>i DEF WriteWord, Goto
<1>8. i \in Nat /\ i + 1 \in Nat /\ (i + 1) - 1 = i /\ (i # Words => i + 1 \in 1..Words)
  BY <1>2, DiskAssumption
<1> HIDE DEF word, words, phase
<1>9. /\ call'[c].i = i + 1 /\ call'[c].op = "write" /\ call'[c].lba = call[c].lba
      /\ call'[c].buffer = call[c].buffer
      /\ \A d \in Clients : d # c => call'[d] = call[d]
  BY <1>1, <1>i DEF IInv, TypeInv, Calls
<1>10. drive'.words = words /\ drive'.phase = phase /\ drive'.lba = drive.lba
  BY <1>6 DEF IInv, TypeInv
<1>11. /\ pc'[c] = IF i = Words THEN "flush" ELSE "move"
       /\ \A d \in Clients : d # c => pc'[d] = pc[d]
  BY <1>1, <1>7 DEF IInv, TypeInv
<1>12. TypeInv'
  <2>1. call' \in [Clients -> Calls]
    BY <1>1, <1>8, <1>i DEF IInv, TypeInv, Calls
  <2>2. drive' \in [phase : Phases, lba : Lbas, words : Seq(Values)]
    BY <1>5, <1>6 DEF IInv, TypeInv, Phases, phase
  <2>3. pc' \in [Clients -> Labels]
    BY <1>7 DEF IInv, TypeInv, Labels, Holding
  <2>4. QED
    BY <2>1, <2>2, <2>3, <1>1 DEF IInv, TypeInv
<1>13. At(c)'
  <2>1. CallInv(c)' /\ ReadInv(c)'
    BY <1>2, <1>9, <1>11 DEF CallInv, ReadInv
  <2>2. Received(c, i)'
    BY <1>3, <1>5, <1>9, <1>10 DEF Received
  <2>3. i = Words => Unstored(c)'
    BY <2>2, <1>10 DEF Unstored, phase
  <2>4. i # Words => Received(c, call[c].i - 1)' /\ drive'.phase = "receiving" /\ call'[c].i \in 1..Words
    BY <2>2, <1>8, <1>9, <1>10 DEF phase, Received
  <2>5. WriteInv(c)'
    BY <2>3, <2>4, <1>9, <1>11 DEF WriteInv
  <2>6. QED
    BY <2>1, <2>5 DEF At
<1>14. pc[c] \in Holding /\ pc'[c] \in Holding /\ pc'[c] \in Working
  BY <1>1, <1>11 DEF Holding, Working
<1>15. IInv'
  BY <1>1, <1>9, <1>11, <1>12, <1>13, <1>14, StepWithin
<1>16. QED
  BY <1>1, <1>9, <1>10, <1>11, <1>15 DEF phase

LEMMA FlushStep ==
  ASSUME IInv, NEW c \in Clients, Flush(c)
  PROVE  /\ IInv' /\ call[c].op = "write"
         /\ (drive.phase = "storing") <=> (drive'.phase = "storing")
<1>1. pc' = [pc EXCEPT ![c] = "settle"] /\ pc[c] = "flush" /\ UNCHANGED <<ata_lock, call, regs, cache, media, refused>>
  BY DEF Flush, Goto
<1>2. pc'[c] = "settle" /\ \A d \in Clients : d # c => pc'[d] = pc[d]
  BY <1>1 DEF IInv, TypeInv
<1>3. call[c].op = "write"
  BY <1>1 DEF IInv, TypeInv, Calls, At, ReadInv
<1>4. (drive.phase \in {"idle", "error"} /\ Landed(c)) \/ Unstored(c)
  BY <1>1, <1>3 DEF IInv, At, WriteInv
<1>5. CASE Unstored(c)
  <2>1. taken' = FALSE /\ drive' = drive
    BY <1>5 DEF Flush, Bsy, Unstored
  <2>2. TypeInv'
    BY <1>1, <2>1 DEF IInv, TypeInv, Labels, Holding
  <2>3. Unstored(c)'
    BY <1>1, <1>5, <2>1 DEF Unstored, Received
  <2>4. At(c)'
    BY <1>1, <1>2, <1>3, <2>1, <2>3 DEF IInv, At, CallInv, ReadInv, WriteInv
  <2>5. QED
    BY <1>1, <1>2, <1>3, <2>1, <2>2, <2>4, StepWithin DEF Holding, Working
<1>6. CASE drive.phase \in {"idle", "error"} /\ Landed(c)
  <2>1. taken' = TRUE /\ drive' = [drive EXCEPT !.phase = "flushing"]
    BY <1>6 DEF Flush, Bsy, Drq
  <2>2. TypeInv'
    BY <1>1, <2>1 DEF IInv, TypeInv, Labels, Holding, Phases
  <2>3. drive'.phase = "flushing"
    BY <2>1 DEF IInv, TypeInv
  <2>a. Landed(c)'
    BY <1>1, <1>6 DEF Landed
  <2>4. At(c)'
    BY <1>1, <1>2, <1>3, <2>1, <2>3, <2>a DEF IInv, At, CallInv, ReadInv, WriteInv
  <2>5. QED
    BY <1>1, <1>2, <1>3, <1>6, <2>2, <2>3, <2>4, StepWithin DEF Holding, Working
<1>7. QED
  BY <1>4, <1>5, <1>6

LEMMA ReleaseStep ==
  ASSUME IInv, NEW c \in Clients, ReleaseAta(c)
  PROVE  IInv'
<1>1. pc' = [pc EXCEPT ![c] = "idle"] /\ pc[c] = "release" /\ ata_lock' = 0
      /\ call' = [call EXCEPT ![c] = NoCall] /\ UNCHANGED <<regs, drive, cache, media, taken, refused>>
  BY DEF ReleaseAta, Goto
<1>2. /\ pc'[c] = "idle" /\ call'[c] = NoCall
      /\ \A d \in Clients : d # c => pc'[d] = pc[d] /\ call'[d] = call[d]
  BY <1>1 DEF IInv, TypeInv
<1>3. TypeInv'
  <2>1. NoCall \in Calls
    BY DiskAssumption DEF NoCall, Calls
  <2>2. QED
    BY <2>1, <1>1 DEF IInv, TypeInv, Labels
<1>4. \A d \in Clients : pc'[d] \notin Holding
  BY <1>1, <1>2 DEF IInv, LockInv, Holding
<1>5. LockInv'
  BY <1>4 DEF LockInv
<1>6. QuietInv'
  BY <1>1, QuietBefore DEF QuietInv
<1>7. ASSUME NEW d \in Clients PROVE At(d)'
  <2>1. CASE d = c
    BY <2>1, <1>2 DEF At, CallInv, ReadInv, WriteInv
  <2>2. CASE d # c
    BY <2>2, <1>1, <1>2, AtUntouched DEF IInv
  <2>3. QED
    BY <2>1, <2>2
<1>8. QED
  BY <1>3, <1>5, <1>6, <1>7 DEF IInv

-------------------------------------------------------------------------------
(* The drive *)

(* A drive at work works for one client, whose place tells the command. *)
LEMMA WorksForSomeone ==
  ASSUME IInv, drive.phase \notin {"idle", "error"}
  PROVE  \E c \in Clients :
           /\ pc[c] \in Working
           /\ drive.phase = "fetching" => pc[c] \in {"busy", "data"} /\ call[c].op = "read"
           /\ drive.phase = "accepting" => pc[c] \in {"busy", "data"} /\ call[c].op = "write"
           /\ drive.phase = "storing" => pc[c] \in {"flush", "settle"} /\ call[c].op = "write"
           /\ drive.phase = "flushing" => pc[c] = "settle" /\ call[c].op = "write" /\ taken
<1>1. PICK c \in Clients : pc[c] \in Working
  BY DEF IInv, QuietInv
<1>2. call[c].op \in {"read", "write"} /\ taken \in BOOLEAN
  BY DEF IInv, TypeInv, Calls
<1>3. pc[c] \in {"busy", "data", "move", "flush", "settle"}
  BY <1>1 DEF Working
<1>4. CASE call[c].op = "read"
  <2>1. pc[c] \in {"busy", "data", "move"} /\ drive.phase \in {"fetching", "sending", "error"}
        /\ (drive.phase = "fetching" => pc[c] \in {"busy", "data"})
    BY <1>3, <1>4 DEF IInv, At, ReadInv
  <2>2. QED
    BY <1>1, <1>4, <2>1
<1>5. CASE call[c].op = "write"
  <2>1. CASE pc[c] \in {"busy", "data"}
    BY <1>1, <1>5, <2>1 DEF IInv, At, WriteInv
  <2>2. CASE pc[c] = "move"
    BY <1>1, <1>5, <2>2 DEF IInv, At, WriteInv
  <2>3. CASE pc[c] = "flush"
    BY <1>1, <1>5, <2>3 DEF IInv, At, WriteInv, Unstored
  <2>4. CASE pc[c] = "settle" /\ taken
    BY <1>1, <1>5, <2>4 DEF IInv, At, WriteInv
  <2>5. CASE pc[c] = "settle" /\ ~taken
    BY <1>1, <1>5, <2>5 DEF IInv, At, WriteInv, Unstored
  <2>6. QED
    BY <1>3, <2>1, <2>2, <2>3, <2>4, <2>5
<1>6. QED
  BY <1>2, <1>4, <1>5

LEMMA SectorTypes ==
  ASSUME NEW s \in Sectors
  PROVE  s \in Seq(Values) /\ Len(s) = Words
BY DiskAssumption DEF Sectors

LEMMA NoWords == <<>> \in Seq(Values)
OBVIOUS

LEMMA FetchStep ==
  ASSUME IInv, NEW c \in Clients, pc[c] \in {"busy", "data"}, call[c].op = "read", Fetch
  PROVE  /\ IInv' /\ drive'.phase = "sending" /\ drive'.words = cache[call[c].lba]
         /\ call[c].buffer = <<>>
<1>1. drive' = [drive EXCEPT !.phase = "sending", !.words = cache[drive.lba]] /\ drive.phase = "fetching"
      /\ UNCHANGED <<ata_lock, pc, call, regs, cache, media, taken, refused>>
  BY DEF Fetch
<1>2. drive.lba = call[c].lba /\ drive.lba \in Lbas /\ cache[drive.lba] \in Sectors /\ call[c].buffer = <<>>
  BY <1>1 DEF IInv, TypeInv, Calls, At, ReadInv, CallInv
<1>3. cache[drive.lba] \in Seq(Values) /\ Len(cache[drive.lba]) = Words
  BY <1>2, SectorTypes
<1>4. drive'.phase = "sending" /\ drive'.words = cache[drive.lba] /\ drive'.lba = drive.lba
  BY <1>1 DEF IInv, TypeInv
<1>5. TypeInv'
  <2>1. drive' \in [phase : Phases, lba : Lbas, words : Seq(Values)]
    BY <1>1, <1>3 DEF IInv, TypeInv, Phases
  <2>2. QED
    BY <2>1, <1>1 DEF IInv, TypeInv
<1>6. At(c)'
  <2>1. CallInv(c)' /\ WriteInv(c)'
    BY <1>1 DEF IInv, At, CallInv, WriteInv
  <2>2. ReadInv(c)'
    BY <1>1, <1>2, <1>3, <1>4 DEF ReadInv
  <2>3. QED
    BY <2>1, <2>2 DEF At
<1>7. pc[c] \in Working /\ pc[c] \in Holding
  BY DEF Working, Holding
<1>8. IInv'
  BY <1>1, <1>5, <1>6, <1>7, StepWithin
<1>9. QED
  BY <1>2, <1>4, <1>8

LEMMA AcceptStep ==
  ASSUME IInv, NEW c \in Clients, pc[c] \in {"busy", "data"}, call[c].op = "write", Accept
  PROVE  IInv'
<1>1. drive' = [drive EXCEPT !.phase = "receiving"] /\ drive.phase = "accepting"
      /\ UNCHANGED <<ata_lock, pc, call, regs, cache, media, taken, refused>>
  BY DEF Accept
<1>2. drive'.phase = "receiving" /\ drive'.words = drive.words /\ drive'.lba = drive.lba
  BY <1>1 DEF IInv, TypeInv
<1>3. TypeInv'
  BY <1>1 DEF IInv, TypeInv, Phases
<1>4. Received(c, 0)
  BY <1>1 DEF IInv, At, WriteInv
<1>5. Received(c, 0)'
  BY <1>1, <1>2, <1>4 DEF Received
<1>6. At(c)'
  BY <1>1, <1>2, <1>5 DEF IInv, At, CallInv, ReadInv, WriteInv
<1>7. pc[c] \in Working /\ pc[c] \in Holding
  BY DEF Working, Holding
<1>8. QED
  BY <1>1, <1>3, <1>6, <1>7, StepWithin

(* The drive stores exactly the sector the client was asked to write. *)
LEMMA StoreStep ==
  ASSUME IInv, NEW c \in Clients, pc[c] \in {"flush", "settle"}, call[c].op = "write", Store
  PROVE  /\ IInv' /\ drive'.phase = "idle"
         /\ cache' = [cache EXCEPT ![call[c].lba] = call[c].buffer]
<1>1. drive' = [drive EXCEPT !.phase = "idle", !.words = <<>>] /\ drive.phase = "storing"
      /\ cache' = [cache EXCEPT ![drive.lba] = drive.words]
      /\ UNCHANGED <<ata_lock, pc, call, regs, media, taken, refused>>
  BY DEF Store
<1>2. taken \in BOOLEAN
  BY DEF IInv, TypeInv
<1>3. Unstored(c) /\ (pc[c] = "settle" => taken = FALSE)
  BY <1>1, <1>2 DEF IInv, At, WriteInv
<1>4. drive.lba = call[c].lba /\ Len(drive.words) = Words
      /\ \A j \in 1..Words : drive.words[j] = call[c].buffer[j]
  BY <1>3 DEF Unstored, Received
<1>5. call[c].buffer \in Sectors
  BY DEF IInv, At, CallInv
<1>6. drive.words = call[c].buffer
  <2>1. drive.words \in Seq(Values) /\ call[c].buffer \in Seq(Values) /\ Len(call[c].buffer) = Words
    BY <1>5, SectorTypes DEF IInv, TypeInv
  <2>2. QED
    BY <2>1, <1>4, SeqEqual
<1>7. drive'.phase = "idle"
  BY <1>1 DEF IInv, TypeInv
<1>8. TypeInv'
  <2>1. drive' \in [phase : Phases, lba : Lbas, words : Seq(Values)]
    BY <1>1, NoWords DEF IInv, TypeInv, Phases
  <2>2. cache' \in [Lbas -> Sectors]
    BY <1>1, <1>5, <1>6 DEF IInv, TypeInv
  <2>3. QED
    BY <2>1, <2>2, <1>1 DEF IInv, TypeInv
<1>9. At(c)'
  <2>1. CallInv(c)' /\ ReadInv(c)'
    BY <1>1 DEF IInv, At, CallInv, ReadInv
  <2>a. cache'[call[c].lba] = call[c].buffer
    BY <1>1, <1>4, <1>6 DEF IInv, TypeInv, Calls
  <2>2. WriteInv(c)'
    BY <1>1, <1>3, <1>7, <2>a DEF WriteInv, Landed
  <2>3. QED
    BY <2>1, <2>2 DEF At
<1>10. pc[c] \in Working /\ pc[c] \in Holding
  BY DEF Working, Holding
<1>11. IInv'
  BY <1>1, <1>8, <1>9, <1>10, StepWithin
<1>12. QED
  BY <1>1, <1>4, <1>6, <1>7, <1>11

LEMMA FlushCacheStep ==
  ASSUME IInv, NEW c \in Clients, pc[c] = "settle", call[c].op = "write", taken, FlushCache
  PROVE  IInv' /\ drive'.phase = "idle"
<1>1. drive' = [drive EXCEPT !.phase = "idle"] /\ drive.phase = "flushing" /\ media' = cache
      /\ UNCHANGED <<ata_lock, pc, call, regs, cache, taken, refused>>
  BY DEF FlushCache
<1>2. drive'.phase = "idle"
  BY <1>1 DEF IInv, TypeInv
<1>3. TypeInv'
  BY <1>1 DEF IInv, TypeInv, Phases
<1>a. Landed(c)'
  BY <1>1 DEF IInv, At, WriteInv, Landed
<1>4. At(c)'
  BY <1>1, <1>2, <1>a DEF IInv, At, CallInv, ReadInv, WriteInv
<1>5. pc[c] \in Working /\ pc[c] \in Holding
  BY DEF Working, Holding
<1>6. IInv'
  BY <1>1, <1>3, <1>4, <1>5, StepWithin
<1>7. QED
  BY <1>2, <1>6

LEMMA ErrorStep ==
  ASSUME IInv, NEW c \in Clients, Error,
         pc[c] \in {"busy", "data"} \/ (pc[c] \in {"flush", "settle"} /\ call[c].op = "write")
  PROVE  IInv' /\ drive'.phase = "error"
<1>1. drive' = [drive EXCEPT !.phase = "error", !.words = <<>>]
      /\ refused' = TRUE /\ UNCHANGED <<ata_lock, pc, call, regs, cache, media, taken>>
  BY DEF Error
<1>2. drive'.phase = "error" /\ drive'.lba = drive.lba
  BY <1>1 DEF IInv, TypeInv
<1>3. TypeInv'
  <2>1. drive' \in [phase : Phases, lba : Lbas, words : Seq(Values)]
    BY <1>1, NoWords DEF IInv, TypeInv, Phases
  <2>2. QED
    BY <2>1, <1>1 DEF IInv, TypeInv
<1>4. At(c)'
  <2>1. CallInv(c)'
    BY <1>1 DEF IInv, At, CallInv
  <2>2. CASE pc[c] \in {"busy", "data"}
    <3>1. call[c].op = "read" => drive.lba = call[c].lba
      BY <2>2 DEF IInv, At, ReadInv
    <3>2. ReadInv(c)' /\ WriteInv(c)'
      BY <1>1, <1>2, <2>2, <3>1 DEF ReadInv, WriteInv
    <3>3. QED
      BY <2>1, <3>2 DEF At
  <2>3. CASE pc[c] \in {"flush", "settle"} /\ call[c].op = "write"
    <3>1. Landed(c)'
      BY <1>1 DEF Landed
    <3>2. ReadInv(c)' /\ WriteInv(c)'
      BY <1>1, <1>2, <2>3, <3>1 DEF ReadInv, WriteInv
    <3>3. QED
      BY <2>1, <3>2 DEF At
  <2>4. QED
    BY <2>2, <2>3
<1>5. pc[c] \in Working /\ pc[c] \in Holding
  BY DEF Working, Holding
<1>6. IInv'
  BY <1>1, <1>3, <1>4, <1>5, StepWithin
<1>7. QED
  BY <1>2, <1>6

LEMMA WriteBackStep == IInv /\ WriteBack => IInv'
<1> SUFFICES ASSUME IInv, WriteBack PROVE IInv'
  OBVIOUS
<1>1. PICK l \in Lbas : media' = [media EXCEPT ![l] = cache[l]]
  BY DEF WriteBack
<1>2. UNCHANGED <<ata_lock, pc, call, regs, drive, cache, taken, refused>>
  BY DEF WriteBack
<1>3. TypeInv'
  BY <1>1, <1>2 DEF IInv, TypeInv
<1>4. media = cache => media' = cache'
  BY <1>1, <1>2 DEF IInv, TypeInv
<1>5. ASSUME NEW d \in Clients PROVE At(d)'
  BY <1>2, <1>4, AtUntouched DEF IInv
<1>6. LockInv' /\ QuietInv'
  BY <1>2 DEF IInv, LockInv, QuietInv
<1>7. QED
  BY <1>3, <1>5, <1>6 DEF IInv

LEMMA PowerStep == IInv /\ PowerFails => IInv'
<1> SUFFICES ASSUME IInv, PowerFails PROVE IInv'
  OBVIOUS
<1>1. /\ ata_lock' = 0 /\ pc' = [c \in Clients |-> "idle"] /\ call' = [c \in Clients |-> NoCall]
      /\ drive' = [drive EXCEPT !.phase = "idle", !.words = <<>>] /\ cache' = media
      /\ UNCHANGED <<regs, media, taken, refused>>
  BY DEF PowerFails
<1>2. NoCall \in Calls
  BY DiskAssumption DEF NoCall, Calls
<1>3. TypeInv'
  <2>1. drive' \in [phase : Phases, lba : Lbas, words : Seq(Values)]
    BY <1>1, NoWords DEF IInv, TypeInv, Phases
  <2>2. QED
    BY <2>1, <1>1, <1>2 DEF IInv, TypeInv, Labels
<1>4. LockInv' /\ QuietInv'
  BY <1>1, <1>3 DEF IInv, TypeInv, LockInv, QuietInv, Holding
<1>5. ASSUME NEW d \in Clients PROVE At(d)'
  BY <1>1 DEF At, CallInv, ReadInv, WriteInv
<1>6. QED
  BY <1>3, <1>4, <1>5 DEF IInv

LEMMA DriveStep == IInv /\ (Device \/ Error) => IInv'
<1> SUFFICES ASSUME IInv, Device \/ Error PROVE IInv'
  OBVIOUS
<1>1. drive.phase \in {"fetching", "accepting", "storing", "flushing"}
  BY DEF Device, Fetch, Accept, Store, FlushCache, Error
<1>2. PICK c \in Clients :
        /\ drive.phase = "fetching" => pc[c] \in {"busy", "data"} /\ call[c].op = "read"
        /\ drive.phase = "accepting" => pc[c] \in {"busy", "data"} /\ call[c].op = "write"
        /\ drive.phase = "storing" => pc[c] \in {"flush", "settle"} /\ call[c].op = "write"
        /\ drive.phase = "flushing" => pc[c] = "settle" /\ call[c].op = "write" /\ taken
  BY <1>1, WorksForSomeone
<1>3. CASE Fetch
  BY <1>2, <1>3, FetchStep DEF Fetch
<1>4. CASE Accept
  BY <1>2, <1>4, AcceptStep DEF Accept
<1>5. CASE Store
  BY <1>2, <1>5, StoreStep DEF Store
<1>6. CASE FlushCache
  BY <1>2, <1>6, FlushCacheStep DEF FlushCache
<1>7. CASE Error
  <2>1. pc[c] \in {"busy", "data"} \/ (pc[c] \in {"flush", "settle"} /\ call[c].op = "write")
    BY <1>1, <1>2
  <2>2. QED
    BY <1>7, <2>1, ErrorStep
<1>8. QED
  BY <1>3, <1>4, <1>5, <1>6, <1>7 DEF Device

LEMMA NextStep == IInv /\ [Next]_vars => IInv'
<1> SUFFICES ASSUME IInv, [Next]_vars PROVE IInv'
  OBVIOUS
<1>1. ASSUME NEW c \in Clients, Start(c) \/ Client(c) PROVE IInv'
  BY <1>1, StartStep, AcquireStep, WaitBsyStep, SelectStep, CommandStep, WaitDrqStep, ReadWordStep,
     WriteWordStep, FlushStep, ReleaseStep DEF Client
<1>2. CASE UNCHANGED vars
  <2>1. UNCHANGED <<ata_lock, pc, call, regs, drive, cache, media, taken, refused>>
    BY <1>2 DEF vars
  <2>2. TypeInv' /\ LockInv' /\ QuietInv'
    BY <2>1 DEF IInv, TypeInv, LockInv, QuietInv
  <2>3. ASSUME NEW d \in Clients PROVE At(d)'
    BY <2>1, AtUntouched DEF IInv
  <2>4. QED
    BY <2>2, <2>3 DEF IInv
<1>3. QED
  BY <1>1, <1>2, DriveStep, WriteBackStep, PowerStep DEF Next

LEMMA Invariant == Spec => []IInv
BY InitInv, NextStep, PTL DEF Spec

(* A write that returns without an error from the drive has its sector in  *)
(* the cache, and on the plates, with everything written before it, if the *)
(* drive took its flush.                                                   *)
THEOREM FlushedIsKept == Spec => []KeptOnceFlushed
<1>1. IInv => KeptOnceFlushed
  BY DEF IInv, At, WriteInv, Landed, KeptOnceFlushed
<1>2. QED
  BY <1>1, Invariant, PTL

-------------------------------------------------------------------------------
(* The refinement *)

Callers == [c \in Clients |-> Caller(c)]

LEMMA CallersStay ==
  ASSUME \A d \in Clients : Caller(d)' = Caller(d)
  PROVE  Callers' = Callers
BY DEF Callers

LEMMA CallersChange ==
  ASSUME NEW c \in Clients, \A d \in Clients : d # c => Caller(d)' = Caller(d)
  PROVE  Callers' = [Callers EXCEPT ![c] = Caller(c)']
BY DEF Callers

LEMMA CallerOutside ==
  ASSUME NEW d \in Clients, pc[d] \notin Holding, pc'[d] = pc[d], call'[d] = call[d]
  PROVE  Caller(d)' = Caller(d)
<1>1. ~Looked(d) /\ ~Looked(d)' /\ ~Stored(d) /\ ~Stored(d)'
  BY DEF Holding, Looked, Stored
<1>2. QED
  BY <1>1 DEF Caller

LEMMA OtherCallers ==
  ASSUME IInv, NEW c \in Clients, pc[c] \in Holding,
         \A d \in Clients : d # c => pc'[d] = pc[d] /\ call'[d] = call[d]
  PROVE  \A d \in Clients : d # c => Caller(d)' = Caller(d)
<1>1. \A d \in Clients : d # c => pc[d] \notin Holding
  BY DEF IInv, LockInv
<1>2. QED
  BY <1>1, CallerOutside

(* The step is not seen from outside. *)
LEMMA Unseen ==
  ASSUME NEW c \in Clients, pc[c] # "idle", pc'[c] # "idle",
         call'[c].op = call[c].op, call'[c].lba = call[c].lba,
         call[c].op = "read" => (Looked(c)' <=> Looked(c)),
         call[c].op = "write" => (Stored(c)' <=> Stored(c)),
         call[c].op = "read" /\ Looked(c) =>
           call'[c].buffer \o drive'.words = call[c].buffer \o drive.words,
         ~(call[c].op = "read" /\ Looked(c)) => call'[c].buffer = call[c].buffer
  PROVE  Caller(c)' = Caller(c)
<1>1. CASE call[c].op = "read" /\ Looked(c)
  BY <1>1 DEF Caller
<1>2. CASE ~(call[c].op = "read" /\ Looked(c))
  BY <1>2 DEF Caller
<1>3. QED
  BY <1>1, <1>2

LEMMA PendingCaller ==
  ASSUME IInv, NEW c \in Clients, pc[c] # "idle",
         call[c].op = "read" => ~Looked(c), call[c].op = "write" => ~Stored(c)
  PROVE  Caller(c) = [op |-> call[c].op, lba |-> call[c].lba, data |-> call[c].buffer, phase |-> "pending"]
<1>1. call[c].buffer \in Seq(Values)
  BY DEF IInv, TypeInv, Calls
<1>2. call[c].buffer \o <<>> = call[c].buffer
  BY <1>1, ConcatEmptySeq
<1>3. QED
  BY <1>2 DEF Caller

LEMMA StoredCaller ==
  ASSUME TypeInv, NEW c \in Clients, pc[c] # "idle", call[c].op = "write", Stored(c)
  PROVE  Caller(c) = [op |-> call[c].op, lba |-> call[c].lba, data |-> call[c].buffer, phase |-> "done"]
<1>1. call[c].buffer \in Seq(Values)
  BY DEF TypeInv, Calls
<1>2. call[c].buffer \o <<>> = call[c].buffer
  BY <1>1, ConcatEmptySeq
<1>3. QED
  BY <1>2 DEF Caller

AbstractStep == [SS!Next]_<<cache, media, Callers>>

LEMMA Stutter ==
  ASSUME UNCHANGED <<cache, media>>, \A d \in Clients : Caller(d)' = Caller(d)
  PROVE  AbstractStep
BY CallersStay DEF AbstractStep

LEMMA InitRefines == Init => SS!Init
<1> SUFFICES ASSUME Init PROVE SS!Init
  OBVIOUS
<1>1. \A c \in Clients : Caller(c) = SS!Idle
  BY DEF Init, Caller, SS!Idle, NoCall
<1>2. QED
  BY <1>1 DEF Init, SS!Init

LEMMA StartRefines ==
  ASSUME IInv, NEW c \in Clients, Start(c)
  PROVE  AbstractStep
<1>0. IInv'
  BY StartStep
<1>1. PICK l \in Lbas, v \in Values, kind \in {"read", "write"} :
        call' = [call EXCEPT ![c] = [op |-> kind, lba |-> l, i |-> 1,
                   buffer |-> IF kind = "read" THEN <<>> ELSE [j \in 1..Words |-> v]]]
  BY DEF Start
<1> DEFINE buffer == IF kind = "read" THEN <<>> ELSE [j \in 1..Words |-> v]
           new == [op |-> kind, lba |-> l, i |-> 1, buffer |-> buffer]
           seen == [op |-> kind, lba |-> l, data |-> buffer, phase |-> "pending"]
<1>2. call' = [call EXCEPT ![c] = new] /\ pc' = [pc EXCEPT ![c] = "acquire"] /\ pc[c] = "idle"
      /\ UNCHANGED <<ata_lock, regs, drive, cache, media, taken, refused>>
  BY <1>1 DEF Start, Goto
<1>3. buffer \in Sectors \union {<<>>} /\ ((kind = "read") <=> (buffer = <<>>))
  <2>1. [j \in 1..Words |-> v] \in Sectors /\ [j \in 1..Words |-> v] # <<>>
    <3>1. [j \in 1..Words |-> v] \in Sectors
      BY DEF Sectors
    <3>2. Len(<<>>) = 0 /\ Words # 0
      BY DiskAssumption
    <3>3. QED
      BY <3>1, <3>2, SectorTypes
  <2>2. QED
    BY <2>1
<1> HIDE DEF buffer
<1>4. seen \in SS!Call
  BY <1>3 DEF SS!Call
<1>5. /\ pc'[c] = "acquire" /\ call'[c] = new
      /\ \A d \in Clients : d # c => pc'[d] = pc[d] /\ call'[d] = call[d]
  BY <1>2 DEF IInv, TypeInv
<1>6. Caller(c)' = seen
  <2>1. call'[c].op = kind /\ call'[c].lba = l /\ call'[c].buffer = buffer
    BY <1>5
  <2>2. ~Looked(c)' /\ ~Stored(c)'
    BY <1>5 DEF Looked, Stored
  <2>3. buffer \o <<>> = buffer
    <3>1. call'[c].buffer \in Seq(Values)
      BY <1>0 DEF IInv, TypeInv, Calls
    <3>2. QED
      BY <2>1, <3>1, ConcatEmptySeq
  <2>4. QED
    BY <1>5, <2>1, <2>2, <2>3 DEF Caller
<1>7. ASSUME NEW d \in Clients, d # c PROVE Caller(d)' = Caller(d)
  BY <1>2, <1>5, <1>7 DEF Caller, Looked, Stored
<1>8. Callers' = [Callers EXCEPT ![c] = seen]
  BY <1>6, <1>7, CallersChange
<1>9. Callers[c].phase = "none"
  BY <1>2 DEF Callers, Caller
<1>10. seen.phase = "pending" /\ ((seen.op = "read") <=> (seen.data = <<>>))
  BY <1>3
<1> HIDE DEF seen
<1>11. SS!Begin(c)
  BY <1>2, <1>4, <1>8, <1>9, <1>10 DEF SS!Begin, Callers
<1>12. QED
  BY <1>11 DEF AbstractStep, SS!Next

LEMMA AcquireRefines ==
  ASSUME IInv, NEW c \in Clients, AcquireAta(c)
  PROVE  AbstractStep
<1>1. pc' = [pc EXCEPT ![c] = "ready"] /\ pc[c] = "acquire" /\ UNCHANGED <<call, regs, drive, cache, media, taken>>
  BY DEF AcquireAta, Goto
<1>2. pc'[c] = "ready" /\ \A d \in Clients : d # c => pc'[d] = pc[d]
  BY <1>1 DEF IInv, TypeInv
<1>3. ASSUME NEW d \in Clients PROVE Caller(d)' = Caller(d)
  BY <1>1, <1>2 DEF Caller, Looked, Stored
<1>4. QED
  BY <1>1, <1>3, Stutter

(* Steps of the client inside the lock, up to the last, change nothing for *)
(* the callers.                                                            *)
LEMMA WaitBsyRefines ==
  ASSUME IInv, NEW c \in Clients, WaitBsy(c)
  PROVE  AbstractStep
<1>1. UNCHANGED <<ata_lock, call, regs, drive, cache, media, taken>>
  BY DEF WaitBsy
<1>2. PICK label \in {"select", "data", "release"} :
        /\ pc' = [pc EXCEPT ![c] = label]
        /\ (label = "select" /\ pc[c] = "ready") \/ (label = "data" /\ pc[c] = "busy")
           \/ (label = "release" /\ pc[c] = "settle")
  BY DEF WaitBsy, Goto
<1>3. pc'[c] = label /\ \A d \in Clients : d # c => pc'[d] = pc[d]
  BY <1>2 DEF IInv, TypeInv
<1>4. call[c].op = "read" => (Looked(c)' <=> Looked(c))
  <2>1. call[c].op = "read" => pc[c] # "settle"
    BY DEF IInv, At, ReadInv
  <2>2. QED
    BY <1>1, <1>2, <1>3, <2>1 DEF Looked
<1>5. Stored(c)' <=> Stored(c)
  BY <1>1, <1>2, <1>3 DEF Stored
<1>6. Caller(c)' = Caller(c)
  BY <1>1, <1>2, <1>3, <1>4, <1>5, Unseen
<1>7. QED
  BY <1>1, <1>2, <1>3, <1>6, OtherCallers, Stutter DEF Holding

LEMMA SelectRefines ==
  ASSUME IInv, NEW c \in Clients, Select(c)
  PROVE  AbstractStep
<1>1. pc' = [pc EXCEPT ![c] = "command"] /\ pc[c] = "select" /\ UNCHANGED <<call, drive, cache, media>>
  BY DEF Select, Goto
<1>2. pc'[c] = "command" /\ \A d \in Clients : d # c => pc'[d] = pc[d]
  BY <1>1 DEF IInv, TypeInv
<1>3. Caller(c)' = Caller(c)
  BY <1>1, <1>2, Unseen DEF Looked, Stored
<1>4. QED
  BY <1>1, <1>2, <1>3, OtherCallers, Stutter DEF Holding

LEMMA CommandRefines ==
  ASSUME IInv, NEW c \in Clients, Command(c)
  PROVE  AbstractStep
<1>1. pc' = [pc EXCEPT ![c] = "busy"] /\ pc[c] = "command" /\ UNCHANGED <<call, cache, media>>
  BY DEF Command, Goto
<1>2. pc'[c] = "busy" /\ \A d \in Clients : d # c => pc'[d] = pc[d]
  BY <1>1 DEF IInv, TypeInv
<1>3. drive'.phase # "sending"
  BY CommandStep
<1>4. ~Looked(c) /\ ~Looked(c)' /\ ~Stored(c) /\ ~Stored(c)'
  BY <1>1, <1>2, <1>3 DEF Looked, Stored
<1>5. Caller(c)' = Caller(c)
  BY <1>1, <1>2, <1>4, Unseen
<1>6. QED
  BY <1>1, <1>2, <1>5, OtherCallers, Stutter DEF Holding

LEMMA WaitDrqRefines ==
  ASSUME IInv, NEW c \in Clients, WaitDrq(c)
  PROVE  AbstractStep
<1>1. pc' = [pc EXCEPT ![c] = "move"] /\ pc[c] = "data" /\ UNCHANGED <<call, drive, cache, media>>
  BY DEF WaitDrq, Goto
<1>2. pc'[c] = "move" /\ \A d \in Clients : d # c => pc'[d] = pc[d]
  BY <1>1 DEF IInv, TypeInv
<1>3. call[c].op = "read" => Looked(c) /\ Looked(c)'
  BY <1>1, <1>2, WaitDrqStep DEF Looked
<1>4. ~Stored(c) /\ ~Stored(c)'
  BY <1>1, <1>2 DEF Stored
<1>5. Caller(c)' = Caller(c)
  BY <1>1, <1>2, <1>3, <1>4, Unseen
<1>6. QED
  BY <1>1, <1>2, <1>5, OtherCallers, Stutter DEF Holding

LEMMA ReadWordRefines ==
  ASSUME IInv, NEW c \in Clients, ReadWord(c)
  PROVE  AbstractStep
<1>1. /\ pc[c] = "move" /\ call[c].op = "read" /\ UNCHANGED <<cache, media>>
      /\ pc' \in {pc, [pc EXCEPT ![c] = "release"]}
  BY DEF ReadWord, Goto
<1>2. \A d \in Clients : d # c => pc'[d] = pc[d] /\ call'[d] = call[d]
  BY <1>1 DEF IInv, TypeInv, ReadWord
<1>3. /\ pc'[c] \in {"move", "release"} /\ call'[c].op = call[c].op /\ call'[c].lba = call[c].lba
      /\ call'[c].buffer \o drive'.words = call[c].buffer \o drive.words
  BY ReadWordStep
<1>4. Looked(c) /\ Looked(c)'
  BY <1>1, <1>3 DEF Looked
<1>5. Caller(c)' = Caller(c)
  BY <1>1, <1>3, <1>4, Unseen
<1>6. QED
  BY <1>1, <1>2, <1>5, OtherCallers, Stutter DEF Holding

LEMMA WriteWordRefines ==
  ASSUME IInv, NEW c \in Clients, WriteWord(c)
  PROVE  AbstractStep
<1>1. /\ pc[c] = "move" /\ call[c].op = "write" /\ UNCHANGED <<cache, media>>
      /\ pc' \in {pc, [pc EXCEPT ![c] = "flush"]}
  BY DEF WriteWord, Goto
<1>2. \A d \in Clients : d # c => pc'[d] = pc[d] /\ call'[d] = call[d]
  BY <1>1 DEF IInv, TypeInv, WriteWord
<1>3. /\ call'[c].op = call[c].op /\ call'[c].lba = call[c].lba /\ call'[c].buffer = call[c].buffer
      /\ pc'[c] = "move" \/ (pc'[c] = "flush" /\ drive'.phase = "storing")
  BY WriteWordStep
<1>4. ~Stored(c) /\ ~Stored(c)'
  BY <1>1, <1>3 DEF Stored
<1>5. Caller(c)' = Caller(c)
  BY <1>1, <1>3, <1>4, Unseen
<1>6. QED
  BY <1>1, <1>2, <1>5, OtherCallers, Stutter DEF Holding

LEMMA FlushRefines ==
  ASSUME IInv, NEW c \in Clients, Flush(c)
  PROVE  AbstractStep
<1>1. pc' = [pc EXCEPT ![c] = "settle"] /\ pc[c] = "flush" /\ UNCHANGED <<call, cache, media>>
  BY DEF Flush, Goto
<1>2. pc'[c] = "settle" /\ \A d \in Clients : d # c => pc'[d] = pc[d]
  BY <1>1 DEF IInv, TypeInv
<1>3. call[c].op = "write" /\ (Stored(c)' <=> Stored(c))
  BY <1>1, <1>2, FlushStep DEF Stored
<1>4. Caller(c)' = Caller(c)
  BY <1>1, <1>2, <1>3, Unseen
<1>5. QED
  BY <1>1, <1>2, <1>4, OtherCallers, Stutter DEF Holding

(* At its return a call is done. *)
LEMMA ReleaseRefines ==
  ASSUME IInv, NEW c \in Clients, ReleaseAta(c)
  PROVE  AbstractStep
<1>1. pc' = [pc EXCEPT ![c] = "idle"] /\ pc[c] = "release" /\ call' = [call EXCEPT ![c] = NoCall]
      /\ UNCHANGED <<drive, cache, media>>
  BY DEF ReleaseAta, Goto
<1>2. pc'[c] = "idle" /\ \A d \in Clients : d # c => pc'[d] = pc[d] /\ call'[d] = call[d]
  BY <1>1 DEF IInv, TypeInv
<1>3. Caller(c)' = SS!Idle
  BY <1>2 DEF Caller, SS!Idle, NoCall
<1>4. Callers' = [Callers EXCEPT ![c] = SS!Idle]
  BY <1>1, <1>2, <1>3, OtherCallers, CallersChange DEF Holding
<1>5. Callers[c].phase = "done"
  <2>1. call[c].op \in {"read", "write"} /\ drive.phase # "storing"
    BY <1>1, QuietBefore DEF IInv, TypeInv, Calls
  <2>2. Looked(c) /\ Stored(c)
    BY <1>1, <2>1 DEF Looked, Stored
  <2>3. QED
    BY <1>1, <2>1, <2>2 DEF Callers, Caller
<1>6. SS!End(c)
  BY <1>1, <1>4, <1>5 DEF SS!End, Callers
<1>7. QED
  BY <1>6 DEF AbstractStep, SS!Next

(* A read takes effect when the drive looks the sector up. *)
LEMMA FetchRefines ==
  ASSUME IInv, NEW c \in Clients, pc[c] \in {"busy", "data"}, call[c].op = "read", Fetch
  PROVE  AbstractStep
<1>1. UNCHANGED <<pc, call, cache, media>> /\ drive.phase = "fetching"
  BY DEF Fetch
<1>2. drive'.phase = "sending" /\ drive'.words = cache[call[c].lba] /\ call[c].buffer = <<>>
  BY FetchStep
<1> DEFINE l == call[c].lba
           r == [op |-> "read", lba |-> l, data |-> cache[l], phase |-> "done"]
<1>3. Caller(c) = [op |-> "read", lba |-> l, data |-> <<>>, phase |-> "pending"]
  BY <1>1, <1>2, PendingCaller DEF Looked
<1>4. Caller(c)' = r
  <2>1. cache[l] \in Seq(Values)
    BY SectorTypes DEF IInv, TypeInv, Calls
  <2>2. <<>> \o cache[l] = cache[l]
    BY <2>1, ConcatEmptySeq
  <2>3. Looked(c)'
    BY <1>1, <1>2 DEF Looked
  <2>4. QED
    BY <1>1, <1>2, <2>2, <2>3 DEF Caller
<1>5. Callers' = [Callers EXCEPT ![c] = r]
  BY <1>1, <1>4, OtherCallers, CallersChange DEF Holding
<1>6. Callers[c] = [op |-> "read", lba |-> l, data |-> <<>>, phase |-> "pending"]
  BY <1>3 DEF Callers
<1> HIDE DEF l
<1>7. [op |-> "read", lba |-> Callers[c].lba, data |-> cache[Callers[c].lba], phase |-> "done"] = r
  BY <1>6
<1>8. SS!Read(c)
  <2>1. Callers[c].phase = "pending" /\ Callers[c].op = "read"
    BY <1>6
  <2>2. Callers' = [Callers EXCEPT ![c] = [op |-> "read", lba |-> Callers[c].lba,
                                           data |-> cache[Callers[c].lba], phase |-> "done"]]
    BY <1>5, <1>7
  <2>3. QED
    BY <1>1, <2>1, <2>2 DEF SS!Read, Callers
<1>9. QED
  BY <1>8 DEF AbstractStep, SS!Next

(* A write takes effect, or does not, when the drive stores the sector or  *)
(* gives up.                                                               *)
LEMMA WriteTakesEffect ==
  ASSUME IInv, IInv', NEW c \in Clients, pc[c] \in {"flush", "settle"}, call[c].op = "write",
         drive.phase = "storing", drive'.phase # "storing", UNCHANGED <<pc, call, media>>,
         cache' \in {cache, [cache EXCEPT ![call[c].lba] = call[c].buffer]}
  PROVE  AbstractStep
<1> DEFINE l == call[c].lba
           b == call[c].buffer
<1>1. Caller(c) = [op |-> "write", lba |-> l, data |-> b, phase |-> "pending"]
  BY PendingCaller DEF Stored
<1>2. Caller(c)' = [op |-> "write", lba |-> l, data |-> b, phase |-> "done"]
  <2>1. Stored(c)' /\ b \o <<>> = b
    <3>1. b \in Seq(Values)
      BY DEF IInv, TypeInv, Calls
    <3>2. QED
      BY <3>1, ConcatEmptySeq DEF Stored
  <2>2. QED
    BY <2>1 DEF Caller
<1>3. Callers' = [Callers EXCEPT ![c] = [op |-> "write", lba |-> l, data |-> b, phase |-> "done"]]
  BY <1>2, OtherCallers, CallersChange DEF Holding
<1>4. Callers[c] = [op |-> "write", lba |-> l, data |-> b, phase |-> "pending"]
  BY <1>1 DEF Callers
<1>5. cache' \in {cache, [cache EXCEPT ![l] = b]}
  OBVIOUS
<1> HIDE DEF l, b
<1>6. Callers' = [Callers EXCEPT ![c].phase = "done"]
  <2>1. [Callers[c] EXCEPT !.phase = "done"] = [op |-> "write", lba |-> l, data |-> b, phase |-> "done"]
    BY <1>4
  <2>2. [Callers EXCEPT ![c].phase = "done"] = [Callers EXCEPT ![c] = [Callers[c] EXCEPT !.phase = "done"]]
    OBVIOUS
  <2>3. QED
    BY <1>3, <2>1, <2>2
<1>7. SS!Write(c)
  BY <1>4, <1>5, <1>6 DEF SS!Write, Callers
<1>8. QED
  BY <1>7 DEF AbstractStep, SS!Next

LEMMA StoreRefines ==
  ASSUME IInv, NEW c \in Clients, pc[c] \in {"flush", "settle"}, call[c].op = "write", Store
  PROVE  AbstractStep
<1>1. UNCHANGED <<pc, call, media>> /\ drive.phase = "storing"
  BY DEF Store
<1>2. IInv' /\ drive'.phase = "idle" /\ cache' = [cache EXCEPT ![call[c].lba] = call[c].buffer]
  BY StoreStep
<1>3. QED
  BY <1>1, <1>2, WriteTakesEffect

(* The drive goes on with a command of a client whose call is still        *)
(* pending, and stays so.                                                  *)
LEMMA StillPending ==
  ASSUME IInv, NEW c \in Clients, pc[c] \in {"busy", "data"}, drive.phase # "sending", drive'.phase # "sending",
         UNCHANGED <<pc, call, cache, media>>
  PROVE  AbstractStep
<1>1. ~Looked(c) /\ ~Looked(c)' /\ ~Stored(c) /\ ~Stored(c)'
  BY DEF Looked, Stored
<1>2. Caller(c)' = Caller(c)
  BY <1>1, Unseen
<1>3. QED
  BY <1>2, OtherCallers, Stutter DEF Holding

LEMMA AcceptRefines ==
  ASSUME IInv, NEW c \in Clients, pc[c] \in {"busy", "data"}, Accept
  PROVE  AbstractStep
<1>1. UNCHANGED <<pc, call, cache, media>> /\ drive.phase = "accepting" /\ drive'.phase = "receiving"
  BY DEF Accept, IInv, TypeInv
<1>2. QED
  BY <1>1, StillPending

LEMMA ErrorRefines ==
  ASSUME IInv, NEW c \in Clients, Error,
         pc[c] \in {"busy", "data"} \/ (pc[c] \in {"flush", "settle"} /\ call[c].op = "write")
  PROVE  AbstractStep
<1>1. UNCHANGED <<pc, call, cache, media>> /\ drive.phase # "sending"
  BY DEF Error
<1>2. IInv' /\ drive'.phase = "error"
  BY ErrorStep
<1>3. CASE pc[c] \in {"busy", "data"}
  BY <1>1, <1>2, <1>3, StillPending
<1>4. CASE pc[c] \in {"flush", "settle"} /\ call[c].op = "write" /\ drive.phase = "storing"
  BY <1>1, <1>2, <1>4, WriteTakesEffect
<1>5. CASE pc[c] \in {"flush", "settle"} /\ call[c].op = "write" /\ drive.phase # "storing"
  <2>1. Stored(c) /\ Stored(c)'
    BY <1>1, <1>2, <1>5 DEF Stored
  <2>2. Caller(c)' = Caller(c)
    BY <1>1, <1>5, <2>1, Unseen
  <2>3. QED
    BY <1>1, <1>5, <2>2, OtherCallers, Stutter DEF Holding
<1>6. QED
  BY <1>3, <1>4, <1>5

LEMMA FlushCacheRefines ==
  ASSUME IInv, NEW c \in Clients, pc[c] = "settle", call[c].op = "write", taken, FlushCache
  PROVE  AbstractStep
<1>1. UNCHANGED <<pc, call, cache>> /\ drive.phase = "flushing" /\ media' = cache
  BY DEF FlushCache
<1>2. drive'.phase = "idle"
  BY FlushCacheStep
<1>3. Stored(c) /\ Stored(c)'
  BY <1>1, <1>2 DEF Stored
<1>4. Caller(c)' = Caller(c)
  BY <1>1, <1>3, Unseen
<1>5. Callers' = Callers
  BY <1>1, <1>4, OtherCallers, CallersStay DEF Holding
<1>6. cache = [l \in Lbas |-> IF l \in Lbas THEN cache[l] ELSE media[l]]
  BY DEF IInv, TypeInv
<1>7. SS!Settle
  BY <1>1, <1>5, <1>6 DEF SS!Settle, Callers
<1>8. QED
  BY <1>7 DEF AbstractStep, SS!Next

LEMMA WriteBackRefines == IInv /\ WriteBack => AbstractStep
<1> SUFFICES ASSUME IInv, WriteBack PROVE AbstractStep
  OBVIOUS
<1>1. PICK k \in Lbas : media' = [media EXCEPT ![k] = cache[k]]
  BY DEF WriteBack
<1>2. UNCHANGED <<pc, call, drive, cache>>
  BY DEF WriteBack
<1>3. Callers' = Callers
  BY <1>2, CallersStay DEF Caller, Looked, Stored
<1>4. media' = [l \in Lbas |-> IF l \in {k} THEN cache[l] ELSE media[l]]
  BY <1>1 DEF IInv, TypeInv
<1>5. SS!Settle
  BY <1>2, <1>3, <1>4 DEF SS!Settle, Callers
<1>6. QED
  BY <1>5 DEF AbstractStep, SS!Next

LEMMA PowerRefines == PowerFails => AbstractStep
<1> SUFFICES ASSUME PowerFails PROVE AbstractStep
  OBVIOUS
<1>1. pc' = [c \in Clients |-> "idle"] /\ cache' = media /\ media' = media
  BY DEF PowerFails
<1>2. \A c \in Clients : Caller(c)' = SS!Idle
  BY <1>1 DEF Caller, SS!Idle, NoCall
<1>3. Callers' = [c \in Clients |-> SS!Idle]
  BY <1>2 DEF Callers
<1>4. SS!PowerFails
  BY <1>1, <1>3 DEF SS!PowerFails, Callers
<1>5. QED
  BY <1>4 DEF AbstractStep, SS!Next

LEMMA DriveRefines == IInv /\ (Device \/ Error) => AbstractStep
<1> SUFFICES ASSUME IInv, Device \/ Error PROVE AbstractStep
  OBVIOUS
<1>1. drive.phase \in {"fetching", "accepting", "storing", "flushing"}
  BY DEF Device, Fetch, Accept, Store, FlushCache, Error
<1>2. PICK c \in Clients :
        /\ drive.phase = "fetching" => pc[c] \in {"busy", "data"} /\ call[c].op = "read"
        /\ drive.phase = "accepting" => pc[c] \in {"busy", "data"} /\ call[c].op = "write"
        /\ drive.phase = "storing" => pc[c] \in {"flush", "settle"} /\ call[c].op = "write"
        /\ drive.phase = "flushing" => pc[c] = "settle" /\ call[c].op = "write" /\ taken
  BY <1>1, WorksForSomeone
<1>3. CASE Fetch
  BY <1>2, <1>3, FetchRefines DEF Fetch
<1>4. CASE Accept
  BY <1>2, <1>4, AcceptRefines DEF Accept
<1>5. CASE Store
  BY <1>2, <1>5, StoreRefines DEF Store
<1>6. CASE FlushCache
  BY <1>2, <1>6, FlushCacheRefines DEF FlushCache
<1>7. CASE Error
  <2>1. pc[c] \in {"busy", "data"} \/ (pc[c] \in {"flush", "settle"} /\ call[c].op = "write")
    BY <1>1, <1>2
  <2>2. QED
    BY <1>7, <2>1, ErrorRefines
<1>8. QED
  BY <1>3, <1>4, <1>5, <1>6, <1>7 DEF Device

LEMMA NextRefines == IInv /\ [Next]_vars => AbstractStep
<1> SUFFICES ASSUME IInv, [Next]_vars PROVE AbstractStep
  OBVIOUS
<1>1. ASSUME NEW c \in Clients, Start(c) \/ Client(c) PROVE AbstractStep
  BY <1>1, StartRefines, AcquireRefines, WaitBsyRefines, SelectRefines, CommandRefines, WaitDrqRefines,
     ReadWordRefines, WriteWordRefines, FlushRefines, ReleaseRefines DEF Client
<1>2. CASE UNCHANGED vars
  <2>1. UNCHANGED <<pc, call, drive, cache, media>>
    BY <1>2 DEF vars
  <2>2. \A d \in Clients : Caller(d)' = Caller(d)
    BY <2>1 DEF Caller, Looked, Stored
  <2>3. QED
    BY <2>1, <2>2, Stutter
<1>3. QED
  BY <1>1, <1>2, DriveRefines, WriteBackRefines, PowerRefines DEF Next

(* The driver and the drive implement a store of whole sectors: every call *)
(* takes effect at one instant, whatever else runs between its words.      *)
THEOREM ImplementsSectorStore == Spec => StoreSpec
<1>1. Init /\ [][Next]_vars /\ []IInv => SS!Init /\ [][SS!Next]_<<cache, media, Callers>>
  BY InitRefines, NextRefines, PTL DEF AbstractStep
<1>2. SS!Init /\ [][SS!Next]_<<cache, media, Callers>> => StoreSpec
  BY DEF StoreSpec, SS!Spec, Callers
<1>3. QED
  BY <1>1, <1>2, Invariant, PTL DEF Spec

-----------------------------------------------------------------------------
(* The files on the disk. *)

(* Slots are taken without gaps, in the directory and in what a power      *)
(* failure would leave of it.                                              *)
InOrder(d) == \A i, j \in Slots : j < i /\ d[i] # NoEntry => d[j] # NoEntry

Entries == [name : {StoredName(name) : name \in Names}, size : Sizes]
Directories == {d \in [Slots -> Entries \union {NoEntry}] : InOrder(d)}
Files == [name : Names, size : Sizes, content : Contents, reach : Nat]

Shapes ==
  /\ dir \in Directories
  /\ op \in [slot : Slots, name : Names \union {<<>>}, size : Sizes \union {0},
             content : Contents \union {"none"}, next : Nat, refused : BOOLEAN]
  /\ stage = "writing" => op.name \in Names /\ op.size \in Sizes /\ op.content \in Contents
  /\ DOMAIN saved \subseteq Slots /\ \A i \in DOMAIN saved : saved[i] \in Files

PlatesShape ==
  /\ DOMAIN plates = {"formatted", "dir", "data"}
  /\ plates.formatted \in BOOLEAN
  /\ plates.dir \in Directories
  /\ DOMAIN plates.data = DataSectors

(* The write in progress has a slot behind all saved files, which know how *)
(* far it reaches, and unless the drive refused it something, its first    *)
(* sectors are in place.                                                   *)
WriteIsLast ==
  stage = "writing" =>
    /\ \A i \in DOMAIN saved :
         i < op.slot /\ op.slot + SectorsWritten(op.size) - 1 <= saved[i].reach
    /\ ~op.refused =>
         \A s \in 0 .. op.next - 1 : data[Home(op.slot) + s] = <<op.content, s>>

Inv == TypeOK /\ Shapes /\ PlatesShape /\ WriteIsLast /\ LostOnlyToOverrun

-----------------------------------------------------------------------------
(* Every file has a sector, and no more than the longest one. *)
LEMMA SectorsInRange ==
  ASSUME NEW size \in Sizes
  PROVE  SectorsWritten(size) \in 1 .. Longest
<1>1. size \in Nat
  BY FileSystemAssumption
<1>2. SectorsWritten(size) \in Nat \ {0}
  BY <1>1 DEF SectorsWritten, SectorsOf
<1> QED
  BY <1>2, DiskLargeEnough

(* An entry that was written is an entry: a name is never empty. *)
LEMMA EntryIsUsed ==
  ASSUME NEW entry \in Entries
  PROVE  entry # NoEntry /\ DOMAIN entry.name = 1 .. NameLen /\ entry.size \in Sizes
<1>1. PICK name \in Names : entry.name = StoredName(name)
  BY DEF Entries
<1>2. DOMAIN entry.name = 1 .. NameLen
  BY <1>1 DEF StoredName, Padded
<1>3. 1 \in DOMAIN entry.name
  BY <1>2 DEF NameLen
<1>4. entry.name # <<>>
  BY <1>3
<1> QED
  BY <1>2, <1>4 DEF Entries, NoEntry

(* The slot a write takes is the one behind all those in use. *)
LEMMA TakesTheNextSlot ==
  ASSUME InOrder(dir), NEW i \in FirstFree
  PROVE  /\ i \in Slots \ Used
         /\ \A j \in Used : j < i
         /\ \A j \in Slots : j < i => j \in Used
<1>1. i \in Slots \ Used
  BY DEF FirstFree
<1>2. ASSUME NEW j \in Used
      PROVE  j < i
  <2>1. j # i /\ ~(i < j)
    BY <1>1, <1>2 DEF InOrder, Used
  <2> QED
    BY <1>1, <1>2, <2>1, FileSystemAssumption DEF Used, Slots
<1>3. ASSUME NEW j \in Slots, j < i
      PROVE  j \in Used
  BY <1>1, <1>3, FileSystemAssumption DEF FirstFree, Slots
<1> QED
  BY <1>1, <1>2, <1>3

(* A saved file has its entry, under its name. *)
LEMMA SavedAreUsed ==
  ASSUME Inv, NEW i \in DOMAIN saved
  PROVE  /\ i \in Used /\ saved[i] \in Files
         /\ dir[i].name = StoredName(saved[i].name) /\ dir[i].size = saved[i].size
<1>1. i \in Slots /\ saved[i] \in Files /\ dir[i] = Entry(saved[i])
  BY DEF Inv, Shapes, LostOnlyToOverrun
<1>2. Entry(saved[i]) \in Entries
  BY <1>1 DEF Entry, Entries, Files
<1>3. Entry(saved[i]) # NoEntry
  BY <1>2, EntryIsUsed
<1> QED
  BY <1>1, <1>3 DEF Used, Entry

(* What the type invariant says of a directory. *)
LEMMA DirectoryIs ==
  ASSUME dir \in Directories
  PROVE  /\ \A i \in Used : DOMAIN dir[i].name = 1 .. NameLen /\ dir[i].size \in Sizes
         /\ \A i \in Used, j \in Slots : j < i => j \in Used
<1>1. ASSUME NEW i \in Used
      PROVE  DOMAIN dir[i].name = 1 .. NameLen /\ dir[i].size \in Sizes
  <2>1. dir[i] \in Entries
    BY <1>1 DEF Directories, Used
  <2> QED
    BY <2>1, EntryIsUsed
<1>2. \A i \in Used, j \in Slots : j < i => j \in Used
  BY DEF Directories, InOrder, Used
<1> QED
  BY <1>1, <1>2

-----------------------------------------------------------------------------
LEMMA InvHolds == InitFiles => Inv
<1> SUFFICES ASSUME InitFiles PROVE Inv
  OBVIOUS
<1>1. NumSlots \in Nat \ {0} /\ 0 \in Slots
  BY FileSystemAssumption DEF Slots
<1>2. Used = {} /\ DOMAIN saved = {}
  BY DEF InitFiles, Used
<1>3. dir \in Directories
  BY DEF InitFiles, Directories, InOrder
<1>4. Shapes
  BY <1>1, <1>2, <1>3 DEF InitFiles, Shapes, NoWrite
<1>5. PlatesShape
  BY <1>3 DEF InitFiles, PlatesShape
<1>6. TypeOK
  BY <1>2 DEF InitFiles, TypeOK
<1>7. WriteIsLast /\ LostOnlyToOverrun
  BY <1>2 DEF InitFiles, WriteIsLast, LostOnlyToOverrun
<1> QED
  BY <1>4, <1>5, <1>6, <1>7 DEF Inv

(* The entry goes behind all others; the files saved before it learn how   *)
(* far the new one reaches.                                                *)
LEMMA InvAfterEntry ==
  ASSUME Inv, NEW name \in Names, NEW size \in Sizes, NEW content \in Contents,
         WriteEntry(name, size, content)
  PROVE  Inv'
<1> DEFINE entry == [name |-> StoredName(name), size |-> size]
<1>1. PICK i \in FirstFree, no \in BOOLEAN :
        /\ op' = [slot |-> i, name |-> name, size |-> size, content |-> content,
                  next |-> 0, refused |-> no]
        /\ dir' = IF no THEN dir ELSE [dir EXCEPT ![i] = Entry(op')]
        /\ saved' = [j \in DOMAIN saved |->
             [saved[j] EXCEPT !.reach = FurthestOf(@, i + SectorsWritten(size) - 1)]]
  BY DEF WriteEntry
<1>2. i \in Slots \ Used /\ (\A j \in Used : j < i) /\ (\A j \in Slots : j < i => j \in Used)
  BY TakesTheNextSlot DEF Inv, Shapes, Directories
<1>3. /\ op'.slot = i /\ op'.name = name /\ op'.size = size /\ op'.content = content
      /\ op'.next = 0 /\ op'.refused = no
  BY <1>1
<1>4. Entry(op') = entry
  BY <1>3 DEF Entry
<1>5. entry \in Entries
  BY DEF Entries
<1> HIDE DEF entry
<1>6. /\ dir' \in [Slots -> Entries \union {NoEntry}]
      /\ \A j \in Slots \ {i} : dir'[j] = dir[j]
      /\ dir'[i] = entry \/ (dir'[i] = NoEntry /\ no)
  <2>1. dir \in [Slots -> Entries \union {NoEntry}] /\ dir[i] = NoEntry
    BY <1>2 DEF Inv, Shapes, Directories, Used
  <2> QED
    BY <1>1, <1>2, <1>4, <1>5, <2>1
<1>7. dir' \in Directories
  <2> SUFFICES ASSUME NEW k \in Slots, NEW j \in Slots, j < k, dir'[k] # NoEntry
               PROVE  dir'[j] # NoEntry
    BY <1>6, Zenon DEF Directories, InOrder
  <2>1. CASE k = i
    <3>1. j \in Used /\ j # i
      BY <1>2, <2>1, FileSystemAssumption DEF Slots
    <3> QED
      BY <1>6, <3>1 DEF Used
  <2>2. CASE k # i
    <3>1. k \in Used
      BY <1>6, <2>2 DEF Used
    <3>2. j \in Used /\ j # i
      BY <1>2, <3>1, FileSystemAssumption DEF Inv, Shapes, Directories, InOrder, Used, Slots
    <3> QED
      BY <1>6, <3>2 DEF Used
  <2> QED
    BY <2>1, <2>2
<1>8. /\ stage' = "writing" /\ formatted' = formatted /\ data' = data /\ plates' = plates
  BY DEF WriteEntry
<1>9. SectorsWritten(size) \in 1 .. Longest /\ Longest \in Nat /\ i \in Nat
  BY <1>2, SectorsInRange, DiskLargeEnough, FileSystemAssumption DEF Slots
<1>10. DOMAIN saved' = DOMAIN saved
  BY <1>1
<1>11. ASSUME NEW j \in DOMAIN saved
       PROVE  /\ saved'[j] \in Files /\ saved'[j].name = saved[j].name
              /\ saved'[j].size = saved[j].size /\ saved'[j].content = saved[j].content
              /\ saved[j].reach <= saved'[j].reach
              /\ i + SectorsWritten(size) - 1 <= saved'[j].reach
              /\ dir'[j] = dir[j] /\ j < i
  <2> DEFINE f == saved[j]
             last == i + SectorsWritten(size) - 1
  <2>1. f \in Files /\ f.reach \in Nat /\ last \in Nat
    BY <1>9 DEF Inv, Shapes, Files
  <2>2. saved'[j] = [f EXCEPT !.reach = FurthestOf(f.reach, last)]
    BY <1>1
  <2>3. FurthestOf(f.reach, last) \in Nat /\ f.reach <= FurthestOf(f.reach, last)
        /\ last <= FurthestOf(f.reach, last)
    BY <2>1 DEF FurthestOf
  <2> HIDE DEF f, last
  <2>4. /\ saved'[j] \in Files /\ saved'[j].name = f.name /\ saved'[j].size = f.size
        /\ saved'[j].content = f.content /\ saved'[j].reach = FurthestOf(f.reach, last)
    BY <2>1, <2>2, <2>3 DEF Files
  <2>5. j < i /\ dir'[j] = dir[j]
    <3>1. j \in Used
      BY SavedAreUsed
    <3> QED
      BY <1>2, <1>6, <3>1 DEF Used
  <2> QED
    BY <2>3, <2>4, <2>5 DEF f, last
<1>12. Shapes'
  <2>1. /\ op' \in [slot : Slots, name : Names \union {<<>>}, size : Sizes \union {0},
                    content : Contents \union {"none"}, next : Nat, refused : BOOLEAN]
        /\ op'.name \in Names /\ op'.size \in Sizes /\ op'.content \in Contents
    BY <1>1, <1>2, <1>3
  <2>2. DOMAIN saved' \subseteq Slots /\ \A j \in DOMAIN saved' : saved'[j] \in Files
    BY <1>10, <1>11 DEF Inv, Shapes
  <2> QED
    BY <1>7, <2>1, <2>2 DEF Shapes
<1>13. TypeOK'
  <2>1. Used' = {j \in Slots : dir'[j] # NoEntry}
    BY DEF Used, Slots
  <2>2. /\ \A j \in Used' : DOMAIN dir'[j].name = 1 .. NameLen /\ dir'[j].size \in Sizes
        /\ \A k \in Used', j \in Slots : j < k => j \in Used'
    <3>1. ASSUME NEW j \in Used'
          PROVE  DOMAIN dir'[j].name = 1 .. NameLen /\ dir'[j].size \in Sizes
      <4>1. dir'[j] \in Entries
        BY <1>6, <2>1, <3>1
      <4> QED
        BY <4>1, EntryIsUsed
    <3>2. InOrder(dir')
      BY <1>7, Zenon DEF Directories
    <3>3. \A k \in Used', j \in Slots : j < k => j \in Used'
      BY <2>1, <3>2 DEF InOrder
    <3> QED
      BY <3>1, <3>3
  <2>3. dir'[op'.slot] = Entry(op') \/ (dir'[op'.slot] = NoEntry /\ op'.refused)
    BY <1>3, <1>4, <1>6
  <2>4. op'.next < SectorsWritten(op'.size)
    BY <1>3, <1>9
  <2> QED
    BY <1>8, <2>2, <2>3, <2>4 DEF Inv, TypeOK, Slots
<1>14. PlatesShape'
  BY <1>8 DEF Inv, PlatesShape
<1>15. WriteIsLast'
  <2>1. 0 .. op'.next - 1 = {}
    BY <1>3
  <2> QED
    BY <1>3, <1>10, <1>11, <2>1 DEF WriteIsLast
<1>16. LostOnlyToOverrun'
  <2> SUFFICES ASSUME NEW j \in DOMAIN saved
               PROVE  /\ dir'[j] = Entry(saved'[j])
                      /\ \A s \in 0 .. SectorsWritten(saved'[j].size) - 1 :
                           data'[Home(j) + s] = <<saved'[j].content, s>>
                             \/ (s > 0 /\ j + s <= saved'[j].reach)
    BY <1>10 DEF LostOnlyToOverrun, Home
  <2>1. /\ saved'[j].name = saved[j].name /\ saved'[j].size = saved[j].size
        /\ saved'[j].content = saved[j].content /\ saved[j].reach <= saved'[j].reach
        /\ dir'[j] = dir[j] /\ saved[j].reach \in Nat /\ saved'[j].reach \in Nat /\ j \in Nat
    BY <1>11, FileSystemAssumption DEF Inv, Shapes, Files, Slots
  <2>2. dir'[j] = Entry(saved'[j])
    BY <2>1 DEF Inv, LostOnlyToOverrun, Entry
  <2>3. ASSUME NEW s \in 0 .. SectorsWritten(saved'[j].size) - 1
        PROVE  data'[Home(j) + s] = <<saved'[j].content, s>> \/ (s > 0 /\ j + s <= saved'[j].reach)
    <3>1. data[Home(j) + s] = <<saved[j].content, s>> \/ (s > 0 /\ j + s <= saved[j].reach)
      BY <2>1, <2>3 DEF Inv, LostOnlyToOverrun
    <3>2. s \in Int
      OBVIOUS
    <3> QED
      BY <1>8, <2>1, <3>1, <3>2
  <2> QED
    BY <2>2, <2>3
<1> QED
  BY <1>12, <1>13, <1>14, <1>15, <1>16 DEF Inv

-----------------------------------------------------------------------------
(* The next sector of the last slot's file harms no saved file that it     *)
(* does not reach into.                                                    *)
LEMMA InvAfterSector ==
  ASSUME Inv, WriteSector
  PROVE  Inv'
<1> DEFINE slot == op.slot
           part == op.next
           place == Home(slot) + part
           size == op.size
<1>1. /\ stage = "writing" /\ dir' = dir /\ formatted' = formatted /\ plates' = plates
  BY DEF WriteSector
<1>2. PICK no \in BOOLEAN :
        /\ data' = IF no THEN data ELSE [data EXCEPT ![place] = <<op.content, part>>]
        /\ IF part + 1 = SectorsWritten(size)
           THEN /\ stage' = "idle"
                /\ op' = NoWrite
                /\ saved' =
                     IF op.refused \/ no THEN saved
                     ELSE [i \in DOMAIN saved \cup {slot} |->
                             IF i \in DOMAIN saved THEN saved[i]
                             ELSE [name |-> op.name, size |-> size,
                                   content |-> op.content, reach |-> slot]]
           ELSE /\ op' = [op EXCEPT !.next = @ + 1, !.refused = @ \/ no]
                /\ UNCHANGED <<stage, saved>>
  BY DEF WriteSector
<1>3. /\ slot \in Slots /\ slot \in Nat /\ slot < NumSlots /\ part \in Nat
      /\ size \in Sizes /\ part < SectorsWritten(size) /\ SectorsWritten(size) \in 1 .. Longest
      /\ op.name \in Names /\ op.content \in Contents /\ op.refused \in BOOLEAN
  <2>1. /\ slot \in Slots /\ part \in Nat /\ size \in Sizes
        /\ op.name \in Names /\ op.content \in Contents /\ op.refused \in BOOLEAN
    BY <1>1 DEF Inv, Shapes
  <2>2. slot \in Nat /\ slot < NumSlots
    BY <2>1, FileSystemAssumption DEF Slots
  <2>3. part < SectorsWritten(size)
    BY <1>1 DEF Inv, TypeOK
  <2> QED
    BY <2>1, <2>2, <2>3, SectorsInRange
<1>4. place \in DataSectors /\ DOMAIN data = DataSectors
  BY <1>3, DiskLargeEnough, FileSystemAssumption DEF Home, DataSectors, Inv, TypeOK
<1> HIDE DEF place
<1>5. /\ DOMAIN data' = DataSectors /\ (~no => data'[place] = <<op.content, part>>)
      /\ \A s : s # place => data'[s] = data[s]
      /\ no => data' = data
  BY <1>2, <1>4
<1>6. Used' = Used
  BY <1>1 DEF Used
<1>7. ASSUME ~op.refused, ~no
      PROVE  \A s \in 0 .. part : data'[Home(slot) + s] = <<op.content, s>>
  <2> SUFFICES ASSUME NEW s \in 0 .. part
               PROVE  data'[Home(slot) + s] = <<op.content, s>>
    OBVIOUS
  <2>1. CASE s = part
    BY <1>5, <1>7, <2>1 DEF place
  <2>2. CASE s # part
    <3>1. s \in 0 .. part - 1 /\ Home(slot) + s # place
      BY <1>3, <2>2 DEF Home, place
    <3> QED
      BY <1>1, <1>5, <1>7, <3>1 DEF Inv, WriteIsLast
  <2> QED
    BY <2>1, <2>2
<1>8. ASSUME NEW i \in DOMAIN saved
      PROVE  /\ dir'[i] = Entry(saved[i])
             /\ \A s \in 0 .. SectorsWritten(saved[i].size) - 1 :
                  data'[Home(i) + s] = <<saved[i].content, s>> \/ (s > 0 /\ i + s <= saved[i].reach)
  <2>1. /\ i \in Nat /\ i < slot /\ saved[i].reach \in Nat
        /\ slot + SectorsWritten(size) - 1 <= saved[i].reach
    BY <1>1, FileSystemAssumption DEF Inv, Shapes, Files, WriteIsLast, Slots
  <2>2. ASSUME NEW s \in 0 .. SectorsWritten(saved[i].size) - 1
        PROVE  data'[Home(i) + s] = <<saved[i].content, s>> \/ (s > 0 /\ i + s <= saved[i].reach)
    <3>1. CASE Home(i) + s = place
      <4>1. i + s = slot + part
        BY <1>3, <2>1, <3>1 DEF Home, place
      <4> QED
        BY <1>3, <2>1, <4>1
    <3>2. CASE Home(i) + s # place
      BY <1>5, <3>2 DEF Inv, LostOnlyToOverrun
    <3> QED
      BY <3>1, <3>2
  <2> QED
    BY <1>1, <2>2 DEF Inv, LostOnlyToOverrun
<1>9. PlatesShape'
  BY <1>1 DEF Inv, PlatesShape
<1>10. ASSUME NEW f, f = [name |-> op.name, size |-> size, content |-> op.content, reach |-> slot],
              ~op.refused, ~no, part + 1 = SectorsWritten(size)
       PROVE  /\ f \in Files /\ dir'[slot] = Entry(f)
              /\ \A s \in 0 .. SectorsWritten(f.size) - 1 : data'[Home(slot) + s] = <<f.content, s>>
  <2>1. f \in Files /\ f.name = op.name /\ f.size = size /\ f.content = op.content
    BY <1>3, <1>10 DEF Files
  <2>2. dir'[slot] = Entry(f)
    BY <1>1, <1>10, <2>1 DEF Inv, TypeOK, Entry
  <2>3. SectorsWritten(f.size) - 1 = part
    BY <1>3, <1>10, <2>1
  <2> QED
    BY <1>7, <1>10, <2>1, <2>2, <2>3
<1>11. CASE part + 1 = SectorsWritten(size)
  <2>1. stage' = "idle" /\ op' = NoWrite
    BY <1>2, <1>11
  <2>2. TypeOK' /\ WriteIsLast'
    BY <1>1, <1>5, <1>6, <2>1 DEF Inv, TypeOK, WriteIsLast, Slots
  <2>3. op' \in [slot : Slots, name : Names \union {<<>>}, size : Sizes \union {0},
                 content : Contents \union {"none"}, next : Nat, refused : BOOLEAN]
    <3>1. 0 \in Slots
      BY FileSystemAssumption DEF Slots
    <3> QED
      BY <2>1, <3>1 DEF NoWrite
  <2>4. CASE op.refused \/ no
    <3>1. saved' = saved
      BY <1>2, <1>11, <2>4
    <3>2. Shapes'
      BY <1>1, <2>1, <2>3, <3>1 DEF Inv, Shapes
    <3>3. LostOnlyToOverrun'
      BY <1>8, <3>1 DEF LostOnlyToOverrun, Home
    <3> QED
      BY <1>9, <2>2, <3>2, <3>3 DEF Inv
  <2>5. CASE ~op.refused /\ ~no
    <3> DEFINE f == [name |-> op.name, size |-> size, content |-> op.content, reach |-> slot]
    <3>1. saved' = [i \in DOMAIN saved \cup {slot} |-> IF i \in DOMAIN saved THEN saved[i] ELSE f]
      BY <1>2, <1>11, <2>5
    <3>2. /\ f \in Files /\ dir'[slot] = Entry(f)
          /\ \A s \in 0 .. SectorsWritten(f.size) - 1 : data'[Home(slot) + s] = <<f.content, s>>
      BY <1>10, <1>11, <2>5, Zenon
    <3> HIDE DEF f
    <3>3. /\ DOMAIN saved' = DOMAIN saved \cup {slot}
          /\ \A i \in DOMAIN saved' :
               (i \in DOMAIN saved /\ saved'[i] = saved[i]) \/ (i = slot /\ saved'[i] = f)
      BY <3>1
    <3>4. Shapes'
      <4>1. DOMAIN saved' \subseteq Slots /\ \A i \in DOMAIN saved' : saved'[i] \in Files
        BY <1>3, <3>2, <3>3 DEF Inv, Shapes
      <4> QED
        BY <1>1, <2>1, <2>3, <4>1 DEF Inv, Shapes
    <3>5. LostOnlyToOverrun'
      <4> SUFFICES ASSUME NEW i \in DOMAIN saved'
                   PROVE  /\ dir'[i] = Entry(saved'[i])
                          /\ \A s \in 0 .. SectorsWritten(saved'[i].size) - 1 :
                               data'[Home(i) + s] = <<saved'[i].content, s>>
                                 \/ (s > 0 /\ i + s <= saved'[i].reach)
        BY DEF LostOnlyToOverrun, Home
      <4>1. CASE i \in DOMAIN saved /\ saved'[i] = saved[i]
        BY <1>8, <4>1
      <4>2. CASE i = slot /\ saved'[i] = f
        BY <3>2, <4>2
      <4> QED
        BY <3>3, <4>1, <4>2
    <3> QED
      BY <1>9, <2>2, <3>4, <3>5 DEF Inv
  <2> QED
    BY <2>4, <2>5
<1>12. CASE part + 1 # SectorsWritten(size)
  <2>1. stage' = stage /\ saved' = saved /\ op' = [op EXCEPT !.next = @ + 1, !.refused = @ \/ no]
    BY <1>2, <1>12
  <2>2. /\ op' \in [slot : Slots, name : Names \union {<<>>}, size : Sizes \union {0},
                    content : Contents \union {"none"}, next : Nat, refused : BOOLEAN]
        /\ op'.slot = slot /\ op'.name = op.name /\ op'.size = size /\ op'.content = op.content
        /\ op'.next = part + 1
    <3>1. op \in [slot : Slots, name : Names \union {<<>>}, size : Sizes \union {0},
                  content : Contents \union {"none"}, next : Nat, refused : BOOLEAN]
      BY DEF Inv, Shapes
    <3>2. part + 1 \in Nat /\ (op.refused \/ no) \in BOOLEAN
      BY <1>3
    <3> DEFINE either == op.refused \/ no
    <3>3. op' = [op EXCEPT !.next = part + 1, !.refused = either]
      BY <2>1
    <3> HIDE DEF either
    <3>4. either \in BOOLEAN
      BY <3>2 DEF either
    <3> QED
      BY <3>1, <3>2, <3>3, <3>4
  <2>3. op'.refused = (op.refused \/ no)
    BY <2>1, Zenon DEF Inv, Shapes
  <2>4. part + 1 < SectorsWritten(size)
    BY <1>3, <1>12
  <2>5. TypeOK'
    <3>1. dir'[op'.slot] = Entry(op') \/ (dir'[op'.slot] = NoEntry /\ op'.refused)
      <4>1. Entry(op') = Entry(op)
        BY <2>2 DEF Entry
      <4> QED
        BY <1>1, <2>2, <2>3, <4>1 DEF Inv, TypeOK
    <3>2. op'.next < SectorsWritten(op'.size)
      BY <2>2, <2>4
    <3>3. Slots' = Slots
      BY DEF Slots
    <3>4. TypeOK
      BY DEF Inv
    <3> QED
      BY <1>1, <1>5, <1>6, <3>1, <3>2, <3>3, <3>4, <2>1, SMTT(30) DEF TypeOK
  <2>6. Shapes'
    BY <1>1, <1>3, <2>1, <2>2 DEF Inv, Shapes
  <2>7. WriteIsLast'
    <3>1. (part + 1) - 1 = part
      BY <1>3
    <3>2. ASSUME ~op'.refused
          PROVE  \A s \in 0 .. op'.next - 1 : data'[Home(op'.slot) + s] = <<op'.content, s>>
      BY <1>7, <2>2, <2>3, <3>1, <3>2
    <3>3. \A i \in DOMAIN saved' :
            i < op'.slot /\ op'.slot + SectorsWritten(op'.size) - 1 <= saved'[i].reach
      BY <1>1, <2>1, <2>2 DEF Inv, WriteIsLast
    <3> QED
      BY <3>2, <3>3 DEF WriteIsLast, Home
  <2>8. LostOnlyToOverrun'
    BY <1>8, <2>1 DEF LostOnlyToOverrun, Home
  <2> QED
    BY <1>9, <2>5, <2>6, <2>7, <2>8 DEF Inv
<1> QED
  BY <1>11, <1>12

-----------------------------------------------------------------------------
(* A step that leaves what the drive holds alone and ends the write, if    *)
(* there is one.                                                           *)
LEMMA InvAfterEnd ==
  ASSUME Inv, UNCHANGED <<dir, data, plates, saved>>, op' = op \/ op' = NoWrite,
         stage' \in {"off", "idle"}, formatted' \in BOOLEAN
  PROVE  Inv'
<1>1. Used' = Used
  BY DEF Used
<1>2. NoWrite \in [slot : Slots, name : Names \union {<<>>}, size : Sizes \union {0},
                   content : Contents \union {"none"}, next : Nat, refused : BOOLEAN]
  BY FileSystemAssumption DEF Slots, NoWrite
<1>3. TypeOK'
  BY <1>1 DEF Inv, TypeOK, Slots
<1>4. Shapes'
  BY <1>2 DEF Inv, Shapes
<1>5. PlatesShape' /\ WriteIsLast' /\ LostOnlyToOverrun'
  BY DEF Inv, PlatesShape, WriteIsLast, LostOnlyToOverrun, Home
<1> QED
  BY <1>3, <1>4, <1>5 DEF Inv

LEMMA InvAfterSettle ==
  ASSUME Inv, Settle
  PROVE  Inv'
<1>1. UNCHANGED <<formatted, dir, data, stage, op, saved>>
  BY DEF Settle, disk
<1>2. PlatesShape'
  <2>1. CASE plates' = [plates EXCEPT !.formatted = formatted]
    BY <2>1 DEF Inv, PlatesShape, TypeOK
  <2>2. CASE plates' = [plates EXCEPT !.dir = dir]
    BY <2>2 DEF Inv, PlatesShape, Shapes
  <2>3. ASSUME NEW s \in DataSectors, plates' = [plates EXCEPT !.data[s] = data[s]]
        PROVE  PlatesShape'
    BY <2>3 DEF Inv, PlatesShape
  <2> QED
    BY <2>1, <2>2, <2>3 DEF Settle
<1>3. TypeOK' /\ Shapes' /\ WriteIsLast' /\ LostOnlyToOverrun'
  BY <1>1 DEF Inv, TypeOK, Shapes, WriteIsLast, LostOnlyToOverrun, Used, Slots, Home
<1> QED
  BY <1>2, <1>3 DEF Inv

(* The files all of whose sectors had settled are there again. *)
LEMMA InvAfterPowerLoss ==
  ASSUME Inv, PowerLoss
  PROVE  Inv'
<1>1. /\ stage' = "off" /\ op' = NoWrite /\ plates' = plates
      /\ formatted' = plates.formatted /\ dir' = plates.dir /\ data' = plates.data
      /\ saved' = [i \in {j \in DOMAIN saved : Settled(j)} |-> saved[i]]
  BY DEF PowerLoss
<1>2. /\ DOMAIN saved' = {j \in DOMAIN saved : Settled(j)}
      /\ \A i \in DOMAIN saved' : i \in DOMAIN saved /\ Settled(i) /\ saved'[i] = saved[i]
  BY <1>1
<1>3. /\ formatted' \in BOOLEAN /\ dir' \in Directories /\ DOMAIN data' = DataSectors
  BY <1>1 DEF Inv, PlatesShape
<1>4. PlatesShape' /\ WriteIsLast'
  BY <1>1 DEF Inv, PlatesShape, WriteIsLast
<1>5. Shapes'
  <2>1. NoWrite \in [slot : Slots, name : Names \union {<<>>}, size : Sizes \union {0},
                     content : Contents \union {"none"}, next : Nat, refused : BOOLEAN]
    BY FileSystemAssumption DEF Slots, NoWrite
  <2> QED
    BY <1>1, <1>2, <1>3, <2>1 DEF Inv, Shapes
<1>6. TypeOK'
  <2>1. Used' = {j \in Slots : dir'[j] # NoEntry}
    BY DEF Used, Slots
  <2>2. ASSUME NEW i \in Used'
        PROVE  DOMAIN dir'[i].name = 1 .. NameLen /\ dir'[i].size \in Sizes
    <3>1. dir'[i] \in Entries
      BY <1>3, <2>1, <2>2 DEF Directories
    <3> QED
      BY <3>1, EntryIsUsed
  <2>3. InOrder(dir')
    BY <1>3, Zenon DEF Directories
  <2>4. \A i \in Used', j \in Slots : j < i => j \in Used'
    BY <2>1, <2>3 DEF InOrder
  <2> QED
    BY <1>1, <1>3, <2>2, <2>4 DEF TypeOK, Slots
<1>7. LostOnlyToOverrun'
  <2> SUFFICES ASSUME NEW i \in DOMAIN saved'
               PROVE  /\ dir'[i] = Entry(saved[i])
                      /\ \A s \in 0 .. SectorsWritten(saved[i].size) - 1 :
                           data'[Home(i) + s] = <<saved[i].content, s>>
                             \/ (s > 0 /\ i + s <= saved[i].reach)
    BY <1>2 DEF LostOnlyToOverrun, Home
  <2>1. i \in DOMAIN saved /\ i \in Nat /\ saved[i].size \in Sizes
    BY <1>2, FileSystemAssumption DEF Inv, Shapes, Files, Slots
  <2>2. dir'[i] = dir[i]
    BY <1>1, <1>2 DEF Settled
  <2>3. ASSUME NEW s \in 0 .. SectorsWritten(saved[i].size) - 1
        PROVE  data'[Home(i) + s] = data[Home(i) + s]
    <3>1. SectorsWritten(saved[i].size) \in Nat
      BY <2>1, SectorsInRange, DiskLargeEnough
    <3>2. Home(i) + s \in Home(i) .. Home(i) + SectorsWritten(saved[i].size) - 1
      BY <2>1, <3>1 DEF Home
    <3> QED
      BY <1>1, <1>2, <3>2 DEF Settled
  <2> QED
    BY <2>1, <2>2, <2>3 DEF Inv, LostOnlyToOverrun
<1> QED
  BY <1>4, <1>5, <1>6, <1>7 DEF Inv

LEMMA InvKept == Inv /\ [NextFiles]_filesVars => Inv'
<1> SUFFICES ASSUME Inv, [NextFiles]_filesVars PROVE Inv'
  OBVIOUS
<1>1. CASE Mount
  BY <1>1, InvAfterEnd DEF Mount, Inv, TypeOK
<1>2. ASSUME NEW name \in Names, NEW size \in Sizes, NEW content \in Contents,
             WriteEntry(name, size, content)
      PROVE  Inv'
  BY <1>2, InvAfterEntry
<1>3. CASE NoMemory
  BY <1>3, InvAfterEnd DEF NoMemory, Inv, TypeOK, disk
<1>4. CASE WriteSector
  BY <1>4, InvAfterSector
<1>5. CASE Settle
  BY <1>5, InvAfterSettle
<1>6. CASE PowerLoss
  BY <1>6, InvAfterPowerLoss
<1>7. CASE UNCHANGED filesVars
  BY <1>7 DEF filesVars, Inv, TypeOK, Shapes, PlatesShape, WriteIsLast, LostOnlyToOverrun, Used, Slots, Home
<1> QED
  BY <1>1, <1>2, <1>3, <1>4, <1>5, <1>6, <1>7 DEF NextFiles, DirectoryFull

-----------------------------------------------------------------------------
(* What a name is stored as and looked for. *)

LEMMA FillerIsNoDot == Filler # "."
  BY DEF Filler

LEMMA PaddedIs ==
  ASSUME NEW Letters, NEW s \in Seq(Letters), NEW width \in Nat
  PROVE  /\ Padded(s, width) \in Seq(Letters \cup {Filler}) /\ Len(Padded(s, width)) = width
         /\ \A k \in 1 .. width : Padded(s, width)[k] = IF k <= Len(s) THEN s[k] ELSE Filler
<1>1. \A k \in 1 .. width : (IF k <= Len(s) THEN s[k] ELSE Filler) \in Letters \cup {Filler}
  OBVIOUS
<1>2. Padded(s, width) \in [1 .. width -> Letters \cup {Filler}]
  BY <1>1 DEF Padded
<1>3. Padded(s, width) \in Seq(Letters \cup {Filler})
  BY <1>2
<1>4. Len(Padded(s, width)) = width
  BY <1>2
<1> QED
  BY <1>3, <1>4 DEF Padded

(* The name's two fields, side by side. *)
LEMMA SideBySide ==
  ASSUME NEW S, NEW front \in Seq(S), NEW back \in Seq(S), Len(front) = 8, Len(back) = 3
  PROVE  /\ front \o back \in Seq(S) /\ Len(front \o back) = 11
         /\ \A k \in 1 .. 11 : (front \o back)[k] = IF k <= 8 THEN front[k] ELSE back[k - 8]
<1>1. Len(front) + Len(back) = 11
  OBVIOUS
<1>2. /\ front \o back \in Seq(S) /\ Len(front \o back) = Len(front) + Len(back)
      /\ \A k \in 1 .. Len(front) + Len(back) :
           (front \o back)[k] = IF k <= Len(front) THEN front[k] ELSE back[k - Len(front)]
  BY ConcatProperties, Zenon
<1> QED
  BY <1>1, <1>2, Zenon

LEMMA FieldsAre ==
  ASSUME NEW Letters, NEW base \in Seq(Letters), NEW ext \in Seq(Letters)
  PROVE  LET both == Padded(base, 8) \o Padded(ext, 3) IN
         /\ both \in Seq(Letters \cup {Filler}) /\ Len(both) = 11
         /\ \A k \in 1 .. 11 :
              both[k] = IF k <= 8
                        THEN IF k <= Len(base) THEN base[k] ELSE Filler
                        ELSE IF k - 8 <= Len(ext) THEN ext[k - 8] ELSE Filler
<1> DEFINE front == Padded(base, 8)
           back == Padded(ext, 3)
           both == front \o back
<1>1. /\ front \in Seq(Letters \cup {Filler}) /\ Len(front) = 8
      /\ \A k \in 1 .. 8 : front[k] = IF k <= Len(base) THEN base[k] ELSE Filler
  BY PaddedIs, ZenonT(30)
<1>2. /\ back \in Seq(Letters \cup {Filler}) /\ Len(back) = 3
      /\ \A k \in 1 .. 3 : back[k] = IF k <= Len(ext) THEN ext[k] ELSE Filler
  BY PaddedIs
<1> HIDE DEF front, back
<1>3. /\ both \in Seq(Letters \cup {Filler}) /\ Len(both) = 11
      /\ \A k \in 1 .. 11 : both[k] = IF k <= 8 THEN front[k] ELSE back[k - 8]
  BY <1>1, <1>2, SideBySide, SMTT(30)
<1> HIDE DEF both
<1>4. ASSUME NEW k \in 1 .. 11
      PROVE  both[k] = IF k <= 8
                       THEN IF k <= Len(base) THEN base[k] ELSE Filler
                       ELSE IF k - 8 <= Len(ext) THEN ext[k - 8] ELSE Filler
  <2>1. both[k] = IF k <= 8 THEN front[k] ELSE back[k - 8]
    BY <1>3
  <2>2. CASE k <= 8
    <3>1. k \in 1 .. 8
      BY <2>2
    <3>2. front[k] = IF k <= Len(base) THEN base[k] ELSE Filler
      BY <1>1, <3>1
    <3> QED
      BY <2>1, <2>2, <3>2
  <2>3. CASE ~(k <= 8)
    <3>1. k - 8 \in 1 .. 3
      BY <2>3
    <3>2. back[k - 8] = IF k - 8 <= Len(ext) THEN ext[k - 8] ELSE Filler
      BY <1>2, <3>1
    <3> QED
      BY <2>1, <2>3, <3>2
  <2> QED
    BY <2>2, <2>3
<1> QED
  BY <1>3, <1>4 DEF both, front, back

(* A short name without a dot is looked for in the form it is stored in.   *)
LEMMA PlainNamesAreWanted ==
  ASSUME NEW Letters, NEW name \in Seq(Letters), Dots(name) = {}, Len(name) <= 8
  PROVE  Wanted(name) = StoredName(name)
<1> DEFINE none == <<>>
           wanted == Padded(name, 8) \o Padded(none, 3)
           stored == Padded(name, 11)
<1>1. Wanted(name) = wanted
  BY DEF Wanted, Base, Ext, BaseLen, NameLen
<1>2. StoredName(name) = stored
  BY DEF StoredName, NameLen
<1>3. none \in Seq(Letters)
  OBVIOUS
<1>4. Len(none) = 0
  OBVIOUS
<1> HIDE DEF none
<1>5. /\ wanted \in Seq(Letters \cup {Filler}) /\ Len(wanted) = 11
      /\ \A k \in 1 .. 11 :
           wanted[k] = IF k <= 8
                       THEN IF k <= Len(name) THEN name[k] ELSE Filler
                       ELSE IF k - 8 <= Len(none) THEN none[k - 8] ELSE Filler
  <2>1. wanted \in Seq(Letters \cup {Filler}) /\ Len(wanted) = 11
    BY <1>3, FieldsAre
  <2>2. ASSUME NEW k \in 1 .. 11
        PROVE  wanted[k] = IF k <= 8
                           THEN IF k <= Len(name) THEN name[k] ELSE Filler
                           ELSE IF k - 8 <= Len(none) THEN none[k - 8] ELSE Filler
    BY <1>3, FieldsAre, ZenonT(30)
  <2> HIDE DEF wanted
  <2> QED
    BY <2>1, <2>2
<1>6. /\ stored \in Seq(Letters \cup {Filler}) /\ Len(stored) = 11
      /\ \A k \in 1 .. 11 : stored[k] = IF k <= Len(name) THEN name[k] ELSE Filler
  <2>1. 11 \in Nat
    OBVIOUS
  <2> QED
    BY <2>1, PaddedIs, ZenonT(30)
<1> HIDE DEF wanted, stored
<1>7. ASSUME NEW k \in 1 .. 11
      PROVE  wanted[k] = stored[k]
  <2>1. Len(name) \in Nat /\ ~(k - 8 <= 0 /\ ~(k <= 8)) /\ (k <= Len(name) => k <= 8)
    OBVIOUS
  <2> QED
    BY <1>5, <1>6, <1>4, <2>1
<1>8. wanted = stored
  <2>1. Len(wanted) = Len(stored) /\ \A k \in 1 .. Len(wanted) : wanted[k] = stored[k]
    BY <1>5, <1>6, <1>7
  <2> QED
    BY <1>5, <1>6, <2>1, SeqEqual, Zenon
<1> QED
  BY <1>1, <1>2, <1>8

(* Where the name has its only dot the stored form has it too, and what is *)
(* looked for has a letter or a space.                                     *)
LEMMA DottedNamesAreNotWanted ==
  ASSUME NEW Letters, NEW name \in Seq(Letters), NEW d \in 1 .. 11, Dots(name) = {d}
  PROVE  Wanted(name) # StoredName(name)
<1>1. d \in 1 .. Len(name) /\ name[d] = "." /\ \A k \in 1 .. Len(name) : k # d => name[k] # "."
  BY DEF Dots
<1>2. Dot(name) = d
  BY DEF Dot
<1>3. StoredName(name)[d] = "."
  BY <1>1 DEF StoredName, Padded, NameLen
<1> DEFINE base == SubSeq(name, 1, d - 1)
           ext == SubSeq(name, d + 1, Len(name))
           wanted == Padded(base, 8) \o Padded(ext, 3)
<1>4. Wanted(name) = wanted
  BY <1>2 DEF Wanted, Base, Ext, BaseLen, NameLen
<1>5. /\ base \in Seq(Letters) /\ Len(base) = d - 1
      /\ \A k \in 1 .. Len(base) : base[k] # "."
  BY <1>1
<1>6. /\ ext \in Seq(Letters) /\ Len(ext) = Len(name) - d
      /\ \A k \in 1 .. Len(ext) : ext[k] # "."
  <2>1. /\ ext \in Seq(Letters) /\ Len(ext) = Len(name) - d
        /\ \A k \in 1 .. Len(ext) : ext[k] = name[d + k] /\ d + k \in 1 .. Len(name) /\ d + k # d
    BY <1>1
  <2> QED
    BY <1>1, <2>1
<1> HIDE DEF base, ext
<1>7. wanted[d] = IF d <= 8
                  THEN IF d <= Len(base) THEN base[d] ELSE Filler
                  ELSE IF d - 8 <= Len(ext) THEN ext[d - 8] ELSE Filler
  BY <1>5, <1>6, FieldsAre, ZenonT(30)
<1> HIDE DEF wanted
<1>8. wanted[d] # "."
  BY <1>5, <1>6, <1>7, FillerIsNoDot
<1> QED
  BY <1>3, <1>4, <1>8

(* The property follows: the entry is the first of its name, and no sector *)
(* of its file was lost.                                                   *)
LEMMA NamesFollow == Inv => PlainNamesReadBack
<1> SUFFICES ASSUME Inv, NEW i \in DOMAIN saved
             PROVE  LET name == saved[i].name
                        Older == {j \in Used : j < i /\ dir[j].name = StoredName(name)}
                    IN
                    /\ /\ Len(name) \in 1 .. BaseLen /\ Dots(name) = {} /\ saved[i].size > 0
                       /\ SectorsOf(saved[i].size) = 1 \/ saved[i].reach = i
                       /\ Older = {}
                       => VfsRead(name) = File(saved[i])
                    /\ Len(name) <= BaseLen /\ Dots(name) = {} /\ Older # {} => i \notin FirstMatch(name)
                    /\ (\E d \in 1 .. NameLen : Dots(name) = {d}) => i \notin Matches(name)
  BY DEF PlainNamesReadBack
<1> DEFINE name == saved[i].name
           size == saved[i].size
           Older == {j \in Used : j < i /\ dir[j].name = StoredName(name)}
<1>1. /\ name \in Names /\ name \in Seq(STRING) /\ dir[i].name = StoredName(name)
      /\ dir[i].size = size /\ size \in Sizes /\ i \in Used
  BY SavedAreUsed, NamesAssumption DEF Files
<1>2. \A j \in Used : j \in Nat
  BY FileSystemAssumption DEF Used, Slots
<1> HIDE DEF name, size
<1>3. ASSUME NEW d \in 1 .. NameLen, Dots(name) = {d}
      PROVE  i \notin Matches(name)
  <2>1. d \in 1 .. 11
    BY DEF NameLen
  <2>2. Wanted(name) # StoredName(name)
    BY <1>1, <1>3, <2>1, DottedNamesAreNotWanted
  <2> QED
    BY <1>1, <2>2 DEF Matches
<1>4. ASSUME Len(name) <= BaseLen, Dots(name) = {}
      PROVE  Matches(name) = {j \in Used : dir[j].name = StoredName(name)}
  <2>1. Len(name) <= 8
    BY <1>4 DEF BaseLen
  <2>2. Wanted(name) = StoredName(name)
    BY <1>1, <1>4, <2>1, PlainNamesAreWanted
  <2> QED
    BY <2>2, Zenon DEF Matches
<1>5. ASSUME Len(name) <= BaseLen, Dots(name) = {}, Older # {}
      PROVE  i \notin FirstMatch(name)
  <2>1. PICK j \in Used : j < i /\ dir[j].name = StoredName(name)
    BY <1>5
  <2>2. j \in Matches(name) /\ ~(i <= j)
    BY <1>1, <1>2, <1>4, <1>5, <2>1
  <2> QED
    BY <2>2 DEF FirstMatch
<1>6. ASSUME Len(name) \in 1 .. BaseLen, Dots(name) = {}, size > 0,
             SectorsOf(size) = 1 \/ saved[i].reach = i,
             Older = {}
      PROVE  VfsRead(name) = File(saved[i])
  <2>1. Matches(name) = {j \in Used : dir[j].name = StoredName(name)}
    <3>1. Len(name) \in 1 .. BaseLen
      BY <1>6
    <3>2. Len(name) <= BaseLen
      <4>1. \A n \in 1 .. BaseLen : n <= BaseLen
        BY DEF BaseLen
      <4> QED
        BY <3>1, <4>1, Zenon
    <3>3. Dots(name) = {}
      BY <1>6
    <3> QED
      BY <1>4, <3>2, <3>3, Zenon
  <2>2. FirstMatch(name) = {i}
    <3>1. \A j \in Matches(name) : ~(j < i)
      BY <1>6, <2>1
    <3>2. i \in Matches(name) /\ \A j \in Matches(name) : j \in Nat
      BY <1>1, <1>2, <2>1
    <3> QED
      BY <1>1, <1>2, <3>1, <3>2 DEF FirstMatch
  <2>3. name # <<>> /\ name \notin LinkedFirst
    <3>1. Len(<<>>) = 0 /\ Len(name) # 0
      <4>1. Len(name) \in 1 .. BaseLen
        BY <1>6
      <4>2. Len(name) # 0
        BY <4>1, SMTT(30) DEF BaseLen
      <4> QED
        BY <4>2
    <3>2. name # <<>>
      BY <3>1, Zenon
    <3>3. name \notin LinkedFirst
      BY <1>6, NamesAssumption, Zenon
    <3> QED
      BY <3>2, <3>3
  <2>4. ReadFile(name) = ReadSectors(i)
    BY <2>2, <2>3 DEF ReadFile
  <2>5. size \in Nat /\ SectorsOf(size) \in Nat \ {0} /\ SectorsWritten(size) = SectorsOf(size)
    <3>1. size \in Nat
      BY <1>1, FileSystemAssumption
    <3> QED
      BY <1>6, <3>1 DEF SectorsOf, SectorsWritten
  <2>6. ASSUME NEW s \in 1 .. SectorsOf(size)
        PROVE  data[Home(i) + s - 1] = <<saved[i].content, s - 1>>
    <3>1. i \in Nat /\ s - 1 \in 0 .. SectorsWritten(size) - 1 /\ Home(i) + s - 1 = Home(i) + (s - 1)
      BY <1>1, <1>2, <2>5 DEF Home
    <3>2. data[Home(i) + (s - 1)] = <<saved[i].content, s - 1>>
            \/ (s - 1 > 0 /\ i + (s - 1) <= saved[i].reach)
      BY <3>1 DEF Inv, LostOnlyToOverrun, size
    <3>3. ~(s - 1 > 0 /\ i + (s - 1) <= saved[i].reach)
      BY <1>6, <2>5, <3>1
    <3> QED
      BY <3>1, <3>2, <3>3
  <2>7. ReadSectors(i) = File(saved[i])
    <3>1. ReadSectors(i) = [s \in 1 .. SectorsOf(size) |-> data[Home(i) + s - 1]]
      BY <1>1 DEF ReadSectors
    <3>2. File(saved[i]) = [s \in 1 .. SectorsOf(size) |-> <<saved[i].content, s - 1>>]
      BY DEF File, size
    <3> QED
      BY <2>6, <3>1, <3>2
  <2>8. ReadSectors(i) # NULL
    <3>1. 1 \in DOMAIN ReadSectors(i)
      BY <1>1, <2>5 DEF ReadSectors
    <3>2. DOMAIN <<>> = {}
      OBVIOUS
    <3> QED
      BY <3>1, <3>2, Zenon DEF NULL
  <2> QED
    BY <2>3, <2>4, <2>7, <2>8 DEF VfsRead
<1> QED
  BY <1>3, <1>5, <1>6 DEF name, size

(* A file whose write returned 1 is lost only if the drive refused one of  *)
(* its sectors, if power failed before they had all left the drive's cache *)
(* or, except for its first sector, to a later write whose file reaches    *)
(* into it: through every failure between two sectors, every write that    *)
(* ends for want of memory and every slot given out again.                 *)
THEOREM AcknowledgedFilesLast == SpecFiles => []LostOnlyToOverrun
<1>1. Inv => LostOnlyToOverrun
  BY DEF Inv
<1> QED
  BY <1>1, InvHolds, InvKept, PTL DEF SpecFiles

(* A saved name of at most eight characters without a dot reads back       *)
(* through vfs_read what its write was given if no later write reached     *)
(* into the file; behind an older entry of that name, of whatever write,   *)
(* it is never found; and a name with one dot in its first eleven          *)
(* characters does not find its own entry.                                 *)
THEOREM PlainNamesAlwaysReadBack == SpecFiles => []PlainNamesReadBack
<1> QED
  BY NamesFollow, InvHolds, InvKept, PTL DEF SpecFiles

(* Entries on the disk are whole and without gaps, after any power failure *)
(* too, and a write stays inside the file it announced.                    *)
THEOREM TypeCorrect == SpecFiles => []TypeOK
<1>1. Inv => TypeOK
  BY DEF Inv
<1> QED
  BY <1>1, InvHolds, InvKept, PTL DEF SpecFiles

=============================================================================
