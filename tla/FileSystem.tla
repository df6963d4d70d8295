----------------------------- MODULE FileSystem -----------------------------
(***************************************************************************)
(* Files on the disk: src/fat32.c, and src/vfs.c, which looks on the disk  *)
(* and then among the files linked into the kernel image.                  *)
(*                                                                         *)
(* A sector is written whole or not at all, and power may fail between any *)
(* two writes. The disk is the ATA drive. ata_write_sector never learns    *)
(* what became of its sector: it sends the flush behind the last word and  *)
(* waits only for the drive not to be busy (src/ata.c, lines 100 to 103).  *)
(* So every write here may be refused unnoticed, and one the drive did     *)
(* take stays in its cache until it settles on the plates, at any later    *)
(* time or never: what module Disk shows of the driver, word by word. A    *)
(* read waits for data that the drive offers and never returns anything    *)
(* else.                                                                   *)
(*                                                                         *)
(* Sectors are numbered from that of the root directory (cluster 2, one    *)
(* sector per cluster).  A data sector holds <<content, part>>: what was   *)
(* to be written and which piece of it this is.  Letters have no case      *)
(* (both sides of the name comparison are folded), and `#|ROOT*` is        *)
(* already stripped.                                                       *)
(***************************************************************************)
EXTENDS Integers, Sequences, Functions

CONSTANTS NumSlots,       \* entries of the root directory sector (16)
          Names, Sizes,   \* the file names and the lengths in bytes in use
          Contents,       \* what is written in files
          Longest,        \* sectors of the longest file
          Linked,         \* names linked into the kernel image
          LinkedFirst     \* the ones of them that vfs_read never looks for on the disk

ASSUME FileSystemAssumption ==
  /\ NumSlots \in Nat \ {0}
  /\ Sizes \subseteq Nat
  /\ LinkedFirst \subseteq Linked

VARIABLES formatted,   \* sector 0 holds a parameter block
          dir,         \* the root directory sector
          data,        \* the data sectors
          plates,      \* the three, as a power failure would leave them
          stage,       \* "off", "idle" or "writing"
          op,          \* the write in progress, and whether one of its sectors was refused
          saved        \* slot -> [name, size, content, reach], see below
disk == <<formatted, dir, data>>
filesVars == <<formatted, dir, data, plates, stage, op, saved>>

(* In saved are the files whose write returned 1 and of which the drive    *)
(* took every sector; a file leaves it when power fails before all of them *)
(* have settled.  reach is the last slot whose first sector a later write  *)
(* was to fill, or the file's own.                                         *)

-----------------------------------------------------------------------------
(* Names: 11 characters in the directory. *)

NameLen == 11
BaseLen == 8

Filler == " "
Padded(s, width) == [k \in 1 .. width |-> IF k <= Len(s) THEN s[k] ELSE Filler]

(* fat32_write_file stores the name's first characters as they come. *)
StoredName(name) == Padded(name, NameLen)

(* fat32_read_file looks for base and extension in fields of their own. *)
Dots(name)  == {k \in 1 .. Len(name) : name[k] = "."}
Dot(name)   == CHOOSE k \in Dots(name) : \A j \in Dots(name) : k <= j
Base(name)  == IF Dots(name) = {} THEN name ELSE SubSeq(name, 1, Dot(name) - 1)
Ext(name)   == IF Dots(name) = {} THEN <<>> ELSE SubSeq(name, Dot(name) + 1, Len(name))
WantedUnpadded(name) == Padded(Base(name) \o Ext(name), NameLen - 1)
Wanted(name) == Padded(Base(name), BaseLen) \o Padded(Ext(name), NameLen - BaseLen)

(* A file name is a string, and app.elf and animacao.bgif, the two that    *)
(* vfs_read takes from the kernel image without looking on the disk, have  *)
(* an extension.                                                           *)
ASSUME NamesAssumption ==
  /\ \A name \in Names : name \in Seq(STRING)
  /\ \A name \in LinkedFirst : Dots(name) # {}

-----------------------------------------------------------------------------
Slots == 0 .. NumSlots - 1
NoEntry == [name |-> <<>>, size |-> 0]
Used == {i \in Slots : dir[i] # NoEntry}

SectorsOf(size) == (size + 511) \div 512
SectorsWritten(size) == IF size = 0 THEN 1 ELSE SectorsOf(size)

SharedHome(i) == 1
(* Cluster 3 + i, whatever the lengths of the files before it. *)
Home(i) == 1 + i

(* The disk holds the longest file even in the last slot. *)
DataSectors == 1 .. NumSlots + Longest - 1
ASSUME DiskLargeEnough ==
  Longest \in Nat /\ \A size \in Sizes : SectorsWritten(size) <= Longest
Unwritten == <<-1, 0>>
NULL == <<>>                 \* what a read that finds nothing returns
Shipped == << <<-2, 0>> >>      \* the contents of a linked file

File(f) == [s \in 1 .. SectorsOf(f.size) |-> <<f.content, s - 1>>]

FirstFree == {i \in Slots \ Used : \A j \in Slots \ Used : i <= j}

Matches(name) == {i \in Used : dir[i].name = Wanted(name)}
FirstMatch(name) == {i \in Matches(name) : \A j \in Matches(name) : i <= j}

(* What fat32_read_file returns, sector by sector, if there is memory. *)
ReadSectors(i) == [s \in 1 .. SectorsOf(dir[i].size) |-> data[Home(i) + s - 1]]
ReadFile(name) ==
  IF name = <<>> \/ FirstMatch(name) = {}
  THEN NULL
  ELSE ReadSectors(CHOOSE i \in FirstMatch(name) : TRUE)

(* What vfs_read returns. *)
VfsRead(name) ==
  IF name \in LinkedFirst THEN Shipped
  ELSE IF ReadFile(name) # NULL THEN ReadFile(name)
  ELSE IF name \in Linked THEN Shipped ELSE NULL

-----------------------------------------------------------------------------
NoWrite == [slot |-> 0, name |-> <<>>, size |-> 0, content |-> "none", next |-> 0, refused |-> FALSE]
Entry(f) == [name |-> StoredName(f.name), size |-> f.size]

(* A machine that is off, with a blank disk. *)
InitFiles ==
  /\ formatted = FALSE
  /\ dir = [i \in Slots |-> NoEntry]
  /\ data = [s \in DataSectors |-> Unwritten]
  /\ plates = [formatted |-> formatted, dir |-> dir, data |-> data]
  /\ stage = "off"
  /\ op = NoWrite
  /\ saved = [i \in {} |-> <<>>]

(* fat32_init: a parameter block is written where there is none.  Refused  *)
(* or not, the kernel goes on with the block it has in memory.             *)
Mount ==
  /\ stage = "off"
  /\ stage' = "idle"
  /\ formatted' \in {formatted, TRUE}
  /\ UNCHANGED <<dir, data, plates, op, saved>>

FurthestOf(m, n) == IF m < n THEN n ELSE m

(* fat32_write_file up to its first disk write: the entry is on the disk   *)
(* before the data, and before there is memory to prepare the data in.     *)
WriteEntry(name, size, content) ==
  /\ stage = "idle"
  /\ \E i \in FirstFree, refused \in BOOLEAN :
       /\ op' = [slot |-> i, name |-> name, size |-> size, content |-> content,
                 next |-> 0, refused |-> refused]
       /\ dir' = IF refused THEN dir ELSE [dir EXCEPT ![i] = Entry(op')]
       /\ saved' = [j \in DOMAIN saved |->
            [saved[j] EXCEPT !.reach = FurthestOf(@, i + SectorsWritten(size) - 1)]]
  /\ stage' = "writing"
  /\ UNCHANGED <<formatted, data, plates>>

DirectoryFull ==
  /\ stage = "idle"
  /\ FirstFree = {}
  /\ UNCHANGED filesVars

(* kmalloc has no room for the data: the write returns 0, the entry stays. *)
NoMemory ==
  /\ stage = "writing"
  /\ op.next = 0
  /\ stage' = "idle"
  /\ op' = NoWrite
  /\ UNCHANGED <<disk, plates, saved>>

(* One more sector of data; after the last one the write returns 1. *)
WriteSector ==
  /\ stage = "writing"
  /\ \E refused \in BOOLEAN :
       /\ data' = IF refused THEN data
                  ELSE [data EXCEPT ![Home(op.slot) + op.next] = <<op.content, op.next>>]
       /\ IF op.next + 1 = SectorsWritten(op.size)
          THEN /\ stage' = "idle"
               /\ op' = NoWrite
               /\ saved' =
                    IF op.refused \/ refused THEN saved
                    ELSE [i \in DOMAIN saved \cup {op.slot} |->
                            IF i \in DOMAIN saved THEN saved[i]
                            ELSE [name |-> op.name, size |-> op.size,
                                  content |-> op.content, reach |-> op.slot]]
          ELSE /\ op' = [op EXCEPT !.next = @ + 1, !.refused = @ \/ refused]
               /\ UNCHANGED <<stage, saved>>
  /\ UNCHANGED <<formatted, dir, plates>>

(* The drive brings a sector of its cache to the plates, in no order. *)
Settle ==
  /\ stage # "off"
  /\ \/ plates' = [plates EXCEPT !.formatted = formatted]
     \/ plates' = [plates EXCEPT !.dir = dir]
     \/ \E s \in DataSectors : plates' = [plates EXCEPT !.data[s] = data[s]]
  /\ UNCHANGED <<disk, stage, op, saved>>

Settled(i) ==
  /\ plates.dir[i] = dir[i]
  /\ \A s \in Home(i) .. Home(i) + SectorsWritten(saved[i].size) - 1 :
       plates.data[s] = data[s]

(* What had not settled is gone. *)
PowerLoss ==
  /\ stage # "off"
  /\ stage' = "off"
  /\ op' = NoWrite
  /\ formatted' = plates.formatted
  /\ dir' = plates.dir
  /\ data' = plates.data
  /\ saved' = [i \in {j \in DOMAIN saved : Settled(j)} |-> saved[i]]
  /\ UNCHANGED plates

NextFiles ==
  \/ Mount
  \/ \E name \in Names, size \in Sizes, content \in Contents : WriteEntry(name, size, content)
  \/ DirectoryFull
  \/ NoMemory
  \/ WriteSector
  \/ Settle
  \/ PowerLoss

SpecFiles == InitFiles /\ [][NextFiles]_filesVars

-----------------------------------------------------------------------------
(* Type invariant: entries name 11 characters, a write in progress has its *)
(* entry on the disk or was refused it, and stays inside the file it       *)
(* announced; a slot is free in front of no entry.                         *)
TypeOK ==
  /\ formatted \in BOOLEAN
  /\ \A i \in Used : DOMAIN dir[i].name = 1 .. NameLen /\ dir[i].size \in Sizes
  /\ \A i \in Used, j \in Slots : j < i => j \in Used
  /\ DOMAIN data = DataSectors
  /\ stage \in {"off", "idle", "writing"}
  /\ stage = "writing" =>
       /\ dir[op.slot] = Entry(op) \/ (dir[op.slot] = NoEntry /\ op.refused)
       /\ op.next < SectorsWritten(op.size)

(* A file whose write returned 1 is lost only to three things: the drive   *)
(* refused one of its sectors, power failed before all of them had left    *)
(* the drive's cache (in both cases it is not in saved), or a later write  *)
(* was given a slot within the file's own reach.  Every other one keeps    *)
(* its entry and each sector up to there; its first sector always, so that *)
(* a file of one sector lasts for good, through writes that fail, power    *)
(* failures and slots that are given out again because of them.            *)
LostOnlyToOverrun ==
  \A i \in DOMAIN saved :
    /\ dir[i] = Entry(saved[i])
    /\ \A s \in 0 .. SectorsWritten(saved[i].size) - 1 :
         data[Home(i) + s] = <<saved[i].content, s>> \/ (s > 0 /\ i + s <= saved[i].reach)

(* What such a file's own name finds.  A name of at most eight characters  *)
(* without a dot reads back exactly what was written if no later write     *)
(* reached into the file; but where an earlier entry has the name, left    *)
(* there by any write, acknowledged or not, that one is read and the newer *)
(* file never.  A name with a dot among the characters the entry keeps is  *)
(* stored in another form than it is looked for, and its entry is not      *)
(* found under it.                                                         *)
PlainNamesReadBack ==
  \A i \in DOMAIN saved :
    LET name == saved[i].name
        Older == {j \in Used : j < i /\ dir[j].name = StoredName(name)}
    IN
    /\ /\ Len(name) \in 1 .. BaseLen /\ Dots(name) = {} /\ saved[i].size > 0
       /\ SectorsOf(saved[i].size) = 1 \/ saved[i].reach = i
       /\ Older = {}
       => VfsRead(name) = File(saved[i])
    /\ Len(name) <= BaseLen /\ Dots(name) = {} /\ Older # {} => i \notin FirstMatch(name)
    /\ (\E d \in 1 .. NameLen : Dots(name) = {d}) => i \notin Matches(name)
=============================================================================
