-------------------------------- MODULE Heap --------------------------------
(***************************************************************************)
(* The kernel heap of src/memory.c: an address-ordered, doubly linked list *)
(* of blocks, each a 48-byte header, a payload and a 16-byte footer.       *)
(*                                                                         *)
(* `heap.hdr` maps the address of each header on the list to its fields; a *)
(* header that a merge swallows leaves the domain.  Payload bytes, magic   *)
(* numbers and footers (written, never read) are abstracted.  No interrupt *)
(* handler allocates, so every operation is one step.                      *)
(***************************************************************************)
EXTENDS Integers, FiniteSets, Functions

CONSTANTS HeapStart,   \* first address past the kernel image, rounded up to 16
          HeapSize,    \* bytes of heap (32 MB in memory_init)
          Requests     \* sizes the callers ask for

Header     == 48       \* sizeof(block_header_t)
Footer     == 16       \* sizeof(block_footer_t)
Overhead   == Header + Footer
Alignment  == 16
MinSplit   == 32       \* payload a remainder must reach for a split
MaxRequest == 128 * 1024 * 1024
NULL       == 0

HeapEnd     == HeapStart + HeapSize
InitialSize == HeapSize - Overhead

ASSUME HeapAssumption ==
  /\ HeapStart \in Nat /\ HeapStart > 0 /\ HeapStart % 16 = 0
  /\ HeapSize \in Nat /\ HeapSize % 16 = 0 /\ HeapSize >= 80
  /\ Requests \subseteq Nat

VARIABLES heap,   \* [hdr, total_allocated, total_free, block_count]
          live    \* the callers' view: pointer they hold -> bytes they asked for
vars == <<heap, live>>

Ptr(a)   == a + Header
Block(p) == p - Header
End(hdr, a) == a + Overhead + hdr[a].size

-----------------------------------------------------------------------------
(* kmalloc's search and split. *)

NotRounded(n) == n
RoundedDown(n) == n - (n % Alignment)
Rounded(n) == IF n % Alignment = 0 THEN n ELSE n + (Alignment - (n % Alignment))

FitsInUseToo(hdr, a, n) == hdr[a].size >= n
Fits(hdr, a, n) == hdr[a].is_free /\ hdr[a].size >= n

(* The walk from heap_first stops at the first block that fits.  The list  *)
(* is in address order (ListTilesHeap), so that is the lowest one.         *)
FirstFit(hdr, n) ==
  {a \in DOMAIN hdr : Fits(hdr, a, n) /\ \A b \in DOMAIN hdr : Fits(hdr, b, n) => a <= b}

Splits(hdr, a, n) == hdr[a].size >= n + Overhead + MinSplit

Remainder(hdr, a, n) ==
  [size |-> hdr[a].size - n - Overhead, is_free |-> TRUE, next |-> hdr[a].next, prev |-> a]

SetFree(hdr, a, free) == [hdr EXCEPT ![a].is_free = free]

HeapOf(hdr, allocated, free, count) ==
  [hdr |-> hdr, total_allocated |-> allocated, total_free |-> free, block_count |-> count]

(* Block a keeps n bytes; the rest becomes a free block behind it. *)
Split(hdr, a, n) ==
  LET b == a + Overhead + n IN
  [x \in DOMAIN hdr \cup {b} |->
     CASE x = b           -> Remainder(hdr, a, n)
       [] x = a           -> [hdr[a] EXCEPT !.size = n, !.next = b]
       [] x = hdr[a].next -> [hdr[x] EXCEPT !.prev = b]
       [] OTHER           -> hdr[x]]

(* What kmalloc does with the block it found. *)
Take(h, a, n) ==
  LET splits == Splits(h.hdr, a, n)
      hdr    == IF splits THEN Split(h.hdr, a, n) ELSE h.hdr
  IN HeapOf(SetFree(hdr, a, FALSE),
            h.total_allocated + hdr[a].size,
            h.total_free - hdr[a].size,
            IF splits THEN h.block_count + 1 ELSE h.block_count)

-----------------------------------------------------------------------------
(* kfree's merges. *)

FreeNext(hdr, a) == hdr[a].next # NULL /\ hdr[hdr[a].next].is_free

NeverFreePrev(hdr, a) == FALSE
FreePrev(hdr, a) == hdr[a].prev # NULL /\ hdr[hdr[a].prev].is_free

AbsorbWithoutBacklink(hdr, a) ==
  LET b == hdr[a].next IN
  [x \in DOMAIN hdr \ {b} |->
     IF x = a THEN [hdr[a] EXCEPT !.size = @ + Overhead + hdr[b].size, !.next = hdr[b].next]
              ELSE hdr[x]]
(* Block a swallows the block behind it. *)
AbsorbNext(hdr, a) ==
  LET b == hdr[a].next IN
  [x \in DOMAIN hdr \ {b} |->
     CASE x = a           -> [hdr[a] EXCEPT !.size = @ + Overhead + hdr[b].size,
                                            !.next = hdr[b].next]
       [] x = hdr[b].next -> [hdr[x] EXCEPT !.prev = a]
       [] OTHER           -> hdr[x]]

MergeInto(h, a) ==
  HeapOf(AbsorbNext(h.hdr, a), h.total_allocated, h.total_free, h.block_count - 1)
MergeNext(h, a) == IF FreeNext(h.hdr, a) THEN MergeInto(h, a) ELSE h
MergePrev(h, a) == IF FreePrev(h.hdr, a) THEN MergeInto(h, h.hdr[a].prev) ELSE h

MarkFreeUncounted(h, a) ==
  HeapOf(SetFree(h.hdr, a, TRUE),
         h.total_allocated - h.hdr[a].size, h.total_free, h.block_count)
MarkFree(h, a) ==
  HeapOf(SetFree(h.hdr, a, TRUE),
         h.total_allocated - h.hdr[a].size, h.total_free + h.hdr[a].size, h.block_count)

(* What kfree does with a block in use. *)
Release(h, a) == MergePrev(MergeNext(MarkFree(h, a), a), a)

-----------------------------------------------------------------------------
Hold(held, p, n) == [q \in DOMAIN held \cup {p} |-> IF q = p THEN n ELSE held[q]]
Drop(held, p)    == [q \in DOMAIN held \ {p} |-> held[q]]

InitialHdr ==
  [a \in {HeapStart} |->
     [size |-> InitialSize, is_free |-> TRUE, next |-> NULL, prev |-> NULL]]

(* memory_init: one free block over the whole heap. *)
Init ==
  /\ heap = HeapOf(InitialHdr, 0, InitialSize, 1)
  /\ live = [p \in {} |-> 0]

Acceptable(n) == n # 0 /\ n <= MaxRequest

Kmalloc(n) ==
  /\ Acceptable(n)
  /\ \E a \in FirstFit(heap.hdr, Rounded(n)) :
       /\ heap' = Take(heap, a, Rounded(n))
       /\ live' = Hold(live, Ptr(a), n)

(* kmalloc returns NULL: a size it refuses, or no free block that fits. *)
KmallocFails(n) ==
  /\ ~Acceptable(n) \/ FirstFit(heap.hdr, Rounded(n)) = {}
  /\ UNCHANGED vars

Kfree(p) ==
  /\ heap' = Release(heap, Block(p))
  /\ live' = Drop(live, p)

(* kfree's early return: NULL, or a block already free. *)
KfreeIgnored(p) ==
  /\ p = NULL \/ (Block(p) \in DOMAIN heap.hdr /\ heap.hdr[Block(p)].is_free)
  /\ UNCHANGED vars

KreallocInPlace(p, n) ==
  /\ n # 0
  /\ heap.hdr[Block(p)].size >= n
  /\ live' = [live EXCEPT ![p] = n]
  /\ UNCHANGED heap

(* krealloc to 0 bytes is Kfree; a growing one takes the new block before it releases the
   old one, and leaves the old one alone when there is none. *)
KreallocMoves(p, n) ==
  /\ Acceptable(n)
  /\ heap.hdr[Block(p)].size < n
  /\ \E a \in FirstFit(heap.hdr, Rounded(n)) :
       /\ heap' = Release(Take(heap, a, Rounded(n)), Block(p))
       /\ live' = Hold(Drop(live, p), Ptr(a), n)

Next ==
  \/ \E n \in Requests : Kmalloc(n) \/ KmallocFails(n)
  \/ \E p \in DOMAIN live : Kfree(p)
  \/ \E p \in {NULL} \cup {Ptr(a) : a \in DOMAIN heap.hdr} : KfreeIgnored(p)
  \/ \E p \in DOMAIN live, n \in Requests : KreallocInPlace(p, n) \/ KreallocMoves(p, n)

Spec == Init /\ [][Next]_vars

-----------------------------------------------------------------------------
InUse(hdr) == {a \in DOMAIN hdr : ~hdr[a].is_free}
FreeBlocks(hdr) == {a \in DOMAIN hdr : hdr[a].is_free}
Sizes(hdr) == [a \in DOMAIN hdr |-> hdr[a].size]

HeaderType == [size : Nat, is_free : BOOLEAN, next : Nat, prev : Nat]

HeadersOK(hdr) ==
  /\ hdr \in [DOMAIN hdr -> HeaderType]
  /\ HeapStart \in DOMAIN hdr
  /\ \A a \in DOMAIN hdr : /\ a \in Nat /\ a >= HeapStart /\ a % 16 = 0
                           /\ hdr[a].size % 16 = 0 /\ hdr[a].size >= 16

NextTiles(hdr) ==
  \A a \in DOMAIN hdr :
    IF hdr[a].next = NULL
    THEN End(hdr, a) = HeapEnd
    ELSE hdr[a].next \in DOMAIN hdr /\ hdr[a].next = End(hdr, a)

PrevMirrorsNext(hdr) ==
  /\ hdr[HeapStart].prev = NULL
  /\ \A a \in DOMAIN hdr :
       /\ a # HeapStart => hdr[a].prev \in DOMAIN hdr /\ hdr[hdr[a].prev].next = a
       /\ hdr[a].next # NULL => hdr[hdr[a].next].prev = a

Apart(hdr) ==
  \A a \in DOMAIN hdr :
    /\ End(hdr, a) <= HeapEnd
    /\ \A b \in DOMAIN hdr : a < b => End(hdr, a) <= b

Coalesced(hdr) ==
  \A a \in DOMAIN hdr : hdr[a].next # NULL => ~(hdr[a].is_free /\ hdr[hdr[a].next].is_free)

(* Type invariant: headers and payloads sit at multiples of 16, as the ABI *)
(* requires of every pointer kmalloc returns.                              *)
TypeOK ==
  /\ HeadersOK(heap.hdr)
  /\ heap.total_allocated \in Int /\ heap.total_free \in Int /\ heap.block_count \in Int
  /\ live \in [DOMAIN live -> Nat]

(* The list heap_first -> next -> ... covers the heap end to end, each     *)
(* block starting where the one before it ends, and `prev` is its exact    *)
(* reverse: no byte is lost, claimed twice or reachable only one way.      *)
ListTilesHeap == NextTiles(heap.hdr) /\ PrevMirrorsNext(heap.hdr)

(* No byte of the heap belongs to two blocks, headers and footers included, *)
(* and none lies past the end.                                              *)
BlocksApart == Apart(heap.hdr)

(* kfree merges both ways, so free space is never fragmented by a boundary *)
(* between two free blocks.                                                *)
NoFreeNeighbours == Coalesced(heap.hdr)

(* The blocks in use are exactly the buffers the callers hold, and each is *)
(* at least as long as what its holder asked for.                          *)
HoldersMatchBlocks ==
  /\ DOMAIN live = {Ptr(a) : a \in InUse(heap.hdr)}
  /\ \A p \in DOMAIN live : live[p] > 0 /\ live[p] <= heap.hdr[Block(p)].size

(* The figures the RAM monitor shows: total_allocated is the payload in    *)
(* use; total_free falls short of the initial payload by exactly that, so  *)
(* it exceeds the free payload by one overhead for each extra block.       *)
CountersMatchBlocks ==
  LET hdr == heap.hdr IN
  /\ heap.block_count = Cardinality(DOMAIN hdr)
  /\ heap.total_allocated = SumFunctionOnSet(Sizes(hdr), InUse(hdr))
  /\ heap.total_free = SumFunctionOnSet(Sizes(hdr), FreeBlocks(hdr))
                         + (heap.block_count - 1) * Overhead

(* Once every buffer is freed, in whatever order, the heap is the single   *)
(* block memory_init made: nothing leaks and nothing stays fragmented.     *)
AllFreedRestoresHeap ==
  DOMAIN live = {} => heap.hdr = InitialHdr

(* The block list implements the allocator of module Allocator. *)
Promise == INSTANCE Allocator WITH Lo <- HeapStart, Hi <- HeapEnd
ImplementsAllocator == Promise!Spec
=============================================================================
