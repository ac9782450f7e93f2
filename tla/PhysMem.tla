------------------------------ MODULE PhysMem ------------------------------
(***************************************************************************)
(* The physical memory manager, memory/pmm.c: a bitmap with one bit per    *)
(* page frame, filled once by pmm_init from the boot loader's memory map   *)
(* and searched first-fit by pmm_alloc_page.                               *)
(*                                                                         *)
(* The bitmap is the set of page numbers whose bit is 1 ("used").  Its     *)
(* memory is at BitmapBase and may hold anything before pmm_init, and past *)
(* the bytes pmm_init sets it goes on holding anything: Garbage.           *)
(***************************************************************************)
EXTENDS Integers, Sequences, FiniteSets, SequencesExt

CONSTANTS
  PageSize,      \* PAGE_SIZE, 4096
  AddrSpace,     \* the size of the 32-bit physical address space, 2^32
  ByteBits,      \* the bits of one bitmap byte, 8
  BitmapBase,    \* where pmm_init puts the bitmap, 0x100000
  KernelStart,   \* linker.ld: kernel_start, 2M
  KernelEnd,     \* linker.ld: kernel_end
  VgaAddr,       \* 0xB8000
  MaxBlocks,     \* MAX_MEM_BLOCKS, 256
  MemoryMaps,    \* the memory maps the boot loader may pass
  Garbage        \* what the memory under the bitmap may hold at boot

ASSUME GeometryAssumption ==
  /\ PageSize \in Nat \ {0} /\ ByteBits \in Nat \ {0}
  /\ AddrSpace \in Nat /\ AddrSpace % PageSize = 0
  /\ BitmapBase \in 0..AddrSpace /\ VgaAddr \in 0..AddrSpace
  /\ KernelStart \in 0..AddrSpace /\ KernelEnd \in 0..AddrSpace
  /\ MaxBlocks \in Nat
  /\ Garbage \subseteq SUBSET Nat

VARIABLES
  booted,        \* pmm_init has run
  memMap,        \* the usable blocks recorded by get_memmap
  total_pages,
  pmm_bitmap,    \* the page numbers whose bit is set
  handed,        \* history: the pages handed out, in the order of the calls
  answer         \* the page number of the last pointer pmm_alloc_page returned

vars == <<booted, memMap, total_pages, pmm_bitmap, handed, answer>>

NULL     == 0
NumPages == AddrSpace \div PageSize

(* The pages touched by for(addr = start; addr < end; addr += PAGE_SIZE).  *)
StepPages(start, end) ==
  { a \div PageSize : a \in { x \in start..(end - 1) : (x - start) % PageSize = 0 } }

-----------------------------------------------------------------------------
(* get_memmap: an entry is recorded when it is available, starts below     *)
(* 4 GiB and there is room; its end is clipped to 4 GiB and then stored in *)
(* 32 bits, so that a block reaching 4 GiB is recorded with End = 0.       *)
Recorded(e) == e.type = "available" /\ e.addr < AddrSpace

Clip(end) == IF end > AddrSpace THEN AddrSpace ELSE end

Block(e) == [Begin |-> e.addr, End |-> Clip(e.addr + e.len) % AddrSpace]

Blocks(mmap) ==
  LET kept == SelectSeq(mmap, Recorded)
      n    == IF Len(kept) < MaxBlocks THEN Len(kept) ELSE MaxBlocks
  IN  [i \in 1..n |-> Block(kept[i])]

(* size / PAGE_SIZE, where size = End - Begin is unsigned.                 *)
PagesOf(b) == ((b.End - b.Begin) % AddrSpace) \div PageSize

TotalPages(blocks) ==
  LET add(b, sum) == sum + PagesOf(b) IN FoldSeq(add, 0, blocks)

(* A boot loader's map lists disjoint regions, so the usable pages cannot   *)
(* outnumber the pages of the address space; and no block ends so close to *)
(* 4 GiB that stepping through it would carry addr past 2^32 (a block that *)
(* reaches 4 GiB is recorded with End = 0 and not stepped through at all). *)
ASSUME MemoryMapAssumption ==
  \A mmap \in MemoryMaps \cup {<<>>} :
    /\ Blocks(mmap) \in Seq([Begin : Nat, End : Nat])
    /\ TotalPages(Blocks(mmap)) \in 0..NumPages
    /\ \A i \in DOMAIN Blocks(mmap) : Blocks(mmap)[i].End <= AddrSpace - PageSize

-----------------------------------------------------------------------------
(* pmm_bitmap_size, in bytes, and the page ranges pmm_init reserves.       *)
BitmapSizeRoundDown(n) == n \div ByteBits

BitmapSize(n) == (n + ByteBits - 1) \div ByteBits

KernelPages     == StepPages(KernelStart, KernelEnd)
BitmapPages(n)  == StepPages(BitmapBase, BitmapBase + BitmapSize(n))
VgaPage         == VgaAddr \div PageSize
Reserved(n)     == KernelPages \cup BitmapPages(n) \cup {VgaPage}

(* The bitmap pmm_init leaves: memset sets every bit of the bitmap's own   *)
(* bytes, the blocks' pages are cleared, and then the reserved pages are   *)
(* set again.  The order matters: the reserved pages lie in usable blocks. *)
FreedPages(blocks) ==
  UNION { StepPages(blocks[i].Begin, blocks[i].End) : i \in DOMAIN blocks }

MemsetBits(n) == 0..(ByteBits * BitmapSize(n) - 1)

InitialBitsReserveFirst(blocks, n) ==
  (pmm_bitmap \cup MemsetBits(n) \cup Reserved(n)) \ FreedPages(blocks)

InitialBits(blocks, n) ==
  ((pmm_bitmap \cup MemsetBits(n)) \ FreedPages(blocks)) \cup Reserved(n)

-----------------------------------------------------------------------------
Init ==
  /\ booted = FALSE
  /\ memMap = <<>>
  /\ total_pages = 0
  /\ pmm_bitmap \in Garbage
  /\ handed = <<>>
  /\ answer = NULL

(* pmm_init, called once by kernel_init.  It ignores get_memmap's result:  *)
(* with a bad magic number or no map (valid = FALSE) it goes on with no    *)
(* blocks, and returns 0 all the same.                                     *)
PmmInit(valid, mmap) ==
  LET blocks == Blocks(IF valid THEN mmap ELSE <<>>)
      n      == TotalPages(blocks)
  IN  /\ ~booted
      /\ booted' = TRUE
      /\ memMap' = blocks
      /\ total_pages' = n
      /\ pmm_bitmap' = InitialBits(blocks, n)
      /\ UNCHANGED <<handed, answer>>

ClearBitsInclusive == { i \in 0..total_pages : i \notin pmm_bitmap }

ClearBits == { i \in 0..(total_pages - 1) : i \notin pmm_bitmap }

(* pmm_alloc_page: the first clear bit below total_pages, or NULL.  Called *)
(* before pmm_init too (gd_init maps the framebuffer first): total_pages   *)
(* is then 0 and the answer NULL.                                          *)
Grant(i) ==
  /\ pmm_bitmap' = pmm_bitmap \cup {i}
  /\ handed' = Append(handed, i)
  /\ answer' = i

AllocPageLastFit ==
  /\ \/ ClearBits = {} /\ answer' = NULL /\ UNCHANGED <<pmm_bitmap, handed>>
     \/ \E i \in ClearBits : (\A j \in ClearBits : j <= i) /\ Grant(i)
  /\ UNCHANGED <<booted, memMap, total_pages>>

AllocPageUnmarked ==
  /\ \/ ClearBits = {} /\ answer' = NULL /\ UNCHANGED <<pmm_bitmap, handed>>
     \/ \E i \in ClearBits :
          /\ \A j \in ClearBits : i <= j
          /\ handed' = Append(handed, i) /\ answer' = i
          /\ UNCHANGED pmm_bitmap
  /\ UNCHANGED <<booted, memMap, total_pages>>

AllocPage ==
  /\ \/ ClearBits = {} /\ answer' = NULL /\ UNCHANGED <<pmm_bitmap, handed>>
     \/ \E i \in ClearBits : (\A j \in ClearBits : i <= j) /\ Grant(i)
  /\ UNCHANGED <<booted, memMap, total_pages>>

Next ==
  \/ \E valid \in BOOLEAN, mmap \in MemoryMaps : PmmInit(valid, mmap)
  \/ AllocPage

Spec == Init /\ [][Next]_vars

-----------------------------------------------------------------------------
(* Types.  The scan of pmm_alloc_page stays below total_pages, which stays *)
(* within the address space although End - Begin is computed modulo 2^32;  *)
(* a call before pmm_init scans nothing.                                   *)
TypeOK ==
  /\ booted \in BOOLEAN
  /\ memMap \in Seq([Begin : Nat, End : Nat])
  /\ total_pages \in 0..NumPages
  /\ pmm_bitmap \in SUBSET Nat
  /\ handed \in Seq(0..(total_pages - 1))
  /\ answer \in Range(handed) \cup {NULL}

(* pmm_init's order (clear the blocks' bits, then reserve) protects the    *)
(* kernel image, the bitmap itself and the VGA page, all of which lie in   *)
(* or between usable blocks: no call ever hands one of them out.           *)
ReservedNeverHanded ==
  booted => Range(handed) \cap Reserved(total_pages) = {}

(* With no free operation, first fit hands out strictly increasing pages:  *)
(* no page is ever handed out twice.                                       *)
AscendingFresh ==
  \A i, j \in DOMAIN handed : i < j => handed[i] < handed[j]

(* Every page handed out holds at least one byte of a usable block,        *)
(* whatever was in memory under the bitmap: memset covers every bit that   *)
(* pmm_alloc_page may read, also in the last, partly used byte.            *)
HandedIsRam ==
  \A p \in Range(handed) : \E b \in Range(memMap) :
    \E x \in b.Begin..(b.End - 1) : x \div PageSize = p

(* The allocator's clients see the abstract frame allocator.               *)
Frames == (0..(NumPages - 1)) \ (KernelPages \cup {VgaPage})

FA == INSTANCE FrameAllocator WITH handed <- Range(handed)

RefinesFrameAllocator == FA!FrameSpec

(* pf.c:14 reports "Out of memory" when pmm_alloc_page returns NULL: NULL  *)
(* then ought to mean that every page lying wholly in usable, unreserved   *)
(* memory has been handed out.  It does not: total_pages counts usable     *)
(* pages but is used as a bound on page numbers, so that each page of a    *)
(* hole below them hides one page at the top, and a block that reaches     *)
(* 4 GiB (End = 0) is counted but never freed.                             *)
UsablePages ==
  { p \in 0..(NumPages - 1) : \E b \in Range(memMap) :
      LET last == IF b.End = 0 THEN AddrSpace ELSE b.End
      IN  b.Begin <= p * PageSize /\ (p + 1) * PageSize <= last }

Refused ==
  /\ booted /\ handed # <<>>
  /\ answer = NULL /\ Last(handed) # NULL

OutOfMemoryIsGenuine ==
  Refused => (UsablePages \ Reserved(total_pages)) \subseteq Range(handed)
=============================================================================
