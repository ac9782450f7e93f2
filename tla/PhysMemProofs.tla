--------------------------- MODULE PhysMemProofs ---------------------------
(***************************************************************************)
(* Proofs about PhysMem for every page size, address space, memory layout  *)
(* and memory map that satisfy the two assumptions of PhysMem.             *)
(*                                                                         *)
(* The inductive invariant IInv says how the bitmap and the history are    *)
(* related: every page handed out is marked used, everything below a page  *)
(* handed out is marked used too (first fit leaves no clear bit behind),   *)
(* the reserved pages are marked used once pmm_init has run, and nothing   *)
(* is handed out before it runs.                                           *)
(***************************************************************************)
EXTENDS PhysMem, SequenceTheorems, TLAPS

HandedPages == { handed[i] : i \in DOMAIN handed }

IInv ==
  /\ TypeOK
  /\ ~booted => handed = <<>> /\ total_pages = 0
  /\ booted => Reserved(total_pages) \subseteq pmm_bitmap
  /\ \A i \in DOMAIN handed : \A q \in 0..handed[i] : q \in pmm_bitmap
  /\ booted => \A i \in DOMAIN handed : handed[i] \notin Reserved(total_pages)
  /\ AscendingFresh

-----------------------------------------------------------------------------
(* The pages that for(addr = start; addr < end; addr += PAGE_SIZE) touches *)
(* are natural numbers.                                                    *)
LEMMA StepPagesNat ==
  ASSUME NEW s \in Nat, NEW e \in Int
  PROVE  StepPages(s, e) \subseteq Nat
<1>1. PageSize \in Nat \ {0}
  BY GeometryAssumption
<1> QED
  BY <1>1 DEF StepPages

(* So are the reserved pages, whatever the number of pages.                *)
LEMMA ReservedNat ==
  ASSUME NEW n \in Nat
  PROVE  Reserved(n) \subseteq Nat
<1>1. BitmapSize(n) \in Nat
  BY GeometryAssumption DEF BitmapSize
<1>2. /\ KernelStart \in Nat /\ KernelEnd \in Nat
      /\ BitmapBase \in Nat /\ VgaAddr \in Nat
      /\ PageSize \in Nat \ {0}
  BY GeometryAssumption
<1>3. KernelPages \subseteq Nat /\ BitmapPages(n) \subseteq Nat
  BY <1>1, <1>2, StepPagesNat DEF KernelPages, BitmapPages
<1>4. VgaPage \in Nat
  BY <1>2 DEF VgaPage
<1> QED
  BY <1>3, <1>4 DEF Reserved

(* Range of SequencesExt and the set HandedPages are the same set.         *)
LEMMA RangeHanded == Range(handed) = HandedPages
  BY DEF Range, HandedPages

-----------------------------------------------------------------------------
(* The initial states satisfy the inductive invariant.                     *)
LEMMA InitIInv == Init => IInv
<1> SUFFICES ASSUME Init PROVE IInv
  OBVIOUS
<1>1. NumPages \in Nat
  BY GeometryAssumption DEF NumPages
<1>2. TypeOK
  <2>1. pmm_bitmap \in SUBSET Nat
    BY GeometryAssumption DEF Init
  <2>2. answer \in Range(handed) \cup {NULL}
    BY DEF Init
  <2>3. memMap \in Seq([Begin : Nat, End : Nat])
    BY EmptySeq DEF Init
  <2>4. handed \in Seq(0..(total_pages - 1))
    BY EmptySeq DEF Init
  <2>5. booted \in BOOLEAN
    BY DEF Init
  <2>6. total_pages \in 0..NumPages
    BY <1>1 DEF Init
  <2> QED
    BY <2>1, <2>2, <2>3, <2>4, <2>5, <2>6 DEF TypeOK
<1>3. DOMAIN handed = {}
  BY DEF Init
<1> QED
  BY <1>2, <1>3 DEF Init, IInv, AscendingFresh

(* pmm_init establishes the part of the invariant about reserved pages:    *)
(* they are marked used after the usable blocks have been cleared.         *)
LEMMA PmmInitIInv ==
  ASSUME IInv, NEW valid \in BOOLEAN, NEW mmap \in MemoryMaps,
         PmmInit(valid, mmap)
  PROVE  IInv'
<1> DEFINE m == IF valid THEN mmap ELSE <<>>
           n == TotalPages(Blocks(m))
<1>1. m \in MemoryMaps \cup {<<>>}
  OBVIOUS
<1>2. n \in 0..NumPages /\ Blocks(m) \in Seq([Begin : Nat, End : Nat])
  BY <1>1, MemoryMapAssumption
<1>3. NumPages \in Nat
  BY GeometryAssumption DEF NumPages
<1>4. /\ handed = <<>> /\ handed' = <<>> /\ answer' = answer
      /\ booted' = TRUE
      /\ total_pages' = n
      /\ memMap' = Blocks(m)
      /\ pmm_bitmap' = InitialBits(Blocks(m), n)
  BY DEF PmmInit, IInv
<1> HIDE DEF n, m
<1>5. Reserved(n) \subseteq Nat
  BY <1>2, <1>3, ReservedNat
<1>6. MemsetBits(n) \subseteq Nat
  BY DEF MemsetBits
<1>7. pmm_bitmap' \subseteq Nat /\ Reserved(n) \subseteq pmm_bitmap'
  BY <1>4, <1>5, <1>6 DEF InitialBits, IInv, TypeOK
<1>8. TypeOK'
  BY <1>2, <1>4, <1>7, EmptySeq DEF IInv, TypeOK, Range
<1>9. DOMAIN handed' = {}
  BY <1>4
<1>10. Reserved(total_pages)' = Reserved(n)
  BY <1>4 DEF Reserved, BitmapPages, BitmapSize
<1> QED
  BY <1>4, <1>7, <1>8, <1>9, <1>10 DEF IInv, AscendingFresh

(* Handing out the first clear bit keeps the invariant: the new page lies  *)
(* above all pages handed out before, because everything at or below them  *)
(* is marked used, and it is no reserved page, because those are too.      *)
LEMMA GrantIInv ==
  ASSUME IInv, NEW i \in ClearBits, \A j \in ClearBits : i <= j, Grant(i),
         UNCHANGED <<booted, memMap, total_pages>>
  PROVE  IInv'
<1>1. /\ NumPages \in Nat /\ total_pages \in 0..NumPages
      /\ pmm_bitmap \subseteq Nat
      /\ handed \in Seq(0..(total_pages - 1))
  BY GeometryAssumption DEF NumPages, IInv, TypeOK
<1>2. i \in 0..(total_pages - 1) /\ i \notin pmm_bitmap
  BY DEF ClearBits
<1>3. /\ handed' = Append(handed, i)
      /\ pmm_bitmap' = pmm_bitmap \cup {i}
      /\ answer' = i
      /\ booted' = booted /\ memMap' = memMap /\ total_pages' = total_pages
  BY DEF Grant
<1>4. /\ handed' \in Seq(0..(total_pages - 1))
      /\ Len(handed) \in Nat
      /\ DOMAIN handed = 1..Len(handed)
      /\ DOMAIN handed' = 1..(Len(handed) + 1)
      /\ handed'[Len(handed) + 1] = i
      /\ \A k \in 1..Len(handed) : handed'[k] = handed[k]
  BY <1>1, <1>2, <1>3, AppendProperties
<1>5. \A k \in 1..Len(handed) : handed[k] \in 0..(total_pages - 1)
  BY <1>1
<1>6. \A k \in 1..Len(handed) : handed[k] < i
  <2> SUFFICES ASSUME NEW k \in 1..Len(handed), i <= handed[k]
               PROVE  FALSE
    BY <1>2, <1>5
  <2>1. i \in 0..handed[k]
    BY <1>2, <1>5
  <2>2. \A q \in 0..handed[k] : q \in pmm_bitmap
    BY <1>4 DEF IInv
  <2> QED
    BY <1>2, <2>1, <2>2
<1>7. TypeOK'
  <2>1. i \in Range(handed)'
    BY <1>4 DEF Range
  <2> QED
    BY <1>1, <1>2, <1>3, <1>4, <2>1 DEF TypeOK, IInv
<1>8. booted /\ booted'
  <2>1. total_pages # 0
    BY <1>1, <1>2
  <2> QED
    BY <2>1, <1>3 DEF IInv, TypeOK
<1>9. Reserved(total_pages)' = Reserved(total_pages)
  BY <1>3 DEF Reserved, BitmapPages, BitmapSize
<1>10. (\A k \in DOMAIN handed : \A q \in 0..handed[k] : q \in pmm_bitmap)'
  <2>1. \A q \in 0..i : q \in pmm_bitmap'
    BY <1>1, <1>2, <1>3 DEF ClearBits
  <2>2. \A k \in 1..Len(handed) : \A q \in 0..handed[k] : q \in pmm_bitmap'
    BY <1>3, <1>4 DEF IInv
  <2> QED
    BY <2>1, <2>2, <1>4
<1>11. (\A k \in DOMAIN handed : handed[k] \notin Reserved(total_pages))'
  BY <1>2, <1>4, <1>8, <1>9 DEF IInv
<1>12. AscendingFresh'
  BY <1>4, <1>5, <1>6 DEF AscendingFresh, IInv
<1>13. Reserved(total_pages)' \subseteq pmm_bitmap'
  BY <1>3, <1>8, <1>9 DEF IInv
<1> QED
  BY <1>7, <1>8, <1>10, <1>11, <1>12, <1>13 DEF IInv

(* A refused call changes the answer only.                                 *)
LEMMA RefuseIInv ==
  ASSUME IInv, answer' = NULL, UNCHANGED <<pmm_bitmap, handed>>,
         UNCHANGED <<booted, memMap, total_pages>>
  PROVE  IInv'
<1>2. TypeOK'
  BY RangeHanded DEF IInv, TypeOK, HandedPages
<1>3. Reserved(total_pages)' = Reserved(total_pages)
  BY DEF Reserved, BitmapPages, BitmapSize
<1> QED
  BY <1>2, <1>3 DEF IInv, AscendingFresh

(* IInv is an invariant of PhysMem.                                        *)
THEOREM Invariance == Spec => []IInv
<1>1. IInv /\ [Next]_vars => IInv'
  <2> SUFFICES ASSUME IInv, [Next]_vars PROVE IInv'
    OBVIOUS
  <2>1. CASE \E valid \in BOOLEAN, mmap \in MemoryMaps : PmmInit(valid, mmap)
    BY <2>1, PmmInitIInv
  <2>2. CASE AllocPage
    BY <2>2, GrantIInv, RefuseIInv DEF AllocPage
  <2>3. CASE UNCHANGED vars
    <3>1. Reserved(total_pages)' = Reserved(total_pages)
      BY <2>3 DEF vars, Reserved, BitmapPages, BitmapSize
    <3> QED
      BY <2>3, <3>1 DEF vars, IInv, TypeOK, AscendingFresh
  <2> QED
    BY <2>1, <2>2, <2>3 DEF Next
<1> QED
  BY <1>1, InitIInv, PTL DEF Spec

-----------------------------------------------------------------------------
(* The types hold, and the scan stays inside the address space.            *)
THEOREM TypeCorrect == Spec => []TypeOK
<1>1. IInv => TypeOK
  BY DEF IInv
<1> QED
  BY <1>1, Invariance, PTL

(* No page of the kernel image, of the bitmap or of VGA memory is ever     *)
(* handed out, wherever the three lie in the memory map.                   *)
THEOREM ReservedStaysReserved == Spec => []ReservedNeverHanded
<1>1. IInv => ReservedNeverHanded
  BY RangeHanded DEF IInv, ReservedNeverHanded, HandedPages
<1> QED
  BY <1>1, Invariance, PTL

(* Pages are handed out in strictly increasing order, hence at most once.  *)
THEOREM NeverHandedTwice == Spec => []AscendingFresh
<1>1. IInv => AscendingFresh
  BY DEF IInv
<1> QED
  BY <1>1, Invariance, PTL

-----------------------------------------------------------------------------
(* HandedIsRam needs a second invariant, about the clear bits: below       *)
(* total_pages a bit can only be clear because a usable block cleared it,  *)
(* since memset has set all of them first.                                 *)
TouchesRam(p) ==
  \E k \in DOMAIN memMap : \E x \in memMap[k].Begin..(memMap[k].End - 1) :
    x \div PageSize = p

ClearIsRam ==
  /\ \A p \in ClearBits : TouchesRam(p)
  /\ \A i \in DOMAIN handed : TouchesRam(handed[i])

(* memset's whole bytes cover every page number below the page count.      *)
LEMMA MemsetCovers ==
  ASSUME NEW n \in Nat, NEW i \in 0..(n - 1)
  PROVE  i \in MemsetBits(n)
<1>1. ByteBits \in Nat \ {0}
  BY GeometryAssumption
<1> DEFINE q == (n + ByteBits - 1) \div ByteBits
           r == (n + ByteBits - 1) % ByteBits
<1>2. /\ q \in Int /\ r \in 0..(ByteBits - 1)
      /\ n + ByteBits - 1 = ByteBits * q + r
  BY <1>1
<1>3. ByteBits * q \in Int
  BY <1>1, <1>2
<1> HIDE DEF q, r
<1>4. n <= ByteBits * q
  BY <1>1, <1>2, <1>3
<1>5. MemsetBits(n) = 0..(ByteBits * q - 1)
  BY DEF MemsetBits, BitmapSize, q
<1> QED
  BY <1>3, <1>4, <1>5

(* pmm_init leaves clear bits below total_pages only in usable blocks.     *)
LEMMA PmmInitClearIsRam ==
  ASSUME IInv, NEW valid \in BOOLEAN, NEW mmap \in MemoryMaps,
         PmmInit(valid, mmap)
  PROVE  ClearIsRam'
<1> DEFINE m == IF valid THEN mmap ELSE <<>>
           n == TotalPages(Blocks(m))
<1>1. /\ m \in MemoryMaps \cup {<<>>}
      /\ n \in Nat
  BY MemoryMapAssumption, GeometryAssumption DEF NumPages
<1>2. /\ handed' = <<>>
      /\ total_pages' = n
      /\ memMap' = Blocks(m)
      /\ pmm_bitmap' = InitialBits(Blocks(m), n)
  BY DEF PmmInit, IInv
<1> HIDE DEF n, m
<1>3. ASSUME NEW i \in ClearBits' PROVE TouchesRam(i)'
  <2>1. i \in 0..(n - 1) /\ i \notin InitialBits(Blocks(m), n)
    BY <1>2, <1>3 DEF ClearBits
  <2>2. i \in MemsetBits(n)
    BY <1>1, <2>1, MemsetCovers
  <2>3. i \in FreedPages(Blocks(m))
    BY <2>1, <2>2 DEF InitialBits
  <2>4. PICK k \in DOMAIN Blocks(m) :
          i \in StepPages(Blocks(m)[k].Begin, Blocks(m)[k].End)
    BY <2>3 DEF FreedPages
  <2>5. \E x \in Blocks(m)[k].Begin..(Blocks(m)[k].End - 1) : x \div PageSize = i
    BY <2>4 DEF StepPages
  <2> QED
    BY <1>2, <2>5 DEF TouchesRam
<1> QED
  BY <1>2, <1>3 DEF ClearIsRam

(* Handing out a clear bit moves a page from one half of ClearIsRam to the *)
(* other.                                                                  *)
LEMMA GrantClearIsRam ==
  ASSUME IInv, ClearIsRam, NEW i \in ClearBits, Grant(i),
         UNCHANGED <<booted, memMap, total_pages>>
  PROVE  ClearIsRam'
<1>1. /\ total_pages \in Int
      /\ handed \in Seq(0..(total_pages - 1))
      /\ i \in 0..(total_pages - 1)
  BY GeometryAssumption DEF NumPages, IInv, TypeOK, ClearBits
<1>2. /\ DOMAIN handed = 1..Len(handed)
      /\ DOMAIN handed' = 1..(Len(handed) + 1)
      /\ Len(handed) \in Nat
      /\ handed'[Len(handed) + 1] = i
      /\ \A k \in 1..Len(handed) : handed'[k] = handed[k]
  BY <1>1, AppendProperties DEF Grant
<1>3. \A p : TouchesRam(p)' <=> TouchesRam(p)
  BY DEF TouchesRam
<1>4. ClearBits' \subseteq ClearBits
  BY DEF ClearBits, Grant
<1> QED
  BY <1>2, <1>3, <1>4 DEF ClearIsRam

(* Every page handed out holds usable memory, whatever the boot loader     *)
(* left under the bitmap.                                                  *)
THEOREM OnlyRamIsHanded == Spec => []HandedIsRam
<1>1. Init => ClearIsRam
  BY DEF Init, ClearIsRam, ClearBits
<1>2. IInv /\ ClearIsRam /\ [Next]_vars => ClearIsRam'
  <2> SUFFICES ASSUME IInv, ClearIsRam, [Next]_vars PROVE ClearIsRam'
    OBVIOUS
  <2>1. CASE \E valid \in BOOLEAN, mmap \in MemoryMaps : PmmInit(valid, mmap)
    BY <2>1, PmmInitClearIsRam
  <2>2. CASE AllocPage
    <3>1. CASE \E i \in ClearBits : (\A j \in ClearBits : i <= j) /\ Grant(i)
      BY <2>2, <3>1, GrantClearIsRam DEF AllocPage
    <3>2. CASE UNCHANGED <<pmm_bitmap, handed>>
      BY <2>2, <3>2 DEF AllocPage, ClearIsRam, ClearBits, TouchesRam
    <3> QED
      BY <2>2, <3>1, <3>2 DEF AllocPage
  <2>3. CASE UNCHANGED vars
    BY <2>3 DEF vars, ClearIsRam, ClearBits, TouchesRam
  <2> QED
    BY <2>1, <2>2, <2>3 DEF Next
<1>3. ClearIsRam => HandedIsRam
  BY DEF ClearIsRam, TouchesRam, HandedIsRam, Range
<1> QED
  BY <1>1, <1>2, <1>3, Invariance, PTL DEF Spec

-----------------------------------------------------------------------------
(* The bitmap implements the abstract allocator of its clients: pmm_init   *)
(* is a stuttering step, and every call takes one frame above all earlier  *)
(* ones or refuses.                                                        *)
THEOREM Refinement == Spec => RefinesFrameAllocator
<1>1. Init => FA!FrameInit
  BY DEF Init, FA!FrameInit, FA!NULL, NULL, Range
<1>2. ASSUME IInv, [Next]_vars PROVE [FA!FrameNext]_(FA!allocVars)
  <2>1. CASE \E valid \in BOOLEAN, mmap \in MemoryMaps : PmmInit(valid, mmap)
    BY <2>1 DEF PmmInit, FA!allocVars
  <2>2. CASE UNCHANGED vars
    BY <2>2 DEF vars, FA!allocVars
  <2>3. CASE AllocPage /\ answer' = NULL /\ UNCHANGED handed
    BY <2>3 DEF FA!FrameNext, FA!Refuse, FA!NULL, NULL
  <2>4. ASSUME NEW i \in ClearBits, \A j \in ClearBits : i <= j, Grant(i),
               UNCHANGED <<booted, memMap, total_pages>>
        PROVE  FA!Take(i)
    <3>1. IInv'
      BY <1>2, <2>4, GrantIInv
    <3>2. /\ total_pages \in 0..NumPages /\ NumPages \in Nat
          /\ handed \in Seq(0..(total_pages - 1))
          /\ i \in 0..(total_pages - 1)
      BY <1>2, GeometryAssumption DEF NumPages, IInv, TypeOK, ClearBits
    <3>3. /\ DOMAIN handed = 1..Len(handed)
          /\ DOMAIN handed' = 1..(Len(handed) + 1)
          /\ Len(handed) \in Nat
          /\ handed'[Len(handed) + 1] = i
          /\ \A k \in 1..Len(handed) : handed'[k] = handed[k]
      BY <2>4, <3>2, AppendProperties DEF Grant
    <3>4. Range(handed)' = Range(handed) \cup {i}
      BY <3>3 DEF Range
    <3>5. \A g \in Range(handed) : g < i
      <4>1. \A k \in 1..Len(handed) : handed'[k] < handed'[Len(handed) + 1]
        BY <3>1, <3>3 DEF IInv, AscendingFresh
      <4> QED
        BY <4>1, <3>3 DEF Range
    <3>6. booted
      <4>1. total_pages # 0
        BY <3>2
      <4> QED
        BY <1>2, <4>1 DEF IInv, TypeOK
    <3>7. i \in Frames
      <4>1. i \notin Reserved(total_pages)
        BY <1>2, <3>6 DEF IInv, ClearBits
      <4> QED
        BY <3>2, <4>1 DEF Frames, Reserved
    <3> QED
      BY <2>4, <3>4, <3>5, <3>7 DEF FA!Take, Grant
  <2>5. CASE AllocPage
    <3>1. CASE \E i \in ClearBits : (\A j \in ClearBits : i <= j) /\ Grant(i)
      <4>1. PICK i \in ClearBits : (\A j \in ClearBits : i <= j) /\ Grant(i)
        BY <3>1
      <4>2. FA!Take(i) /\ i \in Frames
        BY <2>4, <2>5, <4>1 DEF AllocPage, FA!Take
      <4> QED
        BY <4>2 DEF FA!FrameNext
    <3> QED
      BY <2>3, <2>5, <3>1 DEF AllocPage
  <2> QED
    BY <1>2, <2>1, <2>2, <2>5 DEF Next
<1> QED
  BY <1>1, <1>2, Invariance, PTL DEF Spec, RefinesFrameAllocator, FA!FrameSpec

=============================================================================
