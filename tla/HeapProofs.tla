----------------------------- MODULE HeapProofs -----------------------------
(***************************************************************************)
(* Proofs about Heap, for every size of a frame, every set of requests and *)
(* every set of frames, as long as free is called only while the heap is   *)
(* one frame (the assumption ~Frees; with Frees the properties do not      *)
(* hold, which is a finding of the model).                                 *)
(*                                                                         *)
(* The inductive invariant says how the blocks of the list and the live    *)
(* allocations lie in the heap's frames.  Allocations may have been cut    *)
(* off the list, so that those two are related by their addresses only;    *)
(* in a heap of one frame they are also the same blocks.                   *)
(***************************************************************************)
EXTENDS Heap, NumberInduction, FiniteSetTheorems, TLAPS

End(b) == b.addr + Header + b.size

Within(lo, hi, f) == Base(f) <= lo /\ hi <= Base(f) + FrameSize

(* The blocks of a list ascend and do not overlap.                         *)
Ordered(bs) ==
  \A i, j \in 1..Len(bs) : i < j => End(bs[i]) <= bs[j].addr

(* They follow each other without a gap.                                   *)
Adjoining(bs) ==
  \A i \in 1..(Len(bs) - 1) : bs[i + 1].addr = End(bs[i])

(* No two neighbours are free.                                             *)
Coalesced(bs) ==
  \A i \in 1..(Len(bs) - 1) : bs[i].flags = 1 \/ bs[i + 1].flags = 1

(* What the types leave out.                                               *)
Shape ==
  /\ live \in [DOMAIN live -> Requests]
  /\ IsFiniteSet(owned)
  /\ ~initialised => blocks = <<>> /\ DOMAIN live = {} /\ owned = {} /\ depth = 0
  /\ depth > 0 => size \in Requests

BlocksInFrames ==
  /\ Ordered(blocks)
  /\ \A i \in 1..Len(blocks) :
       \E f \in owned : Within(blocks[i].addr, End(blocks[i]), f)

LiveInFrames ==
  \A p \in DOMAIN live : \E f \in owned : Within(p - Header, p + live[p], f)

(* Between an allocation and what comes after it, be it the next one or a  *)
(* free block, there is room for the header of the latter.                 *)
LiveApart ==
  \A p, q \in DOMAIN live : p < q => p + live[p] + Header <= q

FreeApart ==
  \A p \in DOMAIN live, i \in 1..Len(blocks) :
    blocks[i].flags = 0 =>
      \/ p + live[p] <= blocks[i].addr
      \/ End(blocks[i]) + Header <= p

(* The heap of one frame.                                                  *)
Tiles(f) ==
  /\ blocks[1].addr = Base(f) /\ heap_end = Base(f)
  /\ End(blocks[Len(blocks)]) = Base(f) + FrameSize
  /\ Adjoining(blocks) /\ Coalesced(blocks)

UsedAreLive ==
  /\ \A i \in 1..Len(blocks) :
       blocks[i].flags = 1 =>
         /\ Payload(blocks[i]) \in DOMAIN live
         /\ blocks[i].size - live[Payload(blocks[i])] \in 0..Header
  /\ \A p \in DOMAIN live :
       \E i \in 1..Len(blocks) : blocks[i].flags = 1 /\ Payload(blocks[i]) = p

OneFrame ==
  \A f \in owned : owned = {f} /\ blocks # <<>> => Tiles(f) /\ UsedAreLive

(* The block linked last stays on the list, so that growing never loses    *)
(* the new block; and the call after the growth finds it.                  *)
EndOnList ==
  blocks # <<>> => \E i \in 1..Len(blocks) : blocks[i].addr = heap_end

Grown ==
  /\ depth >= 2 /\ blocks # <<>> =>
       /\ blocks[Len(blocks)].flags = 0
       /\ blocks[Len(blocks)].size = FrameSize - Header
  /\ GrowsAtMostOnce

HInv ==
  /\ TypeOK /\ Shape /\ BlocksInFrames
  /\ LiveInFrames /\ LiveApart /\ FreeApart
  /\ OneFrame /\ EndOnList /\ Grown

-----------------------------------------------------------------------------
(* Arithmetic of frames: a higher frame begins where a lower one has       *)
(* ended, and the address of a unit determines its frame.                  *)
LEMMA BaseNat ==
  ASSUME NEW f \in Nat
  PROVE  Base(f) \in Nat
BY HeapAssumption DEF Base

(* The frames of the heap do not overlap: a later one begins where an      *)
(* earlier one has ended.                                                  *)
LEMMA BaseAbove ==
  ASSUME NEW f \in Nat, NEW g \in Nat, g < f
  PROVE  Base(g) + FrameSize <= Base(f)
<1>1. PICK d \in Nat : f = g + 1 + d
  <2>1. f - g - 1 \in Nat /\ f = g + 1 + (f - g - 1)
    OBVIOUS
  <2> QED
    BY <2>1
<1>2. f * FrameSize = g * FrameSize + FrameSize + d * FrameSize
  BY <1>1, HeapAssumption
<1>3. d * FrameSize \in Nat /\ g * FrameSize \in Nat
  BY HeapAssumption
<1> QED
  BY <1>2, <1>3, HeapAssumption DEF Base

(* An address lies in the frame its quotient by the frame size says.       *)
LEMMA UnitOfFrame ==
  ASSUME NEW f \in Nat, NEW x \in Nat, Base(f) <= x, x < Base(f) + FrameSize
  PROVE  x \div FrameSize = f
<1>1. PICK r \in 0..(FrameSize - 1) : x = f * FrameSize + r
  <2>1. /\ x - f * FrameSize \in 0..(FrameSize - 1)
        /\ x = f * FrameSize + (x - f * FrameSize)
    BY HeapAssumption DEF Base
  <2> QED
    BY <2>1
<1> QED
  BY <1>1, HeapAssumption

(* A block ends at a number above its address.                             *)
LEMMA BlockEnd ==
  ASSUME NEW b \in BlockType
  PROVE  /\ b.addr \in Nat /\ b.size \in Nat /\ b.flags \in {0, 1}
         /\ End(b) \in Nat /\ b.addr < End(b)
         /\ Payload(b) \in Nat /\ Payload(b) = b.addr + Header
         /\ End(b) = b.addr + Header + b.size
BY HeapAssumption DEF BlockType, End, Payload

(* FirstFit is the first block that fits, or 0 when there is none.         *)
LEMMA FirstFitFits ==
  ASSUME blocks \in Seq(BlockType), FirstFit # 0
  PROVE  FirstFit \in 1..Len(blocks) /\ Fits(blocks[FirstFit])
<1> DEFINE I == { i \in 1..Len(blocks) : Fits(blocks[i]) }
<1>1. FirstFit = IF I # {} THEN Min(I) ELSE 0
  BY DEF FirstFit, SelectInSeq
<1>2. I \in SUBSET Nat
  OBVIOUS
<1>3. FirstFit \in I
  BY <1>1, <1>2, LeastNumber
<1> QED
  BY <1>3

(* find_block answers NULL only when no block on the list would do.        *)
LEMMA NothingFits ==
  ASSUME blocks \in Seq(BlockType), FirstFit = 0
  PROVE  \A i \in 1..Len(blocks) : ~Fits(blocks[i])
<1> DEFINE I == { i \in 1..Len(blocks) : Fits(blocks[i]) }
<1>1. FirstFit = IF I # {} THEN Min(I) ELSE 0
  BY DEF FirstFit, SelectInSeq
<1>2. I \in SUBSET Nat
  OBVIOUS
<1>3. I = {}
  <2> SUFFICES ASSUME I # {} PROVE FALSE
    OBVIOUS
  <2>1. Min(I) \in I
    BY <1>2, LeastNumber
  <2>2. Min(I) \in 1..Len(blocks)
    BY <2>1
  <2> QED
    BY <1>1, <2>2
<1> QED
  BY <1>3

(* Linking a block behind heap_end keeps the blocks up to the one at       *)
(* heap_end.                                                               *)
LEMMA LinkBehindEnd ==
  ASSUME blocks \in Seq(BlockType), NEW new \in BlockType,
         \E i \in 1..Len(blocks) : blocks[i].addr = heap_end
  PROVE  \E n \in 1..Len(blocks) :
           /\ Link(new) \in Seq(BlockType)
           /\ Len(Link(new)) = n + 1
           /\ \A i \in 1..n : Link(new)[i] = blocks[i]
           /\ Link(new)[n + 1] = new
<1> DEFINE I == { i \in 1..Len(blocks) : blocks[i].addr = heap_end }
           n == Min(I)
<1>1. I \in SUBSET Nat /\ I # {}
  OBVIOUS
<1>2. n \in 1..Len(blocks)
  <2>1. n \in I
    BY <1>1, LeastNumber
  <2> QED
    BY <2>1
<1>3. Link(new) = Append(SubSeq(blocks, 1, n), new)
  <2> DEFINE J == { i \in 1..Len(blocks) : LinkedLast(blocks[i]) }
  <2>1. SelectInSeq(blocks, LinkedLast) = IF J # {} THEN Min(J) ELSE 0
    BY DEF SelectInSeq
  <2>2. J = I
    BY DEF LinkedLast
  <2> HIDE DEF I, J
  <2>3. SelectInSeq(blocks, LinkedLast) = n
    BY <1>1, <2>1, <2>2
  <2> QED
    BY <1>2, <2>3 DEF Link
<1> HIDE DEF n
<1>4. /\ SubSeq(blocks, 1, n) \in Seq(BlockType) /\ Len(SubSeq(blocks, 1, n)) = n
      /\ \A i \in 1..n : SubSeq(blocks, 1, n)[i] = blocks[i]
  BY <1>2
<1> QED
  BY <1>2, <1>3, <1>4

(* An empty list stays empty.                                              *)
LEMMA LinkToNothing ==
  ASSUME NEW new, blocks = <<>>
  PROVE  Link(new) = <<>>
<1>1. { i \in 1..Len(blocks) : LinkedLast(blocks[i]) } = {}
  OBVIOUS
<1>2. SelectInSeq(blocks, LinkedLast) = 0
  BY <1>1 DEF SelectInSeq
<1> QED
  BY <1>2 DEF Link

(* What malloc leaves of a list when it gives out block i: the block       *)
(* itself, in use, and perhaps a free rest behind it.                      *)
LEMMA ReplacedBlocks ==
  ASSUME blocks \in Seq(BlockType), NEW i \in 1..Len(blocks),
         NEW k \in {1, 2}, NEW new \in Seq(BlockType), Len(new) = k
  PROVE  /\ ReplaceWith(i, new) \in Seq(BlockType)
         /\ Len(ReplaceWith(i, new)) = Len(blocks) + k - 1
         /\ \A j \in 1..(i - 1) : ReplaceWith(i, new)[j] = blocks[j]
         /\ \A j \in i..(i + k - 1) : ReplaceWith(i, new)[j] = new[j - i + 1]
         /\ \A j \in (i + k)..(Len(blocks) + k - 1) :
              ReplaceWith(i, new)[j] = blocks[j - k + 1]
<1> DEFINE a == SubSeq(blocks, 1, i - 1)
           c == SubSeq(blocks, i + 1, Len(blocks))
<1>1. /\ a \in Seq(BlockType) /\ Len(a) = i - 1
      /\ \A j \in 1..(i - 1) : a[j] = blocks[j]
  OBVIOUS
<1>2. /\ c \in Seq(BlockType) /\ Len(c) = Len(blocks) - i
      /\ \A j \in 1..(Len(blocks) - i) : c[j] = blocks[i + j]
  OBVIOUS
<1> HIDE DEF a, c
<1> DEFINE ab == a \o new
<1>3. /\ ab \in Seq(BlockType) /\ Len(ab) = i - 1 + k
      /\ \A j \in 1..(i - 1) : ab[j] = blocks[j]
      /\ \A j \in i..(i + k - 1) : ab[j] = new[j - i + 1]
  BY <1>1
<1>4. ReplaceWith(i, new) = ab \o c
  BY DEF ReplaceWith, a, c
<1> HIDE DEF ab
<1> DEFINE abc == ab \o c
<1>5. /\ abc \in Seq(BlockType)
      /\ Len(abc) = Len(blocks) + k - 1
      /\ \A j \in 1..(i + k - 1) : abc[j] = ab[j]
  <2>1. ab \in Seq(BlockType) /\ c \in Seq(BlockType)
    BY <1>2, <1>3
  <2>2. /\ abc \in Seq(BlockType) /\ Len(abc) = Len(ab) + Len(c)
        /\ \A j \in 1..Len(ab) : abc[j] = ab[j]
    BY ONLY <2>1
  <2>3. /\ Len(ab) = i - 1 + k /\ Len(c) = Len(blocks) - i
        /\ i \in Nat /\ k \in Nat /\ Len(blocks) \in Nat
    BY <1>2, <1>3
  <2>4. Len(ab) + Len(c) = Len(blocks) + k - 1 /\ i + k - 1 = Len(ab)
    BY ONLY <2>3
  <2> QED
    BY ONLY <2>2, <2>4
<1>6. \A j \in (i + k)..(Len(blocks) + k - 1) : abc[j] = blocks[j - k + 1]
  <2> SUFFICES ASSUME NEW j \in (i + k)..(Len(blocks) + k - 1)
               PROVE  abc[j] = blocks[j - k + 1]
    OBVIOUS
  <2>1. j \in Len(ab) + 1..Len(ab) + Len(c)
    BY <1>2, <1>3
  <2>2. ab \in Seq(BlockType) /\ c \in Seq(BlockType)
    BY <1>2, <1>3
  <2>3. abc[j] = c[j - Len(ab)]
    BY ONLY <2>1, <2>2
  <2>4. j - Len(ab) \in 1..(Len(blocks) - i) /\ i + (j - Len(ab)) = j - k + 1
    BY <1>3
  <2> QED
    BY <1>2, <2>3, <2>4
<1> HIDE DEF abc
<1>7. ReplaceWith(i, new) = abc
  BY <1>4 DEF abc
<1>8. /\ \A j \in 1..(i - 1) : abc[j] = blocks[j]
      /\ \A j \in i..(i + k - 1) : abc[j] = new[j - i + 1]
  BY <1>3, <1>5
<1> QED
  BY <1>5, <1>6, <1>7, <1>8
-----------------------------------------------------------------------------
(* The initial states satisfy the inductive invariant.                     *)
LEMMA InitHInv == Init => HInv
<1> SUFFICES ASSUME Init PROVE HInv
  OBVIOUS
<1>1. DOMAIN live = {} /\ live \in [DOMAIN live -> Requests]
  BY DEF Init
<1>2. TypeOK
  <2>1. DOMAIN live \subseteq Nat /\ Range(live) \subseteq Requests
    BY <1>1 DEF Range
  <2>2. blocks \in Seq(BlockType)
    BY DEF Init
  <2> QED
    BY <2>1, <2>2, HeapAssumption DEF Init, TypeOK, NULL
<1>3. Shape
  BY <1>1, FS_EmptySet DEF Init, Shape
<1>4. BlocksInFrames /\ EndOnList /\ OneFrame
  BY DEF Init, BlocksInFrames, Ordered, EndOnList, OneFrame
<1>5. LiveInFrames /\ LiveApart /\ FreeApart
  BY <1>1 DEF LiveInFrames, LiveApart, FreeApart
<1>6. Grown
  BY DEF Init, Grown, GrowsAtMostOnce
<1> QED
  BY <1>2, <1>3, <1>4, <1>5, <1>6 DEF HInv

(* heap_init: the list is one free block over a whole frame, or nothing.   *)
LEMMA HeapInitStep == HInv /\ HeapInit => HInv'
<1> SUFFICES ASSUME HInv, HeapInit PROVE HInv'
  OBVIOUS
<1> USE DEF HInv, NULL
<1>1. /\ DOMAIN live' = {} /\ live' = live /\ depth' = 0 /\ size' = size /\ initialised'
      /\ owned = {}
  BY DEF HeapInit, Shape
<1>2. /\ answer' \in Frames \cup {NULL} /\ answer' \in Nat
      /\ owned' \subseteq handed' /\ handed' \subseteq Frames
      /\ answer' # NULL => owned' = {answer'}
      /\ owned' = {} \/ \E f \in Frames : owned' = {f}
  BY <1>1, HeapAssumption DEF HeapInit, Take, Refuse, TypeOK
<1>3. Base(answer') \in Nat
  BY <1>2, BaseNat
<1>4. blocks' \in Seq(BlockType)
  <2>1. FreshBlock(answer') \in BlockType
    BY <1>3, HeapAssumption DEF FreshBlock, Block, BlockType
  <2> QED
    BY <2>1 DEF HeapInit
<1>5. TypeOK'
  <2>1. heap_end' \in Nat /\ heap_limit' \in Nat
    BY <1>3, HeapAssumption DEF HeapInit
  <2> QED
    BY <1>1, <1>2, <1>4, <2>1 DEF TypeOK, HeapInit, Range
<1>6. Shape'
  <2>1. IsFiniteSet(owned')
    <3>1. IsFiniteSet({}) /\ \A f \in Frames : IsFiniteSet({f})
      BY FS_EmptySet, FS_Singleton
    <3> QED
      BY <1>2, <3>1
  <2> QED
    BY <1>1, <2>1 DEF Shape, HeapInit
<1>7. CASE answer' = NULL
  <2>1. blocks' = <<>>
    BY <1>7 DEF HeapInit
  <2> QED
    BY <1>1, <1>5, <1>6, <2>1
       DEF BlocksInFrames, Ordered, LiveInFrames, LiveApart, FreeApart, OneFrame,
           EndOnList, Grown, GrowsAtMostOnce
<1>8. CASE answer' # NULL
  <2>1. /\ blocks' = <<FreshBlock(answer')>> /\ owned' = {answer'}
        /\ heap_end' = Base(answer')
    BY <1>2, <1>8 DEF HeapInit
  <2>2. /\ Len(blocks') = 1
        /\ blocks'[1].addr = Base(answer') /\ blocks'[1].flags = 0
        /\ End(blocks'[1]) = Base(answer') + FrameSize
    BY <1>3, <2>1, HeapAssumption DEF FreshBlock, Block, End
  <2>3. BlocksInFrames' /\ EndOnList'
    BY <1>3, <2>1, <2>2, HeapAssumption
       DEF BlocksInFrames, Ordered, Within, EndOnList
  <2>4. LiveInFrames' /\ LiveApart' /\ FreeApart'
    BY <1>1 DEF LiveInFrames, LiveApart, FreeApart
  <2>5. OneFrame'
    BY <1>1, <2>1, <2>2 DEF OneFrame, Tiles, Adjoining, Coalesced, UsedAreLive
  <2> QED
    BY <1>1, <1>5, <1>6, <2>3, <2>4, <2>5 DEF Grown, GrowsAtMostOnce
<1> QED
  BY <1>7, <1>8

(* The calls that leave the list and the allocations alone.                *)
LEMMA QuietStep ==
  ASSUME HInv,
         UNCHANGED <<initialised, blocks, heap_end, heap_limit, live, owned>>,
         handed \subseteq handed', handed' \subseteq Frames,
         answer' \in Frames \cup {NULL}, result' \in Nat,
         \/ UNCHANGED <<size, depth>>
         \/ depth' = 0 /\ size' = size
         \/ initialised /\ size' \in Requests /\ depth' = 1
  PROVE  HInv'
<1>1. /\ size' \in Requests \cup {0} /\ depth' \in Nat
      /\ depth' > 0 => size' \in Requests
      /\ depth' > 0 => initialised
      /\ depth' >= 2 => depth = depth' /\ size = size'
  BY DEF HInv, TypeOK, Shape
<1>2. TypeOK'
  BY <1>1 DEF HInv, TypeOK
<1>3. Shape'
  BY <1>1 DEF HInv, TypeOK, Shape
<1>4. BlocksInFrames'
  BY DEF HInv, BlocksInFrames
<1>5. LiveInFrames' /\ LiveApart' /\ FreeApart'
  BY DEF HInv, LiveInFrames, LiveApart, FreeApart
<1>6. OneFrame' /\ EndOnList'
  BY DEF HInv, OneFrame, Tiles, UsedAreLive, EndOnList
<1>7. Grown'
  BY <1>1 DEF HInv, Grown, GrowsAtMostOnce
<1> QED
  BY <1>2, <1>3, <1>4, <1>5, <1>6, <1>7 DEF HInv

(* malloc is called, fails, or someone else asks for a frame.              *)
LEMMA MallocCallStep ==
  ASSUME HInv, NEW s \in Requests, MallocCall(s)
  PROVE  HInv'
BY QuietStep DEF MallocCall, HInv, TypeOK

(* A refused malloc hands a frame out at most, and leaves the list alone.  *)
LEMMA MallocFailStep == HInv /\ MallocFail => HInv'
<1> SUFFICES ASSUME HInv, MallocFail PROVE HInv'
  OBVIOUS
<1>1. /\ handed \subseteq handed' /\ handed' \subseteq Frames
      /\ answer' \in Frames \cup {NULL} /\ result' \in Nat
  BY DEF MallocFail, Refuse, Take, NULL, HInv, TypeOK
<1> QED
  BY <1>1, QuietStep DEF MallocFail

(* What the rest of the kernel does with the allocator does not touch the  *)
(* list.                                                                   *)
LEMMA OtherClientStep == HInv /\ OtherClient => HInv'
<1> SUFFICES ASSUME HInv, OtherClient PROVE HInv'
  OBVIOUS
<1>1. /\ handed \subseteq handed' /\ handed' \subseteq Frames
      /\ answer' \in Frames \cup {NULL} /\ result' \in Nat
  BY DEF OtherClient, FrameNext, Refuse, Take, NULL, HInv, TypeOK, heapVars
<1> QED
  BY <1>1, QuietStep DEF OtherClient, heapVars
(* malloc grows: the new frame lies above everything the heap has, and its *)
(* block ends up last on the list, where the next call finds it.           *)
LEMMA MallocGrowStep == HInv /\ MallocGrow => HInv'
<1> SUFFICES ASSUME HInv, MallocGrow PROVE HInv'
  OBVIOUS
<1>1. PICK f \in Frames :
        /\ Take(f) /\ f # NULL
        /\ blocks' = Link(FreshBlock(f))
        /\ heap_end' = Base(f)
        /\ owned' = owned \cup {f}
  BY DEF MallocGrow
<1> DEFINE new == FreshBlock(f)
<1>2. /\ blocks \in Seq(BlockType) /\ owned \subseteq handed /\ handed \subseteq Frames
      /\ depth \in Nat /\ depth > 0 /\ depth' = depth + 1
      /\ heap_limit \in Nat /\ heap_limit' = heap_limit + FrameSize
      /\ initialised /\ size \in Requests /\ size \in Nat
      /\ UNCHANGED <<initialised, size, result, live>>
  BY HeapAssumption DEF MallocGrow, HInv, TypeOK, Shape
<1>3. /\ Base(f) \in Nat /\ f \in Nat
      /\ \A g \in owned : g \in Nat /\ Base(g) \in Nat /\ Base(g) + FrameSize <= Base(f)
  <2> SUFFICES ASSUME NEW g \in owned
               PROVE  /\ Base(f) \in Nat /\ f \in Nat
                      /\ g \in Nat /\ Base(g) \in Nat /\ Base(g) + FrameSize <= Base(f)
    BY <1>1, BaseNat, HeapAssumption
  <2>1. f \in Nat /\ g \in Nat /\ g < f
    BY <1>1, <1>2, HeapAssumption DEF Take
  <2> QED
    BY <2>1, BaseNat, BaseAbove
<1>4. /\ new \in BlockType /\ new.addr = Base(f) /\ new.flags = 0
      /\ new.size = FrameSize - Header /\ End(new) = Base(f) + FrameSize
  BY <1>3, HeapAssumption DEF FreshBlock, Block, BlockType, End
<1> HIDE DEF new
<1>5. blocks' \in Seq(BlockType)
  <2>1. CASE blocks = <<>>
    BY <1>1, <1>2, <2>1, LinkToNothing DEF new
  <2>2. CASE blocks # <<>>
    BY <1>1, <1>2, <1>4, <2>2, LinkBehindEnd DEF new, HInv, EndOnList
  <2> QED
    BY <2>1, <2>2
<1>6. TypeOK'
  <2>1. /\ owned' \subseteq handed' /\ handed' \subseteq Frames
        /\ answer' \in Frames \cup {NULL}
    BY <1>1, <1>2 DEF Take
  <2>2. heap_limit' \in Nat /\ heap_end' \in Nat /\ depth' \in Nat
    BY <1>1, <1>2, <1>3, HeapAssumption
  <2> QED
    BY <1>2, <1>5, <2>1, <2>2 DEF HInv, TypeOK
<1>7. Shape'
  <2>1. IsFiniteSet(owned')
    BY <1>1, FS_AddElement DEF HInv, Shape
  <2> QED
    BY <1>2, <2>1 DEF HInv, Shape
<1>8. LiveInFrames' /\ LiveApart'
  BY <1>1, <1>2 DEF HInv, LiveInFrames, LiveApart
<1>9. CASE blocks = <<>>
  <2>1. blocks' = <<>>
    BY <1>1, <1>9, LinkToNothing
  <2> QED
    BY <1>6, <1>7, <1>8, <2>1
       DEF HInv, BlocksInFrames, Ordered, FreeApart, OneFrame, EndOnList, Grown,
           GrowsAtMostOnce
<1>10. CASE blocks # <<>>
  <2>1. PICK n \in 1..Len(blocks) :
          /\ Len(blocks') = n + 1
          /\ \A i \in 1..n : blocks'[i] = blocks[i]
          /\ blocks'[n + 1] = new
    BY <1>1, <1>2, <1>4, <1>10, LinkBehindEnd DEF new, HInv, EndOnList
  <2>2. \A i \in 1..Len(blocks) : /\ blocks[i] \in BlockType
                                  /\ End(blocks[i]) \in Nat
                                  /\ End(blocks[i]) <= Base(f)
    <3> SUFFICES ASSUME NEW i \in 1..Len(blocks)
                 PROVE  /\ blocks[i] \in BlockType /\ End(blocks[i]) \in Nat
                        /\ End(blocks[i]) <= Base(f)
      OBVIOUS
    <3>1. blocks[i] \in BlockType /\ End(blocks[i]) \in Nat
      BY <1>2, BlockEnd
    <3>2. PICK g \in owned : Within(blocks[i].addr, End(blocks[i]), g)
      BY DEF HInv, BlocksInFrames
    <3> QED
      BY <1>3, <3>1, <3>2, HeapAssumption DEF Within
  <2>3. Ordered(blocks)'
    <3> SUFFICES ASSUME NEW i \in 1..(n + 1), NEW j \in 1..(n + 1), i < j
                 PROVE  End(blocks'[i]) <= blocks'[j].addr
      BY <2>1 DEF Ordered
    <3>1. CASE j \in 1..n
      BY <2>1, <3>1 DEF HInv, BlocksInFrames, Ordered
    <3>2. CASE j = n + 1
      BY <1>4, <2>1, <2>2, <3>2
    <3> QED
      BY <3>1, <3>2
  <2>4. BlocksInFrames'
    <3> SUFFICES ASSUME NEW i \in 1..(n + 1)
                 PROVE  \E g \in owned' : Within(blocks'[i].addr, End(blocks'[i]), g)
      BY <2>1, <2>3 DEF BlocksInFrames
    <3>1. CASE i \in 1..n
      BY <1>1, <2>1, <3>1 DEF HInv, BlocksInFrames
    <3>2. CASE i = n + 1
      BY <1>1, <1>3, <1>4, <2>1, <3>2, HeapAssumption DEF Within
    <3> QED
      BY <3>1, <3>2
  <2>5. FreeApart'
    <3> SUFFICES ASSUME NEW p \in DOMAIN live, NEW i \in 1..(n + 1), blocks'[i].flags = 0
                 PROVE  \/ p + live[p] <= blocks'[i].addr
                        \/ End(blocks'[i]) + Header <= p
      BY <1>2, <2>1 DEF FreeApart
    <3>1. CASE i \in 1..n
      BY <2>1, <3>1 DEF HInv, FreeApart
    <3>2. CASE i = n + 1
      <4>1. PICK g \in owned : Within(p - Header, p + live[p], g)
        BY DEF HInv, LiveInFrames
      <4>2. p \in Nat /\ live[p] \in Nat
        BY HeapAssumption DEF HInv, TypeOK, Shape
      <4> QED
        BY <1>3, <1>4, <2>1, <3>2, <4>1, <4>2, HeapAssumption DEF Within
    <3> QED
      BY <3>1, <3>2
  <2>6. OneFrame'
    <3>1. PICK g \in owned : TRUE
      BY <1>2, <1>10 DEF HInv, BlocksInFrames
    <3>2. f # g
      BY <1>3, <3>1, HeapAssumption
    <3>3. ~ \E h : owned' = {h}
      BY <1>1, <3>1, <3>2
    <3> QED
      BY <3>3 DEF OneFrame
  <2>7. EndOnList'
    BY <1>1, <1>4, <2>1 DEF EndOnList
  <2>8. depth <= 1 \/ size > FrameSize - Header
    <3> SUFFICES ASSUME depth >= 2, size <= FrameSize - Header PROVE FALSE
      BY <1>2, HeapAssumption
    <3>1. /\ Len(blocks) \in 1..Len(blocks)
          /\ blocks[Len(blocks)].flags = 0
          /\ blocks[Len(blocks)].size = FrameSize - Header
      BY <1>2, <1>10 DEF HInv, Grown
    <3> QED
      BY <1>2, <3>1, NothingFits DEF Fits, MallocGrow
  <2>9. Grown'
    BY <1>2, <1>4, <2>1, <2>8, HeapAssumption DEF Grown, GrowsAtMostOnce
  <2> QED
    BY <1>6, <1>7, <1>8, <2>4, <2>5, <2>6, <2>7, <2>9 DEF HInv
<1> QED
  BY <1>9, <1>10
(* What becomes of a block that is given out: its first part is in use, at *)
(* most one header wider than asked for, and the rest of it, if any, is    *)
(* free.                                                                   *)
LEMMA SplitBlock ==
  ASSUME NEW b \in BlockType, Fits(b), size \in Nat
  PROVE  \E k \in {1, 2} :
           /\ Split(b) \in Seq(BlockType) /\ Len(Split(b)) = k
           /\ Split(b)[1].addr = b.addr /\ Split(b)[1].flags = 1
           /\ Split(b)[1].size - size \in 0..Header
           /\ End(Split(b)[k]) = End(b)
           /\ k = 2 => /\ Split(b)[2].flags = 0 /\ Split(b)[1].size = size
                       /\ Split(b)[2].addr = End(Split(b)[1])
<1>1. b.addr \in Nat /\ b.size \in Nat /\ b.size >= size
  BY DEF BlockType, Fits
<1>2. CASE b.size > size + Header
  <2> DEFINE used == Block(b.addr, size, 1)
             rest == Block(b.addr + Header + size, b.size - size - Header, 0)
  <2>1. used \in BlockType /\ rest \in BlockType
    BY <1>1, <1>2, HeapAssumption DEF Block, BlockType
  <2>2. /\ used.addr = b.addr /\ used.flags = 1 /\ used.size = size
        /\ rest.flags = 0 /\ rest.addr = End(used) /\ End(rest) = End(b)
    BY <1>1, <1>2, HeapAssumption DEF Block, End
  <2> HIDE DEF used, rest
  <2>3. Split(b) = <<used, rest>>
    BY <1>2 DEF Split, used, rest
  <2> QED
    BY <2>1, <2>2, <2>3, HeapAssumption
<1>3. CASE ~(b.size > size + Header)
  <2> DEFINE used == Block(b.addr, b.size, 1)
  <2>1. used \in BlockType
    BY <1>1 DEF Block, BlockType
  <2>2. /\ used.addr = b.addr /\ used.flags = 1 /\ End(used) = End(b)
        /\ used.size - size \in 0..Header
    BY <1>1, <1>3, HeapAssumption DEF Block, End
  <2> HIDE DEF used
  <2>3. Split(b) = <<used>>
    BY <1>3 DEF Split, used
  <2> QED
    BY <2>1, <2>2, <2>3
<1> QED
  BY <1>2, <1>3

(* malloc succeeds.  Every block of the new list lies in one of the old    *)
(* list: in itself or in the block that was given out.                     *)
LEMMA MallocFitStep == HInv /\ MallocFit => HInv'
<1> SUFFICES ASSUME HInv, MallocFit PROVE HInv'
  OBVIOUS
<1> DEFINE i == FirstFit
           b == blocks[i]
           n == Len(blocks)
<1>1. /\ blocks \in Seq(BlockType) /\ n \in Nat
      /\ size \in Nat /\ size \in Requests /\ initialised
      /\ live \in [DOMAIN live -> Requests] /\ DOMAIN live \subseteq Nat
      /\ \A p \in DOMAIN live : p \in Nat /\ live[p] \in Nat
  BY HeapAssumption DEF HInv, TypeOK, Shape, MallocFit
<1>2. i \in 1..n /\ Fits(b)
  BY <1>1, FirstFitFits DEF MallocFit
<1>3. /\ blocks' = ReplaceWith(i, Split(b)) /\ result' = Payload(b)
      /\ live' = [p \in DOMAIN live \cup {result'} |->
                    IF p = result' THEN size ELSE live[p]]
      /\ depth' = 0
      /\ UNCHANGED <<handed, answer, initialised, heap_end, heap_limit, size, owned>>
  BY DEF MallocFit
<1> HIDE DEF i, n
<1>4. /\ b \in BlockType /\ b.addr \in Nat /\ b.size \in Nat /\ b.flags = 0
      /\ size <= b.size
      /\ End(b) = b.addr + Header + b.size /\ Payload(b) = b.addr + Header
  <2>1. b \in BlockType
    BY <1>1, <1>2 DEF n
  <2> QED
    BY <1>2, <2>1, BlockEnd DEF Fits
<1> DEFINE new == Split(b)
<1>5. PICK k \in {1, 2} :
        /\ new \in Seq(BlockType) /\ Len(new) = k
        /\ new[1].addr = b.addr /\ new[1].flags = 1
        /\ new[1].size - size \in 0..Header
        /\ End(new[k]) = End(b)
        /\ k = 2 => /\ new[2].flags = 0 /\ new[1].size = size
                    /\ new[2].addr = End(new[1])
  BY <1>1, <1>2, <1>4, SplitBlock, HeapAssumption
<1> HIDE DEF new
<1>6. /\ blocks' \in Seq(BlockType)
      /\ Len(blocks') = n + k - 1
      /\ \A j \in 1..(i - 1) : blocks'[j] = blocks[j]
      /\ \A j \in i..(i + k - 1) : blocks'[j] = new[j - i + 1]
      /\ \A j \in (i + k)..(n + k - 1) : blocks'[j] = blocks[j - k + 1]
  <2> HIDE DEF b
  <2>1. blocks' = ReplaceWith(i, new)
    BY <1>3 DEF new
  <2>2. /\ blocks \in Seq(BlockType) /\ i \in 1..Len(blocks) /\ k \in {1, 2}
        /\ new \in Seq(BlockType) /\ Len(new) = k
    BY <1>1, <1>2, <1>5 DEF n
  <2>3. /\ ReplaceWith(i, new) \in Seq(BlockType)
        /\ Len(ReplaceWith(i, new)) = Len(blocks) + k - 1
        /\ \A j \in 1..(i - 1) : ReplaceWith(i, new)[j] = blocks[j]
        /\ \A j \in i..(i + k - 1) : ReplaceWith(i, new)[j] = new[j - i + 1]
        /\ \A j \in (i + k)..(Len(blocks) + k - 1) :
             ReplaceWith(i, new)[j] = blocks[j - k + 1]
    BY ONLY <2>2, ReplacedBlocks
  <2> HIDE DEF new
  <2> QED
    BY <2>1, <2>3 DEF n
<1>idx. n \in Nat /\ i \in Nat /\ 1 <= i /\ i <= n /\ k \in {1, 2}
  BY <1>1, <1>2
<1>low. \A j \in 1..(i - 1) : j \in 1..n /\ blocks'[j] = blocks[j]
  BY <1>6, <1>idx
<1>high. \A j \in (i + 1)..n : j + k - 1 \in 1..(n + k - 1) /\ blocks'[j + k - 1] = blocks[j]
  <2> SUFFICES ASSUME NEW j \in (i + 1)..n
               PROVE  j + k - 1 \in 1..(n + k - 1) /\ blocks'[j + k - 1] = blocks[j]
    OBVIOUS
  <2>1. j + k - 1 \in (i + k)..(n + k - 1) /\ (j + k - 1) - k + 1 = j
    BY <1>idx
  <2>2. blocks'[j + k - 1] = blocks[(j + k - 1) - k + 1]
    BY <1>6, <2>1
  <2> QED
    BY <1>idx, <2>1, <2>2
<1>7. /\ new[1] \in BlockType /\ End(new[1]) = b.addr + Header + new[1].size
      /\ new[1].size \in Nat /\ size <= new[1].size
      /\ blocks'[i] = new[1]
      /\ k = 1 => End(new[1]) = End(b)
      /\ k = 2 => /\ new[2] \in BlockType /\ blocks'[i + 1] = new[2]
                  /\ End(new[2]) = End(b) /\ new[2].addr = b.addr + Header + size
  <2>1. new[1] \in BlockType /\ (k = 2 => new[2] \in BlockType)
    BY <1>5
  <2>2. blocks'[i] = new[1] /\ (k = 2 => blocks'[i + 1] = new[2])
    <3>1. i \in i..(i + k - 1) /\ i - i + 1 = 1
      BY <1>idx
    <3>2. k = 2 => i + 1 \in i..(i + k - 1) /\ (i + 1) - i + 1 = 2
      BY <1>idx
    <3> QED
      BY <1>6, <3>1, <3>2
  <2>3. /\ new[1].addr = b.addr /\ new[1].size \in Nat
        /\ End(new[1]) = b.addr + Header + new[1].size
    BY <1>5, <2>1, BlockEnd
  <2>4. size <= new[1].size
    BY <1>1, <1>5, <2>3
  <2> QED
    BY <1>5, <2>1, <2>2, <2>3, <2>4
<1>8. ASSUME NEW j \in 1..(n + k - 1)
      PROVE  \/ j < i /\ j \in 1..n /\ blocks'[j] = blocks[j]
             \/ j = i /\ blocks'[j] = new[1]
             \/ k = 2 /\ j = i + 1 /\ blocks'[j] = new[2]
             \/ /\ j > i + k - 1 /\ j - k + 1 \in (i + 1)..n
                /\ blocks'[j] = blocks[j - k + 1]
  <2>1. CASE j < i
    BY <1>idx, <1>low, <2>1
  <2>2. CASE j = i
    BY <1>7, <2>2
  <2>3. CASE k = 2 /\ j = i + 1
    BY <1>7, <2>3
  <2>4. CASE j > i + k - 1
    <3>1. j - k + 1 \in (i + 1)..n /\ (j - k + 1) + k - 1 = j
      BY <1>idx, <2>4
    <3> QED
      BY <1>high, <2>4, <3>1
  <2> QED
    BY <1>idx, <2>1, <2>2, <2>3, <2>4
<1>9. \A j \in 1..n : /\ blocks[j] \in BlockType /\ blocks[j].addr \in Nat
                      /\ End(blocks[j]) \in Nat /\ blocks[j].addr < End(blocks[j])
                      /\ j < i => End(blocks[j]) <= b.addr
                      /\ i < j => End(b) <= blocks[j].addr
  <2> SUFFICES ASSUME NEW j \in 1..n
               PROVE  /\ blocks[j] \in BlockType /\ blocks[j].addr \in Nat
                      /\ End(blocks[j]) \in Nat /\ blocks[j].addr < End(blocks[j])
                      /\ j < i => End(blocks[j]) <= b.addr
                      /\ i < j => End(b) <= blocks[j].addr
    OBVIOUS
  <2>1. blocks[j] \in BlockType
    BY <1>1 DEF n
  <2> QED
    BY <1>2, <2>1, BlockEnd DEF HInv, BlocksInFrames, Ordered, n
<1>10. /\ result' = b.addr + Header /\ result' \in Nat /\ result' \notin DOMAIN live
       /\ \A p \in DOMAIN live : p + live[p] <= b.addr \/ End(b) + Header <= p
  <2>1. \A p \in DOMAIN live : p + live[p] <= b.addr \/ End(b) + Header <= p
    BY <1>2, <1>4, HeapAssumption DEF HInv, FreeApart, n
  <2>2. result' = b.addr + Header /\ Header \in Nat \ {0}
    BY <1>3, <1>4, HeapAssumption
  <2>3. ASSUME result' \in DOMAIN live PROVE FALSE
    <3>1. live[result'] \in Nat
      BY <1>1, <2>3
    <3> HIDE DEF b
    <3> QED
      BY <1>4, <2>1, <2>2, <2>3, <3>1
  <2> QED
    BY <1>4, <2>1, <2>2, <2>3
<1>11. /\ DOMAIN live' = DOMAIN live \cup {result'}
       /\ live'[result'] = size
       /\ \A p \in DOMAIN live : live'[p] = live[p]
  BY <1>3, <1>10
<1> HIDE DEF b
<1>12. TypeOK'
  <2>1. DOMAIN live' \subseteq Nat /\ Range(live') \subseteq Requests
    BY <1>1, <1>10, <1>11 DEF Range
  <2> QED
    BY <1>3, <1>6, <1>10, <2>1 DEF HInv, TypeOK
<1>13. Shape'
  BY <1>1, <1>3, <1>10 DEF HInv, Shape
<1>14. LiveInFrames'
  <2>1. PICK f \in owned : Within(b.addr, End(b), f)
    BY <1>2 DEF HInv, BlocksInFrames, b, n
  <2>2. f \in Nat /\ Base(f) \in Nat
    BY BaseNat, HeapAssumption DEF HInv, TypeOK
  <2>3. Within(result' - Header, result' + size, f)
    <3>1. /\ result' = b.addr + Header /\ Header \in Nat /\ FrameSize \in Nat
          /\ b.addr \in Nat /\ b.size \in Nat /\ size \in Nat
      BY <1>1, <1>4, <1>10, HeapAssumption
    <3>2. size <= b.size /\ End(b) = b.addr + Header + b.size
      BY <1>4
    <3> HIDE DEF b
    <3> QED
      BY <2>1, <2>2, <3>1, <3>2 DEF Within
  <2> SUFFICES ASSUME NEW p \in DOMAIN live'
               PROVE  \E g \in owned' : Within(p - Header, p + live'[p], g)
    BY DEF LiveInFrames
  <2>4. CASE p = result'
    BY <1>3, <1>11, <2>3, <2>4
  <2>5. CASE p \in DOMAIN live
    BY <1>3, <1>11, <2>5 DEF HInv, LiveInFrames
  <2> QED
    BY <1>11, <2>4, <2>5
<1>15. LiveApart'
  <2> SUFFICES ASSUME NEW p \in DOMAIN live', NEW q \in DOMAIN live', p < q
               PROVE  p + live'[p] + Header <= q
    BY HeapAssumption DEF LiveApart
  <2>1. CASE p \in DOMAIN live /\ q \in DOMAIN live
    BY <1>11, <2>1, HeapAssumption DEF HInv, LiveApart
  <2>2. CASE p = result' /\ q \in DOMAIN live
    <3>1. /\ q + live[q] <= b.addr \/ End(b) + Header <= q
          /\ Header \in Nat /\ p < q
      BY <1>10, <2>2, HeapAssumption
    <3>2. q \in Nat /\ live[q] \in Nat /\ live'[p] = size /\ p = b.addr + Header
      BY <1>1, <1>10, <1>11, <2>2
    <3>3. /\ End(b) = b.addr + Header + b.size /\ size <= b.size
          /\ b.addr \in Nat /\ b.size \in Nat /\ size \in Nat
      BY <1>1, <1>4
    <3> HIDE DEF b
    <3>4. ~(q + live[q] <= b.addr)
      BY <3>1, <3>2, <3>3
    <3> QED
      BY <3>1, <3>2, <3>3, <3>4
  <2>3. CASE p \in DOMAIN live /\ q = result'
    <3>1. p + live[p] <= b.addr \/ End(b) + Header <= p
      BY <1>10, <2>3
    <3>2. p \in Nat /\ live[p] \in Nat /\ live'[p] = live[p] /\ q = b.addr + Header
      BY <1>1, <1>10, <1>11, <2>3
    <3> QED
      BY <1>1, <1>4, <3>1, <3>2, HeapAssumption
  <2>4. ~(p = result' /\ q = result')
    BY <1>10
  <2> QED
    BY <1>11, <2>1, <2>2, <2>3, <2>4
<1>16. BlocksInFrames'
  <2>1. Ordered(blocks)'
    <3> SUFFICES ASSUME NEW x \in 1..(n + k - 1), NEW y \in 1..(n + k - 1), x < y
                 PROVE  End(blocks'[x]) <= blocks'[y].addr
      BY <1>6 DEF Ordered
    <3>1. \A u, v \in 1..n : u < v => End(blocks[u]) <= blocks[v].addr
      BY DEF HInv, BlocksInFrames, Ordered, n
    <3>2. CASE x < i
      <4>1. x \in 1..n /\ blocks'[x] = blocks[x] /\ End(blocks[x]) <= b.addr
        BY <1>idx, <1>low, <1>9, <3>2
      <4>2. CASE y < i
        BY <1>idx, <1>low, <3>1, <4>1, <4>2
      <4>3. CASE blocks'[y] = new[1]
        BY <1>5, <4>1, <4>3
      <4>4. CASE k = 2 /\ blocks'[y] = new[2]
        BY <1>1, <1>4, <1>7, <1>9, <4>1, <4>4, HeapAssumption
      <4>5. CASE y > i + k - 1
        <5>1. y - k + 1 \in 1..n /\ x < y - k + 1 /\ blocks'[y] = blocks[y - k + 1]
          BY <1>idx, <1>8, <3>2, <4>5
        <5> QED
          BY <3>1, <4>1, <5>1
      <4> QED
        BY <1>idx, <1>8, <4>2, <4>3, <4>4, <4>5
    <3>3. CASE k = 2 /\ x = i /\ y = i + 1
      BY <1>4, <1>5, <1>7, <3>3, HeapAssumption
    <3>4. CASE x \in {i, i + k - 1} /\ y > i + k - 1
      <4>1. PICK o \in 1..n : o > i /\ blocks'[y] = blocks[o]
        BY <1>idx, <1>8, <3>4
      <4>2. End(b) <= blocks'[y].addr /\ blocks'[y].addr \in Nat
        BY <1>9, <4>1
      <4>5. blocks'[x] = new[1] \/ (k = 2 /\ blocks'[x] = new[2])
        BY <1>idx, <1>7, <3>4
      <4>3. End(new[1]) <= End(b)
        BY <1>4, <1>5, <1>7, BlockEnd
      <4> QED
        BY <1>4, <1>7, <4>2, <4>3, <4>5, HeapAssumption
    <3>5. CASE x > i + k - 1
      <4>1. /\ x - k + 1 \in 1..n /\ y - k + 1 \in 1..n /\ x - k + 1 < y - k + 1
            /\ blocks'[x] = blocks[x - k + 1] /\ blocks'[y] = blocks[y - k + 1]
        BY <1>idx, <1>8, <3>5
      <4> QED
        BY <3>1, <4>1
    <3> QED
      BY <1>idx, <3>2, <3>3, <3>4, <3>5
  <2>2. ASSUME NEW j \in 1..(n + k - 1)
        PROVE  \E f \in owned : Within(blocks'[j].addr, End(blocks'[j]), f)
    <3>1. PICK f \in owned : Within(b.addr, End(b), f)
      BY <1>2 DEF HInv, BlocksInFrames, b, n
    <3>2. f \in Nat /\ Base(f) \in Nat
      BY BaseNat, HeapAssumption DEF HInv, TypeOK
    <3>3. \A o \in 1..n : \E g \in owned : Within(blocks[o].addr, End(blocks[o]), g)
      BY DEF HInv, BlocksInFrames, n
    <3>4. CASE \E o \in 1..n : blocks'[j] = blocks[o]
      BY <3>3, <3>4
    <3>5. CASE blocks'[j] = new[1]
      <4>1. End(new[1]) <= End(b) /\ new[1].addr = b.addr
        BY <1>4, <1>5, <1>7, BlockEnd
      <4>2. End(new[1]) \in Nat /\ End(b) \in Nat
        BY <1>4, <1>7, BlockEnd
      <4> QED
        BY <3>1, <3>2, <3>5, <4>1, <4>2, HeapAssumption DEF Within
    <3>6. CASE k = 2 /\ blocks'[j] = new[2]
      <4>1. End(new[2]) = End(b) /\ b.addr <= new[2].addr
        <5>1. new[2].addr = b.addr + Header + size /\ b.addr \in Nat /\ size \in Nat
          BY <1>1, <1>4, <1>7, <3>6, BlockEnd
        <5> QED
          BY <1>7, <3>6, <5>1, HeapAssumption
      <4>2. new[2].addr \in Nat /\ b.addr \in Nat
        BY <1>4, <1>7, <3>6, BlockEnd
      <4> QED
        BY <3>1, <3>2, <3>6, <4>1, <4>2, HeapAssumption DEF Within
    <3> QED
      BY <1>idx, <1>8, <3>4, <3>5, <3>6
  <2> QED
    BY <1>3, <1>6, <2>1, <2>2 DEF BlocksInFrames
<1>17. FreeApart'
  <2> SUFFICES ASSUME NEW p \in DOMAIN live', NEW j \in 1..(n + k - 1),
                      blocks'[j].flags = 0
               PROVE  \/ p + live'[p] <= blocks'[j].addr
                      \/ End(blocks'[j]) + Header <= p
    BY <1>6, HeapAssumption DEF FreeApart
  <2>1. CASE p \in DOMAIN live
    <3>1. \A o \in 1..n : blocks[o].flags = 0 =>
            p + live[p] <= blocks[o].addr \/ End(blocks[o]) + Header <= p
      BY <2>1, HeapAssumption DEF HInv, FreeApart, n
    <3>2. CASE \E o \in 1..n : blocks'[j] = blocks[o]
      BY <1>11, <2>1, <3>1, <3>2
    <3>3. CASE k = 2 /\ blocks'[j] = new[2]
      BY <1>1, <1>4, <1>7, <1>10, <1>11, <2>1, <3>3, HeapAssumption
    <3> QED
      BY <1>idx, <1>5, <1>8, <2>1, <3>2, <3>3
  <2>2. CASE p = result'
    <3>1. CASE j < i
      <4>1. j \in 1..n /\ blocks'[j] = blocks[j]
        BY <1>idx, <1>low, <3>1
      <4>2. End(blocks[j]) <= b.addr /\ End(blocks[j]) \in Nat
        BY <1>9, <3>1, <4>1
      <4> QED
        BY <1>4, <1>10, <2>2, <4>1, <4>2, HeapAssumption
    <3>2. CASE k = 2 /\ blocks'[j] = new[2]
      BY <1>1, <1>4, <1>7, <1>10, <1>11, <2>2, <3>2, HeapAssumption
    <3>3. CASE j > i + k - 1
      <4>1. PICK o \in 1..n : o > i /\ blocks'[j] = blocks[o]
        BY <1>idx, <1>8, <3>3
      <4>2. End(b) <= blocks[o].addr /\ p + live'[p] <= End(b)
        BY <1>1, <1>4, <1>9, <1>10, <1>11, <2>2, <4>1
      <4>3. live'[p] \in Nat /\ p \in Nat /\ End(b) \in Nat /\ blocks[o].addr \in Nat
        BY <1>1, <1>4, <1>9, <1>10, <1>11, <2>2, BlockEnd
      <4> QED
        BY <4>1, <4>2, <4>3
    <3> QED
      BY <1>1, <1>2, <1>5, <1>8, <3>1, <3>2, <3>3
  <2> QED
    BY <1>11, <2>1, <2>2
<1>18. OneFrame'
  <2> SUFFICES ASSUME NEW f \in owned, owned = {f} PROVE Tiles(f)' /\ UsedAreLive'
    BY <1>3 DEF OneFrame
  <2>1. blocks # <<>>
    BY <1>1, <1>2 DEF n
  <2>2. Tiles(f) /\ UsedAreLive
    BY <2>1 DEF HInv, OneFrame
  <2>3. blocks'[1].addr = Base(f)
    <3>1. blocks[1].addr = Base(f)
      BY <2>2 DEF Tiles
    <3>2. CASE i = 1
      BY <1>5, <1>7, <3>1, <3>2 DEF b
    <3>3. CASE i > 1
      BY <1>idx, <1>low, <3>1, <3>3
    <3> QED
      BY <1>idx, <3>2, <3>3
  <2>4. End(blocks'[Len(blocks')]) = Base(f) + FrameSize
    <3>1. End(blocks[n]) = Base(f) + FrameSize /\ Len(blocks') = n + k - 1
      BY <1>6, <2>2 DEF Tiles, n
    <3>2. CASE i = n
      <4>1. blocks'[n + k - 1] = new[k]
        BY <1>idx, <1>7, <3>2
      <4> QED
        BY <1>5, <3>1, <3>2, <4>1 DEF b
    <3>3. CASE i < n
      BY <1>idx, <1>high, <3>1, <3>3
    <3> QED
      BY <1>idx, <3>2, <3>3
  <2>5. ASSUME NEW j \in 1..(n + k - 2)
        PROVE  /\ blocks'[j + 1].addr = End(blocks'[j])
               /\ blocks'[j].flags = 1 \/ blocks'[j + 1].flags = 1
    <3>1. \A o \in 1..(n - 1) : /\ blocks[o + 1].addr = End(blocks[o])
                                /\ blocks[o].flags = 1 \/ blocks[o + 1].flags = 1
      BY <2>2 DEF Tiles, Adjoining, Coalesced, n
    <3>2. CASE j + 1 < i
      <4>1. /\ j \in 1..(n - 1) /\ blocks'[j] = blocks[j]
            /\ blocks'[j + 1] = blocks[j + 1]
        BY <1>idx, <1>low, <3>2
      <4> QED
        BY <3>1, <4>1
    <3>3. CASE j + 1 = i
      <4>1. /\ j \in 1..(n - 1) /\ blocks'[j] = blocks[j]
            /\ blocks'[j + 1] = new[1] /\ blocks[j + 1] = b
        BY <1>idx, <1>low, <1>7, <3>3 DEF b
      <4> QED
        BY <1>5, <3>1, <4>1
    <3>4. CASE k = 2 /\ j = i
      BY <1>5, <1>7, <3>4
    <3>5. CASE j = i + k - 1
      <4>0. i + 1 \in (i + 1)..n /\ (i + 1) + k - 1 = j + 1
        BY <1>idx, <3>5
      <4>1. /\ i \in 1..(n - 1) /\ blocks'[j] = new[k]
            /\ blocks'[j + 1] = blocks[i + 1]
        BY <1>idx, <1>high, <1>7, <3>5, <4>0
      <4>2. blocks[i + 1].addr = End(b) /\ blocks[i + 1].flags = 1
        BY <1>4, <3>1, <4>1 DEF b
      <4> QED
        BY <1>5, <4>1, <4>2
    <3>6. CASE j > i + k - 1
      <4>1. /\ j - k + 1 \in 1..(n - 1) /\ blocks'[j] = blocks[j - k + 1]
            /\ blocks'[j + 1] = blocks[(j - k + 1) + 1]
        <5>1. /\ j - k + 1 \in (i + 1)..n /\ (j - k + 1) + k - 1 = j
              /\ (j - k + 1) + 1 \in (i + 1)..n /\ ((j - k + 1) + 1) + k - 1 = j + 1
          BY <1>idx, <3>6
        <5> QED
          BY <1>idx, <1>high, <5>1
      <4> QED
        BY <3>1, <4>1
    <3> QED
      BY <1>idx, <3>2, <3>3, <3>4, <3>5, <3>6
  <2>6. Tiles(f)'
    <3>1. Len(blocks') - 1 = n + k - 2
      BY <1>6, <1>idx
    <3>2. Adjoining(blocks)' /\ Coalesced(blocks)'
      BY <2>5, <3>1 DEF Adjoining, Coalesced
    <3> QED
      BY <1>3, <2>2, <2>3, <2>4, <3>2 DEF Tiles
  <2>7. ASSUME NEW j \in 1..(n + k - 1), blocks'[j].flags = 1
        PROVE  /\ Payload(blocks'[j]) \in DOMAIN live'
               /\ blocks'[j].size - live'[Payload(blocks'[j])] \in 0..Header
    <3>1. CASE \E o \in 1..n : blocks'[j] = blocks[o]
      BY <1>11, <2>2, <2>7, <3>1 DEF UsedAreLive, n
    <3>2. CASE blocks'[j] = new[1]
      <4>1. Payload(new[1]) = result'
        BY <1>5, <1>7, <1>10, BlockEnd
      <4> QED
        BY <1>5, <1>11, <3>2, <4>1, HeapAssumption
    <3> QED
      BY <1>idx, <1>5, <1>8, <2>7, <3>1, <3>2
  <2>8. ASSUME NEW p \in DOMAIN live'
        PROVE  \E j \in 1..(n + k - 1) : blocks'[j].flags = 1 /\ Payload(blocks'[j]) = p
    <3>1. CASE p = result'
      <4>1. i \in 1..(n + k - 1)
        BY <1>idx
      <4>2. Payload(new[1]) = result'
        BY <1>5, <1>7, <1>10, BlockEnd
      <4> QED
        BY <1>5, <1>7, <3>1, <4>1, <4>2
    <3>2. CASE p \in DOMAIN live
      <4>1. PICK o \in 1..n : blocks[o].flags = 1 /\ Payload(blocks[o]) = p
        BY <2>2, <3>2 DEF UsedAreLive, n
      <4>2. o # i
        BY <1>4, <4>1 DEF b
      <4>3. PICK j \in 1..(n + k - 1) : blocks'[j] = blocks[o]
        <5>1. CASE o < i
          BY <1>idx, <1>low, <5>1
        <5>2. CASE o > i
          BY <1>idx, <1>high, <5>2
        <5> QED
          BY <1>idx, <4>2, <5>1, <5>2
      <4> QED
        BY <4>1, <4>3
    <3> QED
      BY <1>11, <3>1, <3>2
  <2> QED
    BY <1>6, <2>6, <2>7, <2>8 DEF UsedAreLive
<1>19. EndOnList'
  <2>1. PICK o \in 1..n : blocks[o].addr = heap_end
    BY <1>1, <1>2 DEF HInv, EndOnList, n
  <2>2. \E j \in 1..(n + k - 1) : blocks'[j].addr = blocks[o].addr
    <3>1. CASE o < i
      BY <1>idx, <1>low, <3>1
    <3>2. CASE o = i
      BY <1>idx, <1>5, <1>7, <3>2 DEF b
    <3>3. CASE o > i
      BY <1>idx, <1>high, <3>3
    <3> QED
      BY <1>idx, <3>1, <3>2, <3>3
  <2> QED
    BY <1>3, <1>6, <2>1, <2>2 DEF EndOnList
<1>20. Grown'
  BY <1>3 DEF Grown, GrowsAtMostOnce
<1> QED
  BY <1>12, <1>13, <1>14, <1>15, <1>16, <1>17, <1>18, <1>19, <1>20 DEF HInv
-----------------------------------------------------------------------------
(* The loop of free, turn by turn.                                         *)
LEMMA MergeLoop ==
  ASSUME NEW bs \in Seq(BlockType)
  PROVE  \E passed :
           /\ passed[0] = <<>>
           /\ \A n \in 1..Len(bs) : passed[n] = Absorb(passed[n - 1], bs[n])
           /\ Merged(bs) = passed[Len(bs)]
<1> DEFINE D(f, k) == f = [n \in 0..k |->
                             IF n = 0 THEN <<>> ELSE Absorb(f[n - 1], bs[n])]
           S == { k \in Nat : \E f : D(f, k) }
<1>1. 0 \in S
  <2>1. D([n \in 0..0 |-> <<>>], 0)
    OBVIOUS
  <2> QED
    BY <2>1
<1>2. ASSUME NEW k \in Nat, k \in S
      PROVE  k + 1 \in S
  <2>1. PICK f : D(f, k)
    BY <1>2
  <2> DEFINE g == [n \in 0..(k + 1) |-> IF n <= k THEN f[n] ELSE Absorb(f[k], bs[n])]
  <2>2. D(g, k + 1)
    <3>1. \A n \in 0..k : f[n] = IF n = 0 THEN <<>> ELSE Absorb(f[n - 1], bs[n])
      BY <2>1
    <3>2. \A n \in 0..(k + 1) : g[n] = IF n = 0 THEN <<>> ELSE Absorb(g[n - 1], bs[n])
      BY <3>1
    <3> QED
      BY <3>2
  <2>3. \E h : D(h, k + 1)
    BY <2>2
  <2> QED
    BY <2>3
<1>3. Len(bs) \in S
  <2>1. Len(bs) \in Nat
    OBVIOUS
  <2> HIDE DEF S
  <2> QED
    BY <1>1, <1>2, <2>1, SetInduction
<1> DEFINE passed == CHOOSE f : D(f, Len(bs))
<1>4. D(passed, Len(bs))
  BY <1>3
<1>5. Merged(bs) = passed[Len(bs)]
  BY DEF Merged
<1> HIDE DEF passed
<1>6. /\ passed[0] = <<>>
      /\ \A n \in 1..Len(bs) : passed[n] = Absorb(passed[n - 1], bs[n])
  BY <1>4
<1> QED
  BY <1>5, <1>6

(* What the loop has made of the first n blocks: a list over the same      *)
(* memory, with the same blocks in use, whose free blocks are merged.      *)
Passed(d, bs, n) ==
  /\ d \in Seq(BlockType) /\ Ordered(d) /\ Adjoining(d) /\ Coalesced(d)
  /\ n = 0 => d = <<>>
  /\ n > 0 => /\ Len(d) > 0 /\ d[1].addr = bs[1].addr
              /\ End(d[Len(d)]) = End(bs[n])
  /\ \A i \in 1..Len(d) : d[i].flags = 1 => \E j \in 1..n : bs[j] = d[i]
  /\ \A j \in 1..n : bs[j].flags = 1 => \E i \in 1..Len(d) : d[i] = bs[j]

(* A block that is appended to a list which ends where the block begins.   *)
LEMMA AppendedBlock ==
  ASSUME NEW d \in Seq(BlockType), Ordered(d), Adjoining(d), Coalesced(d),
         NEW c \in BlockType,
         Len(d) > 0 =>
           /\ c.addr = End(d[Len(d)])
           /\ d[Len(d)].flags = 1 \/ c.flags = 1
  PROVE  LET e == Append(d, c) IN
         /\ e \in Seq(BlockType) /\ Len(e) = Len(d) + 1 /\ e[Len(d) + 1] = c
         /\ \A i \in 1..Len(d) : e[i] = d[i]
         /\ Ordered(e) /\ Adjoining(e) /\ Coalesced(e)
<1> DEFINE e == Append(d, c)
           n == Len(d)
<1>1. /\ e \in Seq(BlockType) /\ Len(e) = n + 1 /\ e[n + 1] = c
      /\ \A i \in 1..n : e[i] = d[i]
      /\ n \in Nat
  OBVIOUS
<1>2. n > 0 => c.addr = End(d[n]) /\ (d[n].flags = 1 \/ c.flags = 1)
  OBVIOUS
<1>3. /\ \A i \in 1..n : d[i] \in BlockType
      /\ \A i, j \in 1..n : i < j => End(d[i]) <= d[j].addr
      /\ \A i \in 1..(n - 1) : d[i + 1].addr = End(d[i])
      /\ \A i \in 1..(n - 1) : d[i].flags = 1 \/ d[i + 1].flags = 1
  BY DEF Ordered, Adjoining, Coalesced
<1> HIDE DEF e, n
<1>4. \A i \in 1..n : End(d[i]) <= c.addr
  <2> SUFFICES ASSUME NEW i \in 1..n PROVE End(d[i]) <= c.addr
    OBVIOUS
  <2>1. n \in 1..n /\ d[n] \in BlockType /\ d[i] \in BlockType
    BY <1>1, <1>3
  <2>2. d[n].addr < End(d[n]) /\ End(d[n]) \in Nat /\ d[n].addr \in Nat /\ End(d[i]) \in Nat
    BY <2>1, BlockEnd
  <2>3. i = n \/ End(d[i]) <= d[n].addr
    BY <1>1, <1>3, <2>1
  <2> QED
    BY <1>1, <1>2, <2>2, <2>3
<1>5. Ordered(e)
  <2> SUFFICES ASSUME NEW i \in 1..(n + 1), NEW j \in 1..(n + 1), i < j
               PROVE  End(e[i]) <= e[j].addr
    BY <1>1 DEF Ordered
  <2>1. i \in 1..n /\ (j \in 1..n \/ j = n + 1)
    BY <1>1
  <2> QED
    BY <1>1, <1>3, <1>4, <2>1
<1>6. \A i \in 1..n : e[i + 1].addr = End(e[i]) /\ (e[i].flags = 1 \/ e[i + 1].flags = 1)
  <2> SUFFICES ASSUME NEW i \in 1..n
               PROVE  e[i + 1].addr = End(e[i]) /\ (e[i].flags = 1 \/ e[i + 1].flags = 1)
    OBVIOUS
  <2>1. CASE i = n
    BY <1>1, <1>2, <2>1
  <2>2. CASE i \in 1..(n - 1)
    <3>1. i + 1 \in 1..n /\ e[i + 1] = d[i + 1] /\ e[i] = d[i]
      BY <1>1, <2>2
    <3> QED
      BY <1>3, <2>2, <3>1
  <2> QED
    BY <1>1, <2>1, <2>2
<1>7. Adjoining(e) /\ Coalesced(e)
  <2>1. Len(e) - 1 = n
    BY <1>1
  <2> QED
    BY <1>6, <2>1 DEF Adjoining, Coalesced
<1> QED
  BY <1>1, <1>5, <1>7 DEF e, n

(* A free block at the end of a list, taken off it.                        *)
LEMMA FrontOfList ==
  ASSUME NEW d \in Seq(BlockType), Ordered(d), Adjoining(d), Coalesced(d), Len(d) > 0
  PROVE  LET h == Front(d) IN
         /\ h \in Seq(BlockType) /\ Len(h) = Len(d) - 1
         /\ \A i \in 1..(Len(d) - 1) : h[i] = d[i]
         /\ Ordered(h) /\ Adjoining(h) /\ Coalesced(h)
<1> DEFINE h == Front(d)
<1>1. /\ h \in Seq(BlockType) /\ Len(h) = Len(d) - 1
      /\ \A i \in 1..(Len(d) - 1) : h[i] = d[i]
  <2>1. Len(d) - 1 \in 0..Len(d)
    OBVIOUS
  <2>2. \A k \in 0..Len(d) :
          /\ SubSeq(d, 1, k) \in Seq(BlockType) /\ Len(SubSeq(d, 1, k)) = k
          /\ \A i \in 1..k : SubSeq(d, 1, k)[i] = d[i]
    OBVIOUS
  <2> QED
    BY <2>1, <2>2 DEF Front
<1> HIDE DEF h
<1>2. Ordered(h)
  BY <1>1 DEF Ordered
<1>3. Adjoining(h) /\ Coalesced(h)
  <2> SUFFICES ASSUME NEW i \in 1..(Len(d) - 2)
               PROVE  h[i + 1].addr = End(h[i]) /\ (h[i].flags = 1 \/ h[i + 1].flags = 1)
    BY <1>1 DEF Adjoining, Coalesced
  <2>1. i \in 1..(Len(d) - 1) /\ i + 1 \in 1..(Len(d) - 1)
    OBVIOUS
  <2>2. d[i + 1].addr = End(d[i]) /\ (d[i].flags = 1 \/ d[i + 1].flags = 1)
    BY <2>1 DEF Adjoining, Coalesced
  <2>3. h[i] = d[i] /\ h[i + 1] = d[i + 1]
    BY <1>1, <2>1
  <2> QED
    BY <2>2, <2>3
<1> QED
  BY <1>1, <1>2, <1>3 DEF h
(* Two adjoining free blocks become one that spans both.                   *)
LEMMA MergedBlock ==
  ASSUME NEW b \in BlockType, NEW c \in BlockType, c.addr = b.addr + Header + b.size
  PROVE  /\ Merge(b, c) \in BlockType
         /\ Merge(b, c).addr = b.addr /\ Merge(b, c).flags = b.flags
         /\ End(Merge(b, c)) = End(c)
<1> DEFINE s == b.size + Header + c.size
<1>1. s \in Nat /\ s = b.size + Header + c.size
  BY BlockEnd, HeapAssumption
<1>2. Merge(b, c) = [b EXCEPT !.size = s]
  BY DEF Merge
<1> HIDE DEF s
<1>3. Merge(b, c) \in BlockType
  BY <1>1, <1>2 DEF BlockType
<1>4. /\ Merge(b, c).addr = b.addr /\ Merge(b, c).flags = b.flags
      /\ Merge(b, c).size = s
  BY <1>1, <1>2 DEF BlockType
<1> QED
  BY <1>1, <1>3, <1>4, BlockEnd, HeapAssumption

(* One turn of the loop.                                                   *)
LEMMA AbsorbPassed ==
  ASSUME NEW bs \in Seq(BlockType), Adjoining(bs),
         NEW n \in Nat, n + 1 <= Len(bs), NEW d, Passed(d, bs, n)
  PROVE  Passed(Absorb(d, bs[n + 1]), bs, n + 1)
<1> DEFINE c == bs[n + 1]
           k == Len(d)
<1>1. /\ d \in Seq(BlockType) /\ Ordered(d) /\ Adjoining(d) /\ Coalesced(d)
      /\ k \in Nat /\ c \in BlockType
      /\ n = 0 => d = <<>>
      /\ n > 0 => k > 0 /\ d[1].addr = bs[1].addr /\ End(d[k]) = End(bs[n])
  BY DEF Passed
<1>2. /\ \A i \in 1..k : d[i].flags = 1 => \E j \in 1..n : bs[j] = d[i]
      /\ \A j \in 1..n : bs[j].flags = 1 => \E i \in 1..k : d[i] = bs[j]
  BY DEF Passed
<1>3. n > 0 => c.addr = End(bs[n])
  BY DEF Adjoining
<1>4. /\ k > 0 => n > 0 /\ c.addr = End(d[k]) /\ d[k] \in BlockType
      /\ k > 0 <=> d # <<>>
      /\ n = 0 => c = bs[1]
  BY <1>1, <1>3
<1> HIDE DEF c, k
<1>5. CASE d # <<>> /\ Last(d).flags = 0 /\ c.flags = 0
  <2> DEFINE m == Merge(d[k], c)
             h == Front(d)
             e == Append(h, m)
  <2>1. k > 0 /\ Last(d) = d[k] /\ d[k].flags = 0
    BY <1>4, <1>5 DEF Last, k
  <2>2. Absorb(d, c) = e
    BY <1>5, <2>1 DEF Absorb
  <2>3. m \in BlockType /\ m.addr = d[k].addr /\ m.flags = 0 /\ End(m) = End(c)
    <3>1. /\ d[k] \in BlockType /\ c \in BlockType /\ c.addr = d[k].addr + Header + d[k].size
      BY <1>1, <1>4, <2>1, BlockEnd
    <3> QED
      BY <2>1, <3>1, MergedBlock
  <2>4. /\ h \in Seq(BlockType) /\ Len(h) = k - 1
        /\ \A i \in 1..(k - 1) : h[i] = d[i]
        /\ Ordered(h) /\ Adjoining(h) /\ Coalesced(h)
    BY <1>1, <2>1, FrontOfList DEF k
  <2> HIDE DEF m, h
  <2>5. k > 1 => m.addr = End(h[Len(h)]) /\ (h[Len(h)].flags = 1 \/ m.flags = 1)
    <3>1. k > 1 => k - 1 \in 1..(k - 1) /\ (k - 1) + 1 = k
      BY <1>1
    <3>2. k > 1 => d[k].addr = End(d[k - 1]) /\ (d[k - 1].flags = 1 \/ d[k].flags = 1)
      BY <1>1, <3>1 DEF Adjoining, Coalesced, k
    <3> QED
      BY <2>1, <2>3, <2>4, <3>1, <3>2
  <2>6. /\ e \in Seq(BlockType) /\ Len(e) = k /\ e[k] = m
        /\ \A i \in 1..(k - 1) : e[i] = d[i]
        /\ Ordered(e) /\ Adjoining(e) /\ Coalesced(e)
    <3>1. Len(h) > 0 => k > 1
      BY <1>1, <2>4
    <3>2. /\ e \in Seq(BlockType) /\ Len(e) = Len(h) + 1 /\ e[Len(h) + 1] = m
          /\ \A i \in 1..Len(h) : e[i] = h[i]
          /\ Ordered(e) /\ Adjoining(e) /\ Coalesced(e)
      BY <2>3, <2>4, <2>5, <3>1, AppendedBlock
    <3> QED
      BY <1>1, <2>1, <2>4, <3>2
  <2> HIDE DEF e
  <2>7. e[1].addr = bs[1].addr
    BY <1>1, <1>4, <2>1, <2>3, <2>6
  <2>8. \A i \in 1..k : e[i].flags = 1 => \E j \in 1..(n + 1) : bs[j] = e[i]
    BY <1>1, <1>2, <2>1, <2>3, <2>6
  <2>9. \A j \in 1..(n + 1) : bs[j].flags = 1 => \E i \in 1..k : e[i] = bs[j]
    <3> SUFFICES ASSUME NEW j \in 1..(n + 1), bs[j].flags = 1
                 PROVE  \E i \in 1..k : e[i] = bs[j]
      OBVIOUS
    <3>1. j # n + 1
      BY <1>5 DEF c
    <3>2. PICK i \in 1..k : d[i] = bs[j]
      BY <1>2, <3>1
    <3>3. i # k
      BY <2>1, <3>2
    <3> QED
      BY <1>1, <2>6, <3>2, <3>3
  <2> QED
    BY <2>1, <2>2, <2>3, <2>6, <2>7, <2>8, <2>9 DEF Passed, c
<1>6. CASE ~(d # <<>> /\ Last(d).flags = 0 /\ c.flags = 0)
  <2> DEFINE e == Append(d, c)
  <2>1. Absorb(d, c) = e
    BY <1>6 DEF Absorb
  <2>2. k > 0 => c.addr = End(d[k]) /\ (d[k].flags = 1 \/ c.flags = 1)
    <3>1. k > 0 => Last(d) = d[k] /\ d[k].flags \in {0, 1}
      BY <1>4, BlockEnd DEF Last, k
    <3>2. c.flags \in {0, 1}
      BY <1>1, BlockEnd
    <3> QED
      BY <1>4, <1>6, <3>1, <3>2
  <2>3. /\ e \in Seq(BlockType) /\ Len(e) = k + 1 /\ e[k + 1] = c
        /\ \A i \in 1..k : e[i] = d[i]
        /\ Ordered(e) /\ Adjoining(e) /\ Coalesced(e)
    BY <1>1, <2>2, AppendedBlock DEF k
  <2> HIDE DEF e
  <2>4. e[1].addr = bs[1].addr
    BY <1>1, <1>4, <2>3
  <2>5. \A i \in 1..(k + 1) : e[i].flags = 1 => \E j \in 1..(n + 1) : bs[j] = e[i]
    <3> SUFFICES ASSUME NEW i \in 1..(k + 1), e[i].flags = 1
                 PROVE  \E j \in 1..(n + 1) : bs[j] = e[i]
      OBVIOUS
    <3>1. CASE i = k + 1
      BY <2>3, <3>1 DEF c
    <3>2. CASE i \in 1..k
      BY <1>2, <2>3, <3>2
    <3> QED
      BY <1>1, <3>1, <3>2
  <2>6. \A j \in 1..(n + 1) : bs[j].flags = 1 => \E i \in 1..(k + 1) : e[i] = bs[j]
    <3> SUFFICES ASSUME NEW j \in 1..(n + 1), bs[j].flags = 1
                 PROVE  \E i \in 1..(k + 1) : e[i] = bs[j]
      OBVIOUS
    <3>1. CASE j = n + 1
      BY <1>1, <2>3, <3>1 DEF c
    <3>2. CASE j \in 1..n
      BY <1>1, <1>2, <2>3, <3>2
    <3> QED
      BY <3>1, <3>2
  <2> QED
    BY <1>1, <2>1, <2>3, <2>4, <2>5, <2>6 DEF Passed, c
<1> QED
  BY <1>5, <1>6 DEF c

(* free's loop leaves a list over the same memory with the same blocks in  *)
(* use, in which no two neighbours are free.                               *)
LEMMA MergedList ==
  ASSUME NEW bs \in Seq(BlockType), Adjoining(bs)
  PROVE  Passed(Merged(bs), bs, Len(bs))
<1>1. PICK passed :
        /\ passed[0] = <<>>
        /\ \A n \in 1..Len(bs) : passed[n] = Absorb(passed[n - 1], bs[n])
        /\ Merged(bs) = passed[Len(bs)]
  BY MergeLoop
<1> DEFINE S == { n \in Nat : n <= Len(bs) => Passed(passed[n], bs, n) }
<1>2. 0 \in S
  <2>1. Passed(<<>>, bs, 0)
    <3>1. <<>> \in Seq(BlockType) /\ Len(<<>>) = 0
      OBVIOUS
    <3> QED
      BY <3>1 DEF Passed, Ordered, Adjoining, Coalesced
  <2> QED
    BY <1>1, <2>1
<1>3. ASSUME NEW n \in Nat, n \in S
      PROVE  n + 1 \in S
  <2> SUFFICES ASSUME n + 1 <= Len(bs) PROVE Passed(passed[n + 1], bs, n + 1)
    OBVIOUS
  <2>1. Passed(passed[n], bs, n)
    BY <1>3
  <2>2. n + 1 \in 1..Len(bs) /\ (n + 1) - 1 = n
    OBVIOUS
  <2>3. passed[n + 1] = Absorb(passed[n], bs[n + 1])
    BY <1>1, <2>2
  <2> QED
    BY <2>1, <2>3, AbsorbPassed
<1>4. Len(bs) \in S
  <2>1. Len(bs) \in Nat
    OBVIOUS
  <2> HIDE DEF S
  <2> QED
    BY <1>2, <1>3, <2>1, SetInduction
<1> QED
  BY <1>1, <1>4
(* Marking a block free leaves the blocks where they are.                  *)
LEMMA MarkedBlocks ==
  ASSUME blocks \in Seq(BlockType), NEW p
  PROVE  LET bs == MarkFree(p) IN
         /\ bs \in Seq(BlockType) /\ Len(bs) = Len(blocks)
         /\ \A i \in 1..Len(blocks) :
              /\ bs[i].addr = blocks[i].addr /\ End(bs[i]) = End(blocks[i])
              /\ IF Payload(blocks[i]) = p THEN bs[i].flags = 0 ELSE bs[i] = blocks[i]
<1> DEFINE bs == MarkFree(p)
           n  == Len(blocks)
           Free0(b) == [b EXCEPT !.flags = 0]
<1>1. n \in Nat /\ DOMAIN blocks = 1..n /\ \A i \in 1..n : blocks[i] \in BlockType
  OBVIOUS
<1>2. \A b \in BlockType : /\ Free0(b) \in BlockType /\ Free0(b).flags = 0
                           /\ Free0(b).addr = b.addr /\ Free0(b).size = b.size
  BY DEF BlockType
<1> HIDE DEF Free0
<1>3. bs = [i \in 1..n |-> IF Payload(blocks[i]) = p THEN Free0(blocks[i]) ELSE blocks[i]]
  BY <1>1 DEF MarkFree, Free0
<1> HIDE DEF bs, n
<1>4. \A i \in 1..n : bs[i] \in BlockType
  BY <1>1, <1>2, <1>3
<1>5. bs \in Seq(BlockType) /\ Len(bs) = n
  BY <1>1, <1>3, <1>4
<1>6. ASSUME NEW i \in 1..n
      PROVE  /\ bs[i].addr = blocks[i].addr /\ End(bs[i]) = End(blocks[i])
             /\ IF Payload(blocks[i]) = p THEN bs[i].flags = 0 ELSE bs[i] = blocks[i]
  <2>1. CASE Payload(blocks[i]) = p
    <3>1. bs[i] = Free0(blocks[i]) /\ blocks[i] \in BlockType
      BY <1>1, <1>3, <2>1
    <3>2. bs[i].flags = 0 /\ bs[i].addr = blocks[i].addr /\ bs[i].size = blocks[i].size
      BY <1>2, <3>1
    <3> QED
      BY <2>1, <3>2 DEF End
  <2>2. CASE Payload(blocks[i]) # p
    BY <1>3, <2>2
  <2> QED
    BY <2>1, <2>2
<1> QED
  BY <1>5, <1>6 DEF bs, n

(* free, in a heap of one frame.                                           *)
LEMMA FreeStep ==
  ASSUME ~Frees, HInv, NEW p \in DOMAIN live, Free(p)
  PROVE  HInv'
<1> DEFINE bs == MarkFree(p)
           n  == Len(blocks)
           m  == blocks'
           k  == Len(m)
<1>1. /\ depth = 0 /\ Cardinality(owned) <= 1
      /\ m = Merged(bs)
      /\ live' = [q \in DOMAIN live \ {p} |-> live[q]]
      /\ UNCHANGED <<handed, answer, initialised, heap_end, heap_limit, size, depth,
                     result, owned>>
  BY DEF Free
<1>2. /\ blocks \in Seq(BlockType) /\ n \in Nat
      /\ \A i \in 1..n : blocks[i] \in BlockType
      /\ live \in [DOMAIN live -> Requests] /\ DOMAIN live \subseteq Nat
      /\ \A q \in DOMAIN live : q \in Nat /\ live[q] \in Nat
  BY HeapAssumption DEF HInv, TypeOK, Shape
<1>3. /\ DOMAIN live' = DOMAIN live \ {p} /\ live' \in [DOMAIN live' -> Requests]
      /\ \A q \in DOMAIN live' : q \in DOMAIN live /\ q # p /\ live'[q] = live[q]
  BY <1>1, <1>2
<1>4. PICK f \in owned : owned = {f}
  <2>1. PICK f \in owned : TRUE
    BY DEF HInv, LiveInFrames
  <2>2. IsFiniteSet(owned)
    BY DEF HInv, Shape
  <2>3. /\ IsFiniteSet(owned \ {f})
        /\ Cardinality(owned \ {f}) = Cardinality(owned) - 1
        /\ Cardinality(owned) \in Nat /\ Cardinality(owned \ {f}) \in Nat
    BY <2>1, <2>2, FS_RemoveElement, FS_CardinalityType
  <2>4. Cardinality(owned \ {f}) = 0
    BY <1>1, <2>3
  <2>5. owned \ {f} = {}
    BY <2>3, <2>4, FS_EmptySet
  <2> QED
    BY <2>1, <2>5
<1>5. f \in Nat /\ Base(f) \in Nat
  BY <1>4, BaseNat, HeapAssumption DEF HInv, TypeOK
<1>6. /\ bs \in Seq(BlockType) /\ Len(bs) = n
      /\ \A i \in 1..n : /\ bs[i].addr = blocks[i].addr /\ End(bs[i]) = End(blocks[i])
                         /\ IF Payload(blocks[i]) = p THEN bs[i].flags = 0
                            ELSE bs[i] = blocks[i]
  BY <1>2, MarkedBlocks
<1> HIDE DEF bs, n
<1>7. CASE blocks = <<>>
  <2>1. n = 0
    BY <1>7 DEF n
  <2>2. Adjoining(bs)
    BY <1>6, <2>1 DEF Adjoining
  <2>3. m = <<>>
    BY <1>1, <1>6, <2>1, <2>2, MergedList DEF Passed
  <2>4. TypeOK'
    BY <1>1, <1>2, <1>3, <2>3 DEF HInv, TypeOK, Range
  <2>5. Shape'
    BY <1>1, <1>3 DEF HInv, Shape
  <2>6. LiveInFrames' /\ LiveApart'
    BY <1>1, <1>3 DEF HInv, LiveInFrames, LiveApart
  <2>7. BlocksInFrames' /\ FreeApart' /\ OneFrame' /\ EndOnList' /\ Grown'
    BY <2>3 DEF BlocksInFrames, Ordered, FreeApart, OneFrame, EndOnList, Grown,
                GrowsAtMostOnce
  <2> QED
    BY <2>4, <2>5, <2>6, <2>7 DEF HInv
<1>8. CASE blocks # <<>>
  <2>1. Tiles(f) /\ UsedAreLive /\ n > 0
    BY <1>2, <1>4, <1>8 DEF HInv, OneFrame, n
  <2>2. Adjoining(bs)
    BY <1>6, <2>1 DEF Tiles, Adjoining, n
  <2>3. Passed(m, bs, n)
    BY <1>1, <1>6, <2>2, MergedList
  <2>4. /\ m \in Seq(BlockType) /\ Ordered(m) /\ Adjoining(m) /\ Coalesced(m)
        /\ k \in Nat /\ k > 0
        /\ m[1].addr = Base(f) /\ End(m[k]) = Base(f) + FrameSize
        /\ heap_end = Base(f)
    <3>1. /\ m \in Seq(BlockType) /\ Ordered(m) /\ Adjoining(m) /\ Coalesced(m)
          /\ k > 0 /\ m[1].addr = bs[1].addr /\ End(m[k]) = End(bs[n])
      BY <2>1, <2>3 DEF Passed
    <3>2. bs[1].addr = blocks[1].addr /\ End(bs[n]) = End(blocks[n])
      BY <1>2, <1>6, <2>1
    <3>3. /\ blocks[1].addr = Base(f) /\ heap_end = Base(f)
          /\ End(blocks[n]) = Base(f) + FrameSize
      BY <2>1 DEF Tiles, n
    <3> QED
      BY <3>1, <3>2, <3>3
  <2>5. ASSUME NEW i \in 1..k, m[i].flags = 1
        PROVE  /\ Payload(m[i]) \in DOMAIN live'
               /\ m[i].size - live'[Payload(m[i])] \in 0..Header
    <3>1. PICK j \in 1..n : bs[j] = m[i]
      BY <2>3, <2>5 DEF Passed
    <3>2. bs[j] = blocks[j] /\ Payload(blocks[j]) # p
      BY <1>6, <2>5, <3>1
    <3>3. /\ Payload(blocks[j]) \in DOMAIN live
          /\ blocks[j].size - live[Payload(blocks[j])] \in 0..Header
      BY <2>1, <2>5, <3>1, <3>2 DEF UsedAreLive, n
    <3> QED
      BY <1>3, <3>1, <3>2, <3>3
  <2>6. ASSUME NEW q \in DOMAIN live'
        PROVE  \E i \in 1..k : m[i].flags = 1 /\ Payload(m[i]) = q
    <3>1. PICK j \in 1..n : blocks[j].flags = 1 /\ Payload(blocks[j]) = q
      BY <1>3, <2>1 DEF UsedAreLive, n
    <3>2. bs[j] = blocks[j]
      BY <1>3, <1>6, <3>1
    <3>3. PICK i \in 1..k : m[i] = bs[j]
      BY <2>3, <3>1, <3>2 DEF Passed
    <3> QED
      BY <3>1, <3>2, <3>3
  <2>7. \A i \in 1..k : m[i] \in BlockType /\ m[i].addr \in Nat /\ m[i].flags \in {0, 1}
                        /\ End(m[i]) \in Nat /\ m[i].addr < End(m[i])
    BY <2>4, BlockEnd
  <2>8. ASSUME NEW i \in 1..k
        PROVE  Within(m[i].addr, End(m[i]), f)
    <3>1. i = 1 \/ End(m[1]) <= m[i].addr
      BY <2>4 DEF Ordered
    <3>2. i = k \/ End(m[i]) <= m[k].addr
      BY <2>4 DEF Ordered
    <3>3. 1 \in 1..k /\ k \in 1..k
      BY <2>4
    <3> QED
      BY <1>5, <2>4, <2>7, <3>1, <3>2, <3>3, HeapAssumption DEF Within
  <2>9. TypeOK'
    BY <1>1, <1>2, <1>3, <2>4 DEF HInv, TypeOK, Range
  <2>10. Shape'
    BY <1>1, <1>3 DEF HInv, Shape
  <2>11. LiveInFrames' /\ LiveApart'
    BY <1>1, <1>3 DEF HInv, LiveInFrames, LiveApart
  <2>12. BlocksInFrames'
    BY <1>1, <1>4, <2>4, <2>8 DEF BlocksInFrames
  <2>13. FreeApart'
    <3> SUFFICES ASSUME NEW q \in DOMAIN live', NEW i \in 1..k, m[i].flags = 0
                 PROVE  q + live'[q] <= m[i].addr \/ End(m[i]) + Header <= q
      BY HeapAssumption DEF FreeApart
    <3>1. PICK u \in 1..k : m[u].flags = 1 /\ Payload(m[u]) = q
      BY <2>6
    <3>2. m[u].size - live'[q] \in 0..Header /\ live'[q] \in Nat /\ q \in Nat
      BY <1>2, <1>3, <2>5, <3>1, HeapAssumption
    <3>3. m[u].addr + Header = q /\ End(m[u]) = q + m[u].size /\ m[u].size \in Nat
      BY <2>7, <3>1, BlockEnd
    <3>4. End(m[u]) <= m[i].addr \/ End(m[i]) <= m[u].addr
      <4>1. u # i
        BY <3>1
      <4> QED
        BY <2>4, <4>1 DEF Ordered
    <3>5. /\ m[i].addr \in Nat /\ End(m[i]) \in Nat /\ m[u].addr \in Nat
          /\ live'[q] <= m[u].size
      BY <2>7, <3>2, <3>3
    <3> HIDE DEF m, k
    <3> QED
      BY <3>2, <3>3, <3>4, <3>5, HeapAssumption
  <2>14. OneFrame'
    <3>1. UsedAreLive'
      BY <2>5, <2>6 DEF UsedAreLive
    <3>2. Tiles(f)'
      BY <1>1, <2>4 DEF Tiles
    <3> QED
      BY <1>1, <1>4, <3>1, <3>2 DEF OneFrame
  <2>15. EndOnList'
    BY <1>1, <2>4 DEF EndOnList
  <2>16. Grown'
    BY <1>1 DEF Grown, GrowsAtMostOnce
  <2> QED
    BY <2>9, <2>10, <2>11, <2>12, <2>13, <2>14, <2>15, <2>16 DEF HInv
<1> QED
  BY <1>7, <1>8

-----------------------------------------------------------------------------
(* Every step keeps the inductive invariant.                               *)
LEMMA StepHInv == ~Frees /\ HInv /\ [Next]_vars => HInv'
<1> SUFFICES ASSUME ~Frees, HInv, [Next]_vars PROVE HInv'
  OBVIOUS
<1>1. CASE HeapInit
  BY <1>1, HeapInitStep
<1>2. ASSUME NEW s \in Requests, MallocCall(s) PROVE HInv'
  BY <1>2, MallocCallStep
<1>3. CASE MallocFit
  BY <1>3, MallocFitStep
<1>4. CASE MallocGrow
  BY <1>4, MallocGrowStep
<1>5. CASE MallocFail
  BY <1>5, MallocFailStep
<1>6. ASSUME NEW p \in DOMAIN live, Free(p) PROVE HInv'
  BY <1>6, FreeStep
<1>7. CASE OtherClient
  BY <1>7, OtherClientStep
<1>8. CASE UNCHANGED vars
  <2>1. /\ UNCHANGED <<initialised, blocks, heap_end, heap_limit, live, owned>>
        /\ UNCHANGED <<handed, answer, result, size, depth>>
    BY <1>8 DEF vars, heapVars
  <2>2. /\ handed \subseteq handed' /\ handed' \subseteq Frames
        /\ answer' \in Frames \cup {NULL} /\ result' \in Nat
    BY <2>1 DEF HInv, TypeOK
  <2> QED
    BY <2>1, <2>2, QuietStep
<1> QED
  BY <1>1, <1>2, <1>3, <1>4, <1>5, <1>6, <1>7, <1>8 DEF Next

(* The inductive invariant holds throughout.                               *)
LEMMA HeapInvariant == ~Frees => (Spec => []HInv)
<1> SUFFICES ASSUME ~Frees PROVE Spec => []HInv
  OBVIOUS
<1>1. HInv /\ [Next]_vars => HInv'
  BY StepHInv
<1> QED
  BY <1>1, InitHInv, PTL DEF Spec

(* Types, for every frame size and every order of calls: no size that      *)
(* malloc or free computes falls below 0, and the heap lives in frames     *)
(* that the frame allocator has handed out.                                *)
THEOREM HeapTypeOK == ~Frees => (Spec => []TypeOK)
<1> SUFFICES ASSUME ~Frees PROVE Spec => []TypeOK
  OBVIOUS
<1>1. HInv => TypeOK
  BY DEF HInv
<1> QED
  BY <1>1, HeapInvariant, PTL

(* What malloc gives out is its caller's alone.                            *)
THEOREM AllocationsArePrivate == ~Frees => (Spec => []LiveIsPrivate)
<1>1. HInv => LiveIsPrivate
  <2> SUFFICES ASSUME HInv, NEW p \in DOMAIN live
               PROVE  /\ \A x \in Extent(p) : x \div FrameSize \in owned
                      /\ \A q \in DOMAIN live : p < q => p + live[p] + Header <= q
                      /\ \A b \in Range(blocks) :
                           b.flags = 0 =>
                             (b.addr..(Payload(b) + b.size - 1)) \cap Extent(p) = {}
    BY DEF LiveIsPrivate
  <2>1. p \in Nat /\ live[p] \in Nat
    BY HeapAssumption DEF HInv, TypeOK, Shape
  <2>2. ASSUME NEW x \in Extent(p) PROVE x \div FrameSize \in owned
    <3>1. PICK f \in owned : Within(p - Header, p + live[p], f)
      BY DEF HInv, LiveInFrames
    <3>2. f \in Nat /\ Base(f) \in Nat
      BY BaseNat, HeapAssumption DEF HInv, TypeOK
    <3>3. x \in Nat /\ Base(f) <= x /\ x < Base(f) + FrameSize
      BY <2>1, <2>2, <3>1, <3>2, HeapAssumption DEF Extent, Within
    <3> QED
      BY <3>2, <3>3, UnitOfFrame
  <2>3. \A q \in DOMAIN live : p < q => p + live[p] + Header <= q
    BY DEF HInv, LiveApart
  <2>4. ASSUME NEW b \in Range(blocks), b.flags = 0
        PROVE  (b.addr..(Payload(b) + b.size - 1)) \cap Extent(p) = {}
    <3>1. PICK i \in 1..Len(blocks) : b = blocks[i]
      BY <2>4 DEF HInv, TypeOK, Range
    <3>2. b \in BlockType
      BY <3>1 DEF HInv, TypeOK
    <3>3. p + live[p] <= b.addr \/ End(b) + Header <= p
      BY <2>4, <3>1, HeapAssumption DEF HInv, FreeApart
    <3>4. /\ b.addr \in Nat /\ b.size \in Nat /\ Header \in Nat
          /\ End(b) = b.addr + Header + b.size /\ Payload(b) = b.addr + Header
      BY <3>2, BlockEnd, HeapAssumption
    <3>5. ASSUME NEW x \in b.addr..(Payload(b) + b.size - 1), x \in Extent(p)
          PROVE  FALSE
      <4>1. Payload(b) + b.size - 1 \in Int /\ Payload(b) + b.size = End(b)
        BY <3>4
      <4>2. x \in Int /\ b.addr <= x /\ x < End(b)
        BY <3>4, <3>5, <4>1
      <4>3. p <= x /\ x < p + live[p]
        BY <2>1, <3>5, <4>2 DEF Extent
      <4> QED
        BY <2>1, <3>3, <3>4, <4>2, <4>3
    <3> QED
      BY <3>5
  <2> QED
    BY <2>2, <2>3, <2>4
<1> SUFFICES ASSUME ~Frees PROVE Spec => []LiveIsPrivate
  OBVIOUS
<1> QED
  BY <1>1, HeapInvariant, PTL

(* In a heap of one frame the list tiles the frame, and its used blocks    *)
(* are the allocations.                                                    *)
THEOREM TheListTilesItsFrame == ~Frees => (Spec => []ListTilesFrame)
<1>1. HInv => ListTilesFrame
  <2> SUFFICES ASSUME HInv, NEW f \in owned, owned = {f}, blocks # <<>>
               PROVE  /\ blocks[1].addr = Base(f)
                      /\ \A i \in 1..(Len(blocks) - 1) :
                           blocks[i + 1].addr = Payload(blocks[i]) + blocks[i].size
                      /\ Payload(Last(blocks)) + Last(blocks).size = Base(f) + FrameSize
                      /\ { Payload(b) : b \in { c \in Range(blocks) : c.flags = 1 } }
                           = DOMAIN live
                      /\ \A b \in Range(blocks) :
                           b.flags = 1 => b.size - live[Payload(b)] \in 0..Header
    BY DEF ListTilesFrame
  <2>1. Tiles(f) /\ UsedAreLive
    BY DEF HInv, OneFrame
  <2>2. blocks \in Seq(BlockType) /\ DOMAIN blocks = 1..Len(blocks)
    BY DEF HInv, TypeOK
  <2>3. \A b : b \in Range(blocks) <=> \E i \in 1..Len(blocks) : b = blocks[i]
    BY <2>2 DEF Range
  <2>4. /\ blocks[1].addr = Base(f)
        /\ \A i \in 1..(Len(blocks) - 1) :
             blocks[i + 1].addr = Payload(blocks[i]) + blocks[i].size
        /\ Payload(Last(blocks)) + Last(blocks).size = Base(f) + FrameSize
    BY <2>1 DEF Tiles, Adjoining, End, Payload, Last
  <2>5. { Payload(b) : b \in { c \in Range(blocks) : c.flags = 1 } } = DOMAIN live
    BY <2>1, <2>3 DEF UsedAreLive
  <2>6. \A b \in Range(blocks) : b.flags = 1 => b.size - live[Payload(b)] \in 0..Header
    BY <2>1, <2>3 DEF UsedAreLive
  <2> QED
    BY <2>4, <2>5, <2>6
<1> SUFFICES ASSUME ~Frees PROVE Spec => []ListTilesFrame
  OBVIOUS
<1> QED
  BY <1>1, HeapInvariant, PTL

(* When everything has been freed, the frame is one free block again.      *)
THEOREM FreeingRestores == ~Frees => (Spec => []FreeRestores)
<1>1. HInv => FreeRestores
  <2> SUFFICES ASSUME HInv, NEW f \in owned, owned = {f}, blocks # <<>>,
                      DOMAIN live = {}
               PROVE  blocks = <<FreshBlock(f)>>
    BY DEF FreeRestores
  <2>1. Tiles(f) /\ UsedAreLive
    BY DEF HInv, OneFrame
  <2>2. /\ blocks \in Seq(BlockType) /\ Len(blocks) \in Nat /\ Len(blocks) > 0
        /\ \A i \in 1..Len(blocks) : blocks[i] \in BlockType
    BY DEF HInv, TypeOK
  <2>3. \A i \in 1..Len(blocks) : blocks[i].flags = 0
    <3>1. \A i \in 1..Len(blocks) : blocks[i].flags # 1
      BY <2>1 DEF UsedAreLive
    <3>2. \A i \in 1..Len(blocks) : blocks[i].flags \in {0, 1}
      BY <2>2, BlockEnd
    <3> QED
      BY <3>1, <3>2
  <2>4. Len(blocks) = 1
    <3>1. ASSUME Len(blocks) > 1 PROVE FALSE
      <4>1. 1 \in 1..(Len(blocks) - 1) /\ 1 \in 1..Len(blocks) /\ 2 \in 1..Len(blocks)
        BY <2>2, <3>1
      <4> QED
        BY <2>1, <2>3, <4>1 DEF Tiles, Coalesced
    <3>2. Len(blocks) \in Nat /\ Len(blocks) > 0
      BY <2>2
    <3>3. \A x \in Nat : x > 0 /\ ~(x > 1) => x = 1
      OBVIOUS
    <3> QED
      BY <3>1, <3>2, <3>3
  <2>5. f \in Nat /\ Base(f) \in Nat
    BY BaseNat, HeapAssumption DEF HInv, TypeOK
  <2>6. blocks[1] = FreshBlock(f)
    <3>1. blocks[1] \in BlockType /\ blocks[1].addr = Base(f) /\ blocks[1].flags = 0
      BY <2>1, <2>2, <2>3, <2>4 DEF Tiles
    <3>2. End(blocks[1]) = Base(f) + FrameSize
      BY <2>1, <2>4 DEF Tiles
    <3>3. blocks[1].size = FrameSize - Header
      BY <2>5, <3>1, <3>2, BlockEnd, HeapAssumption
    <3>4. blocks[1] = [addr |-> blocks[1].addr, size |-> blocks[1].size,
                       flags |-> blocks[1].flags]
      BY <3>1 DEF BlockType
    <3> QED
      BY <3>1, <3>3, <3>4 DEF FreshBlock, Block
  <2> QED
    BY <2>2, <2>4, <2>6
<1> SUFFICES ASSUME ~Frees PROVE Spec => []FreeRestores
  OBVIOUS
<1> QED
  BY <1>1, HeapInvariant, PTL

(* A request that fits into a frame takes at most one new frame.           *)
THEOREM HeapGrowsAtMostOnce == ~Frees => (Spec => []GrowsAtMostOnce)
<1> SUFFICES ASSUME ~Frees PROVE Spec => []GrowsAtMostOnce
  OBVIOUS
<1>1. HInv => GrowsAtMostOnce
  BY DEF HInv, Grown
<1> QED
  BY <1>1, HeapInvariant, PTL
=============================================================================
