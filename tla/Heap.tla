-------------------------------- MODULE Heap --------------------------------
(***************************************************************************)
(* The kernel heap, memory/heap.c: a first-fit list of blocks, each behind *)
(* a header, in page frames taken from the frame allocator one at a time.  *)
(*                                                                         *)
(* Sizes and addresses are counted in bytes, in larger units in the runs.  *)
(* A block is [addr, size, flags]; the next pointers are the order of      *)
(* blocks.  The list is kept apart from the memory that the headers lie    *)
(* in, as is right while no allocation reaches into a header.  The frame   *)
(* allocator is the abstract one, which PhysMem implements.                *)
(***************************************************************************)
EXTENDS FrameAllocator, Sequences, FiniteSets, SequencesExt

CONSTANTS
  FrameSize,   \* HEAP_PAGE_SIZE, 4096
  Header,      \* sizeof(HeapBlock), 12
  Requests,    \* the sizes malloc may be asked for
  FramesInUse, \* the frames taken before heap_init (page tables, framebuffer)
  Frees        \* whether clients call free also after the heap has grown

ASSUME HeapAssumption ==
  /\ Header \in Nat \ {0}
  /\ FrameSize \in Nat /\ FrameSize > Header
  /\ Requests \subseteq Nat
  /\ Frames \subseteq Nat /\ FramesInUse \subseteq Frames
  /\ Frees \in BOOLEAN

VARIABLES
  initialised, \* heap_init has run
  blocks,      \* the list from heap_start
  heap_end,    \* the address of the block that was linked last
  heap_limit,  \* advanced with every frame, read by nobody
  size,        \* malloc's argument, meaningful while depth > 0
  depth,       \* nested calls of malloc in progress; 0 when it has returned
  result,      \* the pointer malloc returned last
  live,        \* history: the size requested for each pointer still in use
  owned        \* history: the frames the heap has taken

heapVars == <<initialised, blocks, heap_end, heap_limit, size, depth, result,
              live, owned>>
vars     == <<handed, answer, heapVars>>

Block(addr, sz, flags) == [addr |-> addr, size |-> sz, flags |-> flags]

Base(frame)     == frame * FrameSize
FreshBlock(frame) == Block(Base(frame), FrameSize - Header, 0)
Payload(b)      == b.addr + Header

-----------------------------------------------------------------------------
Init ==
  /\ initialised = FALSE
  /\ handed = FramesInUse /\ answer = NULL
  /\ blocks = <<>> /\ heap_end = NULL /\ heap_limit = NULL
  /\ size = 0 /\ depth = 0 /\ result = NULL
  /\ live = <<>> /\ owned = {}

(* heap_init uses pmm_alloc_page's answer without looking at it.  With     *)
(* NULL the list starts at address 0, which malloc takes for an empty list *)
(* and which heap_end->next is then written through.                       *)
HeapInit ==
  /\ ~initialised
  /\ initialised' = TRUE
  /\ \/ Refuse /\ owned' = owned
     \/ \E f \in Frames : Take(f) /\ owned' = owned \cup {f}
  /\ blocks' = IF answer' = NULL THEN <<>> ELSE <<FreshBlock(answer')>>
  /\ heap_end' = Base(answer')
  /\ heap_limit' = Base(answer') + FrameSize
  /\ UNCHANGED <<size, depth, result, live>>

-----------------------------------------------------------------------------
(* malloc(size), one action per call of the recursion: a call that finds a *)
(* block returns it, one that does not grows the heap and calls itself.    *)
FitsStrictly(b) == b.flags = 0 /\ b.size > size

Fits(b) == b.flags = 0 /\ b.size >= size

FirstFit == SelectInSeq(blocks, Fits)      \* 0 when no block fits

SplitOverlapping(b) ==
  << Block(b.addr, size, 1),
     Block(b.addr + size, b.size - size - Header, 0) >>

SplitAlways(b) ==
  << Block(b.addr, size, 1),
     Block(b.addr + Header + size, b.size - size - Header, 0) >>

Split(b) ==
  IF b.size > size + Header
  THEN << Block(b.addr, size, 1),
          Block(b.addr + Header + size, b.size - size - Header, 0) >>
  ELSE << Block(b.addr, b.size, 1) >>

ReplaceWith(i, new) ==
  SubSeq(blocks, 1, i - 1) \o new \o SubSeq(blocks, i + 1, Len(blocks))

MallocCall(s) ==
  /\ initialised /\ depth = 0
  /\ size' = s /\ depth' = 1
  /\ UNCHANGED <<handed, answer, initialised, blocks, heap_end, heap_limit,
                 result, live, owned>>

MallocFit ==
  /\ depth > 0 /\ FirstFit # 0
  /\ blocks' = ReplaceWith(FirstFit, Split(blocks[FirstFit]))
  /\ result' = Payload(blocks[FirstFit])
  /\ live' = [p \in DOMAIN live \cup {result'} |->
                IF p = result' THEN size ELSE live[p]]
  /\ depth' = 0
  /\ UNCHANGED <<handed, answer, initialised, heap_end, heap_limit, size, owned>>

(* heap_end->next = new_block cuts off what follows heap_end: the rest of  *)
(* a split block, for instance.  When free has merged heap_end into its    *)
(* predecessor, the write lands in a header that is no longer on the list, *)
(* and the new block is lost.                                              *)
LinkedLast(b) == b.addr = heap_end

Link(new) ==
  LET i == SelectInSeq(blocks, LinkedLast)
  IN  IF i = 0 THEN blocks ELSE Append(SubSeq(blocks, 1, i), new)

MallocGrow ==
  /\ depth > 0 /\ FirstFit = 0
  /\ \E f \in Frames :
       /\ Take(f) /\ f # NULL
       /\ blocks' = Link(FreshBlock(f))
       /\ heap_end' = Base(f)
       /\ owned' = owned \cup {f}
  /\ heap_limit' = heap_limit + FrameSize
  /\ depth' = depth + 1
  /\ UNCHANGED <<initialised, size, result, live>>

MallocFailRetrying ==
  /\ depth > 0 /\ FirstFit = 0
  /\ Refuse
  /\ UNCHANGED heapVars

(* pmm_alloc_page returned NULL: out of memory, or frame 0.                *)
MallocFail ==
  /\ depth > 0 /\ FirstFit = 0
  /\ Refuse \/ Take(NULL)
  /\ result' = NULL
  /\ depth' = 0
  /\ UNCHANGED <<initialised, blocks, heap_end, heap_limit, size, live, owned>>

-----------------------------------------------------------------------------
(* free(ptr): mark the block, then merge each free block with the free     *)
(* block after it on the list, until there is none.                        *)
Merge(b, c) == [b EXCEPT !.size = @ + Header + c.size]

AbsorbLive(done, c) ==
  IF done # <<>> /\ Last(done).flags = 0
  THEN Append(Front(done), Merge(Last(done), c))
  ELSE Append(done, c)

Absorb(done, c) ==
  IF done # <<>> /\ Last(done).flags = 0 /\ c.flags = 0
  THEN Append(Front(done), Merge(Last(done), c))
  ELSE Append(done, c)

MergedOnce(bs) ==
  LET i == SelectInSubSeq(bs, 1, Len(bs) - 1, LAMBDA b : b.flags = 0)
  IN  IF i = 0 \/ bs[i + 1].flags = 1 THEN bs
      ELSE SubSeq(bs, 1, i - 1) \o <<Merge(bs[i], bs[i + 1])>>
             \o SubSeq(bs, i + 2, Len(bs))

Merged(bs) ==
  LET passed[i \in 0..Len(bs)] ==      \* the list up to current, i blocks on
        IF i = 0 THEN <<>> ELSE Absorb(passed[i - 1], bs[i])
  IN  passed[Len(bs)]

MarkFree(p) ==
  [i \in DOMAIN blocks |->
     IF Payload(blocks[i]) = p THEN [blocks[i] EXCEPT !.flags = 0] ELSE blocks[i]]

(* Nothing in the kernel calls free yet.  In a heap of one frame it is     *)
(* always allowed; Frees says whether it is in a larger one too.           *)
Free(p) ==
  /\ depth = 0
  /\ Frees \/ Cardinality(owned) <= 1
  /\ p \in DOMAIN live
  /\ blocks' = Merged(MarkFree(p))
  /\ live' = [q \in DOMAIN live \ {p} |-> live[q]]
  /\ UNCHANGED <<handed, answer, initialised, heap_end, heap_limit, size, depth,
                 result, owned>>

(* The kernel's other clients of pmm_alloc_page.                           *)
OtherClient ==
  /\ depth = 0
  /\ FrameNext
  /\ UNCHANGED heapVars

Next ==
  \/ HeapInit
  \/ \E s \in Requests : MallocCall(s)
  \/ MallocFit \/ MallocGrow \/ MallocFail
  \/ \E p \in DOMAIN live : Free(p)
  \/ OtherClient

(* malloc runs to its return: nothing preempts it for good.                *)
Spec ==
  /\ Init /\ [][Next]_vars
  /\ WF_vars(MallocFit \/ MallocGrow \/ MallocFail)
-----------------------------------------------------------------------------
BlockType == [addr : Nat, size : Nat, flags : {0, 1}]

(* Types.  The sizes malloc and free compute never fall below 0 (in the    *)
(* source they are unsigned and would become huge), and every frame the    *)
(* heap uses is one the frame allocator has handed out.                    *)
TypeOK ==
  /\ initialised \in BOOLEAN
  /\ blocks \in Seq(BlockType)
  /\ heap_end \in Nat /\ heap_limit \in Nat
  /\ size \in Requests \cup {0} /\ depth \in Nat
  /\ result \in Nat
  /\ DOMAIN live \subseteq Nat /\ Range(live) \subseteq Requests
  /\ owned \subseteq handed /\ handed \subseteq Frames /\ answer \in Frames \cup {NULL}

(* The memory malloc gives out is its caller's alone: every byte of it is  *)
(* in a frame of the heap, it ends before the header of the next           *)
(* allocation, and no free block of the list (the next one to be given     *)
(* out, header included) reaches into it.                                  *)
Extent(p) == p..(p + live[p] - 1)

LiveIsPrivate ==
  \A p \in DOMAIN live :
    /\ \A x \in Extent(p) : x \div FrameSize \in owned
    /\ \A q \in DOMAIN live : p < q => p + live[p] + Header <= q
    /\ \A b \in Range(blocks) :
         b.flags = 0 => (b.addr..(Payload(b) + b.size - 1)) \cap Extent(p) = {}

(* As long as the heap lives in one frame, its list tiles that frame, and  *)
(* the blocks in use are exactly the allocations, at most one header wider *)
(* than what was asked for.                                                *)
ListTilesFrame ==
  \A f \in owned : owned = {f} /\ blocks # <<>> =>
    /\ blocks[1].addr = Base(f)
    /\ \A i \in 1..(Len(blocks) - 1) :
         blocks[i + 1].addr = Payload(blocks[i]) + blocks[i].size
    /\ Payload(Last(blocks)) + Last(blocks).size = Base(f) + FrameSize
    /\ { Payload(b) : b \in { c \in Range(blocks) : c.flags = 1 } } = DOMAIN live
    /\ \A b \in Range(blocks) :
         b.flags = 1 => b.size - live[Payload(b)] \in 0..Header

(* Fragmentation is not permanent: when everything has been freed, the one *)
(* frame is a single free block again, whatever was allocated and in which *)
(* order it was freed.                                                     *)
FreeRestores ==
  \A f \in owned :
    owned = {f} /\ blocks # <<>> /\ depth = 0 /\ DOMAIN live = {}
      => blocks = <<FreshBlock(f)>>

(* A request that fits into a frame takes at most one frame: the call      *)
(* after the growth finds the new block.                                   *)
GrowsAtMostOnce ==
  blocks # <<>> /\ size <= FrameSize - Header => depth <= 2

(* malloc returns: its recursion ends when a block fits or when the frame  *)
(* allocator refuses, also for a size no frame can hold.                   *)
MallocReturns == depth > 0 ~> depth = 0
=============================================================================
