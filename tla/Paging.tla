------------------------------- MODULE Paging -------------------------------
(***************************************************************************)
(* memory/paging.c: two-level page tables in physical memory.              *)
(*                                                                         *)
(* Each C function is an operator on the part of the machine it changes,   *)
(*     [mem, handed, answer]                                               *)
(* physical memory and the frame allocator.  A frame holds a table, the    *)
(* function from the indices of its present entries to the entries, or     *)
(* data; which of the two it is to hold is its user's business.  Nothing   *)
(* checks pmm_alloc_page for NULL, so a refusal makes every one of these   *)
(* functions work on frame 0.                                              *)
(***************************************************************************)
EXTENDS FrameAllocator, FiniteSetsExt

CONSTANTS
  PAGE_ENTRIES,     \* entries of a table, 1024
  KERNEL_PD_INDEX,  \* the first directory entry of the kernel half, 768
  WindowBase,       \* the page at which init_pages maps frame 0; it is page 0
  WindowPages,      \* the pages init_pages maps, 8 MiB
  FbPage, FbPages   \* the framebuffer's first page and size, outside memory

ASSUME PagingAssumption ==
  /\ PAGE_ENTRIES \in Nat \ {0}
  /\ KERNEL_PD_INDEX \in 0..PAGE_ENTRIES
  /\ WindowBase \in Nat /\ WindowPages \in Nat
  /\ FbPage \in Nat /\ FbPages \in Nat
  /\ Frames \subseteq Nat /\ IsFiniteSet(Frames)
  /\ Frames \cap FbPage..(FbPage + FbPages - 1) = {}

Entry(frame, flags) == [frame |-> frame, flags |-> flags]

Zeroed == [tab |-> <<>>, data |-> 0]

-----------------------------------------------------------------------------
(* pmm_alloc_page, first fit.                                              *)
Allocated(m) ==
  LET free == Frames \ m.handed
      f    == IF free = {} THEN NULL ELSE Min(free)
  IN  [mem |-> m.mem, handed |-> m.handed \cup ({f} \cap free), answer |-> f]

Fill(m, f, content) ==
  [mem |-> [m.mem EXCEPT ![f] = content], handed |-> m.handed, answer |-> m.answer]

With(tab, i, e) == [j \in DOMAIN tab \cup {i} |-> IF j = i THEN e ELSE tab[j]]

SetEntry(m, f, i, e) ==
  Fill(m, f, [tab |-> With(m.mem[f].tab, i, e), data |-> m.mem[f].data])

AllocatedZeroed(m) == LET n == Allocated(m) IN Fill(n, n.answer, Zeroed)

create_page_table(m) == AllocatedZeroed(m)

map_page_anew(m, pd, page, frame, flags) ==
  LET pd_index == page \div PAGE_ENTRIES
      t  == create_page_table(m)
      n  == SetEntry(t, pd, pd_index, Entry(t.answer, {"rw", "user"}))
  IN  SetEntry(n, t.answer, page % PAGE_ENTRIES, Entry(frame, flags))

map_page(m, pd, page, frame, flags) ==
  LET pd_index == page \div PAGE_ENTRIES
      n  == IF pd_index \in DOMAIN m.mem[pd].tab THEN m
            ELSE LET t == create_page_table(m)
                 IN  SetEntry(t, pd, pd_index, Entry(t.answer, {"rw", "user"}))
      pt == n.mem[pd].tab[pd_index].frame
  IN  SetEntry(n, pt, page % PAGE_ENTRIES, Entry(frame, flags))

(* A run of pages onto a run of frames, one after the other.               *)
map_region(m, pd, page, frame, pages, flags) ==
  LET mapped[i \in 0..pages] ==
        IF i = 0 THEN m
        ELSE map_page(mapped[i - 1], pd, page + i - 1, frame + i - 1, flags)
  IN  mapped[pages]

init_pages(m) ==
  LET n == AllocatedZeroed(m)
  IN  [machine |-> map_region(n, n.answer, WindowBase, 0, WindowPages, {"rw"}),
       dir     |-> n.answer]

map_framebuffer(m, kernel_page_dir) ==
  map_region(m, kernel_page_dir, FbPage, FbPage, FbPages, {"rw", "wt"})

CloneFrom(m, new_pd, kernel_page_dir, first) ==
  LET old  == m.mem[new_pd].tab
      kern == m.mem[kernel_page_dir].tab
      low  == { i \in DOMAIN old : i < first }
      high == { i \in DOMAIN kern : i >= first }
  IN  Fill(m, new_pd,
           [tab  |-> [i \in low \cup high |-> IF i < first THEN old[i] ELSE kern[i]],
            data |-> m.mem[new_pd].data])

clone_kernel_space_late(m, new_pd, kernel_page_dir) ==
  CloneFrom(m, new_pd, kernel_page_dir, KERNEL_PD_INDEX + 1)

clone_kernel_space(m, new_pd, kernel_page_dir) ==
  CloneFrom(m, new_pd, kernel_page_dir, KERNEL_PD_INDEX)

copy_page(m, src, dst) == Fill(m, dst, m.mem[src])

(* One present entry of the parent's directory: a fresh table for the      *)
(* child, and in it a fresh copy of every page the parent's table maps.    *)
share_entry(m, src_pt, dst_pt, pt_i) ==
  SetEntry(m, dst_pt, pt_i, m.mem[src_pt].tab[pt_i])

copy_entry(m, src_pt, dst_pt, pt_i) ==
  LET n == Allocated(m)
      c == copy_page(n, n.mem[src_pt].tab[pt_i].frame, n.answer)
  IN  SetEntry(c, dst_pt, pt_i, Entry(n.answer, {"rw", "user"}))

entry_done(m, src_pt, dst_pt, pt_i) ==
  IF pt_i \in DOMAIN m.mem[src_pt].tab THEN copy_entry(m, src_pt, dst_pt, pt_i) ELSE m

copy_entries_short(m, src_pt, dst_pt) ==
  LET done[n \in 0..(PAGE_ENTRIES - 1)] ==
        IF n = 0 THEN m ELSE entry_done(done[n - 1], src_pt, dst_pt, n - 1)
  IN  done[PAGE_ENTRIES - 1]

copy_entries(m, src_pt, dst_pt) ==
  LET done[n \in 0..PAGE_ENTRIES] ==
        IF n = 0 THEN m ELSE entry_done(done[n - 1], src_pt, dst_pt, n - 1)
  IN  done[PAGE_ENTRIES]

copy_table(m, src_pd, dst_pd, pd_i) ==
  LET src_pt == m.mem[src_pd].tab[pd_i].frame
      t      == AllocatedZeroed(m)
  IN  copy_entries(SetEntry(t, dst_pd, pd_i, Entry(t.answer, {"rw", "user"})),
                   src_pt, t.answer)

table_done(m, src_pd, dst_pd, pd_i) ==
  IF pd_i \in DOMAIN m.mem[src_pd].tab THEN copy_table(m, src_pd, dst_pd, pd_i) ELSE m

copy_addr_space(m, src_pd, dst_pd) ==
  LET done[n \in 0..KERNEL_PD_INDEX] ==
        IF n = 0 THEN m ELSE table_done(done[n - 1], src_pd, dst_pd, n - 1)
  IN  done[KERNEL_PD_INDEX]

-----------------------------------------------------------------------------
(* What the processor does with these tables: the frame a page leads to in *)
(* directory pd, and the set of pages that lead anywhere.                  *)
Maps(mem, pd, page) ==
  LET i == page \div PAGE_ENTRIES IN
  /\ i \in DOMAIN mem[pd].tab
  /\ page % PAGE_ENTRIES \in DOMAIN mem[mem[pd].tab[i].frame].tab

EntryOf(mem, pd, page) ==
  mem[mem[pd].tab[page \div PAGE_ENTRIES].frame].tab[page % PAGE_ENTRIES]
=============================================================================
