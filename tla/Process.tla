------------------------------ MODULE Process ------------------------------
(***************************************************************************)
(* Processes: process/fork.c (create, schedule, fork) and memory/pf.c (the *)
(* page fault handler) on the page tables of Paging, with the boot steps   *)
(* of kernel_init that build the kernel's own directory.                   *)
(*                                                                         *)
(* Everything happens in interrupt-free stretches of kernel code, so each  *)
(* call is one step.  The kernel can run only while the directory in CR3   *)
(* maps its image: when it does not, the next instruction fetch ends in a  *)
(* triple fault, and no action of this module is enabled any more.         *)
(*                                                                         *)
(* In the source WindowBase is 0 and the first switch to a process ends in *)
(* that triple fault.  What schedule, __fork and the fault handler do to   *)
(* processes that run shows only for a kernel that is mapped in the kernel *)
(* half; nothing here depends on where WindowBase lies.                    *)
(*                                                                         *)
(* A switch loads CR3 and no other register: what follows is about whose   *)
(* directory is loaded, not about whose code the processor executes.       *)
(*                                                                         *)
(* create_process does not look at malloc's answer; here malloc succeeds,  *)
(* as it does while the heap's first frame has room (MaxProcs below 85).   *)
(***************************************************************************)
EXTENDS Paging, Sequences, Functions

CONSTANTS
  KernelImage,   \* the frames of the kernel, linker.ld
  StackPage,     \* 0xBFF000
  UserPages,     \* the pages that are touched, in either half
  Values,        \* what they write there
  Junk,          \* the contents of memory at boot
  MaxProcs       \* bound: processes created in a run

ASSUME ProcessAssumption ==
  /\ KernelImage \subseteq 0..(WindowPages - 1) /\ KernelImage \cap Frames = {}
  /\ StackPage \in Nat /\ StackPage \div PAGE_ENTRIES < KERNEL_PD_INDEX
  /\ \A p \in UserPages : p \in Nat /\ p \div PAGE_ENTRIES < PAGE_ENTRIES
  /\ MaxProcs \in Nat /\ MaxProcs < 85

VARIABLES
  mem,             \* physical memory
  paging,          \* init_pages has run
  kernel_page_dir, \* its directory
  cr3,             \* the frame of the active directory
  process_list,    \* pids, most recently created first
  page_dir,        \* each process's directory
  current_process, \* a pid, or NULL
  returned,        \* what __fork returned last
  forks,           \* history: the forks that succeeded
  waited           \* history: calls of schedule since each was current or made

procVars == <<process_list, page_dir, current_process, cr3, returned, forks, waited>>
vars     == <<handed, answer, mem, paging, kernel_page_dir, procVars>>

Machine == [mem |-> mem, handed |-> handed, answer |-> answer]

Becomes(m) == mem' = m.mem /\ handed' = m.handed /\ answer' = m.answer

KernelMapped(memory, pd) ==
  \A f \in KernelImage :
    /\ Maps(memory, pd, WindowBase + f)
    /\ EntryOf(memory, pd, WindowBase + f).frame = f

Running == paging /\ KernelMapped(mem, cr3)

-----------------------------------------------------------------------------
Init ==
  /\ handed = {} /\ answer = NULL
  /\ mem = [f \in Frames \cup {NULL} |-> [tab |-> <<>>, data |-> Junk]]
  /\ paging = FALSE /\ kernel_page_dir = NULL /\ cr3 = NULL
  /\ process_list = <<>> /\ page_dir = <<>> /\ current_process = NULL
  /\ returned = 0 /\ forks = 0 /\ waited = <<>>

(* init_pages, then the second gd_init maps the framebuffer.               *)
BootPaging ==
  LET b == init_pages(Machine) IN
  /\ ~paging
  /\ paging' = TRUE
  /\ Becomes(map_framebuffer(b.machine, b.dir))
  /\ kernel_page_dir' = b.dir /\ cr3' = b.dir
  /\ UNCHANGED <<process_list, page_dir, current_process, returned, forks, waited>>

create_process(m) ==
  LET d   == AllocatedZeroed(m)
      pd  == d.answer
      k   == clone_kernel_space(d, pd, kernel_page_dir)
      s   == Allocated(k)
      stk == s.answer
      p   == map_page(s, pd, StackPage, stk, {"rw", "user"})
  IN  [machine |-> Fill(p, stk, Zeroed), dir |-> pd]

next_pid == Len(process_list) + 1

Enlist(dir) ==
  /\ process_list' = <<next_pid>> \o process_list
  /\ page_dir' = Append(page_dir, dir)
  /\ waited' = Append(waited, 0)

CreateProcess ==
  LET c == create_process(Machine) IN
  /\ Running /\ Len(process_list) < MaxProcs
  /\ Becomes(c.machine)
  /\ Enlist(c.dir)
  /\ UNCHANGED <<paging, kernel_page_dir, current_process, cr3, returned, forks>>

(* __fork.  The first test fails at boot: kernel_init calls it before any  *)
(* process exists.  The parent's return value is also the only one: the    *)
(* child never executes this code.                                         *)
ForkNobody ==
  /\ Running /\ current_process = NULL
  /\ returned' = -1
  /\ UNCHANGED <<handed, answer, mem, paging, kernel_page_dir, process_list,
                 page_dir, current_process, cr3, forks, waited>>

Fork ==
  LET c == create_process(Machine) IN
  /\ Running /\ current_process # NULL /\ Len(process_list) < MaxProcs
  /\ Becomes(copy_addr_space(c.machine, page_dir[current_process], c.dir))
  /\ Enlist(c.dir)
  /\ returned' = next_pid
  /\ forks' = forks + 1
  /\ UNCHANGED <<paging, kernel_page_dir, current_process, cr3>>

-----------------------------------------------------------------------------
(* schedule: the next process on the list, or its first; called by kmain's *)
(* loop each time an interrupt ends its hlt.                               *)
Place(p) ==
  CHOOSE i \in 0..Len(process_list) :
    IF i = 0 THEN p \notin Range(process_list) ELSE process_list[i] = p

AfterStuck(p) ==
  IF p = NULL THEN process_list[1]
  ELSE IF Place(p) < Len(process_list) THEN process_list[Place(p) + 1] ELSE p

After(p) ==
  process_list[IF Place(p) < Len(process_list) THEN Place(p) + 1 ELSE 1]

Waited(next) ==
  [p \in DOMAIN waited |-> IF p = next THEN 0 ELSE waited[p] + 1]

ScheduleSameCr3 ==
  /\ Running /\ process_list # <<>>
  /\ current_process' = After(current_process)
  /\ waited' = Waited(current_process')
  /\ UNCHANGED <<handed, answer, mem, paging, kernel_page_dir, process_list,
                 page_dir, cr3, returned, forks>>

Schedule ==
  /\ Running /\ process_list # <<>>
  /\ current_process' = After(current_process)
  /\ cr3' = page_dir[current_process']
  /\ waited' = Waited(current_process')
  /\ UNCHANGED <<handed, answer, mem, paging, kernel_page_dir, process_list,
                 page_dir, returned, forks>>

(* A store to a page that map_page has entered for a program: those of the *)
(* kernel's window and of the framebuffer lack the flag ...                *)
Write(page, v) ==
  /\ Running /\ current_process # NULL
  /\ Maps(mem, cr3, page) /\ "user" \in EntryOf(mem, cr3, page).flags
  /\ mem' = [mem EXCEPT ![EntryOf(mem, cr3, page).frame] =
               [tab |-> <<>>, data |-> v]]
  /\ UNCHANGED <<handed, answer, paging, kernel_page_dir, procVars>>

(* ... or to one that is not there, wherever it lies: page_fault_handler   *)
(* maps a new frame, as it finds it, in the current directory.  In the     *)
(* kernel half the page goes into a table that all processes share, if the *)
(* kernel has one there, and into one of the process's own if not.  panic  *)
(* only prints, so that an allocator that answers NULL gets frame 0 mapped.*)
PageFault(page) ==
  LET a == Allocated(Machine)
      M == map_page(a, page_dir[current_process], page, a.answer, {"rw", "user"})
  IN
  /\ Running /\ current_process # NULL
  /\ ~Maps(mem, cr3, page)
  /\ Becomes(M)
  /\ UNCHANGED <<paging, kernel_page_dir, procVars>>

Next ==
  \/ BootPaging \/ CreateProcess \/ ForkNobody \/ Fork \/ Schedule
  \/ \E page \in UserPages, v \in Values : Write(page, v)
  \/ \E page \in UserPages : PageFault(page)

Spec == Init /\ [][Next]_vars

-----------------------------------------------------------------------------
Procs == Range(process_list)

(* The entries of the kernel's directory that every process gets, and the  *)
(* entries that are a process's own: those of the lower half, and those    *)
(* that page faults have made in the kernel half.                          *)
Shared     == { i \in DOMAIN mem[kernel_page_dir].tab : i >= KERNEL_PD_INDEX }
Own(pd)    == DOMAIN mem[pd].tab \ Shared
Low(pd)    == { i \in DOMAIN mem[pd].tab : i < KERNEL_PD_INDEX }

(* A process's tables, its pages (named by their indices in the directory  *)
(* and in the table), and what it sees on them.                            *)
TableAt(pd, i) == mem[pd].tab[i].frame
PagesIn(pd, I) == UNION { {i} \X DOMAIN mem[TableAt(pd, i)].tab : i \in I }
PageAt(pd, p)  == mem[TableAt(pd, p[1])].tab[p[2]].frame
OwnPages(pd)   == PagesIn(pd, Own(pd))
LowPages(pd)   == PagesIn(pd, Low(pd))
Tables(pd)     == { TableAt(pd, i) : i \in Own(pd) }
PagesOf(pd)    == { PageAt(pd, p) : p \in OwnPages(pd) }
FramesOf(pd)   == {pd} \cup Tables(pd) \cup PagesOf(pd)
View(pd)       == [p \in OwnPages(pd) |-> mem[PageAt(pd, p)].data]
LowView(pd)    == [p \in LowPages(pd) |-> mem[PageAt(pd, p)].data]

(* The kernel's directory, its tables, and the pages that page faults have *)
(* entered in them.                                                        *)
Faulted(table) ==
  { mem[table].tab[j].frame :
      j \in { k \in DOMAIN mem[table].tab : "user" \in mem[table].tab[k].flags } }

KernelTables ==
  { mem[kernel_page_dir].tab[i].frame : i \in DOMAIN mem[kernel_page_dir].tab }

KernelFrames ==
  {kernel_page_dir} \cup KernelTables \cup UNION { Faulted(t) : t \in KernelTables }

(* Types, and where each process's directory is.                           *)
TypeOK ==
  /\ handed \subseteq Frames /\ answer \in Frames \cup {NULL}
  /\ paging \in BOOLEAN
  /\ kernel_page_dir \in Frames \cup {NULL}
  /\ DOMAIN page_dir = Procs /\ Range(page_dir) \subseteq Frames \cup {NULL}
  /\ current_process \in Procs \cup {NULL}
  /\ cr3 = IF current_process = NULL THEN kernel_page_dir
           ELSE page_dir[current_process]
  /\ returned \in -1..MaxProcs /\ forks \in 0..MaxProcs
  /\ waited \in [Procs -> Nat]

(* No frame has two uses: the directory, the tables and the pages of a     *)
(* process are frames of their own, no other process's and none of the     *)
(* kernel's.                                                               *)
FramesAreOwned ==
  /\ \A p \in Procs :
       LET pd == page_dir[p] IN
       /\ FramesOf(pd) \subseteq handed
       /\ pd \notin Tables(pd) \cup PagesOf(pd) /\ Tables(pd) \cap PagesOf(pd) = {}
       /\ \A i, j \in Own(pd) : TableAt(pd, i) = TableAt(pd, j) => i = j
       /\ \A a, b \in OwnPages(pd) : PageAt(pd, a) = PageAt(pd, b) => a = b
       /\ FramesOf(pd) \cap KernelFrames = {}
  /\ \A p, q \in Procs :
       p # q => FramesOf(page_dir[p]) \cap FramesOf(page_dir[q]) = {}

(* What the kernel has mapped in its half, every process has, through the  *)
(* same tables: a switch never takes it from under the kernel, and what is *)
(* entered in those tables later is seen by all.  Page faults in that half *)
(* only add to the current directory.                                      *)
KernelHalfIsShared ==
  \A p \in Procs : \A i \in Shared :
    /\ i \in DOMAIN mem[page_dir[p]].tab
    /\ mem[page_dir[p]].tab[i] = mem[kernel_page_dir].tab[i]

(* __fork gives the child what the parent sees in the lower half, at the   *)
(* same pages.                                                             *)
ForkCopiesTheParent ==
  [][forks' # forks =>
       LowView(page_dir[process_list[1]])' = LowView(page_dir[current_process])]_vars

(* A step changes what no process other than the current one sees on pages *)
(* of its own, however it was created; in particular not the parent's or   *)
(* the child's view after a fork.                                          *)
OthersKeepTheirView ==
  [][\A p \in Procs \ {current_process} :
       View(page_dir[p])' = View(page_dir[p])]_vars

(* Each successful fork loses two frames for good: the child's stack page  *)
(* and its table, when copy_addr_space replaces the directory entry that   *)
(* create_process has made.  Nothing else is ever lost.                    *)
TwoFramesLostPerFork ==
  paging => Cardinality(handed) =
    Cardinality(KernelFrames \cup UNION { FramesOf(page_dir[p]) : p \in Procs })
      + 2 * forks

(* Round robin over a list that grows at the other end: no process waits   *)
(* for more calls of schedule than there are other processes, whatever is  *)
(* created meanwhile.                                                      *)
BoundedWait == \A p \in Procs : waited[p] < Len(process_list)

(* KERNEL_BASE names the kernel half that every process shares; the kernel *)
(* relies on it: it goes on running after a switch.                        *)
KernelStaysMapped == paging => KernelMapped(mem, cr3)
=============================================================================
