---------------------------- MODULE ProcessProofs ----------------------------
(***************************************************************************)
(* Proofs about Process, for page tables, memories and programs of any     *)
(* size.                                                                   *)
(*                                                                         *)
(* Every frame that has been handed out has been handed out for something: *)
(* as the directory of a process, as the table of one entry of it, as the  *)
(* page behind one entry of that table (the kernel is process 0).  The     *)
(* uses are not in the state; the invariant says that there is a function  *)
(* (use) from the frames to their uses that memory agrees with: what a     *)
(* directory points at are its tables, what a table points at are its      *)
(* pages.  A page that a fault has entered in a table of the kernel's is   *)
(* the kernel's, one in any other table the process's.  As a use names its *)
(* process and the place it is for, everything about who shares what with  *)
(* whom follows.                                                           *)
(*                                                                         *)
(* All of it is said of memories in which pmm_alloc_page has never         *)
(* answered NULL: once it does, Nika's page tables are frame 0.            *)
(***************************************************************************)
EXTENDS Process, NumberInduction, FiniteSetTheorems, TLAPS

-----------------------------------------------------------------------------
(* What holds of a machine whatever happens to it.                         *)
Base(m) ==
  /\ DOMAIN m.mem = Frames \cup {NULL}
  /\ m.handed \subseteq Frames /\ m.answer \in Frames \cup {NULL}

(* The machine m has become n: nothing has been taken back.                *)
Grows(m, n) == Base(n) /\ m.handed \subseteq n.handed

(* The entries of the kernel half in which init_pages and gd_init map      *)
(* something, the ones that every process is given.                        *)
Mapped(page, pages) == { (page + n) \div PAGE_ENTRIES : n \in 0..(pages - 1) }

Common ==
  { i \in Mapped(WindowBase, WindowPages) \cup Mapped(FbPage, FbPages) :
      i >= KERNEL_PD_INDEX }

(* They are entries of the kernel half.                                    *)
LEMMA CommonIsHigh ==
  \A i \in Common : i \in Nat /\ i >= KERNEL_PD_INDEX /\ ~(i < KERNEL_PD_INDEX)
BY PagingAssumption DEF Common, Mapped

(* The uses of frames, and when memory agrees with them.  An entry of the  *)
(* kernel's tables is for a page of its own if a page fault has made it.   *)
Directory(p)   == <<p, "directory", 0, 0>>
Table(p, i)    == <<p, "table", i, 0>>
Page(p, i, j)  == <<p, "page", i, j>>

Agrees(memory, use) ==
  \A f \in DOMAIN use :
    /\ \A p : use[f] = Directory(p) =>
         \A i \in DOMAIN memory[f].tab :
           /\ i \in Nat
           /\ p = 0 \/ i \notin Common =>
                /\ memory[f].tab[i].frame \in DOMAIN use
                /\ use[memory[f].tab[i].frame] = Table(p, i)
    /\ \A p, i : use[f] = Table(p, i) =>
         \A j \in DOMAIN memory[f].tab :
           p # 0 \/ "user" \in memory[f].tab[j].flags =>
             /\ j \in 0..(PAGE_ENTRIES - 1)
             /\ memory[f].tab[j].frame \in DOMAIN use
             /\ use[memory[f].tab[j].frame] = Page(p, i, j)

Owns(m, use) == DOMAIN use = m.handed /\ Agrees(m.mem, use)

(* Two directories have the same kernel half.                              *)
SameHalf(t, u) ==
  \A i \in Common :
    /\ i \in DOMAIN t <=> i \in DOMAIN u
    /\ i \in DOMAIN u => t[i] = u[i]

(* What process p (or the kernel, 0) does to a machine that uses its       *)
(* frames as use says: new frames are its own, and it changes memory of    *)
(* its own only, in its directories no entry that the kernel has given it. *)
Act(m, use, p, n, after) ==
  /\ Owns(n, after)
  /\ DOMAIN use \subseteq DOMAIN after
  /\ \A f \in DOMAIN use : after[f] = use[f]
  /\ \A f \in DOMAIN after \ DOMAIN use : after[f][1] = p
  /\ \A f \in DOMAIN use : use[f][1] # p => n.mem[f] = m.mem[f]
  /\ \A f \in DOMAIN use : use[f] = Directory(p) /\ p # 0 =>
       SameHalf(n.mem[f].tab, m.mem[f].tab)
  /\ \A f \in DOMAIN use : use[f] = Directory(p) =>
       DOMAIN m.mem[f].tab \subseteq DOMAIN n.mem[f].tab

Acts(m, use, p, n) == \E after : Act(m, use, p, n, after)

-----------------------------------------------------------------------------
(* An action that follows another one of the same process makes up one     *)
(* action with it.                                                         *)
LEMMA ActThenAct ==
  ASSUME NEW l, NEW m, NEW n, NEW p, NEW use, NEW during, NEW after,
         Act(l, use, p, m, during), Act(m, during, p, n, after)
  PROVE  Act(l, use, p, n, after)
<1>1. \A f \in DOMAIN use : use[f] = Directory(p) /\ p # 0 =>
        SameHalf(n.mem[f].tab, l.mem[f].tab)
  BY DEF Act, SameHalf
<1> QED
  BY <1>1 DEF Act

(* To do nothing is an action.                                             *)
LEMMA NoAct ==
  ASSUME NEW m, NEW p, NEW use, Owns(m, use)
  PROVE  Act(m, use, p, m, use)
BY DEF Act, SameHalf

-----------------------------------------------------------------------------
(* Nothing is taken back from one machine to the next.                     *)
LEMMA GrowsOn ==
  ASSUME NEW l, NEW m, NEW n, Grows(l, m), Grows(m, n)
  PROVE  Grows(l, n)
BY DEF Grows

(* A machine that nothing was done to.                                     *)
LEMMA GrowsNot ==
  ASSUME NEW m, Base(m)
  PROVE  Grows(m, m)
BY DEF Grows

(* A machine that has frames left had some before.                         *)
LEMMA FramesLeft ==
  ASSUME NEW m, NEW n, Base(m), Grows(m, n), n.handed # Frames
  PROVE  m.handed # Frames
BY DEF Grows, Base

(* pmm_alloc_page answers with a frame that was free, or there was none.   *)
LEMMA AllocatedGrows ==
  ASSUME NEW m, Base(m)
  PROVE  /\ Grows(m, Allocated(m)) /\ Allocated(m).mem = m.mem
         /\ Allocated(m).handed # Frames =>
              /\ Allocated(m).answer \in Frames \ m.handed
              /\ Allocated(m).handed = m.handed \cup {Allocated(m).answer}
<1> DEFINE free == Frames \ m.handed
           f == IF free = {} THEN NULL ELSE Min(free)
<1>1. free # {} => Min(free) \in free
  <2>1. free \in SUBSET Nat
    BY PagingAssumption
  <2> HIDE DEF free
  <2> QED
    BY <2>1, LeastNumber
<1>2. /\ Allocated(m).mem = m.mem /\ Allocated(m).answer = f
      /\ Allocated(m).handed = m.handed \cup ({f} \cap free)
  BY DEF Allocated
<1>3. free = {} => m.handed = Frames /\ Allocated(m).handed = Frames
  BY <1>2 DEF Base
<1>4. free # {} => f \in free /\ {f} \cap free = {f}
  BY <1>1
<1> QED
  BY <1>2, <1>3, <1>4 DEF Grows, Base

(* A frame is filled with a content, and no other frame changes.           *)
LEMMA FillGrows ==
  ASSUME NEW m, NEW f, NEW content, Base(m)
  PROVE  /\ Grows(m, Fill(m, f, content))
         /\ Fill(m, f, content).handed = m.handed
         /\ Fill(m, f, content).answer = m.answer
         /\ f \in Frames \cup {NULL} => Fill(m, f, content).mem[f] = content
         /\ \A g \in Frames \cup {NULL} : g # f => Fill(m, f, content).mem[g] = m.mem[g]
BY DEF Grows, Base, Fill

(* An entry is written into the table in a frame, and no other entry and   *)
(* no other frame changes.                                                 *)
LEMMA SetEntryGrows ==
  ASSUME NEW m, NEW f, NEW i, NEW e, Base(m)
  PROVE  /\ Grows(m, SetEntry(m, f, i, e))
         /\ SetEntry(m, f, i, e).handed = m.handed
         /\ SetEntry(m, f, i, e).answer = m.answer
         /\ f \in Frames \cup {NULL} =>
              LET t == SetEntry(m, f, i, e).mem[f].tab
              IN  /\ DOMAIN t = DOMAIN m.mem[f].tab \cup {i} /\ t[i] = e
                  /\ \A j \in DOMAIN m.mem[f].tab : j # i => t[j] = m.mem[f].tab[j]
                  /\ SetEntry(m, f, i, e).mem[f].data = m.mem[f].data
         /\ \A g \in Frames \cup {NULL} : g # f => SetEntry(m, f, i, e).mem[g] = m.mem[g]
<1> DEFINE content == [tab |-> With(m.mem[f].tab, i, e), data |-> m.mem[f].data]
<1>1. SetEntry(m, f, i, e) = Fill(m, f, content)
  BY DEF SetEntry
<1>2. /\ DOMAIN content.tab = DOMAIN m.mem[f].tab \cup {i} /\ content.tab[i] = e
      /\ \A j \in DOMAIN m.mem[f].tab : j # i => content.tab[j] = m.mem[f].tab[j]
      /\ content.data = m.mem[f].data
  BY DEF With
<1> HIDE DEF content
<1> QED
  BY <1>1, <1>2, FillGrows

(* A page table comes from pmm_alloc_page and is cleared before it is      *)
(* used: the frame is new, and what was handed out before is as it was.    *)
LEMMA AllocatedZeroedGrows ==
  ASSUME NEW m, Base(m)
  PROVE  /\ Grows(m, AllocatedZeroed(m))
         /\ AllocatedZeroed(m).handed # Frames =>
              LET f == AllocatedZeroed(m).answer
              IN  /\ f \in Frames \ m.handed
                  /\ AllocatedZeroed(m).handed = m.handed \cup {f}
                  /\ AllocatedZeroed(m).mem[f] = Zeroed
                  /\ \A g \in m.handed : AllocatedZeroed(m).mem[g] = m.mem[g]
<1> DEFINE n == Allocated(m)
<1>1. /\ Grows(m, n) /\ n.mem = m.mem
      /\ n.handed # Frames => n.answer \in Frames \ m.handed
                              /\ n.handed = m.handed \cup {n.answer}
  BY AllocatedGrows
<1>2. AllocatedZeroed(m) = Fill(n, n.answer, Zeroed)
  BY DEF AllocatedZeroed
<1> HIDE DEF n
<1>3. /\ Grows(n, AllocatedZeroed(m)) /\ AllocatedZeroed(m).handed = n.handed
      /\ AllocatedZeroed(m).answer = n.answer
      /\ n.answer \in Frames \cup {NULL} => AllocatedZeroed(m).mem[n.answer] = Zeroed
      /\ \A g \in Frames \cup {NULL} :
           g # n.answer => AllocatedZeroed(m).mem[g] = n.mem[g]
  BY <1>1, <1>2, FillGrows DEF Grows
<1>4. m.handed \subseteq Frames
  BY DEF Base
<1> QED
  BY <1>1, <1>3, <1>4, GrowsOn

-----------------------------------------------------------------------------
(***************************************************************************)
(* The steps page tables are built in, each an action of the process whose *)
(* frames they are.                                                        *)
(***************************************************************************)

(* The frame f is handed out for the use u, which is one of process p: it  *)
(* holds an empty table, or it is not for a table at all.                  *)
Gives(m, n, f, p, u) ==
  /\ f \notin m.handed /\ n.handed = m.handed \cup {f}
  /\ \A g \in m.handed : n.mem[g] = m.mem[g]
  /\ u[1] = p
  /\ \A q : u = Directory(q) =>
       \A i \in DOMAIN n.mem[f].tab : i \in Nat /\ i \in Common /\ q # 0
  /\ \A q, i : u = Table(q, i) => DOMAIN n.mem[f].tab = {}

(* To hand out a frame is an action of the process it is for.              *)
LEMMA NewFrame ==
  ASSUME NEW m, NEW n, NEW use, NEW p, NEW u, NEW f, Owns(m, use), Gives(m, n, f, p, u)
  PROVE  \E after : Act(m, use, p, n, after) /\ after[f] = u
<1> USE DEF Gives
<1> DEFINE after == [g \in DOMAIN use \cup {f} |-> IF g = f THEN u ELSE use[g]]
<1>1. /\ DOMAIN after = n.handed /\ DOMAIN after = DOMAIN use \cup {f}
      /\ DOMAIN use = m.handed /\ f \notin DOMAIN use
      /\ after[f] = u /\ \A g \in DOMAIN use : after[g] = use[g]
  BY DEF Owns
<1> HIDE DEF after
<1>2. ASSUME NEW g \in DOMAIN use
      PROVE  /\ \A q : after[g] = Directory(q) =>
                  \A i \in DOMAIN n.mem[g].tab :
                    /\ i \in Nat
                    /\ q = 0 \/ i \notin Common =>
                         /\ n.mem[g].tab[i].frame \in DOMAIN after
                         /\ after[n.mem[g].tab[i].frame] = Table(q, i)
             /\ \A q, i : after[g] = Table(q, i) =>
                  \A j \in DOMAIN n.mem[g].tab :
                    q # 0 \/ "user" \in n.mem[g].tab[j].flags =>
                      /\ j \in 0..(PAGE_ENTRIES - 1)
                      /\ n.mem[g].tab[j].frame \in DOMAIN after
                      /\ after[n.mem[g].tab[j].frame] = Page(q, i, j)
  <2>1. n.mem[g] = m.mem[g] /\ after[g] = use[g] /\ Agrees(m.mem, use)
    BY <1>1 DEF Owns
  <2> QED
    BY <1>1, <2>1 DEF Agrees
<1>3. Agrees(n.mem, after)
  <2>1. \A q : u = Directory(q) =>
          \A i \in DOMAIN n.mem[f].tab : i \in Nat /\ q # 0 /\ i \in Common
    OBVIOUS
  <2>2. /\ \A q : after[f] = Directory(q) =>
             \A i \in DOMAIN n.mem[f].tab :
               /\ i \in Nat
               /\ q = 0 \/ i \notin Common =>
                    /\ n.mem[f].tab[i].frame \in DOMAIN after
                    /\ after[n.mem[f].tab[i].frame] = Table(q, i)
        /\ \A q, i : after[f] = Table(q, i) => DOMAIN n.mem[f].tab = {}
    BY <1>1, <2>1
  <2> SUFFICES ASSUME NEW g \in DOMAIN after
               PROVE  /\ \A q : after[g] = Directory(q) =>
                           \A i \in DOMAIN n.mem[g].tab :
                             /\ i \in Nat
                             /\ q = 0 \/ i \notin Common =>
                                  /\ n.mem[g].tab[i].frame \in DOMAIN after
                                  /\ after[n.mem[g].tab[i].frame] = Table(q, i)
                      /\ \A q, i : after[g] = Table(q, i) =>
                           \A j \in DOMAIN n.mem[g].tab :
                             q # 0 \/ "user" \in n.mem[g].tab[j].flags =>
                               /\ j \in 0..(PAGE_ENTRIES - 1)
                               /\ n.mem[g].tab[j].frame \in DOMAIN after
                               /\ after[n.mem[g].tab[j].frame] = Page(q, i, j)
    BY DEF Agrees
  <2>3. CASE g \in DOMAIN use
    BY <1>2, <2>3
  <2>4. CASE g = f
    BY <2>2, <2>4
  <2> QED
    BY <1>1, <2>3, <2>4
<1>4. Act(m, use, p, n, after)
  BY <1>1, <1>3 DEF Act, Owns, SameHalf
<1> QED
  BY <1>1, <1>4

(* A directory is given another entry, for a table of the same process.    *)
LEMMA EnterTable ==
  ASSUME NEW m, Base(m), NEW use, Owns(m, use), NEW p, NEW i, NEW e,
         NEW d \in DOMAIN use, use[d] = Directory(p),
         e.frame \in DOMAIN use, use[e.frame] = Table(p, i),
         i \in Nat, p # 0 => i \notin Common
  PROVE  Act(m, use, p, SetEntry(m, d, i, e), use)
<1> DEFINE n == SetEntry(m, d, i, e)
<1>1. /\ DOMAIN use = m.handed /\ d \in Frames \cup {NULL}
      /\ DOMAIN use \subseteq Frames \cup {NULL}
  BY DEF Owns, Base
<1>2. /\ n.handed = m.handed
      /\ DOMAIN n.mem[d].tab = DOMAIN m.mem[d].tab \cup {i} /\ n.mem[d].tab[i] = e
      /\ \A j \in DOMAIN m.mem[d].tab : j # i => n.mem[d].tab[j] = m.mem[d].tab[j]
      /\ \A g \in DOMAIN use : g # d => n.mem[g] = m.mem[g]
  BY <1>1, SetEntryGrows
<1> HIDE DEF n
<1>3. Agrees(n.mem, use)
  <2>1. /\ \A q : use[d] = Directory(q) =>
             \A j \in DOMAIN n.mem[d].tab :
               /\ j \in Nat
               /\ q = 0 \/ j \notin Common =>
                    /\ n.mem[d].tab[j].frame \in DOMAIN use
                    /\ use[n.mem[d].tab[j].frame] = Table(q, j)
        /\ \A q, j : use[d] # Table(q, j)
    <3>1. /\ \A q : use[d] = Directory(q) => q = p
          /\ \A q, j : use[d] # Table(q, j)
      BY DEF Directory, Table
    <3>2. ASSUME NEW j \in DOMAIN n.mem[d].tab
          PROVE  /\ j \in Nat
                 /\ p = 0 \/ j \notin Common =>
                      /\ n.mem[d].tab[j].frame \in DOMAIN use
                      /\ use[n.mem[d].tab[j].frame] = Table(p, j)
      BY <1>2 DEF Owns, Agrees
    <3> QED
      BY <3>1, <3>2
  <2> QED
    BY <1>2, <2>1 DEF Owns, Agrees
<1>4. p # 0 => SameHalf(n.mem[d].tab, m.mem[d].tab)
  <2> SUFFICES ASSUME i \notin Common, NEW j \in Common
               PROVE  /\ j \in DOMAIN n.mem[d].tab <=> j \in DOMAIN m.mem[d].tab
                      /\ j \in DOMAIN m.mem[d].tab => n.mem[d].tab[j] = m.mem[d].tab[j]
    BY DEF SameHalf
  <2> QED
    BY <1>2
<1>5. \A g \in DOMAIN use : use[g] = Directory(p) /\ p # 0 =>
        SameHalf(n.mem[g].tab, m.mem[g].tab)
  BY <1>2, <1>4 DEF SameHalf
<1>6. use[d][1] = p
  BY DEF Directory
<1>7. Act(m, use, p, n, use)
  BY <1>1, <1>2, <1>3, <1>5, <1>6 DEF Act, Owns
<1> QED
  BY <1>7 DEF n

(* A table is given another entry, for a page of the same process; what    *)
(* the kernel's tables map is up to the kernel.                            *)
LEMMA EnterPage ==
  ASSUME NEW m, Base(m), NEW use, Owns(m, use), NEW p, NEW i, NEW j, NEW e,
         NEW t \in DOMAIN use, use[t] = Table(p, i),
         p # 0 \/ "user" \in e.flags =>
           /\ j \in 0..(PAGE_ENTRIES - 1)
           /\ e.frame \in DOMAIN use /\ use[e.frame] = Page(p, i, j)
  PROVE  Act(m, use, p, SetEntry(m, t, j, e), use)
<1> DEFINE n == SetEntry(m, t, j, e)
<1>1. /\ DOMAIN use = m.handed /\ t \in Frames \cup {NULL}
      /\ DOMAIN use \subseteq Frames \cup {NULL}
  BY DEF Owns, Base
<1>2. /\ n.handed = m.handed
      /\ DOMAIN n.mem[t].tab = DOMAIN m.mem[t].tab \cup {j} /\ n.mem[t].tab[j] = e
      /\ \A k \in DOMAIN m.mem[t].tab : k # j => n.mem[t].tab[k] = m.mem[t].tab[k]
      /\ \A g \in DOMAIN use : g # t => n.mem[g] = m.mem[g]
  BY <1>1, SetEntryGrows
<1> HIDE DEF n
<1>3. Agrees(n.mem, use)
  <2>1. /\ \A q, h : use[t] = Table(q, h) =>
             \A k \in DOMAIN n.mem[t].tab :
               q # 0 \/ "user" \in n.mem[t].tab[k].flags =>
                 /\ k \in 0..(PAGE_ENTRIES - 1)
                 /\ n.mem[t].tab[k].frame \in DOMAIN use
                 /\ use[n.mem[t].tab[k].frame] = Page(q, h, k)
        /\ \A q : use[t] # Directory(q)
    <3>1. /\ \A q, h : use[t] = Table(q, h) => q = p /\ h = i
          /\ \A q : use[t] # Directory(q)
      BY DEF Directory, Table
    <3>2. ASSUME NEW k \in DOMAIN n.mem[t].tab,
                 p # 0 \/ "user" \in n.mem[t].tab[k].flags
          PROVE  /\ k \in 0..(PAGE_ENTRIES - 1)
                 /\ n.mem[t].tab[k].frame \in DOMAIN use
                 /\ use[n.mem[t].tab[k].frame] = Page(p, i, k)
      BY <1>2, <3>2 DEF Owns, Agrees
    <3> QED
      BY <3>1, <3>2
  <2> QED
    BY <1>2, <2>1 DEF Owns, Agrees
<1>4. /\ \A g \in DOMAIN use : use[g] = Directory(p) => g # t
      /\ use[t][1] = p
  BY DEF Directory, Table
<1>5. Act(m, use, p, n, use)
  BY <1>1, <1>2, <1>3, <1>4 DEF Act, Owns, SameHalf
<1> QED
  BY <1>5 DEF n

(* A page is filled.                                                       *)
LEMMA FillPage ==
  ASSUME NEW m, Base(m), NEW use, Owns(m, use), NEW p, NEW i, NEW j, NEW content,
         NEW f \in DOMAIN use, use[f] = Page(p, i, j)
  PROVE  Act(m, use, p, Fill(m, f, content), use)
<1> DEFINE n == Fill(m, f, content)
<1>1. /\ DOMAIN use = m.handed /\ DOMAIN use \subseteq Frames \cup {NULL}
  BY DEF Owns, Base
<1>2. n.handed = m.handed /\ \A g \in DOMAIN use : g # f => n.mem[g] = m.mem[g]
  BY <1>1, FillGrows
<1> HIDE DEF n
<1>3. /\ \A q : use[f] # Directory(q) /\ \A h : use[f] # Table(q, h)
      /\ use[f][1] = p
  BY DEF Directory, Table, Page
<1>4. Agrees(n.mem, use)
  <2>1. Agrees(m.mem, use)
    BY DEF Owns
  <2> SUFFICES ASSUME NEW g \in DOMAIN use
               PROVE  /\ \A q : use[g] = Directory(q) =>
                           \A k \in DOMAIN n.mem[g].tab :
                             /\ k \in Nat
                             /\ q = 0 \/ k \notin Common =>
                                  /\ n.mem[g].tab[k].frame \in DOMAIN use
                                  /\ use[n.mem[g].tab[k].frame] = Table(q, k)
                      /\ \A q, h : use[g] = Table(q, h) =>
                           \A k \in DOMAIN n.mem[g].tab :
                             q # 0 \/ "user" \in n.mem[g].tab[k].flags =>
                               /\ k \in 0..(PAGE_ENTRIES - 1)
                               /\ n.mem[g].tab[k].frame \in DOMAIN use
                               /\ use[n.mem[g].tab[k].frame] = Page(q, h, k)
    BY DEF Agrees
  <2>2. CASE g = f
    BY <1>3, <2>2
  <2>3. CASE g # f
    BY <1>2, <2>1, <2>3 DEF Agrees
  <2> QED
    BY <2>2, <2>3
<1>5. Act(m, use, p, n, use)
  BY <1>1, <1>2, <1>3, <1>4 DEF Act, Owns, SameHalf
<1> QED
  BY <1>5 DEF n

(* pmm_alloc_page for a page of process p, or for a frame that is zeroed   *)
(* and can then be anything of p's.                                        *)
LEMMA AllocatedActs ==
  ASSUME NEW m, Base(m), NEW use, Owns(m, use), NEW p, NEW i, NEW j,
         Allocated(m).handed # Frames
  PROVE  \E after : /\ Act(m, use, p, Allocated(m), after)
                    /\ Allocated(m).answer \in DOMAIN after
                    /\ after[Allocated(m).answer] = Page(p, i, j)
<1> DEFINE n == Allocated(m)
<1>1. /\ n.answer \notin m.handed /\ n.handed = m.handed \cup {n.answer}
      /\ \A g \in m.handed : n.mem[g] = m.mem[g]
  BY AllocatedGrows
<1> HIDE DEF n
<1> DEFINE u == Page(p, i, j)
<1>2. u[1] = p /\ \A q : u # Directory(q) /\ \A h : u # Table(q, h)
  BY DEF Page, Directory, Table
<1> HIDE DEF u
<1>3. Gives(m, n, n.answer, p, u)
  BY <1>1, <1>2 DEF Gives
<1>4. \E after : Act(m, use, p, n, after) /\ after[n.answer] = u
  BY <1>3, NewFrame
<1> QED
  BY <1>1, <1>4 DEF Act, Owns, n, u

(* The new frame is given a use of its own, which no frame had.            *)
LEMMA AllocatedZeroedActs ==
  ASSUME NEW m, Base(m), NEW use, Owns(m, use), NEW p, NEW u, u[1] = p,
         AllocatedZeroed(m).handed # Frames
  PROVE  \E after : /\ Act(m, use, p, AllocatedZeroed(m), after)
                    /\ AllocatedZeroed(m).answer \in DOMAIN after
                    /\ after[AllocatedZeroed(m).answer] = u
<1> DEFINE n == AllocatedZeroed(m)
<1>1. /\ n.answer \notin m.handed /\ n.handed = m.handed \cup {n.answer}
      /\ n.mem[n.answer] = Zeroed /\ \A g \in m.handed : n.mem[g] = m.mem[g]
  BY AllocatedZeroedGrows
<1>2. DOMAIN Zeroed.tab = {}
  BY DEF Zeroed
<1> HIDE DEF n
<1>3. Gives(m, n, n.answer, p, u)
  BY <1>1, <1>2 DEF Gives
<1>4. \E after : Act(m, use, p, n, after) /\ after[n.answer] = u
  BY <1>3, NewFrame
<1> QED
  BY <1>1, <1>4 DEF Act, Owns, n

(* map_page: with a table, or with a new one first.                        *)
LEMMA MapPageGrows ==
  ASSUME NEW m, Base(m), NEW pd, NEW page, NEW frame, NEW flags
  PROVE  Grows(m, map_page(m, pd, page, frame, flags))
<1> DEFINE pd_index == page \div PAGE_ENTRIES
           t == create_page_table(m)
           n == IF pd_index \in DOMAIN m.mem[pd].tab THEN m
                ELSE SetEntry(t, pd, pd_index, Entry(t.answer, {"rw", "user"}))
           pt == n.mem[pd].tab[pd_index].frame
<1>1. map_page(m, pd, page, frame, flags)
        = SetEntry(n, pt, page % PAGE_ENTRIES, Entry(frame, flags))
  BY DEF map_page
<1>2. Grows(m, t)
  BY AllocatedZeroedGrows DEF create_page_table
<1> HIDE DEF t
<1>3. Grows(m, n)
  BY <1>2, SetEntryGrows, GrowsOn, GrowsNot DEF Grows
<1> HIDE DEF n, pt
<1>4. Grows(n, map_page(m, pd, page, frame, flags))
  BY <1>1, <1>3, SetEntryGrows DEF Grows
<1> QED
  BY <1>3, <1>4, GrowsOn

(* map_page, with the page table it makes when there is none: the page of  *)
(* a process goes into the tables of that process, and the entries that    *)
(* every process is given are only written for the kernel.                 *)
LEMMA MapPageActs ==
  ASSUME NEW m, Base(m), NEW use, Owns(m, use), NEW p,
         NEW pd \in DOMAIN use, use[pd] = Directory(p),
         NEW page \in Nat, NEW frame, NEW flags,
         p = 0 => "user" \notin flags,
         p # 0 => /\ page \div PAGE_ENTRIES \notin Common
                  /\ frame \in DOMAIN use
                  /\ use[frame] = Page(p, page \div PAGE_ENTRIES, page % PAGE_ENTRIES),
         map_page(m, pd, page, frame, flags).handed # Frames
  PROVE  LET l == map_page(m, pd, page, frame, flags)
         IN  /\ Acts(m, use, p, l)
             /\ DOMAIN l.mem[pd].tab = DOMAIN m.mem[pd].tab \cup {page \div PAGE_ENTRIES}
<1> DEFINE i == page \div PAGE_ENTRIES
           j == page % PAGE_ENTRIES
           t == create_page_table(m)
           n == IF i \in DOMAIN m.mem[pd].tab THEN m
                ELSE SetEntry(t, pd, i, Entry(t.answer, {"rw", "user"}))
           pt == n.mem[pd].tab[i].frame
           l == map_page(m, pd, page, frame, flags)
<1>1. l = SetEntry(n, pt, j, Entry(frame, flags))
  BY DEF map_page
<1>2. i \in Nat /\ j \in 0..(PAGE_ENTRIES - 1)
  BY PagingAssumption
<1>3. Base(t) /\ Grows(m, t)
  BY AllocatedZeroedGrows DEF create_page_table, Grows
<1>4. \A f, g : Entry(f, g).frame = f /\ Entry(f, g).flags = g
  BY DEF Entry
<1>5. Base(n) /\ n.handed = l.handed
  <2>1. Base(n)
    BY <1>3, SetEntryGrows DEF Grows
  <2> HIDE DEF n, l, pt, j
  <2> QED
    BY <1>1, <2>1, SetEntryGrows
<1> HIDE DEF j
<1>6. PICK during : /\ Act(m, use, p, n, during)
                    /\ pt \in DOMAIN during /\ during[pt] = Table(p, i)
                    /\ DOMAIN n.mem[pd].tab = DOMAIN m.mem[pd].tab \cup {i}
  <2>1. CASE i \in DOMAIN m.mem[pd].tab
    <3>1. n = m
      BY <2>1
    <3>2. m.mem[pd].tab[i].frame \in DOMAIN use /\ use[m.mem[pd].tab[i].frame] = Table(p, i)
      BY <2>1 DEF Owns, Agrees
    <3>3. DOMAIN n.mem[pd].tab = DOMAIN m.mem[pd].tab \cup {i}
      BY <2>1, <3>1
    <3> QED
      BY <3>1, <3>2, <3>3, NoAct
  <2>2. CASE i \notin DOMAIN m.mem[pd].tab
    <3>1. n = SetEntry(t, pd, i, Entry(t.answer, {"rw", "user"}))
      BY <2>2
    <3>2. n.handed = t.handed /\ t.handed # Frames
      BY <1>3, <1>5, <3>1, SetEntryGrows
    <3> HIDE DEF i, n, l, pt
    <3>3. PICK u : /\ Act(m, use, p, t, u)
                   /\ t.answer \in DOMAIN u /\ u[t.answer] = Table(p, i)
      <4>1. Table(p, i)[1] = p
        BY DEF Table
      <4> QED
        BY <3>2, <4>1, AllocatedZeroedActs DEF create_page_table
    <3> HIDE DEF t
    <3>4. /\ Owns(t, u) /\ pd \in DOMAIN u /\ u[pd] = Directory(p)
      BY <3>3 DEF Act
    <3>5. Act(t, u, p, n, u)
      <4> DEFINE e == Entry(t.answer, {"rw", "user"})
      <4>1. e.frame = t.answer
        BY <1>4
      <4> HIDE DEF e
      <4> QED
        BY <1>2, <1>3, <3>1, <3>3, <3>4, <4>1, EnterTable DEF e, i
    <3>6. Act(m, use, p, n, u)
      BY <3>3, <3>5, ActThenAct
    <3>7. /\ n.mem[pd].tab[i].frame = t.answer
          /\ DOMAIN n.mem[pd].tab = DOMAIN m.mem[pd].tab \cup {i}
      <4>1. pd \in Frames \cup {NULL} /\ pd \in m.handed
        BY DEF Owns, Base
      <4>2. t.mem[pd] = m.mem[pd]
        BY <3>2, <4>1, AllocatedZeroedGrows DEF t, create_page_table
      <4> QED
        BY <1>3, <1>4, <3>1, <4>1, <4>2, SetEntryGrows
    <3> QED
      BY <3>3, <3>6, <3>7 DEF pt
  <2> QED
    BY <2>1, <2>2
<1> HIDE DEF n, pt
<1>7. /\ Owns(n, during)
      /\ p # 0 => /\ j \in 0..(PAGE_ENTRIES - 1)
                  /\ frame \in DOMAIN during /\ during[frame] = Page(p, i, j)
  BY <1>2, <1>6 DEF Act, j
<1> HIDE DEF i, l
<1>8. Act(n, during, p, l, during)
  <2> DEFINE e == Entry(frame, flags)
  <2>1. e.frame = frame /\ e.flags = flags /\ l = SetEntry(n, pt, j, e)
    BY <1>1, <1>4
  <2> HIDE DEF e
  <2>2. p # 0 \/ "user" \in e.flags =>
          /\ j \in 0..(PAGE_ENTRIES - 1)
          /\ e.frame \in DOMAIN during /\ during[e.frame] = Page(p, i, j)
    BY <1>7, <2>1
  <2> QED
    BY <1>5, <1>6, <1>7, <2>1, <2>2, EnterPage
<1>9. l.mem[pd] = n.mem[pd]
  <2>1. pd \in Frames \cup {NULL} /\ pd # pt
    <3>1. during[pd] = Directory(p)
      BY <1>6 DEF Act
    <3>2. pd \in Frames \cup {NULL}
      BY DEF Owns, Base
    <3> QED
      BY <1>6, <3>1, <3>2 DEF Directory, Table
  <2> QED
    BY <1>1, <1>5, <2>1, SetEntryGrows
<1>10. DOMAIN l.mem[pd].tab = DOMAIN m.mem[pd].tab \cup {page \div PAGE_ENTRIES}
  BY <1>6, <1>9 DEF i
<1>11. Acts(m, use, p, l)
  BY <1>6, <1>8, ActThenAct DEF Acts
<1> QED
  BY <1>10, <1>11 DEF l

-----------------------------------------------------------------------------
(***************************************************************************)
(* The loops, turn by turn: each is what it was before, or does its next   *)
(* piece of work on what the turns before have left.                       *)
(***************************************************************************)

(* map_physical_region, and the loop of init_pages.                        *)
RegionTurns(mapped, m, pd, page, frame, pages, flags) ==
  /\ mapped[0] = m
  /\ \A n \in 1..pages :
       mapped[n] = map_page(mapped[n - 1], pd, page + n - 1, frame + n - 1, flags)
  /\ map_region(m, pd, page, frame, pages, flags) = mapped[pages]

(* There is such a list of machines: the loop as a recursive function.     *)
LEMMA RegionLoop ==
  ASSUME NEW m, NEW pd, NEW page, NEW frame, NEW pages \in Nat, NEW flags
  PROVE  \E mapped : RegionTurns(mapped, m, pd, page, frame, pages, flags)
<1> DEFINE G(l, n) == map_page(l, pd, page + n - 1, frame + n - 1, flags)
           D(f, k) == f = [n \in 0..k |-> IF n = 0 THEN m ELSE G(f[n - 1], n)]
           S == { k \in Nat : \E f : D(f, k) }
<1>1. 0 \in S
  <2>1. D([n \in 0..0 |-> m], 0)
    OBVIOUS
  <2> QED
    BY <2>1
<1>2. ASSUME NEW k \in Nat, k \in S
      PROVE  k + 1 \in S
  <2>1. PICK f : D(f, k)
    BY <1>2
  <2> HIDE DEF G
  <2> DEFINE g == [n \in 0..(k + 1) |-> IF n <= k THEN f[n] ELSE G(f[k], n)]
  <2>2. D(g, k + 1)
    <3>1. \A n \in 0..k : f[n] = IF n = 0 THEN m ELSE G(f[n - 1], n)
      BY <2>1
    <3>2. \A n \in 0..(k + 1) : g[n] = IF n = 0 THEN m ELSE G(g[n - 1], n)
      BY <3>1
    <3> QED
      BY <3>2
  <2>3. \E h : D(h, k + 1)
    BY <2>2
  <2> QED
    BY <2>3
<1>3. pages \in S
  <2> HIDE DEF S
  <2> QED
    BY <1>1, <1>2, SetInduction, PagingAssumption
<1> DEFINE mapped == CHOOSE f : D(f, pages)
<1>4. D(mapped, pages)
  BY <1>3
<1>5. map_region(m, pd, page, frame, pages, flags) = mapped[pages]
  BY DEF map_region
<1> HIDE DEF mapped, G
<1>6. mapped[0] = m /\ \A n \in 1..pages : mapped[n] = G(mapped[n - 1], n)
  BY <1>4, PagingAssumption
<1>7. RegionTurns(mapped, m, pd, page, frame, pages, flags)
  BY <1>5, <1>6 DEF G, RegionTurns
<1> QED
  BY <1>7

(* The inner loop of copy_addr_space.                                      *)
LEMMA EntriesLoop ==
  ASSUME NEW m, NEW src_pt, NEW dst_pt
  PROVE  \E done :
           /\ done[0] = m
           /\ \A n \in 1..PAGE_ENTRIES : done[n] = entry_done(done[n - 1], src_pt, dst_pt, n - 1)
           /\ copy_entries(m, src_pt, dst_pt) = done[PAGE_ENTRIES]
<1> DEFINE G(l, n) == entry_done(l, src_pt, dst_pt, n - 1)
           D(f, k) == f = [n \in 0..k |-> IF n = 0 THEN m ELSE G(f[n - 1], n)]
           S == { k \in Nat : \E f : D(f, k) }
<1>1. 0 \in S
  <2>1. D([n \in 0..0 |-> m], 0)
    OBVIOUS
  <2> QED
    BY <2>1
<1>2. ASSUME NEW k \in Nat, k \in S
      PROVE  k + 1 \in S
  <2>1. PICK f : D(f, k)
    BY <1>2
  <2> HIDE DEF G
  <2> DEFINE g == [n \in 0..(k + 1) |-> IF n <= k THEN f[n] ELSE G(f[k], n)]
  <2>2. D(g, k + 1)
    <3>1. \A n \in 0..k : f[n] = IF n = 0 THEN m ELSE G(f[n - 1], n)
      BY <2>1
    <3>2. \A n \in 0..(k + 1) : g[n] = IF n = 0 THEN m ELSE G(g[n - 1], n)
      BY <3>1
    <3> QED
      BY <3>2
  <2>3. \E h : D(h, k + 1)
    BY <2>2
  <2> QED
    BY <2>3
<1>3. PAGE_ENTRIES \in S
  <2> HIDE DEF S
  <2> QED
    BY <1>1, <1>2, SetInduction, PagingAssumption
<1> DEFINE done == CHOOSE f : D(f, PAGE_ENTRIES)
<1>4. D(done, PAGE_ENTRIES)
  BY <1>3
<1>5. copy_entries(m, src_pt, dst_pt) = done[PAGE_ENTRIES]
  BY DEF copy_entries
<1> HIDE DEF done, G
<1>6. done[0] = m /\ \A n \in 1..PAGE_ENTRIES : done[n] = G(done[n - 1], n)
  BY <1>4, PagingAssumption
<1> QED
  BY <1>5, <1>6 DEF G

(* The outer one.                                                          *)
LEMMA TablesLoop ==
  ASSUME NEW m, NEW src_pd, NEW dst_pd
  PROVE  \E done :
           /\ done[0] = m
           /\ \A n \in 1..KERNEL_PD_INDEX : done[n] = table_done(done[n - 1], src_pd, dst_pd, n - 1)
           /\ copy_addr_space(m, src_pd, dst_pd) = done[KERNEL_PD_INDEX]
<1> DEFINE G(l, n) == table_done(l, src_pd, dst_pd, n - 1)
           D(f, k) == f = [n \in 0..k |-> IF n = 0 THEN m ELSE G(f[n - 1], n)]
           S == { k \in Nat : \E f : D(f, k) }
<1>1. 0 \in S
  <2>1. D([n \in 0..0 |-> m], 0)
    OBVIOUS
  <2> QED
    BY <2>1
<1>2. ASSUME NEW k \in Nat, k \in S
      PROVE  k + 1 \in S
  <2>1. PICK f : D(f, k)
    BY <1>2
  <2> HIDE DEF G
  <2> DEFINE g == [n \in 0..(k + 1) |-> IF n <= k THEN f[n] ELSE G(f[k], n)]
  <2>2. D(g, k + 1)
    <3>1. \A n \in 0..k : f[n] = IF n = 0 THEN m ELSE G(f[n - 1], n)
      BY <2>1
    <3>2. \A n \in 0..(k + 1) : g[n] = IF n = 0 THEN m ELSE G(g[n - 1], n)
      BY <3>1
    <3> QED
      BY <3>2
  <2>3. \E h : D(h, k + 1)
    BY <2>2
  <2> QED
    BY <2>3
<1>3. KERNEL_PD_INDEX \in S
  <2> HIDE DEF S
  <2> QED
    BY <1>1, <1>2, SetInduction, PagingAssumption
<1> DEFINE done == CHOOSE f : D(f, KERNEL_PD_INDEX)
<1>4. D(done, KERNEL_PD_INDEX)
  BY <1>3
<1>5. copy_addr_space(m, src_pd, dst_pd) = done[KERNEL_PD_INDEX]
  BY DEF copy_addr_space
<1> HIDE DEF done, G
<1>6. done[0] = m /\ \A n \in 1..KERNEL_PD_INDEX : done[n] = G(done[n - 1], n)
  BY <1>4, PagingAssumption
<1> QED
  BY <1>5, <1>6 DEF G

-----------------------------------------------------------------------------
(* What the loops make of a machine takes nothing back ...                 *)
LEMMA RegionGrows ==
  ASSUME NEW m, Base(m), NEW pd, NEW page, NEW frame, NEW pages \in Nat, NEW flags
  PROVE  Grows(m, map_region(m, pd, page, frame, pages, flags))
<1>0. PICK mapped : RegionTurns(mapped, m, pd, page, frame, pages, flags)
  BY RegionLoop
<1>1. /\ mapped[0] = m
      /\ \A n \in 1..pages :
           mapped[n] = map_page(mapped[n - 1], pd, page + n - 1, frame + n - 1, flags)
      /\ map_region(m, pd, page, frame, pages, flags) = mapped[pages]
  BY <1>0 DEF RegionTurns
<1> DEFINE S == { n \in Nat : n <= pages => Grows(m, mapped[n]) }
<1>2. 0 \in S
  BY <1>1, GrowsNot
<1>3. \A n \in Nat : n \in S => n + 1 \in S
  <2> SUFFICES ASSUME NEW n \in Nat, n + 1 <= pages, Grows(m, mapped[n])
               PROVE  Grows(m, mapped[n + 1])
    OBVIOUS
  <2>1. mapped[n + 1] = map_page(mapped[n], pd, page + (n + 1) - 1, frame + (n + 1) - 1, flags)
    <3>1. n + 1 \in 1..pages /\ (n + 1) - 1 = n
      OBVIOUS
    <3> QED
      BY <1>1, <3>1
  <2>2. Grows(mapped[n], mapped[n + 1])
    BY <2>1, MapPageGrows DEF Grows
  <2> QED
    BY <2>2, GrowsOn
<1> HIDE DEF S
<1>4. pages \in S
  BY <1>2, <1>3, SetInduction
<1> QED
  BY <1>1, <1>4 DEF S

(* copy_addr_space, one entry of a table: handed frames only grow.         *)
LEMMA CopyEntryGrows ==
  ASSUME NEW m, Base(m), NEW src_pt, NEW dst_pt, NEW pt_i
  PROVE  Grows(m, entry_done(m, src_pt, dst_pt, pt_i))
<1> DEFINE n == Allocated(m)
           c == copy_page(n, n.mem[src_pt].tab[pt_i].frame, n.answer)
           e == SetEntry(c, dst_pt, pt_i, Entry(n.answer, {"rw", "user"}))
<1>1. copy_entry(m, src_pt, dst_pt, pt_i) = e
  BY DEF copy_entry
<1>2. Grows(m, n)
  BY AllocatedGrows
<1> HIDE DEF n
<1>3. Grows(n, c)
  BY <1>2, FillGrows DEF Grows, copy_page
<1> HIDE DEF c
<1>4. Grows(c, e)
  BY <1>3, SetEntryGrows DEF Grows
<1> HIDE DEF e
<1>5. Grows(m, e)
  BY <1>2, <1>3, <1>4, GrowsOn
<1> QED
  BY <1>1, <1>5, GrowsNot DEF entry_done

(* The same for all entries of a table.                                    *)
LEMMA EntriesGrow ==
  ASSUME NEW m, Base(m), NEW src_pt, NEW dst_pt
  PROVE  Grows(m, copy_entries(m, src_pt, dst_pt))
<1>1. PICK done :
        /\ done[0] = m
        /\ \A n \in 1..PAGE_ENTRIES : done[n] = entry_done(done[n - 1], src_pt, dst_pt, n - 1)
        /\ copy_entries(m, src_pt, dst_pt) = done[PAGE_ENTRIES]
  BY EntriesLoop
<1> DEFINE S == { n \in Nat : n <= PAGE_ENTRIES => Grows(m, done[n]) }
<1>2. 0 \in S
  BY <1>1, GrowsNot
<1>3. \A n \in Nat : n \in S => n + 1 \in S
  <2> SUFFICES ASSUME NEW n \in Nat, n + 1 <= PAGE_ENTRIES, Grows(m, done[n])
               PROVE  Grows(m, done[n + 1])
    BY PagingAssumption
  <2>1. done[n + 1] = entry_done(done[n], src_pt, dst_pt, n)
    <3>1. n + 1 \in 1..PAGE_ENTRIES /\ (n + 1) - 1 = n
      BY PagingAssumption
    <3> QED
      BY <1>1, <3>1
  <2>2. Grows(done[n], done[n + 1])
    BY <2>1, CopyEntryGrows DEF Grows
  <2> QED
    BY <2>2, GrowsOn
<1> HIDE DEF S
<1>4. PAGE_ENTRIES \in S
  BY <1>2, <1>3, SetInduction, PagingAssumption
<1> QED
  BY <1>1, <1>4, PagingAssumption DEF S

(* The same for an entry of the directory.                                 *)
LEMMA CopyTableGrows ==
  ASSUME NEW m, Base(m), NEW src_pd, NEW dst_pd, NEW pd_i
  PROVE  Grows(m, table_done(m, src_pd, dst_pd, pd_i))
<1> DEFINE src_pt == m.mem[src_pd].tab[pd_i].frame
           t == AllocatedZeroed(m)
           n == SetEntry(t, dst_pd, pd_i, Entry(t.answer, {"rw", "user"}))
           c == copy_entries(n, src_pt, t.answer)
<1>1. copy_table(m, src_pd, dst_pd, pd_i) = c
  BY DEF copy_table
<1>2. Grows(m, t)
  BY AllocatedZeroedGrows
<1> HIDE DEF t, src_pt
<1>3. Grows(t, n)
  BY <1>2, SetEntryGrows DEF Grows
<1> HIDE DEF n
<1>4. Grows(n, c)
  BY <1>3, EntriesGrow DEF Grows
<1> HIDE DEF c
<1>5. Grows(m, c)
  BY <1>2, <1>3, <1>4, GrowsOn
<1> QED
  BY <1>1, <1>5, GrowsNot DEF table_done

(* The same for the whole of copy_addr_space.                              *)
LEMMA TablesGrow ==
  ASSUME NEW m, Base(m), NEW src_pd, NEW dst_pd
  PROVE  Grows(m, copy_addr_space(m, src_pd, dst_pd))
<1>1. PICK done :
        /\ done[0] = m
        /\ \A n \in 1..KERNEL_PD_INDEX : done[n] = table_done(done[n - 1], src_pd, dst_pd, n - 1)
        /\ copy_addr_space(m, src_pd, dst_pd) = done[KERNEL_PD_INDEX]
  BY TablesLoop
<1> DEFINE S == { n \in Nat : n <= KERNEL_PD_INDEX => Grows(m, done[n]) }
<1>2. 0 \in S
  BY <1>1, GrowsNot
<1>3. \A n \in Nat : n \in S => n + 1 \in S
  <2> SUFFICES ASSUME NEW n \in Nat, n + 1 <= KERNEL_PD_INDEX, Grows(m, done[n])
               PROVE  Grows(m, done[n + 1])
    BY PagingAssumption
  <2>1. done[n + 1] = table_done(done[n], src_pd, dst_pd, n)
    <3>1. n + 1 \in 1..KERNEL_PD_INDEX /\ (n + 1) - 1 = n
      BY PagingAssumption
    <3> QED
      BY <1>1, <3>1
  <2>2. Grows(done[n], done[n + 1])
    BY <2>1, CopyTableGrows DEF Grows
  <2> QED
    BY <2>2, GrowsOn
<1> HIDE DEF S
<1>4. KERNEL_PD_INDEX \in S
  BY <1>2, <1>3, SetInduction, PagingAssumption
<1> QED
  BY <1>1, <1>4, PagingAssumption DEF S

-----------------------------------------------------------------------------
(* A run of pages is mapped by one entry after the other.                  *)
LEMMA MappedOneMore ==
  ASSUME NEW page \in Nat, NEW n \in Nat
  PROVE  /\ Mapped(page, 0) = {}
         /\ Mapped(page, n + 1) = Mapped(page, n) \cup {(page + n) \div PAGE_ENTRIES}
<1>1. 0..(0 - 1) = {} /\ 0..((n + 1) - 1) = 0..(n - 1) \cup {n}
  OBVIOUS
<1> QED
  BY <1>1 DEF Mapped

(* ... and is an action of the process they work for.                      *)
LEMMA RegionActs ==
  ASSUME NEW m, Base(m), NEW use, Owns(m, use),
         NEW pd \in DOMAIN use, use[pd] = Directory(0),
         NEW page, page \in Nat, NEW frame, NEW pages \in Nat,
         NEW flags, "user" \notin flags,
         map_region(m, pd, page, frame, pages, flags).handed # Frames
  PROVE  LET l == map_region(m, pd, page, frame, pages, flags)
         IN  /\ Acts(m, use, 0, l)
             /\ DOMAIN l.mem[pd].tab = DOMAIN m.mem[pd].tab \cup Mapped(page, pages)
<1>0. PICK mapped : RegionTurns(mapped, m, pd, page, frame, pages, flags)
  BY RegionLoop
<1>1. /\ mapped[0] = m
      /\ \A n \in 1..pages :
           mapped[n] = map_page(mapped[n - 1], pd, page + n - 1, frame + n - 1, flags)
      /\ map_region(m, pd, page, frame, pages, flags) = mapped[pages]
  BY <1>0 DEF RegionTurns
<1> DEFINE Done(n) ==
             /\ Acts(m, use, 0, mapped[n])
             /\ DOMAIN mapped[n].mem[pd].tab = DOMAIN m.mem[pd].tab \cup Mapped(page, n)
           S == { n \in Nat : n <= pages => /\ Base(mapped[n])
                                            /\ mapped[n].handed # Frames => Done(n) }
<1>2. 0 \in S
  <2>1. Mapped(page, 0) = {}
    BY MappedOneMore
  <2> QED
    BY <1>1, <2>1, NoAct DEF Acts
<1>3. \A n \in Nat : n \in S => n + 1 \in S
  <2> SUFFICES ASSUME NEW n \in Nat, n + 1 <= pages, Base(mapped[n]),
                      mapped[n].handed # Frames => Done(n)
               PROVE  /\ Base(mapped[n + 1])
                      /\ mapped[n + 1].handed # Frames => Done(n + 1)
    OBVIOUS
  <2> DEFINE a == page + (n + 1) - 1
             b == frame + (n + 1) - 1
  <2>1. mapped[n + 1] = map_page(mapped[n], pd, a, b, flags)
    <3>1. n + 1 \in 1..pages /\ (n + 1) - 1 = n
      OBVIOUS
    <3> QED
      BY <1>1, <3>1
  <2>2. a \in Nat /\ Mapped(page, n + 1) = Mapped(page, n) \cup {a \div PAGE_ENTRIES}
    <3>1. a = page + n
      OBVIOUS
    <3> HIDE DEF a
    <3> QED
      BY <3>1, MappedOneMore
  <2> HIDE DEF a, b
  <2>3. Grows(mapped[n], mapped[n + 1])
    BY <2>1, MapPageGrows
  <2>4. ASSUME mapped[n + 1].handed # Frames PROVE Done(n + 1)
    <3>0. Done(n)
      BY <2>3, <2>4, FramesLeft
    <3>1. PICK during : Act(m, use, 0, mapped[n], during)
      BY <3>0 DEF Acts
    <3>2. Owns(mapped[n], during) /\ pd \in DOMAIN during /\ during[pd] = Directory(0)
      BY <3>1 DEF Act
    <3>3. /\ Acts(mapped[n], during, 0, mapped[n + 1])
          /\ DOMAIN mapped[n + 1].mem[pd].tab
               = DOMAIN mapped[n].mem[pd].tab \cup {a \div PAGE_ENTRIES}
      BY <2>1, <2>2, <2>4, <3>2, MapPageActs
    <3>4. Acts(m, use, 0, mapped[n + 1])
      <4>1. PICK after : Act(mapped[n], during, 0, mapped[n + 1], after)
        BY ONLY <3>3 DEF Acts
      <4>2. Act(m, use, 0, mapped[n + 1], after)
        BY ONLY <3>1, <4>1, ActThenAct
      <4> QED
        BY ONLY <4>2 DEF Acts
    <3>5. DOMAIN mapped[n + 1].mem[pd].tab = DOMAIN m.mem[pd].tab \cup Mapped(page, n + 1)
      BY ONLY <2>2, <3>0, <3>3
    <3> QED
      BY <3>4, <3>5
  <2> QED
    BY <2>3, <2>4 DEF Grows
<1> HIDE DEF S
<1>4. pages \in S
  BY <1>2, <1>3, SetInduction
<1> QED
  BY <1>1, <1>4 DEF S

(* copy_addr_space, one entry of a table: the page it allocates is a page  *)
(* of the process that is created, at the place it is entered.             *)
LEMMA CopyEntryActs ==
  ASSUME NEW m, Base(m), NEW use, Owns(m, use), NEW p, NEW i, NEW src_pt,
         NEW dst_pt \in DOMAIN use, use[dst_pt] = Table(p, i),
         NEW pt_i \in 0..(PAGE_ENTRIES - 1),
         entry_done(m, src_pt, dst_pt, pt_i).handed # Frames
  PROVE  Acts(m, use, p, entry_done(m, src_pt, dst_pt, pt_i))
<1> DEFINE n == Allocated(m)
           page == n.mem[n.mem[src_pt].tab[pt_i].frame]
           c == Fill(n, n.answer, page)
           e == Entry(n.answer, {"rw", "user"})
           l == SetEntry(c, dst_pt, pt_i, e)
<1>1. CASE pt_i \notin DOMAIN m.mem[src_pt].tab
  BY <1>1, NoAct DEF entry_done, Acts
<1>2. CASE pt_i \in DOMAIN m.mem[src_pt].tab
  <2>1. entry_done(m, src_pt, dst_pt, pt_i) = l
    BY <1>2 DEF entry_done, copy_entry, copy_page
  <2>2. Base(n)
    BY AllocatedGrows DEF Grows
  <2>3. e.frame = n.answer
    BY DEF Entry
  <2> HIDE DEF n, page, e
  <2>4. Base(c) /\ c.handed = n.handed
    BY <2>2, FillGrows DEF Grows
  <2> HIDE DEF c
  <2>5. l.handed = c.handed
    BY <2>4, SetEntryGrows
  <2> HIDE DEF l
  <2>6. PICK after : /\ Act(m, use, p, n, after)
                     /\ n.answer \in DOMAIN after /\ after[n.answer] = Page(p, i, pt_i)
    BY <2>1, <2>4, <2>5, AllocatedActs DEF n
  <2>7. Owns(n, after) /\ dst_pt \in DOMAIN after /\ after[dst_pt] = Table(p, i)
    BY <2>6 DEF Act
  <2>8. Act(n, after, p, c, after)
    BY <2>2, <2>6, <2>7, FillPage DEF c
  <2>9. Act(c, after, p, l, after)
    <3>1. Owns(c, after)
      BY <2>8 DEF Act
    <3>2. e.frame \in DOMAIN after /\ after[e.frame] = Page(p, i, pt_i)
      BY <2>3, <2>6
    <3> QED
      BY <2>4, <2>7, <3>1, <3>2, EnterPage DEF l
  <2>10. Act(m, use, p, c, after)
    BY <2>6, <2>8, ActThenAct
  <2>11. Act(m, use, p, l, after)
    BY <2>9, <2>10, ActThenAct
  <2> QED
    BY <2>1, <2>11 DEF Acts
<1> QED
  BY <1>1, <1>2

(* The same for all entries of a table.                                    *)
LEMMA EntriesAct ==
  ASSUME NEW m, Base(m), NEW use, Owns(m, use), NEW p, NEW i, NEW src_pt,
         NEW dst_pt \in DOMAIN use, use[dst_pt] = Table(p, i),
         copy_entries(m, src_pt, dst_pt).handed # Frames
  PROVE  Acts(m, use, p, copy_entries(m, src_pt, dst_pt))
<1>1. PICK done :
        /\ done[0] = m
        /\ \A n \in 1..PAGE_ENTRIES : done[n] = entry_done(done[n - 1], src_pt, dst_pt, n - 1)
        /\ copy_entries(m, src_pt, dst_pt) = done[PAGE_ENTRIES]
  BY EntriesLoop
<1> DEFINE S == { n \in Nat : n <= PAGE_ENTRIES => /\ Base(done[n])
                                                   /\ done[n].handed # Frames =>
                                                        Acts(m, use, p, done[n]) }
<1>2. 0 \in S
  BY <1>1, NoAct DEF Acts
<1>3. \A n \in Nat : n \in S => n + 1 \in S
  <2> SUFFICES ASSUME NEW n \in Nat, n + 1 <= PAGE_ENTRIES, Base(done[n]),
                      done[n].handed # Frames => Acts(m, use, p, done[n])
               PROVE  /\ Base(done[n + 1])
                      /\ done[n + 1].handed # Frames => Acts(m, use, p, done[n + 1])
    BY PagingAssumption
  <2>1. done[n + 1] = entry_done(done[n], src_pt, dst_pt, n)
    <3>1. n + 1 \in 1..PAGE_ENTRIES /\ (n + 1) - 1 = n
      BY PagingAssumption
    <3> QED
      BY <1>1, <3>1
  <2>2. n \in 0..(PAGE_ENTRIES - 1)
    BY PagingAssumption
  <2>3. Grows(done[n], done[n + 1])
    BY <2>1, CopyEntryGrows
  <2>4. ASSUME done[n + 1].handed # Frames PROVE Acts(m, use, p, done[n + 1])
    <3>1. PICK during : Act(m, use, p, done[n], during)
      BY <2>3, <2>4, FramesLeft DEF Acts
    <3>2. Owns(done[n], during) /\ dst_pt \in DOMAIN during /\ during[dst_pt] = Table(p, i)
      BY <3>1 DEF Act
    <3>3. Acts(done[n], during, p, done[n + 1])
      BY <2>1, <2>2, <2>4, <3>2, CopyEntryActs
    <3> QED
      BY <3>1, <3>3, ActThenAct DEF Acts
  <2> QED
    BY <2>3, <2>4 DEF Grows
<1> HIDE DEF S
<1>4. PAGE_ENTRIES \in S
  BY <1>2, <1>3, SetInduction, PagingAssumption
<1> QED
  BY <1>1, <1>4, PagingAssumption DEF S

(* An entry of the directory: the table it allocates is a table of the     *)
(* process that is created, and so are the pages under it.                 *)
LEMMA CopyTableActs ==
  ASSUME NEW m, Base(m), NEW use, Owns(m, use), NEW p, NEW src_pd,
         NEW dst_pd \in DOMAIN use, use[dst_pd] = Directory(p),
         NEW pd_i \in Nat, pd_i < KERNEL_PD_INDEX,
         table_done(m, src_pd, dst_pd, pd_i).handed # Frames
  PROVE  Acts(m, use, p, table_done(m, src_pd, dst_pd, pd_i))
<1> DEFINE src_pt == m.mem[src_pd].tab[pd_i].frame
           t == AllocatedZeroed(m)
           e == Entry(t.answer, {"rw", "user"})
           n == SetEntry(t, dst_pd, pd_i, e)
           c == copy_entries(n, src_pt, t.answer)
<1>1. CASE pd_i \notin DOMAIN m.mem[src_pd].tab
  BY <1>1, NoAct DEF table_done, Acts
<1>2. CASE pd_i \in DOMAIN m.mem[src_pd].tab
  <2>1. table_done(m, src_pd, dst_pd, pd_i) = c
    BY <1>2 DEF table_done, copy_table
  <2>2. Base(t)
    BY AllocatedZeroedGrows DEF Grows
  <2>3. e.frame = t.answer
    BY DEF Entry
  <2> HIDE DEF t, e, src_pt
  <2>4. Base(n) /\ n.handed = t.handed
    BY <2>2, SetEntryGrows DEF Grows
  <2> HIDE DEF n
  <2>5. Grows(n, c)
    BY <2>4, EntriesGrow
  <2> HIDE DEF c
  <2>6. n.handed # Frames /\ t.handed # Frames
    BY <2>1, <2>4, <2>5, FramesLeft
  <2>7. PICK during : /\ Act(m, use, p, t, during)
                      /\ t.answer \in DOMAIN during /\ during[t.answer] = Table(p, pd_i)
    <3>1. Table(p, pd_i)[1] = p
      BY DEF Table
    <3> QED
      BY <2>6, <3>1, AllocatedZeroedActs DEF t
  <2>8. Owns(t, during) /\ dst_pd \in DOMAIN during /\ during[dst_pd] = Directory(p)
    BY <2>7 DEF Act
  <2>9. Act(t, during, p, n, during)
    <3>1. e.frame \in DOMAIN during /\ during[e.frame] = Table(p, pd_i)
      BY <2>3, <2>7
    <3>2. pd_i \notin Common
      BY CommonIsHigh
    <3> QED
      BY <2>2, <2>8, <3>1, <3>2, EnterTable DEF n
  <2>10. Owns(n, during)
    BY <2>9 DEF Act
  <2>11. Acts(n, during, p, c)
    BY <2>1, <2>4, <2>7, <2>10, EntriesAct DEF c
  <2>12. Act(m, use, p, n, during)
    BY <2>7, <2>9, ActThenAct
  <2> QED
    BY <2>1, <2>11, <2>12, ActThenAct DEF Acts
<1> QED
  BY <1>1, <1>2

(* The same for the whole of copy_addr_space.                              *)
LEMMA TablesAct ==
  ASSUME NEW m, Base(m), NEW use, Owns(m, use), NEW p, NEW src_pd,
         NEW dst_pd \in DOMAIN use, use[dst_pd] = Directory(p),
         copy_addr_space(m, src_pd, dst_pd).handed # Frames
  PROVE  Acts(m, use, p, copy_addr_space(m, src_pd, dst_pd))
<1>1. PICK done :
        /\ done[0] = m
        /\ \A n \in 1..KERNEL_PD_INDEX : done[n] = table_done(done[n - 1], src_pd, dst_pd, n - 1)
        /\ copy_addr_space(m, src_pd, dst_pd) = done[KERNEL_PD_INDEX]
  BY TablesLoop
<1> DEFINE S == { n \in Nat : n <= KERNEL_PD_INDEX => /\ Base(done[n])
                                                      /\ done[n].handed # Frames =>
                                                           Acts(m, use, p, done[n]) }
<1>2. 0 \in S
  BY <1>1, NoAct DEF Acts
<1>3. \A n \in Nat : n \in S => n + 1 \in S
  <2> SUFFICES ASSUME NEW n \in Nat, n + 1 <= KERNEL_PD_INDEX, Base(done[n]),
                      done[n].handed # Frames => Acts(m, use, p, done[n])
               PROVE  /\ Base(done[n + 1])
                      /\ done[n + 1].handed # Frames => Acts(m, use, p, done[n + 1])
    BY PagingAssumption
  <2>1. done[n + 1] = table_done(done[n], src_pd, dst_pd, n)
    <3>1. n + 1 \in 1..KERNEL_PD_INDEX /\ (n + 1) - 1 = n
      BY PagingAssumption
    <3> QED
      BY <1>1, <3>1
  <2>2. n < KERNEL_PD_INDEX
    BY PagingAssumption
  <2>3. Grows(done[n], done[n + 1])
    BY <2>1, CopyTableGrows
  <2>4. ASSUME done[n + 1].handed # Frames PROVE Acts(m, use, p, done[n + 1])
    <3>1. PICK during : Act(m, use, p, done[n], during)
      BY <2>3, <2>4, FramesLeft DEF Acts
    <3>2. Owns(done[n], during) /\ dst_pd \in DOMAIN during /\ during[dst_pd] = Directory(p)
      BY <3>1 DEF Act
    <3>3. Acts(done[n], during, p, done[n + 1])
      BY <2>1, <2>2, <2>4, <3>2, CopyTableActs
    <3> QED
      BY <3>1, <3>3, ActThenAct DEF Acts
  <2> QED
    BY <2>3, <2>4 DEF Grows
<1> HIDE DEF S
<1>4. KERNEL_PD_INDEX \in S
  BY <1>2, <1>3, SetInduction, PagingAssumption
<1> QED
  BY <1>1, <1>4, PagingAssumption DEF S

-----------------------------------------------------------------------------
(***************************************************************************)
(* Booting, and the making of a process.                                   *)
(***************************************************************************)

(* init_pages and the second gd_init: a directory for the kernel.          *)
LEMMA BootGrows ==
  ASSUME NEW m, Base(m)
  PROVE  LET b == init_pages(m)
             l == map_framebuffer(b.machine, b.dir)
         IN  Grows(m, l) /\ b.dir \in Frames \cup {NULL}
<1> DEFINE n == AllocatedZeroed(m)
           k == map_region(n, n.answer, WindowBase, 0, WindowPages, {"rw"})
           l == map_region(k, n.answer, FbPage, FbPage, FbPages, {"rw", "wt"})
<1>1. /\ init_pages(m).machine = k /\ init_pages(m).dir = n.answer
      /\ map_framebuffer(k, n.answer) = l
  BY DEF init_pages, map_framebuffer
<1>2. Grows(m, n)
  BY AllocatedZeroedGrows
<1> HIDE DEF n
<1>3. Grows(n, k)
  BY <1>2, RegionGrows, PagingAssumption DEF Grows
<1> HIDE DEF k
<1>4. Grows(k, l)
  BY <1>3, RegionGrows, PagingAssumption DEF Grows
<1> HIDE DEF l
<1>5. Grows(m, l)
  BY <1>2, <1>3, <1>4, GrowsOn
<1> QED
  BY <1>1, <1>2, <1>5 DEF Grows, Base

(* init_pages and the mapping of the framebuffer: every frame they take is *)
(* a table of the kernel, or its directory.                                *)
LEMMA BootActs ==
  ASSUME NEW m, Base(m), m.handed = {},
         LET b == init_pages(m) IN map_framebuffer(b.machine, b.dir).handed # Frames
  PROVE  LET b == init_pages(m)
             l == map_framebuffer(b.machine, b.dir)
         IN  /\ \E use : Owns(l, use) /\ b.dir \in DOMAIN use /\ use[b.dir] = Directory(0)
             /\ { i \in DOMAIN l.mem[b.dir].tab : i >= KERNEL_PD_INDEX } = Common
<1> DEFINE n == AllocatedZeroed(m)
           k == map_region(n, n.answer, WindowBase, 0, WindowPages, {"rw"})
           l == map_region(k, n.answer, FbPage, FbPage, FbPages, {"rw", "wt"})
<1>1. /\ init_pages(m).machine = k /\ init_pages(m).dir = n.answer
      /\ map_framebuffer(k, n.answer) = l
  BY DEF init_pages, map_framebuffer
<1>2. Base(n)
  BY AllocatedZeroedGrows DEF Grows
<1>3. PICK u : /\ Owns(m, u)
               /\ n.handed # Frames => \E v : /\ Owns(n, v) /\ n.answer \in DOMAIN v
                                              /\ v[n.answer] = Directory(0)
  <2> DEFINE e == [f \in {} |-> Directory(0)]
  <2>1. Owns(m, e)
    BY DEF Owns, Agrees
  <2>2. Directory(0)[1] = 0
    BY DEF Directory
  <2> HIDE DEF e
  <2>3. n.handed # Frames =>
          \E v : /\ Act(m, e, 0, n, v) /\ n.answer \in DOMAIN v /\ v[n.answer] = Directory(0)
    BY <2>1, <2>2, AllocatedZeroedActs
  <2> QED
    BY <2>1, <2>3 DEF Act
<1>13. n.handed # Frames => DOMAIN n.mem[n.answer].tab = {}
  BY AllocatedZeroedGrows DEF Zeroed
<1> HIDE DEF n
<1>4. Grows(n, k)
  BY <1>2, RegionGrows, PagingAssumption
<1> HIDE DEF k
<1>5. Grows(k, l)
  BY <1>4, RegionGrows, PagingAssumption DEF Grows
<1>6. l.handed # Frames
  BY <1>1
<1> HIDE DEF l
<1>7. k.handed # Frames /\ n.handed # Frames
  BY <1>2, <1>4, <1>5, <1>6, FramesLeft DEF Grows
<1>8. PICK v : Owns(n, v) /\ n.answer \in DOMAIN v /\ v[n.answer] = Directory(0)
  BY <1>3, <1>7
<1>9. PICK w : /\ Act(n, v, 0, k, w)
               /\ DOMAIN k.mem[n.answer].tab
                    = DOMAIN n.mem[n.answer].tab \cup Mapped(WindowBase, WindowPages)
  <2>1. "user" \notin {"rw"}
    OBVIOUS
  <2>2. /\ Acts(n, v, 0, k)
        /\ DOMAIN k.mem[n.answer].tab
             = DOMAIN n.mem[n.answer].tab \cup Mapped(WindowBase, WindowPages)
    <3>1. k = map_region(n, n.answer, WindowBase, 0, WindowPages, {"rw"})
      BY DEF k
    <3>2. WindowBase \in Nat /\ WindowPages \in Nat
      BY PagingAssumption
    <3> QED
      BY <1>2, <1>7, <1>8, <2>1, <3>1, <3>2, RegionActs
  <2> QED
    BY <2>2 DEF Acts
<1>10. Owns(k, w) /\ n.answer \in DOMAIN w /\ w[n.answer] = Directory(0)
  BY <1>8, <1>9 DEF Act
<1>11. /\ Acts(k, w, 0, l)
       /\ DOMAIN l.mem[n.answer].tab = DOMAIN k.mem[n.answer].tab \cup Mapped(FbPage, FbPages)
  <2>1. "user" \notin {"rw", "wt"}
    OBVIOUS
  <2> QED
    BY <1>4, <1>6, <1>10, <2>1, RegionActs, PagingAssumption DEF l, Grows
<1>12. \E x : Owns(l, x) /\ n.answer \in DOMAIN x /\ x[n.answer] = Directory(0)
  BY <1>10, <1>11 DEF Acts, Act
<1>14. DOMAIN l.mem[n.answer].tab = Mapped(WindowBase, WindowPages) \cup Mapped(FbPage, FbPages)
  BY <1>7, <1>9, <1>11, <1>13
<1>15. { i \in DOMAIN l.mem[n.answer].tab : i >= KERNEL_PD_INDEX } = Common
  BY <1>14 DEF Common
<1> QED
  BY <1>1, <1>12, <1>15

(* clone_kernel_space on a new directory: it is empty but for the kernel's *)
(* half.                                                                   *)
LEMMA CloneGrows ==
  ASSUME NEW m, Base(m), NEW pd, NEW kpd
  PROVE  /\ Grows(m, clone_kernel_space(m, pd, kpd))
         /\ clone_kernel_space(m, pd, kpd).handed = m.handed
         /\ clone_kernel_space(m, pd, kpd).answer = m.answer
BY FillGrows DEF clone_kernel_space, CloneFrom

(* clone_kernel_space: the new directory has the kernel half of            *)
(* kernel_page_dir and nothing below it.                                   *)
LEMMA CloneActs ==
  ASSUME NEW m, Base(m), NEW use, Owns(m, use), NEW p, p # 0,
         NEW kpd \in DOMAIN use, use[kpd] = Directory(0),
         { i \in DOMAIN m.mem[kpd].tab : i >= KERNEL_PD_INDEX } = Common,
         AllocatedZeroed(m).handed # Frames
  PROVE  LET d  == AllocatedZeroed(m)
             k  == clone_kernel_space(d, d.answer, kpd)
         IN  \E after :
               /\ Act(m, use, p, k, after)
               /\ d.answer \in DOMAIN after /\ after[d.answer] = Directory(p)
               /\ SameHalf(k.mem[d.answer].tab, m.mem[kpd].tab)
               /\ DOMAIN k.mem[d.answer].tab = Common
<1> DEFINE d    == AllocatedZeroed(m)
           pd   == d.answer
           old  == d.mem[pd].tab
           kern == d.mem[kpd].tab
           low  == { i \in DOMAIN old : i < KERNEL_PD_INDEX }
           high == { i \in DOMAIN kern : i >= KERNEL_PD_INDEX }
           new  == [i \in low \cup high |-> IF i < KERNEL_PD_INDEX THEN old[i] ELSE kern[i]]
           content == [tab |-> new, data |-> d.mem[pd].data]
           k    == Fill(d, pd, content)
<1>1. clone_kernel_space(d, pd, kpd) = k
  BY DEF clone_kernel_space, CloneFrom
<1>2. /\ Base(d) /\ pd \in Frames /\ pd \notin m.handed /\ d.handed = m.handed \cup {pd}
      /\ d.mem[pd] = Zeroed /\ \A g \in m.handed : d.mem[g] = m.mem[g]
  BY AllocatedZeroedGrows DEF Grows
<1>3. content.tab = new
  OBVIOUS
<1>4. DOMAIN old = {}
  BY <1>2 DEF Zeroed
<1>5. kpd \in m.handed /\ kern = m.mem[kpd].tab /\ \A i \in DOMAIN kern : i \in Nat
  BY <1>2 DEF Owns, Agrees
<1> HIDE DEF d, old, kern, content
<1>6. /\ DOMAIN new = Common
      /\ \A i \in DOMAIN new : i \in Nat /\ i \in Common /\ i \in DOMAIN kern /\ new[i] = kern[i]
  <2>1. low = {} /\ high = Common
    BY <1>4, <1>5
  <2>2. \A i \in Common : i \in Nat /\ ~(i < KERNEL_PD_INDEX) /\ i \in DOMAIN kern
    BY <2>1, CommonIsHigh
  <2> HIDE DEF low, high
  <2>3. DOMAIN new = Common /\ \A i \in DOMAIN new : new[i] = kern[i]
    BY <2>1, <2>2
  <2> QED
    BY <2>2, <2>3
<1> HIDE DEF new
<1>7. /\ k.handed = d.handed /\ k.mem[pd] = content
      /\ \A g \in Frames : g # pd => k.mem[g] = d.mem[g]
  BY <1>2, FillGrows
<1> HIDE DEF k, pd
<1>8. Gives(m, k, pd, p, Directory(p))
  <2>1. \A g \in m.handed : k.mem[g] = m.mem[g]
    BY <1>2, <1>7 DEF Base
  <2>2. Directory(p)[1] = p /\ \A q : Directory(p) = Directory(q) => q = p
    BY DEF Directory
  <2>3. \A q, i : Directory(p) # Table(q, i)
    BY DEF Directory, Table
  <2> QED
    BY <1>2, <1>3, <1>6, <1>7, <2>1, <2>2, <2>3 DEF Gives
<1>9. PICK after : Act(m, use, p, k, after) /\ after[pd] = Directory(p)
  BY <1>8, NewFrame
<1>10. pd \in DOMAIN after
  BY <1>2, <1>7, <1>9 DEF Act, Owns
<1>11. SameHalf(k.mem[pd].tab, m.mem[kpd].tab)
  BY <1>3, <1>5, <1>6, <1>7 DEF SameHalf
<1>12. DOMAIN k.mem[pd].tab = Common
  BY <1>3, <1>6, <1>7
<1> QED
  BY <1>1, <1>9, <1>10, <1>11, <1>12 DEF d, pd

(* create_process.                                                         *)
LEMMA CreateGrows ==
  ASSUME NEW m, Base(m)
  PROVE  /\ Grows(m, create_process(m).machine)
         /\ create_process(m).dir \in Frames \cup {NULL}
<1> DEFINE d   == AllocatedZeroed(m)
           k   == clone_kernel_space(d, d.answer, kernel_page_dir)
           s   == Allocated(k)
           pg  == map_page(s, d.answer, StackPage, s.answer, {"rw", "user"})
           l   == Fill(pg, s.answer, Zeroed)
<1>1. create_process(m).machine = l /\ create_process(m).dir = d.answer
  BY DEF create_process
<1>2. Grows(m, d)
  BY AllocatedZeroedGrows
<1> HIDE DEF d
<1>3. Grows(d, k)
  BY <1>2, CloneGrows DEF Grows
<1> HIDE DEF k
<1>4. Grows(k, s)
  BY <1>3, AllocatedGrows DEF Grows
<1> HIDE DEF s
<1>5. Grows(s, pg)
  BY <1>4, MapPageGrows DEF Grows
<1> HIDE DEF pg
<1>6. Grows(pg, l)
  BY <1>5, FillGrows DEF Grows
<1> HIDE DEF l
<1>7. Grows(m, l)
  BY <1>2, <1>3, <1>4, <1>5, <1>6, GrowsOn
<1> QED
  BY <1>1, <1>2, <1>7 DEF Grows, Base

(* create_process: its directory and its stack are its own, and the kernel *)
(* half is the kernel's.                                                   *)
LEMMA CreateActs ==
  ASSUME NEW m, Base(m), NEW use, Owns(m, use), NEW p, p # 0,
         kernel_page_dir \in DOMAIN use, use[kernel_page_dir] = Directory(0),
         { i \in DOMAIN m.mem[kernel_page_dir].tab : i >= KERNEL_PD_INDEX } = Common,
         create_process(m).machine.handed # Frames
  PROVE  LET c == create_process(m) IN
         \E after :
           /\ Act(m, use, p, c.machine, after)
           /\ c.dir \in DOMAIN after /\ after[c.dir] = Directory(p)
           /\ SameHalf(c.machine.mem[c.dir].tab, m.mem[kernel_page_dir].tab)
           /\ DOMAIN c.machine.mem[c.dir].tab = Common \cup {StackPage \div PAGE_ENTRIES}
<1> DEFINE d   == AllocatedZeroed(m)
           pd  == d.answer
           k   == clone_kernel_space(d, pd, kernel_page_dir)
           s   == Allocated(k)
           stk == s.answer
           pg  == map_page(s, pd, StackPage, stk, {"rw", "user"})
           l   == Fill(pg, stk, Zeroed)
           i   == StackPage \div PAGE_ENTRIES
           j   == StackPage % PAGE_ENTRIES
<1>1. create_process(m).machine = l /\ create_process(m).dir = pd
  BY DEF create_process
<1>2. Base(d)
  BY AllocatedZeroedGrows DEF Grows
<1>3. Base(k) /\ k.handed = d.handed
  BY <1>2, CloneGrows DEF Grows
<1>4. d.handed # Frames => \E after :
        /\ Act(m, use, p, k, after) /\ pd \in DOMAIN after /\ after[pd] = Directory(p)
        /\ SameHalf(k.mem[pd].tab, m.mem[kernel_page_dir].tab)
        /\ DOMAIN k.mem[pd].tab = Common
  BY CloneActs
<1> HIDE DEF d, pd, k
<1>5. Grows(k, s) /\ s.mem = k.mem
  BY <1>3, AllocatedGrows
<1> HIDE DEF s, stk
<1>6. Grows(s, pg)
  BY <1>5, MapPageGrows DEF Grows
<1> HIDE DEF pg
<1>7. l.handed = pg.handed
  BY <1>6, FillGrows DEF Grows
<1> HIDE DEF l
<1>8. pg.handed # Frames /\ s.handed # Frames /\ k.handed # Frames /\ d.handed # Frames
  BY <1>1, <1>3, <1>5, <1>6, <1>7, FramesLeft DEF Grows
<1>9. PICK u : /\ Act(m, use, p, k, u) /\ pd \in DOMAIN u /\ u[pd] = Directory(p)
               /\ SameHalf(k.mem[pd].tab, m.mem[kernel_page_dir].tab)
               /\ DOMAIN k.mem[pd].tab = Common
  BY <1>4, <1>8
<1>10. PICK v : Act(k, u, p, s, v) /\ stk \in DOMAIN v /\ v[stk] = Page(p, i, j)
  <2>1. Owns(k, u)
    BY <1>9 DEF Act
  <2> HIDE DEF i, j
  <2> QED
    BY <1>3, <1>8, <2>1, AllocatedActs DEF s, stk
<1>11. Owns(s, v) /\ pd \in DOMAIN v /\ v[pd] = Directory(p)
  BY <1>9, <1>10 DEF Act
<1>12. PICK w : Act(s, v, p, pg, w) /\ DOMAIN pg.mem[pd].tab = DOMAIN s.mem[pd].tab \cup {i}
  <2>1. StackPage \in Nat /\ i \notin Common
    BY ProcessAssumption, CommonIsHigh
  <2>2. Acts(s, v, p, pg) /\ DOMAIN pg.mem[pd].tab = DOMAIN s.mem[pd].tab \cup {i}
    BY <1>5, <1>8, <1>10, <1>11, <2>1, MapPageActs DEF pg, Grows
  <2> QED
    BY <2>2 DEF Acts
<1> HIDE DEF i, j
<1>13. Owns(pg, w) /\ stk \in DOMAIN w /\ w[stk] = Page(p, i, j)
  BY <1>10, <1>12 DEF Act
<1>14. Act(pg, w, p, l, w)
  BY <1>6, <1>13, FillPage DEF l, Grows
<1>15. Act(k, u, p, l, w)
  BY <1>10, <1>12, <1>14, ActThenAct
<1>16. Act(m, use, p, l, w)
  BY <1>9, <1>15, ActThenAct
<1>17. /\ pd \in DOMAIN w /\ w[pd] = Directory(p)
       /\ SameHalf(l.mem[pd].tab, k.mem[pd].tab)
  BY <1>9, <1>15 DEF Act
<1>18. SameHalf(l.mem[pd].tab, m.mem[kernel_page_dir].tab)
  BY <1>9, <1>17 DEF SameHalf
<1>19. DOMAIN l.mem[pd].tab = DOMAIN k.mem[pd].tab \cup {i}
  <2>1. pd # stk /\ pd \in Frames \cup {NULL}
    <3>1. w[pd] = Directory(p) /\ w[stk] = Page(p, i, j) /\ pd \in DOMAIN w
      BY <1>13, <1>17
    <3>2. DOMAIN w \subseteq Frames
      BY <1>6, <1>13 DEF Owns, Grows, Base
    <3> QED
      BY <3>1, <3>2 DEF Directory, Page
  <2>2. l.mem[pd] = pg.mem[pd]
    BY <1>6, <2>1, FillGrows DEF l, Grows
  <2> QED
    BY <1>5, <1>12, <2>2
<1>20. DOMAIN l.mem[pd].tab = Common \cup {StackPage \div PAGE_ENTRIES}
  BY <1>9, <1>19 DEF i
<1> QED
  BY <1>1, <1>16, <1>17, <1>18, <1>20

-----------------------------------------------------------------------------
(***************************************************************************)
(* The states.                                                             *)
(***************************************************************************)

(* Memory agrees with the uses of its frames, and the directories are      *)
(* where the processes' control blocks say.                                *)
Sound(use) ==
  /\ Owns(Machine, use)
  /\ kernel_page_dir \in handed /\ use[kernel_page_dir] = Directory(0)
  /\ { i \in DOMAIN mem[kernel_page_dir].tab : i >= KERNEL_PD_INDEX } = Common
  /\ \A p \in 1..Len(page_dir) :
       /\ page_dir[p] \in handed /\ use[page_dir[p]] = Directory(p)
       /\ SameHalf(mem[page_dir[p]].tab, mem[kernel_page_dir].tab)
       /\ StackPage \div PAGE_ENTRIES \in DOMAIN mem[page_dir[p]].tab

(* The pids on the list, in the order of their creation.                   *)
Listed ==
  /\ page_dir \in Seq(Frames \cup {NULL}) /\ Len(page_dir) <= MaxProcs
  /\ process_list = [i \in 1..Len(page_dir) |-> Len(page_dir) + 1 - i]
  /\ forks \in 0..Len(page_dir)

Types ==
  /\ Base(Machine) /\ Listed
  /\ paging \in BOOLEAN /\ kernel_page_dir \in Frames \cup {NULL}
  /\ current_process \in 0..Len(page_dir)
  /\ cr3 = IF current_process = NULL THEN kernel_page_dir
           ELSE page_dir[current_process]
  /\ returned \in -1..MaxProcs

(* The inductive invariant.  Before init_pages nothing is handed out.      *)
IInv ==
  /\ Types
  /\ ~paging => handed = {} /\ page_dir = <<>>
  /\ paging /\ handed # Frames => \E use : Sound(use)

(* The list holds the pids from 1 to the last one given, and whatever is   *)
(* running, the next process is one of them.                               *)
LEMMA PidsListed ==
  ASSUME Listed
  PROVE  /\ Len(page_dir) \in Nat /\ Len(process_list) = Len(page_dir)
         /\ DOMAIN page_dir = 1..Len(page_dir)
         /\ Procs = 1..Len(page_dir)
         /\ \A i \in 1..Len(page_dir) : process_list[i] = Len(page_dir) + 1 - i
<1>1. Len(page_dir) \in Nat /\ DOMAIN page_dir = 1..Len(page_dir)
  BY DEF Listed
<1> DEFINE n == Len(page_dir)
<1> HIDE DEF n
<1>2. process_list = [i \in 1..n |-> n + 1 - i] /\ n \in Nat
  BY <1>1 DEF Listed, n
<1>3. Len(process_list) = n /\ DOMAIN process_list = 1..n
  <2>1. process_list \in Seq(Int)
    BY <1>2
  <2>2. DOMAIN process_list = 1..n
    BY <1>2
  <2> QED
    BY <1>2, <2>1, <2>2
<1>4. \A i \in 1..n : process_list[i] = n + 1 - i
  BY <1>2
<1>5. Procs = 1..n
  <2>1. \A i \in 1..n : n + 1 - i \in 1..n
    BY <1>2
  <2>2. \A p \in 1..n : n + 1 - p \in 1..n /\ n + 1 - (n + 1 - p) = p
    BY <1>2
  <2>3. Procs = { process_list[i] : i \in 1..n }
    BY <1>3 DEF Procs, Range
  <2> QED
    BY <1>4, <2>1, <2>2, <2>3
<1> QED
  BY <1>1, <1>3, <1>4, <1>5 DEF n

(* schedule finds another process.                                         *)
LEMMA AfterIsListed ==
  ASSUME Listed, process_list # <<>>, NEW p
  PROVE  After(p) \in 1..Len(page_dir)
<1> DEFINE n == Len(process_list)
<1>1. /\ n \in Nat /\ Len(page_dir) = n
      /\ Procs = 1..n /\ \A i \in 1..n : process_list[i] = n + 1 - i
  BY PidsListed
<1>2. n # 0
  <2>1. process_list = [i \in 1..n |-> n + 1 - i]
    BY <1>1 DEF Listed
  <2> HIDE DEF n
  <2> SUFFICES ASSUME n = 0 PROVE FALSE
    OBVIOUS
  <2>2. process_list = [i \in 1..0 |-> 0 + 1 - i] /\ 1..0 = {}
    BY <2>1
  <2>3. process_list = <<>>
    BY <2>2
  <2> QED
    BY <2>3
<1>3. DOMAIN process_list = 1..n
  BY <1>1 DEF Listed
<1>4. Place(p) \in 0..n
  <2>1. \E i \in 0..n : IF i = 0 THEN p \notin Range(process_list) ELSE process_list[i] = p
    <3>1. CASE p \notin Range(process_list)
      BY <1>1, <3>1
    <3>2. CASE p \in Range(process_list)
      <4>1. PICK i \in 1..n : process_list[i] = p
        BY <1>3, <3>2 DEF Range
      <4>2. i \in 0..n /\ i # 0
        BY <1>1
      <4> QED
        BY <4>1, <4>2
    <3> QED
      BY <3>1, <3>2
  <2> QED
    BY <2>1 DEF Place
<1> DEFINE next == IF Place(p) < n THEN Place(p) + 1 ELSE 1
<1>5. next \in 1..n
  BY <1>1, <1>2, <1>4
<1>6. After(p) = process_list[next]
  BY DEF After
<1> HIDE DEF next, n
<1>7. process_list[next] \in 1..n
  BY <1>1, <1>5
<1> QED
  BY <1>1, <1>6, <1>7

-----------------------------------------------------------------------------
(***************************************************************************)
(* The steps.                                                              *)
(***************************************************************************)

(* What a process of the list does keeps the state sound, and so does what *)
(* is done to the kernel's tables without a change to its directory ...    *)
LEMMA ActKeepsSound ==
  ASSUME Types, NEW use, Sound(use), NEW after, NEW p,
         p # 0 \/ mem'[kernel_page_dir] = mem[kernel_page_dir],
         Act(Machine, use, p, Machine', after),
         UNCHANGED <<kernel_page_dir, page_dir>>
  PROVE  Sound(after)'
<1>1. Owns(Machine', after) /\ DOMAIN use \subseteq DOMAIN after
  BY DEF Act
<1>2. DOMAIN use = handed /\ DOMAIN after = handed' /\ handed \subseteq handed'
  BY <1>1 DEF Owns, Sound, Machine
<1>3. \A f \in handed : after[f] = use[f]
  BY <1>2 DEF Act
<1>4. mem'[kernel_page_dir] = mem[kernel_page_dir]
  BY <1>2 DEF Act, Sound, Machine, Directory
<1>5. ASSUME NEW q \in 1..Len(page_dir)
      PROVE  /\ SameHalf(mem'[page_dir[q]].tab, mem[kernel_page_dir].tab)
             /\ StackPage \div PAGE_ENTRIES \in DOMAIN mem'[page_dir[q]].tab
  <2> DEFINE d == page_dir[q]
  <2>1. /\ d \in handed /\ use[d] = Directory(q)
        /\ SameHalf(mem[d].tab, mem[kernel_page_dir].tab)
        /\ StackPage \div PAGE_ENTRIES \in DOMAIN mem[d].tab
    BY DEF Sound
  <2>4. q # 0
    BY PidsListed DEF Types
  <2> HIDE DEF d
  <2>2. CASE q = p
    <3>1. /\ SameHalf(mem'[d].tab, mem[d].tab)
          /\ DOMAIN mem[d].tab \subseteq DOMAIN mem'[d].tab
      BY <1>2, <2>1, <2>2, <2>4 DEF Act, Machine
    <3> QED
      BY <2>1, <3>1 DEF SameHalf, d
  <2>3. CASE q # p
    <3>1. mem'[d] = mem[d]
      BY <1>2, <2>1, <2>3 DEF Act, Machine, Directory
    <3> QED
      BY <2>1, <3>1 DEF d
  <2> QED
    BY <2>2, <2>3
<1>6. kernel_page_dir \in handed' /\ after[kernel_page_dir] = Directory(0)
  BY <1>2, <1>3 DEF Sound
<1>7. \A q \in 1..Len(page_dir) : page_dir[q] \in handed' /\ after[page_dir[q]] = Directory(q)
  BY <1>2, <1>3 DEF Sound
<1> QED
  BY <1>1, <1>4, <1>5, <1>6, <1>7 DEF Sound, Machine

(* ... and so does the making of another one, by the one that is made.     *)
LEMMA EnlistKeepsSound ==
  ASSUME Types, NEW use, Sound(use), NEW after, NEW d,
         Act(Machine, use, Len(page_dir) + 1, Machine', after),
         d \in DOMAIN after, after[d] = Directory(Len(page_dir) + 1),
         SameHalf(mem'[d].tab, mem[kernel_page_dir].tab),
         StackPage \div PAGE_ENTRIES \in DOMAIN mem'[d].tab,
         page_dir' = Append(page_dir, d), UNCHANGED kernel_page_dir
  PROVE  Sound(after)'
<1> DEFINE n == Len(page_dir)
<1>1. Owns(Machine', after) /\ DOMAIN use \subseteq DOMAIN after
  BY DEF Act
<1>2. DOMAIN use = handed /\ DOMAIN after = handed' /\ handed \subseteq handed'
  BY <1>1 DEF Owns, Sound, Machine
<1>3. \A f \in handed : after[f] = use[f]
  BY <1>2 DEF Act
<1>4. n \in Nat /\ page_dir \in Seq(Frames \cup {NULL})
  BY PidsListed DEF Types, Listed
<1>5. /\ Len(page_dir') = n + 1 /\ page_dir'[n + 1] = d
      /\ \A q \in 1..n : page_dir'[q] = page_dir[q]
  BY <1>4
<1> HIDE DEF n
<1>6. ASSUME NEW f \in handed, use[f][1] # n + 1
      PROVE  mem'[f] = mem[f]
  BY <1>2, <1>6 DEF Act, Machine, n
<1>7. mem'[kernel_page_dir] = mem[kernel_page_dir]
  <2>1. kernel_page_dir \in handed /\ use[kernel_page_dir][1] = 0
    BY DEF Sound, Directory
  <2> QED
    BY <1>4, <1>6, <2>1
<1>8. ASSUME NEW q \in 1..n
      PROVE  /\ page_dir[q] \in handed /\ use[page_dir[q]] = Directory(q)
             /\ SameHalf(mem'[page_dir[q]].tab, mem'[kernel_page_dir].tab)
             /\ StackPage \div PAGE_ENTRIES \in DOMAIN mem'[page_dir[q]].tab
  <2>1. /\ page_dir[q] \in handed /\ use[page_dir[q]] = Directory(q)
        /\ SameHalf(mem[page_dir[q]].tab, mem[kernel_page_dir].tab)
        /\ StackPage \div PAGE_ENTRIES \in DOMAIN mem[page_dir[q]].tab
    BY DEF Sound, n
  <2>2. use[page_dir[q]][1] = q /\ q # n + 1
    BY <1>4, <2>1 DEF Directory
  <2>3. mem'[page_dir[q]] = mem[page_dir[q]]
    BY <1>6, <2>1, <2>2
  <2> QED
    BY <1>7, <2>1, <2>3
<1>9. ASSUME NEW q \in 1..n + 1
      PROVE  /\ page_dir'[q] \in handed' /\ after[page_dir'[q]] = Directory(q)
             /\ SameHalf(mem'[page_dir'[q]].tab, mem'[kernel_page_dir].tab)
             /\ StackPage \div PAGE_ENTRIES \in DOMAIN mem'[page_dir'[q]].tab
  <2>1. CASE q = n + 1
    BY <1>2, <1>5, <1>7, <2>1 DEF n
  <2>2. CASE q \in 1..n
    BY <1>2, <1>3, <1>5, <1>8, <2>2
  <2>3. q = n + 1 \/ q \in 1..n
    BY <1>4
  <2> QED
    BY <2>1, <2>2, <2>3
<1>10. kernel_page_dir' \in handed' /\ after[kernel_page_dir'] = Directory(0)
  BY <1>2, <1>3 DEF Sound
<1>11. \A q \in 1..Len(page_dir') :
         /\ page_dir'[q] \in handed' /\ after[page_dir'[q]] = Directory(q)
         /\ SameHalf(mem'[page_dir'[q]].tab, mem'[kernel_page_dir'].tab)
         /\ StackPage \div PAGE_ENTRIES \in DOMAIN mem'[page_dir'[q]].tab
  BY <1>5, <1>9
<1>12. { i \in DOMAIN mem'[kernel_page_dir'].tab : i >= KERNEL_PD_INDEX } = Common
  BY <1>7 DEF Sound
<1> QED
  BY <1>1, <1>10, <1>11, <1>12 DEF Sound

(* The list and its types after a process has been made.                   *)
LEMMA EnlistKeepsListed ==
  ASSUME Listed, NEW d \in Frames \cup {NULL}, Len(process_list) < MaxProcs, Enlist(d)
  PROVE  /\ Len(page_dir') = Len(page_dir) + 1
         /\ \A p \in 1..Len(page_dir) : page_dir'[p] = page_dir[p]
         /\ UNCHANGED forks \/ forks' = forks + 1 => Listed'
<1> DEFINE n == Len(page_dir)
<1>1. n \in Nat /\ Len(process_list) = n /\ page_dir \in Seq(Frames \cup {NULL})
  BY PidsListed DEF Listed
<1>2. page_dir' = Append(page_dir, d) /\ process_list' = <<n + 1>> \o process_list
  BY <1>1 DEF Enlist, next_pid
<1>3. /\ Len(page_dir') = n + 1 /\ page_dir' \in Seq(Frames \cup {NULL})
      /\ \A p \in 1..n : page_dir'[p] = page_dir[p]
  BY <1>1, <1>2
<1>4. n + 1 <= MaxProcs
  BY <1>1, ProcessAssumption
<1> HIDE DEF n
<1>5. process_list' = [i \in 1..n + 1 |-> n + 2 - i]
  <2>1. process_list = [i \in 1..n |-> n + 1 - i] /\ process_list \in Seq(Int)
    BY <1>1 DEF Listed, n
  <2>2. /\ Len(process_list') = n + 1 /\ process_list' \in Seq(Int)
        /\ process_list'[1] = n + 1
        /\ \A i \in 1..n : process_list'[i + 1] = process_list[i]
    BY <1>1, <1>2, <2>1
  <2>3. \A i \in 1..n : process_list'[i + 1] = n + 2 - (i + 1)
    BY <1>1, <2>1, <2>2
  <2>4. ASSUME NEW i \in 1..n + 1 PROVE process_list'[i] = n + 2 - i
    <3>1. CASE i = 1
      BY <1>1, <2>2, <3>1
    <3>2. CASE i # 1
      <4>1. i - 1 \in 1..n /\ (i - 1) + 1 = i
        BY <1>1, <3>2
      <4> QED
        BY <2>3, <4>1
    <3> QED
      BY <3>1, <3>2
  <2>5. process_list' = [i \in 1..n + 1 |-> process_list'[i]]
    BY <1>1, <2>2
  <2> QED
    BY <2>4, <2>5
<1>6. forks \in 0..n
  BY DEF Listed, n
<1>7. UNCHANGED forks \/ forks' = forks + 1 => forks' \in 0..n + 1
  BY <1>1, <1>6
<1>8. UNCHANGED forks \/ forks' = forks + 1 => Listed'
  <2>1. process_list' = [i \in 1..n + 1 |-> (n + 1) + 1 - i]
    <3>1. \A i \in 1..n + 1 : n + 2 - i = (n + 1) + 1 - i
      BY <1>1
    <3> QED
      BY <1>5, <3>1
  <2> QED
    BY <1>3, <1>4, <1>7, <2>1 DEF Listed
<1> QED
  BY <1>3, <1>8 DEF n

(* The types after every step, and that no frame is taken back.            *)
LEMMA BecomesGrows ==
  ASSUME NEW n, Grows(Machine, n), Becomes(n)
  PROVE  Grows(Machine, Machine')
BY DEF Grows, Base, Becomes, Machine

(* Every step keeps the types, and never takes back a frame.               *)
LEMMA TypesStep ==
  ASSUME Types, ~paging => page_dir = <<>>, [Next]_vars
  PROVE  Types' /\ Grows(Machine, Machine')
<1> USE DEF Types
<1>1. /\ Len(page_dir) \in Nat /\ Len(process_list) = Len(page_dir)
      /\ page_dir \in Seq(Frames \cup {NULL})
  BY PidsListed DEF Listed
<1>2. /\ MaxProcs \in Nat
      /\ \A p \in 1..Len(page_dir) : page_dir[p] \in Frames \cup {NULL}
  BY <1>1, ProcessAssumption
<1>3. UNCHANGED <<process_list, page_dir, forks>> => Listed'
  BY DEF Listed
<1>4. CASE BootPaging
  <2> DEFINE b == init_pages(Machine)
             l == map_framebuffer(b.machine, b.dir)
  <2>1. Grows(Machine, l) /\ b.dir \in Frames \cup {NULL}
    BY BootGrows
  <2>2. /\ paging' = TRUE /\ Becomes(l) /\ kernel_page_dir' = b.dir /\ cr3' = b.dir
        /\ ~paging
        /\ UNCHANGED <<process_list, page_dir, current_process, returned, forks>>
    BY <1>4 DEF BootPaging
  <2> HIDE DEF b, l
  <2>3. Grows(Machine, Machine')
    BY <2>1, <2>2, BecomesGrows
  <2>4. Len(page_dir) = 0 /\ current_process = NULL
    <3>1. page_dir = <<>>
      BY <2>2
    <3>2. Len(page_dir) = 0
      BY <3>1
    <3> QED
      BY <3>2 DEF NULL
  <2> QED
    BY <1>3, <2>1, <2>2, <2>3, <2>4 DEF Grows
<1>5. ASSUME NEW d \in Frames \cup {NULL}, Len(process_list) < MaxProcs, Enlist(d),
             UNCHANGED <<paging, kernel_page_dir, current_process, cr3>>,
             \/ UNCHANGED <<returned, forks>>
             \/ returned' = next_pid /\ forks' = forks + 1
      PROVE  /\ Listed' /\ returned' \in -1..MaxProcs
             /\ current_process' \in 0..Len(page_dir')
             /\ cr3' = IF current_process' = NULL THEN kernel_page_dir'
                       ELSE page_dir'[current_process']
  <2>1. /\ Len(page_dir') = Len(page_dir) + 1 /\ Listed'
        /\ \A p \in 1..Len(page_dir) : page_dir'[p] = page_dir[p]
    BY <1>5, EnlistKeepsListed
  <2>2. returned' \in -1..MaxProcs
    BY <1>1, <1>2, <1>5 DEF next_pid
  <2>3. current_process' \in 0..Len(page_dir')
    BY <1>1, <1>5, <2>1
  <2>4. CASE current_process = NULL
    BY <1>5, <2>1, <2>2, <2>3, <2>4
  <2>5. CASE current_process # NULL
    <3>1. current_process \in 1..Len(page_dir)
      BY <1>1, <2>5 DEF NULL
    <3>2. cr3' = page_dir'[current_process'] /\ current_process' # NULL
      BY <1>5, <2>1, <2>5, <3>1
    <3> QED
      BY <2>1, <2>2, <2>3, <3>2
  <2> QED
    BY <2>4, <2>5
<1>6. CASE CreateProcess
  <2> DEFINE c == create_process(Machine)
  <2>1. Grows(Machine, c.machine) /\ c.dir \in Frames \cup {NULL}
    BY CreateGrows
  <2>2. /\ Len(process_list) < MaxProcs /\ Becomes(c.machine) /\ Enlist(c.dir)
        /\ UNCHANGED <<paging, kernel_page_dir, current_process, cr3, returned, forks>>
    BY <1>6 DEF CreateProcess
  <2> HIDE DEF c
  <2>3. Grows(Machine, Machine')
    BY <2>1, <2>2, BecomesGrows
  <2> QED
    BY <1>5, <2>1, <2>2, <2>3 DEF Grows
<1>7. CASE Fork
  <2> DEFINE c == create_process(Machine)
             l == copy_addr_space(c.machine, page_dir[current_process], c.dir)
  <2>1. Grows(Machine, c.machine) /\ c.dir \in Frames \cup {NULL}
    BY CreateGrows
  <2>2. Grows(c.machine, l)
    BY <2>1, TablesGrow DEF Grows
  <2>3. /\ Len(process_list) < MaxProcs /\ Becomes(l) /\ Enlist(c.dir)
        /\ returned' = next_pid /\ forks' = forks + 1
        /\ UNCHANGED <<paging, kernel_page_dir, current_process, cr3>>
    BY <1>7 DEF Fork
  <2> HIDE DEF c, l
  <2>4. Grows(Machine, Machine')
    BY <2>1, <2>2, <2>3, GrowsOn, BecomesGrows
  <2> QED
    BY <1>5, <2>1, <2>3, <2>4 DEF Grows
<1>8. Grows(Machine, Machine)
  BY GrowsNot
<1>9. UNCHANGED <<handed, answer, mem>> => Base(Machine') /\ Grows(Machine, Machine')
  <2>1. UNCHANGED <<handed, answer, mem>> => Machine' = Machine
    BY DEF Machine
  <2> QED
    BY <1>8, <2>1
<1>10. CASE ForkNobody
  <2>1. returned' \in -1..MaxProcs
    BY <1>2, <1>10 DEF ForkNobody
  <2> QED
    BY <1>3, <1>9, <1>10, <2>1 DEF ForkNobody
<1>11. CASE Schedule
  <2>1. current_process' \in 1..Len(page_dir)
    BY <1>11, AfterIsListed DEF Schedule
  <2>2. current_process' \in 0..Len(page_dir) /\ current_process' # NULL
    BY <1>1, <2>1 DEF NULL
  <2> QED
    BY <1>3, <1>9, <1>11, <2>2 DEF Schedule
<1>12. ASSUME NEW page \in UserPages, NEW v \in Values, Write(page, v)
       PROVE  Types' /\ Grows(Machine, Machine')
  <2> DEFINE f == EntryOf(mem, cr3, page).frame
             l == Fill(Machine, f, [tab |-> <<>>, data |-> v])
  <2>1. Becomes(l)
    BY <1>12 DEF Write, Becomes, Fill, Machine
  <2>2. Grows(Machine, l)
    BY FillGrows
  <2> HIDE DEF l
  <2>3. Grows(Machine, Machine')
    BY <2>1, <2>2, BecomesGrows
  <2> QED
    BY <1>3, <1>12, <2>3 DEF Grows, Write, procVars
<1>13. ASSUME NEW page \in UserPages, PageFault(page)
       PROVE  Types' /\ Grows(Machine, Machine')
  <2> DEFINE a == Allocated(Machine)
             l == map_page(a, page_dir[current_process], page, a.answer, {"rw", "user"})
  <2>1. Becomes(l) /\ UNCHANGED <<paging, kernel_page_dir, procVars>>
    BY <1>13 DEF PageFault
  <2>2. Grows(Machine, a)
    BY AllocatedGrows
  <2>3. Grows(a, l)
    BY <2>2, MapPageGrows DEF Grows
  <2> HIDE DEF a, l
  <2>4. Grows(Machine, Machine')
    BY <2>1, <2>2, <2>3, GrowsOn, BecomesGrows
  <2> QED
    BY <1>3, <2>1, <2>4 DEF Grows, procVars
<1>14. CASE UNCHANGED vars
  BY <1>3, <1>9, <1>14 DEF vars, procVars
<1> QED
  BY <1>4, <1>6, <1>7, <1>10, <1>11, <1>12, <1>13, <1>14 DEF Next

(* What a step does to memory, as long as frames are left, is an action of *)
(* the running process, or of the one that it makes, or one on the tables  *)
(* that all of them share.                                                 *)
Acting(use, after, p) ==
  /\ \/ p # 0 /\ (p = current_process \/ p = Len(page_dir) + 1)
     \/ p = 0 /\ mem'[kernel_page_dir] = mem[kernel_page_dir]
  /\ Act(Machine, use, p, Machine', after)
  /\ Sound(after)'

(* What holds of the machine an operation computes holds of the next       *)
(* state.                                                                  *)
LEMMA BecomesActs ==
  ASSUME NEW n, NEW use, NEW after, NEW p, Act(Machine, use, p, n, after), Becomes(n)
  PROVE  Act(Machine, use, p, Machine', after)
BY DEF Act, Owns, Becomes, Machine

(* A step that leaves memory alone.                                        *)
LEMMA IdleActs ==
  ASSUME Types, NEW use, Sound(use),
         UNCHANGED <<handed, answer, mem, kernel_page_dir, page_dir>>
  PROVE  \E after, p : Acting(use, after, p)
<1>1. Machine' = Machine
  BY DEF Machine
<1>2. Act(Machine, use, Len(page_dir) + 1, Machine', use)
  BY <1>1, NoAct DEF Sound
<1>3. Sound(use)'
  BY <1>1 DEF Sound, Machine
<1>4. Len(page_dir) + 1 # 0
  BY PidsListed DEF Types
<1> QED
  BY <1>2, <1>3, <1>4 DEF Acting

(* The step create_process.                                                *)
LEMMA CreateProcessActs ==
  ASSUME Types, NEW use, Sound(use), CreateProcess, handed' # Frames
  PROVE  \E after : Acting(use, after, Len(page_dir) + 1)
<1> DEFINE c == create_process(Machine)
           n == Len(page_dir) + 1
<1>1. /\ Becomes(c.machine) /\ page_dir' = Append(page_dir, c.dir)
      /\ UNCHANGED kernel_page_dir
  BY DEF CreateProcess, Enlist
<1>2. n # 0
  BY PidsListed DEF Types
<1> HIDE DEF n
<1>3. \E after : /\ Act(Machine, use, n, c.machine, after)
                 /\ c.dir \in DOMAIN after /\ after[c.dir] = Directory(n)
                 /\ SameHalf(c.machine.mem[c.dir].tab, Machine.mem[kernel_page_dir].tab)
                 /\ DOMAIN c.machine.mem[c.dir].tab = Common \cup {StackPage \div PAGE_ENTRIES}
  <2>1. c.machine.handed # Frames
    BY <1>1 DEF Becomes
  <2>2. Base(Machine) /\ Owns(Machine, use) /\ kernel_page_dir \in DOMAIN use
        /\ use[kernel_page_dir] = Directory(0)
        /\ { i \in DOMAIN Machine.mem[kernel_page_dir].tab : i >= KERNEL_PD_INDEX } = Common
    BY DEF Types, Sound, Owns, Machine
  <2> QED
    BY <1>2, <2>1, <2>2, CreateActs
<1> HIDE DEF c
<1>4. PICK after : /\ Act(Machine, use, n, c.machine, after)
                   /\ c.dir \in DOMAIN after /\ after[c.dir] = Directory(n)
                   /\ SameHalf(c.machine.mem[c.dir].tab, Machine.mem[kernel_page_dir].tab)
                   /\ DOMAIN c.machine.mem[c.dir].tab = Common \cup {StackPage \div PAGE_ENTRIES}
  BY <1>3
<1>5. Act(Machine, use, n, Machine', after)
  BY <1>1, <1>4, BecomesActs
<1>6. /\ SameHalf(mem'[c.dir].tab, mem[kernel_page_dir].tab)
      /\ StackPage \div PAGE_ENTRIES \in DOMAIN mem'[c.dir].tab
  BY <1>1, <1>4 DEF Becomes, Machine
<1>7. Sound(after)'
  BY <1>1, <1>4, <1>5, <1>6, EnlistKeepsSound DEF n
<1> QED
  BY <1>2, <1>5, <1>7 DEF Acting, n

(* The step fork: create_process, then the lower half of the parent is     *)
(* copied.                                                                 *)
LEMMA ForkActs ==
  ASSUME Types, NEW use, Sound(use), Fork, handed' # Frames
  PROVE  \E after : Acting(use, after, Len(page_dir) + 1)
<1> DEFINE c == create_process(Machine)
           l == copy_addr_space(c.machine, page_dir[current_process], c.dir)
           n == Len(page_dir) + 1
<1>1. /\ Becomes(l) /\ page_dir' = Append(page_dir, c.dir)
      /\ UNCHANGED kernel_page_dir
  BY DEF Fork, Enlist
<1>2. n # 0
  BY PidsListed DEF Types
<1>3. Grows(Machine, c.machine)
  BY CreateGrows DEF Types
<1>4. Grows(c.machine, l)
  BY <1>3, TablesGrow DEF Grows
<1>5. l.handed # Frames /\ c.machine.handed # Frames
  BY <1>1, <1>3, <1>4, FramesLeft DEF Becomes, Grows
<1> HIDE DEF n
<1>6. \E after : /\ Act(Machine, use, n, c.machine, after)
                 /\ c.dir \in DOMAIN after /\ after[c.dir] = Directory(n)
                 /\ SameHalf(c.machine.mem[c.dir].tab, Machine.mem[kernel_page_dir].tab)
                 /\ DOMAIN c.machine.mem[c.dir].tab = Common \cup {StackPage \div PAGE_ENTRIES}
  <2>1. Base(Machine) /\ Owns(Machine, use) /\ kernel_page_dir \in DOMAIN use
        /\ use[kernel_page_dir] = Directory(0)
        /\ { i \in DOMAIN Machine.mem[kernel_page_dir].tab : i >= KERNEL_PD_INDEX } = Common
    BY DEF Types, Sound, Owns, Machine
  <2> QED
    BY <1>2, <1>5, <2>1, CreateActs
<1> HIDE DEF c
<1>7. PICK u : /\ Act(Machine, use, n, c.machine, u)
               /\ c.dir \in DOMAIN u /\ u[c.dir] = Directory(n)
               /\ SameHalf(c.machine.mem[c.dir].tab, Machine.mem[kernel_page_dir].tab)
               /\ DOMAIN c.machine.mem[c.dir].tab = Common \cup {StackPage \div PAGE_ENTRIES}
  BY <1>6
<1>8. PICK after : Act(c.machine, u, n, l, after)
  <2>1. Owns(c.machine, u)
    BY <1>7 DEF Act
  <2>2. Acts(c.machine, u, n, l)
    BY <1>3, <1>5, <1>7, <2>1, TablesAct DEF Grows
  <2> QED
    BY <2>2 DEF Acts
<1> HIDE DEF l
<1>9. Act(Machine, use, n, l, after)
  BY <1>7, <1>8, ActThenAct
<1>10. Act(Machine, use, n, Machine', after)
  BY <1>1, <1>9, BecomesActs
<1>11. /\ c.dir \in DOMAIN after /\ after[c.dir] = Directory(n)
       /\ SameHalf(l.mem[c.dir].tab, c.machine.mem[c.dir].tab)
       /\ StackPage \div PAGE_ENTRIES \in DOMAIN l.mem[c.dir].tab
  BY <1>2, <1>7, <1>8 DEF Act
<1>12. SameHalf(l.mem[c.dir].tab, Machine.mem[kernel_page_dir].tab)
  BY <1>7, <1>11 DEF SameHalf
<1>13. /\ SameHalf(mem'[c.dir].tab, mem[kernel_page_dir].tab)
       /\ StackPage \div PAGE_ENTRIES \in DOMAIN mem'[c.dir].tab
  BY <1>1, <1>11, <1>12 DEF Becomes, Machine
<1>14. Sound(after)'
  BY <1>1, <1>10, <1>11, <1>13, EnlistKeepsSound DEF n
<1> QED
  BY <1>2, <1>10, <1>14 DEF Acting, n

(* The running process, and its directory in CR3.                          *)
LEMMA RunningDirectory ==
  ASSUME Types, NEW use, Sound(use), current_process # NULL
  PROVE  /\ current_process \in 1..Len(page_dir) /\ current_process # 0
         /\ cr3 = page_dir[current_process]
         /\ cr3 \in DOMAIN use /\ use[cr3] = Directory(current_process)
<1>1. Len(page_dir) \in Nat
  BY PidsListed DEF Types
<1>2. current_process \in 1..Len(page_dir) /\ current_process # 0
  BY <1>1 DEF Types, NULL
<1>3. cr3 = page_dir[current_process]
  BY DEF Types
<1>4. DOMAIN use = handed
  BY DEF Sound, Owns, Machine
<1> QED
  BY <1>2, <1>3, <1>4 DEF Sound

(* Whose table is behind an entry of the directory in CR3: one that is in  *)
(* all of the kernel half's common entries belongs to the kernel.          *)
Owner(i) == IF i \in Common THEN 0 ELSE current_process

LEMMA ActiveTables ==
  ASSUME Types, NEW use, Sound(use), current_process # NULL
  PROVE  /\ Common \subseteq DOMAIN mem[cr3].tab
         /\ \A i \in Common : /\ i \in DOMAIN mem[kernel_page_dir].tab
                            /\ mem[cr3].tab[i] = mem[kernel_page_dir].tab[i]
         /\ \A i \in DOMAIN mem[cr3].tab :
              /\ mem[cr3].tab[i].frame \in DOMAIN use
              /\ use[mem[cr3].tab[i].frame] = Table(Owner(i), i)
<1>1. /\ current_process \in 1..Len(page_dir) /\ cr3 = page_dir[current_process]
      /\ cr3 \in DOMAIN use /\ use[cr3] = Directory(current_process)
  BY RunningDirectory
<1>2. /\ SameHalf(mem[cr3].tab, mem[kernel_page_dir].tab)
      /\ Common \subseteq DOMAIN mem[kernel_page_dir].tab
  BY <1>1 DEF Sound
<1>3. /\ Common \subseteq DOMAIN mem[cr3].tab
      /\ \A i \in Common : /\ i \in DOMAIN mem[kernel_page_dir].tab
                         /\ mem[cr3].tab[i] = mem[kernel_page_dir].tab[i]
  BY <1>2 DEF SameHalf
<1>4. /\ kernel_page_dir \in DOMAIN use /\ use[kernel_page_dir] = Directory(0)
      /\ Agrees(mem, use)
  BY DEF Sound, Owns, Machine
<1>5. ASSUME NEW i \in DOMAIN mem[cr3].tab
      PROVE  /\ mem[cr3].tab[i].frame \in DOMAIN use
             /\ use[mem[cr3].tab[i].frame] = Table(Owner(i), i)
  <2>1. CASE i \in Common
    BY <1>3, <1>4, <2>1 DEF Agrees, Owner
  <2>2. CASE i \notin Common
    BY <1>1, <1>4, <2>2 DEF Agrees, Owner
  <2> QED
    BY <2>1, <2>2
<1> QED
  BY <1>3, <1>5

(* The step of a write: the page written belongs to the process that runs, *)
(* or it lies in a table that all share.                                   *)
LEMMA WriteActs ==
  ASSUME Types, NEW use, Sound(use), NEW page \in UserPages, NEW v, Write(page, v)
  PROVE  \E after, p : Acting(use, after, p)
<1> DEFINE i == page \div PAGE_ENTRIES
           j == page % PAGE_ENTRIES
           t == mem[cr3].tab[i].frame
           f == mem[t].tab[j].frame
           content == [tab |-> <<>>, data |-> v]
           l == Fill(Machine, f, content)
           p == Owner(i)
<1>1. /\ Maps(mem, cr3, page) /\ current_process # NULL
      /\ "user" \in EntryOf(mem, cr3, page).flags
      /\ UNCHANGED <<handed, answer, paging, kernel_page_dir, procVars>>
  BY DEF Write
<1>2. i \in DOMAIN mem[cr3].tab /\ j \in DOMAIN mem[t].tab /\ "user" \in mem[t].tab[j].flags
  BY <1>1 DEF Maps, EntryOf
<1>3. mem' = [mem EXCEPT ![f] = content]
  BY DEF Write, EntryOf
<1>4. Becomes(l)
  BY <1>1, <1>3 DEF Becomes, Fill, Machine
<1>7. /\ Agrees(mem, use) /\ Base(Machine) /\ Owns(Machine, use)
      /\ use[kernel_page_dir] = Directory(0)
  BY DEF Sound, Owns, Machine, Types
<1>8. t \in DOMAIN use /\ use[t] = Table(p, i)
  BY <1>1, <1>2, ActiveTables
<1>5. p = 0 \/ (p # 0 /\ p = current_process)
  BY <1>1 DEF Owner, NULL
<1> HIDE DEF i, j, content, t, p
<1>9. f \in DOMAIN use /\ use[f] = Page(p, i, j)
  BY <1>2, <1>7, <1>8 DEF Agrees
<1> HIDE DEF f
<1>10. Act(Machine, use, p, l, use)
  BY <1>7, <1>9, FillPage
<1> HIDE DEF l
<1>11. Act(Machine, use, p, Machine', use)
  BY <1>4, <1>10, BecomesActs
<1>13. mem'[kernel_page_dir] = mem[kernel_page_dir]
  <2>1. f # kernel_page_dir
    BY <1>7, <1>9 DEF Page, Directory
  <2>2. kernel_page_dir \in DOMAIN mem
    BY DEF Types, Base, Machine
  <2> QED
    BY <1>3, <2>1, <2>2
<1>12. Sound(use)'
  BY <1>1, <1>11, <1>13, ActKeepsSound DEF procVars
<1> QED
  BY <1>5, <1>11, <1>12, <1>13 DEF Acting

(* The step of a page fault, in a table that all share ...                 *)
LEMMA SharedFaultActs ==
  ASSUME Types, NEW use, Sound(use), NEW page \in UserPages, PageFault(page),
         handed' # Frames, page \div PAGE_ENTRIES \in Common
  PROVE  LET i  == page \div PAGE_ENTRIES
             j  == page % PAGE_ENTRIES
             pt == mem[cr3].tab[i].frame
             f  == Allocated(Machine).answer
         IN  /\ pt \in handed /\ use[pt] = Table(0, i)
             /\ Machine' = SetEntry(Allocated(Machine), pt, j, Entry(f, {"rw", "user"}))
             /\ mem'[kernel_page_dir] = mem[kernel_page_dir]
             /\ \E after : Act(Machine, use, 0, Machine', after) /\ Sound(after)'
<1> DEFINE i  == page \div PAGE_ENTRIES
           j  == page % PAGE_ENTRIES
           pt == mem[cr3].tab[i].frame
           a  == Allocated(Machine)
           e  == Entry(a.answer, {"rw", "user"})
           l  == SetEntry(a, pt, j, e)
<1>1. /\ Becomes(map_page(a, cr3, page, a.answer, {"rw", "user"}))
      /\ current_process # NULL
      /\ UNCHANGED <<paging, kernel_page_dir, procVars>>
  BY RunningDirectory DEF PageFault
<1>2. i \in DOMAIN mem[cr3].tab /\ pt \in DOMAIN use /\ use[pt] = Table(0, i)
  BY <1>1, ActiveTables DEF Owner
<1>3. page \in Nat /\ j \in 0..(PAGE_ENTRIES - 1)
  BY ProcessAssumption, PagingAssumption
<1>4. /\ Base(Machine) /\ Owns(Machine, use) /\ DOMAIN use = handed
      /\ kernel_page_dir \in handed /\ use[kernel_page_dir] = Directory(0)
  BY DEF Sound, Types, Owns, Machine
<1>5. Grows(Machine, a) /\ a.mem = mem
  <2>1. Machine.mem = mem
    BY DEF Machine
  <2> QED
    BY <1>4, <2>1, AllocatedGrows
<1>6. map_page(a, cr3, page, a.answer, {"rw", "user"}) = l
  BY <1>2, <1>5 DEF map_page
<1>7. e.frame = a.answer
  BY DEF Entry
<1> HIDE DEF e
<1>8. Machine' = l
  BY <1>1, <1>6 DEF Becomes, Machine, SetEntry, Fill
<1>9. Grows(a, l) /\ l.handed = a.handed
  BY <1>5, SetEntryGrows DEF Grows
<1>10. a.handed # Frames
  BY <1>8, <1>9 DEF Machine
<1>11. PICK u : /\ Act(Machine, use, 0, a, u)
                /\ a.answer \in DOMAIN u /\ u[a.answer] = Page(0, i, j)
  <2> HIDE DEF i, j
  <2> QED
    BY <1>4, <1>10, AllocatedActs
<1>12. Owns(a, u) /\ pt \in DOMAIN u /\ u[pt] = Table(0, i) /\ Base(a)
  BY <1>2, <1>5, <1>11 DEF Act, Grows
<1> HIDE DEF i, j, pt, a
<1>13. Act(a, u, 0, l, u)
  BY <1>3, <1>7, <1>11, <1>12, EnterPage
<1>14. mem'[kernel_page_dir] = mem[kernel_page_dir]
  <2>1. kernel_page_dir # pt /\ kernel_page_dir \in Frames \cup {NULL}
    BY <1>2, <1>4 DEF Table, Directory, Types
  <2>2. l.mem[kernel_page_dir] = mem[kernel_page_dir]
    BY <1>5, <1>12, <2>1, SetEntryGrows
  <2> QED
    BY <1>8, <2>2 DEF Machine
<1> HIDE DEF l
<1>15. Act(Machine, use, 0, Machine', u)
  BY <1>8, <1>11, <1>13, ActThenAct
<1>16. Sound(u)'
  BY <1>1, <1>14, <1>15, ActKeepsSound DEF procVars
<1> QED
  BY <1>2, <1>4, <1>8, <1>14, <1>15, <1>16 DEF i, j, pt, a, l, e

(* ... and elsewhere: a page of the process that runs, in the directory    *)
(* the process list says.                                                  *)
LEMMA PageFaultActs ==
  ASSUME Types, NEW use, Sound(use), NEW page \in UserPages, PageFault(page),
         handed' # Frames, page \div PAGE_ENTRIES \notin Common
  PROVE  \E after : Acting(use, after, current_process)
<1> DEFINE i  == page \div PAGE_ENTRIES
           j  == page % PAGE_ENTRIES
           p  == current_process
           pd == page_dir[p]
           a  == Allocated(Machine)
           l  == map_page(a, pd, page, a.answer, {"rw", "user"})
<1>1. /\ Becomes(l) /\ current_process # NULL
      /\ UNCHANGED <<paging, kernel_page_dir, procVars>>
  BY DEF PageFault
<1>2. p # 0 /\ pd \in DOMAIN use /\ use[pd] = Directory(p)
  BY <1>1, RunningDirectory
<1>3. page \in Nat /\ i \notin Common
  BY ProcessAssumption
<1>4. Base(Machine) /\ Owns(Machine, use)
  BY DEF Sound, Types
<1>5. Grows(Machine, a)
  BY <1>4, AllocatedGrows
<1>6. Grows(a, l)
  BY <1>5, MapPageGrows DEF Grows
<1>7. l.handed # Frames /\ a.handed # Frames
  BY <1>1, <1>5, <1>6, FramesLeft DEF Becomes, Grows
<1> HIDE DEF pd
<1>8. PICK u : /\ Act(Machine, use, p, a, u)
               /\ a.answer \in DOMAIN u /\ u[a.answer] = Page(p, i, j)
  <2> HIDE DEF i, j
  <2> QED
    BY <1>4, <1>7, AllocatedActs
<1> HIDE DEF a
<1>9. Owns(a, u) /\ pd \in DOMAIN u /\ u[pd] = Directory(p)
  BY <1>2, <1>8 DEF Act
<1>10. PICK after : Act(a, u, p, l, after)
  <2>1. Acts(a, u, p, l)
    BY <1>2, <1>3, <1>5, <1>7, <1>8, <1>9, MapPageActs DEF Grows
  <2> QED
    BY <2>1 DEF Acts
<1> HIDE DEF l
<1>11. Act(Machine, use, p, Machine', after)
  BY <1>1, <1>8, <1>10, ActThenAct, BecomesActs
<1>12. Sound(after)'
  BY <1>1, <1>2, <1>11, ActKeepsSound DEF procVars
<1> QED
  BY <1>2, <1>11, <1>12 DEF Acting

-----------------------------------------------------------------------------
(***************************************************************************)
(* The invariant, and what follows from it.                                *)
(***************************************************************************)

(* Every step of the running system acts for one process.                  *)
LEMMA StepActs ==
  ASSUME Types, NEW use, Sound(use), paging, handed' # Frames, [Next]_vars
  PROVE  \E after, p : Acting(use, after, p)
<1>1. CASE BootPaging
  BY <1>1 DEF BootPaging
<1>2. CASE CreateProcess
  BY <1>2, CreateProcessActs
<1>3. CASE ForkNobody
  BY <1>3, IdleActs DEF ForkNobody
<1>4. CASE Fork
  BY <1>4, ForkActs
<1>5. CASE Schedule
  BY <1>5, IdleActs DEF Schedule
<1>6. ASSUME NEW page \in UserPages, NEW v \in Values, Write(page, v)
      PROVE  \E after, p : Acting(use, after, p)
  BY <1>6, WriteActs
<1>7. ASSUME NEW page \in UserPages, PageFault(page)
      PROVE  \E after, p : Acting(use, after, p)
  <2>1. CASE page \div PAGE_ENTRIES \in Common
    BY <1>7, <2>1, SharedFaultActs DEF Acting
  <2>2. CASE page \div PAGE_ENTRIES \notin Common
    BY <1>7, <2>2, PageFaultActs
  <2> QED
    BY <2>1, <2>2
<1>8. CASE UNCHANGED vars
  BY <1>8, IdleActs DEF vars, procVars
<1> QED
  BY <1>1, <1>2, <1>3, <1>4, <1>5, <1>6, <1>7, <1>8 DEF Next

(* init_pages makes the first state that is sound.                         *)
LEMMA BootIsSound ==
  ASSUME Types, handed = {}, page_dir = <<>>, BootPaging, handed' # Frames
  PROVE  \E use : Sound(use)'
<1> DEFINE b == init_pages(Machine)
           l == map_framebuffer(b.machine, b.dir)
<1>1. Becomes(l) /\ kernel_page_dir' = b.dir /\ UNCHANGED page_dir
  BY DEF BootPaging
<1>2. /\ \E use : Owns(l, use) /\ b.dir \in DOMAIN use /\ use[b.dir] = Directory(0)
      /\ { i \in DOMAIN l.mem[b.dir].tab : i >= KERNEL_PD_INDEX } = Common
  <2>1. l.handed # Frames
    BY <1>1 DEF Becomes
  <2>2. Machine.handed = {}
    BY DEF Machine
  <2> QED
    BY <2>1, <2>2, BootActs DEF Types
<1> HIDE DEF b, l
<1>3. PICK use : Owns(l, use) /\ b.dir \in DOMAIN use /\ use[b.dir] = Directory(0)
  BY <1>2
<1>4. Owns(Machine', use)
  BY <1>1, <1>3 DEF Owns, Machine, Becomes
<1>5. kernel_page_dir' \in handed'
  BY <1>1, <1>3, <1>4 DEF Owns, Machine
<1>6. 1..Len(page_dir') = {}
  <2>1. Len(page_dir') = 0
    BY <1>1
  <2> QED
    BY <2>1
<1>7. { i \in DOMAIN mem'[kernel_page_dir'].tab : i >= KERNEL_PD_INDEX } = Common
  BY <1>1, <1>2 DEF Becomes
<1> QED
  BY <1>1, <1>3, <1>4, <1>5, <1>6, <1>7 DEF Sound

(* The invariant holds when the kernel starts: no frame has a use.         *)
LEMMA InitIInv == Init => IInv
<1> SUFFICES ASSUME Init PROVE IInv
  OBVIOUS
<1>1. Len(page_dir) = 0 /\ page_dir = <<>> /\ page_dir \in Seq(Frames \cup {NULL})
  BY DEF Init
<1>2. MaxProcs \in Nat
  BY ProcessAssumption
<1>3. process_list = [i \in 1..Len(page_dir) |-> Len(page_dir) + 1 - i]
  BY <1>1 DEF Init
<1>4. Listed
  BY <1>1, <1>2, <1>3 DEF Init, Listed
<1>5. /\ mem = [f \in Frames \cup {NULL} |-> [tab |-> <<>>, data |-> Junk]]
      /\ handed = {} /\ answer = NULL /\ ~paging
  BY DEF Init
<1>6. Base(Machine)
  BY <1>5 DEF Base, Machine
<1>7. /\ current_process = 0 /\ current_process = NULL
      /\ kernel_page_dir = NULL /\ cr3 = NULL
      /\ paging \in BOOLEAN /\ returned = 0
  BY DEF Init, NULL
<1>8. Types
  BY <1>1, <1>2, <1>4, <1>6, <1>7 DEF Types
<1> QED
  BY <1>1, <1>5, <1>8 DEF IInv

(* The invariant is inductive: one step per operation, each giving the     *)
(* frames it takes a use.                                                  *)
LEMMA StepIInv == IInv /\ [Next]_vars => IInv'
<1> SUFFICES ASSUME IInv, [Next]_vars PROVE IInv'
  OBVIOUS
<1>1. Types' /\ Grows(Machine, Machine')
  BY TypesStep DEF IInv
<1>2. handed' # Frames => handed # Frames
  BY <1>1, FramesLeft DEF IInv, Types, Machine
<1>3. CASE paging
  <2>1. paging'
    BY <1>3 DEF Next, BootPaging, CreateProcess, ForkNobody, Fork, Schedule,
                Write, PageFault, vars, procVars
  <2>2. handed' # Frames => \E use : Sound(use)'
    <3> SUFFICES ASSUME handed' # Frames PROVE \E use : Sound(use)'
      OBVIOUS
    <3>1. PICK use : Sound(use)
      BY <1>2, <1>3 DEF IInv
    <3>2. \E after, p : Acting(use, after, p)
      BY <1>3, <3>1, StepActs DEF IInv
    <3> QED
      BY <3>2 DEF Acting
  <2> QED
    BY <1>1, <2>1, <2>2 DEF IInv
<1>4. CASE ~paging
  <2>1. Types /\ handed = {} /\ page_dir = <<>>
    BY <1>4 DEF IInv
  <2>2. CASE BootPaging
    <3>1. paging'
      BY <2>2 DEF BootPaging
    <3>2. handed' # Frames => \E use : Sound(use)'
      BY <2>1, <2>2, BootIsSound
    <3> QED
      BY <1>1, <3>1, <3>2 DEF IInv
  <2>3. CASE UNCHANGED vars
    BY <1>1, <1>4, <2>1, <2>3 DEF IInv, vars, procVars
  <2> QED
    BY <1>4, <2>2, <2>3 DEF Next, Running, CreateProcess, ForkNobody, Fork, Schedule,
                            Write, PageFault
<1> QED
  BY <1>3, <1>4

(* At all times.                                                           *)
THEOREM ProcessInvariance == Spec => []IInv
BY InitIInv, StepIInv, PTL DEF Spec

(* schedule goes down the list, from each pid to the one created before    *)
(* it, and from the first one created to the last.                         *)
LEMMA AfterIsBefore ==
  ASSUME Listed, process_list # <<>>, NEW p \in 0..Len(page_dir)
  PROVE  After(p) = IF p <= 1 THEN Len(page_dir) ELSE p - 1
<1> DEFINE n == Len(process_list)
<1>1. /\ n \in Nat /\ Len(page_dir) = n /\ Procs = 1..n
      /\ \A i \in 1..n : process_list[i] = n + 1 - i
  BY PidsListed
<1>2. n >= 1 /\ p \in 0..n
  <2>1. After(p) \in 1..n
    BY <1>1, AfterIsListed
  <2> HIDE DEF n
  <2> QED
    BY <1>1, <2>1
<1> DEFINE at == IF p = 0 THEN 0 ELSE n + 1 - p
<1>3. Place(p) = at
  <2> DEFINE Here(i) == IF i = 0 THEN p \notin Range(process_list)
                        ELSE process_list[i] = p
  <2>1. Place(p) = CHOOSE i \in 0..n : Here(i)
    BY DEF Place
  <2>2. p \in Range(process_list) <=> p # 0
    BY <1>1, <1>2 DEF Procs
  <2> HIDE DEF n
  <2>3. at \in 0..n /\ Here(at)
    BY <1>1, <1>2, <2>2
  <2>4. \A i \in 0..n : Here(i) => i = at
    BY <1>1, <1>2, <2>2
  <2> HIDE DEF Here, at
  <2> QED
    BY <2>1, <2>3, <2>4
<1>4. After(p) = process_list[IF Place(p) < n THEN Place(p) + 1 ELSE 1]
  BY DEF After
<1> HIDE DEF n
<1>5. CASE p = 0
  BY <1>1, <1>2, <1>3, <1>4, <1>5
<1>6. CASE p # 0
  BY <1>1, <1>2, <1>3, <1>4, <1>6
<1> QED
  BY <1>5, <1>6

(* How long each process has waited at most: those above the current one   *)
(* have had their turn since the round began, those below have not.        *)
Patience ==
  /\ waited \in Seq(Nat) /\ Len(waited) = Len(page_dir)
  /\ \A p \in 1..Len(page_dir) :
       waited[p] <= IF current_process = 0 THEN 0
                    ELSE IF p >= current_process THEN p - current_process
                    ELSE Len(page_dir) - current_process + p

(* Every step keeps it: a call of schedule goes one process further, and a *)
(* new process is above all others.                                        *)
LEMMA StepPatience == IInv /\ Patience /\ [Next]_vars => Patience'
<1> SUFFICES ASSUME IInv, Patience, [Next]_vars PROVE Patience'
  OBVIOUS
<1> DEFINE n == Len(page_dir)
           c == current_process
<1>1. /\ n \in Nat /\ Listed /\ c \in 0..n
      /\ waited \in Seq(Nat) /\ Len(waited) = n /\ DOMAIN waited = 1..n
      /\ \A p \in 1..n : /\ waited[p] \in Nat
                         /\ waited[p] <= IF c = 0 THEN 0 ELSE IF p >= c THEN p - c
                                         ELSE n - c + p
  <2>1. n \in Nat /\ Listed /\ c \in 0..n
    BY PidsListed DEF IInv, Types
  <2>2. waited \in Seq(Nat) /\ Len(waited) = n
    BY DEF Patience
  <2> HIDE DEF n
  <2>3. DOMAIN waited = 1..n /\ \A p \in 1..n : waited[p] \in Nat
    BY <2>1, <2>2
  <2> QED
    BY <2>1, <2>2, <2>3 DEF Patience, n
<1>2. ASSUME NEW d \in Frames \cup {NULL}, Len(process_list) < MaxProcs, Enlist(d),
             UNCHANGED current_process
      PROVE  Patience'
  <2>1. Len(page_dir') = n + 1
    BY <1>1, <1>2, EnlistKeepsListed
  <2>2. waited' = Append(waited, 0) /\ c' = c
    BY <1>2 DEF Enlist
  <2> HIDE DEF n
  <2>3. /\ waited' \in Seq(Nat) /\ Len(waited') = n + 1 /\ waited'[n + 1] = 0
        /\ \A p \in 1..n : waited'[p] = waited[p]
    BY <1>1, <2>2
  <2>4. ASSUME NEW p \in 1..n + 1
        PROVE  waited'[p] <= IF c = 0 THEN 0 ELSE IF p >= c THEN p - c
                             ELSE (n + 1) - c + p
    <3>1. CASE p = n + 1
      BY <1>1, <2>3, <3>1
    <3>2. CASE p \in 1..n
      BY <1>1, <2>3, <3>2
    <3> QED
      BY <1>1, <3>1, <3>2
  <2> QED
    BY <2>1, <2>2, <2>3, <2>4 DEF Patience
<1>3. CASE CreateProcess \/ Fork
  <2>1. create_process(Machine).dir \in Frames \cup {NULL}
    BY CreateGrows DEF IInv, Types
  <2> QED
    BY <1>2, <1>3, <2>1 DEF CreateProcess, Fork
<1>4. CASE Schedule
  <2>1. /\ process_list # <<>> /\ c' = After(c) /\ waited' = Waited(c')
        /\ UNCHANGED page_dir
    BY <1>4 DEF Schedule
  <2>2. After(c) = IF c <= 1 THEN n ELSE c - 1
    BY <1>1, <2>1, AfterIsBefore
  <2>3. waited' = [p \in 1..n |-> IF p = c' THEN 0 ELSE waited[p] + 1]
    BY <1>1, <2>1 DEF Waited
  <2>4. c' \in 1..n
    BY <1>1, <2>1, AfterIsListed
  <2>5. Len(page_dir') = n
    BY <2>1
  <2> HIDE DEF n
  <2>6. waited' \in Seq(Nat) /\ Len(waited') = n
    BY <1>1, <2>3
  <2>7. ASSUME NEW p \in 1..n
        PROVE  waited'[p] <= IF c' = 0 THEN 0 ELSE IF p >= c' THEN p - c'
                             ELSE n - c' + p
    <3>1. CASE p = c'
      <4>1. waited'[p] = 0
        BY <2>3, <3>1
      <4>2. 0 <= IF p = 0 THEN 0 ELSE IF p >= p THEN p - p ELSE n - p + p
        BY <1>1
      <4> HIDE DEF c
      <4> QED
        BY ONLY <3>1, <4>1, <4>2
    <3>2. CASE p # c'
      <4>1. waited'[p] = waited[p] + 1
        BY <2>3, <3>2
      <4>2. c' = IF c <= 1 THEN n ELSE c - 1
        BY <2>1, <2>2
      <4> HIDE DEF c
      <4> QED
        BY <1>1, <2>4, <3>2, <4>1, <4>2
    <3> QED
      BY <3>1, <3>2
  <2> QED
    BY <2>5, <2>6, <2>7 DEF Patience
<1>5. CASE UNCHANGED <<page_dir, current_process, waited>>
  BY <1>5 DEF Patience
<1>6. CASE BootPaging \/ ForkNobody \/ UNCHANGED vars
  BY <1>5, <1>6 DEF BootPaging, ForkNobody, vars, procVars
<1>7. ASSUME NEW page \in UserPages, NEW v \in Values, Write(page, v)
      PROVE  Patience'
  BY <1>5, <1>7 DEF Write, procVars
<1>8. ASSUME NEW page \in UserPages, PageFault(page)
      PROVE  Patience'
  BY <1>5, <1>8 DEF PageFault, procVars
<1> QED
  BY <1>3, <1>4, <1>6, <1>7, <1>8 DEF Next

(* It holds before any process is made, and so always.                     *)
LEMMA PatienceInvariance == Spec => []Patience
<1>1. Init => Patience
  <2> SUFFICES ASSUME Init PROVE Patience
    OBVIOUS
  <2>1. page_dir = <<>> /\ waited = <<>>
    BY DEF Init
  <2>2. Len(page_dir) = 0 /\ Len(waited) = 0 /\ waited \in Seq(Nat)
    BY <2>1
  <2>3. 1..0 = {}
    OBVIOUS
  <2> QED
    BY <2>2, <2>3 DEF Patience
<1> QED
  BY <1>1, StepPatience, ProcessInvariance, PTL DEF Spec

(* No process is passed over: it is current again before schedule has been *)
(* called as often as there are processes, however many are created and    *)
(* forked in the meantime, since these come to the front of the list.      *)
THEOREM NobodyIsPassedOver == Spec => []BoundedWait
<1>1. IInv /\ Patience => BoundedWait
  <2> SUFFICES ASSUME IInv, Patience, NEW p \in Procs
               PROVE  waited[p] < Len(process_list)
    BY DEF BoundedWait
  <2> DEFINE n == Len(page_dir)
  <2>1. /\ n \in Nat /\ Len(process_list) = n /\ p \in 1..n
        /\ current_process \in 0..n
    BY PidsListed DEF IInv, Types
  <2>2. /\ waited \in Seq(Nat) /\ Len(waited) = n
        /\ waited[p] <= IF current_process = 0 THEN 0
                        ELSE IF p >= current_process THEN p - current_process
                        ELSE n - current_process + p
    BY <2>1 DEF Patience
  <2> HIDE DEF n
  <2>3. waited[p] \in Nat
    BY <2>1, <2>2
  <2> QED
    BY <2>1, <2>2, <2>3
<1> QED
  BY <1>1, ProcessInvariance, PatienceInvariance, PTL

(* The types of the processes' state: whatever is created and forked, and  *)
(* whether the allocator still answers or not, every pid on the list has a *)
(* directory, the current process is on the list, and CR3 holds its        *)
(* directory (fork.c, schedule).                                           *)
THEOREM ProcessTypes == Spec => []TypeOK
<1>1. IInv /\ Patience => TypeOK
  <2> SUFFICES ASSUME IInv, Patience PROVE TypeOK
    OBVIOUS
  <2>1. /\ Len(page_dir) \in Nat /\ DOMAIN page_dir = 1..Len(page_dir)
        /\ Procs = 1..Len(page_dir)
    BY PidsListed DEF IInv, Types
  <2>2. Range(page_dir) \subseteq Frames \cup {NULL}
    BY DEF IInv, Types, Listed, Range
  <2>3. current_process \in Procs \cup {NULL}
    BY <2>1 DEF IInv, Types, NULL
  <2>4. forks \in 0..MaxProcs
    BY <2>1, ProcessAssumption DEF IInv, Types, Listed
  <2>5. waited \in [Procs -> Nat]
    <3>1. waited \in Seq(Nat) /\ Len(waited) = Len(page_dir)
      BY DEF Patience
    <3> QED
      BY <2>1, <3>1
  <2> QED
    BY <2>1, <2>2, <2>3, <2>4, <2>5 DEF IInv, Types, TypeOK, Base, Machine
<1> QED
  BY <1>1, ProcessInvariance, PatienceInvariance, PTL

(* The entries that processes share with the kernel.                       *)
LEMMA SharedIsCommon ==
  ASSUME NEW use, Sound(use)
  PROVE  Shared = Common
BY DEF Sound, Shared

(* The use of each frame a process can reach through the entries of its    *)
(* directory that are its own.                                             *)
LEMMA UsesOfAProcess ==
  ASSUME Types, NEW use, Sound(use), NEW p \in Procs
  PROVE  /\ p # 0 /\ page_dir[p] \in handed /\ use[page_dir[p]] = Directory(p)
         /\ \A i \in Own(page_dir[p]) :
              /\ TableAt(page_dir[p], i) \in handed
              /\ use[TableAt(page_dir[p], i)] = Table(p, i)
              /\ \A j \in DOMAIN mem[TableAt(page_dir[p], i)].tab :
                   /\ PageAt(page_dir[p], <<i, j>>) \in handed
                   /\ use[PageAt(page_dir[p], <<i, j>>)] = Page(p, i, j)
<1> DEFINE pd == page_dir[p]
<1>1. p \in 1..Len(page_dir) /\ Len(page_dir) \in Nat
  BY PidsListed DEF Types
<1>2. p # 0 /\ pd \in handed /\ use[pd] = Directory(p)
  BY <1>1 DEF Sound
<1>3. Agrees(mem, use) /\ DOMAIN use = handed
  BY DEF Sound, Owns, Machine
<1> HIDE DEF pd
<1>4. ASSUME NEW i \in Own(pd)
      PROVE  /\ TableAt(pd, i) \in handed /\ use[TableAt(pd, i)] = Table(p, i)
             /\ \A j \in DOMAIN mem[TableAt(pd, i)].tab :
                  /\ PageAt(pd, <<i, j>>) \in handed
                  /\ use[PageAt(pd, <<i, j>>)] = Page(p, i, j)
  <2>1. i \in DOMAIN mem[pd].tab /\ i \notin Common
    BY SharedIsCommon DEF Own
  <2>2. TableAt(pd, i) \in handed /\ use[TableAt(pd, i)] = Table(p, i)
    BY <1>2, <1>3, <2>1 DEF Agrees, TableAt
  <2>3. \A j : PageAt(pd, <<i, j>>) = mem[TableAt(pd, i)].tab[j].frame
    BY DEF PageAt
  <2> QED
    BY <1>2, <1>3, <2>2, <2>3 DEF Agrees
<1> QED
  BY <1>2, <1>4 DEF pd

(* The same for the pages alone, by the names that OwnPages gives them.    *)
LEMMA UsesOfPages ==
  ASSUME Types, NEW use, Sound(use), NEW p \in Procs
  PROVE  \A a \in OwnPages(page_dir[p]) :
           /\ a = <<a[1], a[2]>> /\ a[1] \in Own(page_dir[p])
           /\ a[2] \in DOMAIN mem[TableAt(page_dir[p], a[1])].tab
           /\ PageAt(page_dir[p], a) \in handed
           /\ use[PageAt(page_dir[p], a)] = Page(p, a[1], a[2])
<1> DEFINE pd == page_dir[p]
<1>1. \A i \in Own(pd) : \A j \in DOMAIN mem[TableAt(pd, i)].tab :
        /\ PageAt(pd, <<i, j>>) \in handed
        /\ use[PageAt(pd, <<i, j>>)] = Page(p, i, j)
  BY UsesOfAProcess
<1> HIDE DEF pd
<1> SUFFICES ASSUME NEW a \in OwnPages(pd)
             PROVE  /\ a = <<a[1], a[2]>> /\ a[1] \in Own(pd)
                    /\ a[2] \in DOMAIN mem[TableAt(pd, a[1])].tab
                    /\ PageAt(pd, a) \in handed
                    /\ use[PageAt(pd, a)] = Page(p, a[1], a[2])
  BY DEF pd
<1>2. PICK i \in Own(pd) : a \in {i} \X DOMAIN mem[TableAt(pd, i)].tab
  BY DEF OwnPages, PagesIn
<1>3. a = <<i, a[2]>> /\ a[1] = i /\ a[2] \in DOMAIN mem[TableAt(pd, i)].tab
  BY <1>2
<1> QED
  BY <1>1, <1>3

(* No frame has two uses.  The directory, the tables and the pages that a  *)
(* process reaches are frames of its own: create_process, __fork and the   *)
(* page fault handler never give one frame to two processes, twice to one, *)
(* or one of the kernel's to any.  Until pmm_alloc_page runs dry, that is: *)
(* from then on they all work on frame 0.                                  *)
THEOREM EveryFrameHasOneUse == Spec => [](handed # Frames => FramesAreOwned)
<1>1. IInv => (handed # Frames => FramesAreOwned)
  <2> SUFFICES ASSUME IInv, handed # Frames PROVE FramesAreOwned
    OBVIOUS
  <2>1. CASE ~paging
    <3>1. Procs = {}
      <4>1. page_dir = <<>> /\ Listed
        BY <2>1 DEF IInv, Types
      <4>2. Len(page_dir) = 0
        BY <4>1
      <4> QED
        BY <4>1, <4>2, PidsListed
    <3> QED
      BY <3>1 DEF FramesAreOwned
  <2>2. CASE paging
    <3>1. PICK use : Sound(use)
      BY <2>2 DEF IInv
    <3>0. Types
      BY DEF IInv
    <3> USE <3>0
    <3>2. ASSUME NEW p \in Procs, NEW f \in FramesOf(page_dir[p])
          PROVE  f \in handed /\ use[f][1] = p
      <4> DEFINE pd == page_dir[p]
      <4>1. CASE f = pd
        BY <3>1, <4>1, UsesOfAProcess DEF Directory
      <4>2. CASE f \in Tables(pd)
        BY <3>1, <4>2, UsesOfAProcess DEF Tables, Table
      <4>3. CASE f \in PagesOf(pd)
        BY <3>1, <4>3, UsesOfPages DEF PagesOf, Page
      <4> QED
        BY <3>2, <4>1, <4>2, <4>3 DEF FramesOf
    <3>3. ASSUME NEW f \in KernelFrames PROVE use[f][1] = 0
      <4>1. use[kernel_page_dir] = Directory(0) /\ kernel_page_dir \in DOMAIN use
        BY <3>1 DEF Sound, Owns, Machine
      <4>2. Agrees(mem, use)
        BY <3>1 DEF Sound, Owns, Machine
      <4>3. \A i \in DOMAIN mem[kernel_page_dir].tab :
              /\ mem[kernel_page_dir].tab[i].frame \in DOMAIN use
              /\ use[mem[kernel_page_dir].tab[i].frame] = Table(0, i)
        BY <4>1, <4>2 DEF Agrees
      <4>4. ASSUME NEW t \in KernelTables, NEW g \in Faulted(t) PROVE use[g][1] = 0
        <5>1. PICK i : t \in DOMAIN use /\ use[t] = Table(0, i)
          BY <4>3 DEF KernelTables
        <5>2. PICK j \in DOMAIN mem[t].tab :
                "user" \in mem[t].tab[j].flags /\ g = mem[t].tab[j].frame
          BY DEF Faulted
        <5>3. use[g] = Page(0, i, j)
          BY <4>2, <5>1, <5>2 DEF Agrees
        <5> QED
          BY <5>3 DEF Page
      <4>5. \A t \in KernelTables : use[t][1] = 0
        BY <4>3 DEF KernelTables, Table
      <4> QED
        BY <4>1, <4>4, <4>5 DEF KernelFrames, Directory
    <3>4. ASSUME NEW p \in Procs
          PROVE  LET pd == page_dir[p] IN
                 /\ pd \notin Tables(pd) \cup PagesOf(pd)
                 /\ Tables(pd) \cap PagesOf(pd) = {}
                 /\ \A i, j \in Own(pd) : TableAt(pd, i) = TableAt(pd, j) => i = j
                 /\ \A a, b \in OwnPages(pd) : PageAt(pd, a) = PageAt(pd, b) => a = b
      <4> DEFINE pd == page_dir[p]
      <4>1. /\ use[pd][2] = "directory"
            /\ \A i \in Own(pd) : /\ use[TableAt(pd, i)][2] = "table"
                                  /\ use[TableAt(pd, i)][3] = i
        <5>1. /\ use[pd] = Directory(p)
              /\ \A i \in Own(pd) : use[TableAt(pd, i)] = Table(p, i)
          BY <3>1, UsesOfAProcess
        <5> QED
          BY <5>1 DEF Directory, Table
      <4>2. \A a \in OwnPages(pd) :
              /\ use[PageAt(pd, a)][2] = "page" /\ a = <<a[1], a[2]>>
              /\ use[PageAt(pd, a)][3] = a[1] /\ use[PageAt(pd, a)][4] = a[2]
        BY <3>1, UsesOfPages DEF Page
      <4> HIDE DEF pd
      <4>3. pd \notin Tables(pd) \cup PagesOf(pd) /\ Tables(pd) \cap PagesOf(pd) = {}
        BY <4>1, <4>2 DEF Tables, PagesOf
      <4>4. \A a, b \in OwnPages(pd) : PageAt(pd, a) = PageAt(pd, b) => a = b
        BY <4>2
      <4> QED
        BY <4>1, <4>3, <4>4 DEF pd
    <3>5. \A p \in Procs : p # 0
      BY <3>1, UsesOfAProcess
    <3> QED
      BY <3>2, <3>3, <3>4, <3>5 DEF FramesAreOwned
  <2> QED
    BY <2>1, <2>2
<1> QED
  BY <1>1, ProcessInvariance, PTL

(* What the kernel has mapped in its half, the framebuffer included, every *)
(* process has through the kernel's own tables: clone_kernel_space takes   *)
(* the entries over, and neither copy_addr_space nor a page fault, in      *)
(* whichever half it comes, replaces or removes one of them.               *)
THEOREM OneKernelHalf == Spec => [](handed # Frames => KernelHalfIsShared)
<1>1. IInv => (handed # Frames => KernelHalfIsShared)
  <2> SUFFICES ASSUME IInv, handed # Frames PROVE KernelHalfIsShared
    OBVIOUS
  <2>1. CASE ~paging
    <3>1. Procs = {}
      <4>1. page_dir = <<>> /\ Listed
        BY <2>1 DEF IInv, Types
      <4>2. Len(page_dir) = 0
        BY <4>1
      <4> QED
        BY <4>1, <4>2, PidsListed
    <3> QED
      BY <3>1 DEF KernelHalfIsShared
  <2>2. CASE paging
    <3>1. PICK use : Sound(use)
      BY <2>2 DEF IInv
    <3>2. \A p \in Procs : SameHalf(mem[page_dir[p]].tab, mem[kernel_page_dir].tab)
      BY <3>1, PidsListed DEF Sound, IInv, Types
    <3>3. Shared = Common /\ \A i \in Shared : i \in DOMAIN mem[kernel_page_dir].tab
      BY <3>1, SharedIsCommon DEF Shared
    <3> QED
      BY <3>2, <3>3 DEF SameHalf, KernelHalfIsShared
  <2> QED
    BY <2>1, <2>2
<1> QED
  BY <1>1, ProcessInvariance, PTL

(* What another process sees is not what a step can change.                *)
LEMMA ViewsStay ==
  ASSUME Types, NEW use, Sound(use), NEW after, NEW q, Acting(use, after, q),
         NEW p \in Procs, p # q,
         page_dir'[p] = page_dir[p]
  PROVE  View(page_dir[p])' = View(page_dir[p])
<1> DEFINE pd == page_dir[p]
<1>1. DOMAIN use = handed
  BY DEF Sound, Owns, Machine
<1>2. \A f \in handed : use[f][1] = p => mem'[f] = mem[f]
  BY <1>1 DEF Acting, Act, Machine
<1>3. pd' = pd /\ mem'[pd] = mem[pd]
  <2>1. pd \in handed /\ use[pd] = Directory(p)
    BY UsesOfAProcess
  <2>2. pd' = pd
    OBVIOUS
  <2> HIDE DEF pd
  <2> QED
    BY ONLY <1>2, <2>1, <2>2 DEF Directory
<1>4. \A i \in Own(pd) : mem'[TableAt(pd, i)] = mem[TableAt(pd, i)]
  <2>1. \A i \in Own(pd) : TableAt(pd, i) \in handed /\ use[TableAt(pd, i)] = Table(p, i)
    BY UsesOfAProcess
  <2> QED
    BY ONLY <1>2, <2>1 DEF Table
<1>5. \A a \in OwnPages(pd) :
        /\ a[1] \in Own(pd)
        /\ mem'[PageAt(pd, a)] = mem[PageAt(pd, a)]
  <2>1. \A a \in OwnPages(pd) :
          /\ a[1] \in Own(pd) /\ PageAt(pd, a) \in handed
          /\ use[PageAt(pd, a)] = Page(p, a[1], a[2])
    BY UsesOfPages
  <2> QED
    BY ONLY <1>2, <2>1 DEF Page
<1> HIDE DEF pd
<1>9. Shared = Common /\ Shared' = Common
  BY SharedIsCommon DEF Acting, Sound, Shared
<1>6. Own(pd)' = Own(pd) /\ \A i \in Own(pd) : TableAt(pd, i)' = TableAt(pd, i)
  BY <1>3, <1>9 DEF Own, TableAt
<1>7. OwnPages(pd)' = OwnPages(pd)
  BY <1>4, <1>6 DEF OwnPages, PagesIn
<1>8. \A a \in OwnPages(pd) : PageAt(pd, a)' = PageAt(pd, a)
  BY <1>4, <1>5, <1>6 DEF PageAt
<1> QED
  BY <1>5, <1>7, <1>8 DEF View, pd

(* While there are frames left, no process ever sees a page of its own     *)
(* appear, vanish or change while another one runs, whatever that one      *)
(* writes, faults on, creates or forks; after a fork the parent's writes   *)
(* do not show in the child, nor the child's in the parent.                *)
THEOREM NobodyElseSeesIt == Spec /\ [](handed # Frames) => OthersKeepTheirView
<1> DEFINE Kept == \A p \in Procs \ {current_process} :
                     View(page_dir[p])' = View(page_dir[p])
<1>1. IInv /\ (handed # Frames)' /\ [Next]_vars => [Kept]_vars
  <2> SUFFICES ASSUME IInv, handed' # Frames, [Next]_vars,
                      NEW p \in Procs \ {current_process}
               PROVE  View(page_dir[p])' = View(page_dir[p])
    OBVIOUS
  <2>1. Types
    BY DEF IInv
  <2>2. p \in 1..Len(page_dir) /\ Len(page_dir) \in Nat /\ DOMAIN page_dir = 1..Len(page_dir)
    BY <2>1, PidsListed DEF Types
  <2>3. paging
    <3> SUFFICES ASSUME ~paging PROVE FALSE
      OBVIOUS
    <3>1. page_dir = <<>>
      BY DEF IInv
    <3>2. Len(page_dir) = 0
      BY <3>1
    <3> QED
      BY <2>2, <3>2
  <2>4. handed # Frames
    BY <2>1, TypesStep, FramesLeft DEF IInv, Types, Machine
  <2>5. PICK use : Sound(use)
    BY <2>3, <2>4 DEF IInv
  <2>6. PICK after, q : Acting(use, after, q)
    BY <2>1, <2>3, <2>5, StepActs
  <2>7. p # q
    BY <2>2, <2>6 DEF Acting
  <2>8. page_dir'[p] = page_dir[p]
    <3>1. ASSUME NEW d, page_dir' = Append(page_dir, d) PROVE page_dir'[p] = page_dir[p]
      <4>1. page_dir \in Seq(Frames \cup {NULL})
        BY <2>1 DEF Types, Listed
      <4>2. page_dir'[p] = page_dir[p]
        BY <2>2, <3>1, <4>1
      <4> QED
        BY <4>2
    <3>2. CASE CreateProcess \/ Fork
      BY <3>1, <3>2 DEF CreateProcess, Fork, Enlist
    <3>3. CASE ~(CreateProcess \/ Fork)
      BY <3>3 DEF Next, BootPaging, ForkNobody, Schedule, Write, PageFault, vars, procVars
    <3> QED
      BY <3>2, <3>3
  <2> QED
    BY <2>1, <2>5, <2>6, <2>7, <2>8, ViewsStay
<1> QED
  BY <1>1, ProcessInvariance, PTL DEF Spec, OthersKeepTheirView

-----------------------------------------------------------------------------
(***************************************************************************)
(* What __fork copies.                                                     *)
(***************************************************************************)

(* From the machine m to n only new frames and d have been written.        *)
Leaves(m, n, d) ==
  m.handed \subseteq n.handed /\ \A g \in m.handed : g # d => n.mem[g] = m.mem[g]

(* The frame f is behind the entry i of the directory pd: it is the table, *)
(* or a page the table has.                                                *)
Behind(memory, pd, i, f) ==
  LET t == memory[pd].tab[i].frame
  IN  f = t \/ \E j \in DOMAIN memory[t].tab : f = memory[t].tab[j].frame

(* In n, the table dst_pt has the first entries of m's src_pt, and behind  *)
(* each a new page with the same contents; no other page is new.           *)
EntriesCopied(m, n, src_pt, dst_pt, entries) ==
  /\ DOMAIN n.mem[dst_pt].tab = { j \in DOMAIN m.mem[src_pt].tab : j < entries }
  /\ \A j \in DOMAIN n.mem[dst_pt].tab :
       LET f == n.mem[dst_pt].tab[j].frame
       IN  /\ f \in n.handed \ m.handed
           /\ n.mem[f].data = m.mem[m.mem[src_pt].tab[j].frame].data
  /\ \A g \in n.handed \ m.handed :
       \E j \in DOMAIN n.mem[dst_pt].tab : g = n.mem[dst_pt].tab[j].frame

(* From m to l the entry j of src_pt has been copied, to a new page.       *)
EntryCopied(m, l, src_pt, dst_pt, j) ==
  LET f == l.mem[dst_pt].tab[j].frame
  IN  /\ Leaves(m, l, dst_pt)
      /\ f \in l.handed /\ f \notin m.handed /\ l.handed = m.handed \cup {f}
      /\ l.mem[f] = m.mem[m.mem[src_pt].tab[j].frame]
      /\ DOMAIN l.mem[dst_pt].tab = DOMAIN m.mem[dst_pt].tab \cup {j}
      /\ \A h \in DOMAIN m.mem[dst_pt].tab :
           h # j => l.mem[dst_pt].tab[h] = m.mem[dst_pt].tab[h]

(* A present entry of the table that is copied.                            *)
LEMMA CopyEntryDoes ==
  ASSUME NEW m, Base(m), NEW src_pt, NEW dst_pt \in m.handed,
         NEW j \in DOMAIN m.mem[src_pt].tab,
         entry_done(m, src_pt, dst_pt, j).handed # Frames
  PROVE  EntryCopied(m, entry_done(m, src_pt, dst_pt, j), src_pt, dst_pt, j)
<1> DEFINE page == m.mem[src_pt].tab[j].frame
           n == Allocated(m)
           c == Fill(n, n.answer, n.mem[page])
           e == Entry(n.answer, {"rw", "user"})
           l == SetEntry(c, dst_pt, j, e)
<1>1. n.mem = m.mem
  BY AllocatedGrows
<1>2. entry_done(m, src_pt, dst_pt, j) = l
  BY <1>1 DEF entry_done, copy_entry, copy_page
<1>3. e.frame = n.answer
  BY DEF Entry
<1>4. Base(n) /\ (n.handed # Frames => n.answer \in Frames /\ n.answer \notin m.handed
                                       /\ n.handed = m.handed \cup {n.answer})
  BY AllocatedGrows DEF Grows
<1> HIDE DEF n, e, page
<1>5. /\ Base(c) /\ c.handed = n.handed
      /\ n.answer \in Frames \cup {NULL} => c.mem[n.answer] = n.mem[page]
      /\ \A g \in Frames \cup {NULL} : g # n.answer => c.mem[g] = n.mem[g]
  <2>1. /\ Grows(n, c) /\ c.handed = n.handed
        /\ n.answer \in Frames \cup {NULL} => c.mem[n.answer] = n.mem[page]
        /\ \A g \in Frames \cup {NULL} : g # n.answer => c.mem[g] = n.mem[g]
    BY ONLY <1>4, FillGrows
  <2>2. Base(c)
    BY <2>1 DEF Grows
  <2> QED
    BY <2>1, <2>2
<1> HIDE DEF c
<1>6. dst_pt \in Frames \cup {NULL} /\ m.handed \subseteq Frames
  BY DEF Base
<1>7. /\ l.handed = c.handed
      /\ DOMAIN l.mem[dst_pt].tab = DOMAIN c.mem[dst_pt].tab \cup {j}
      /\ l.mem[dst_pt].tab[j] = e
      /\ \A h \in DOMAIN c.mem[dst_pt].tab : h # j => l.mem[dst_pt].tab[h] = c.mem[dst_pt].tab[h]
      /\ \A g \in Frames \cup {NULL} : g # dst_pt => l.mem[g] = c.mem[g]
  BY <1>5, <1>6, SetEntryGrows
<1> HIDE DEF l
<1>8. /\ n.answer \in Frames /\ n.answer \notin m.handed
      /\ n.handed = m.handed \cup {n.answer}
  BY <1>2, <1>4, <1>5, <1>7
<1>9. c.mem[dst_pt] = m.mem[dst_pt] /\ l.mem[n.answer] = m.mem[page]
  BY <1>1, <1>5, <1>6, <1>7, <1>8
<1>10. Leaves(m, l, dst_pt)
  <2>1. m.handed \subseteq l.handed
    BY <1>5, <1>7, <1>8
  <2>2. \A g \in m.handed : g # dst_pt => l.mem[g] = m.mem[g]
    BY ONLY <1>1, <1>5, <1>6, <1>7, <1>8
  <2> QED
    BY <2>1, <2>2 DEF Leaves
<1>11. /\ l.mem[dst_pt].tab[j].frame = n.answer /\ n.answer \in l.handed
       /\ l.handed = m.handed \cup {n.answer}
       /\ DOMAIN l.mem[dst_pt].tab = DOMAIN m.mem[dst_pt].tab \cup {j}
       /\ \A h \in DOMAIN m.mem[dst_pt].tab :
            h # j => l.mem[dst_pt].tab[h] = m.mem[dst_pt].tab[h]
  BY ONLY <1>3, <1>5, <1>7, <1>8, <1>9
<1> QED
  BY <1>2, <1>8, <1>9, <1>10, <1>11 DEF EntryCopied, page

(* All entries: the inner loop of copy_addr_space.                         *)
LEMMA EntriesDo ==
  ASSUME NEW m, Base(m), NEW src_pt \in m.handed, NEW dst_pt \in m.handed,
         src_pt # dst_pt, DOMAIN m.mem[dst_pt].tab = {},
         \A j \in DOMAIN m.mem[src_pt].tab :
           /\ j \in 0..(PAGE_ENTRIES - 1)
           /\ m.mem[src_pt].tab[j].frame \in m.handed
           /\ m.mem[src_pt].tab[j].frame # dst_pt,
         copy_entries(m, src_pt, dst_pt).handed # Frames
  PROVE  LET l == copy_entries(m, src_pt, dst_pt)
         IN  /\ Leaves(m, l, dst_pt)
             /\ EntriesCopied(m, l, src_pt, dst_pt, PAGE_ENTRIES)
<1>1. PICK done :
        /\ done[0] = m
        /\ \A n \in 1..PAGE_ENTRIES : done[n] = entry_done(done[n - 1], src_pt, dst_pt, n - 1)
        /\ copy_entries(m, src_pt, dst_pt) = done[PAGE_ENTRIES]
  BY ONLY EntriesLoop
<1> DEFINE S == { n \in Nat : n <= PAGE_ENTRIES =>
                    /\ Base(done[n])
                    /\ done[n].handed # Frames =>
                         /\ Leaves(m, done[n], dst_pt)
                         /\ EntriesCopied(m, done[n], src_pt, dst_pt, n) }
<1>2. 0 \in S
  <2>1. Leaves(m, m, dst_pt)
    BY DEF Leaves
  <2>2. { j \in DOMAIN m.mem[src_pt].tab : j < 0 } = {}
    BY PagingAssumption
  <2>3. EntriesCopied(m, m, src_pt, dst_pt, 0)
    BY <2>2 DEF EntriesCopied
  <2> QED
    BY <1>1, <2>1, <2>3
<1>3. \A n \in Nat : n \in S => n + 1 \in S
  <2> SUFFICES ASSUME NEW n \in Nat, n + 1 <= PAGE_ENTRIES, Base(done[n]),
                      done[n].handed # Frames =>
                        /\ Leaves(m, done[n], dst_pt)
                        /\ EntriesCopied(m, done[n], src_pt, dst_pt, n)
               PROVE  /\ Base(done[n + 1])
                      /\ done[n + 1].handed # Frames =>
                           /\ Leaves(m, done[n + 1], dst_pt)
                           /\ EntriesCopied(m, done[n + 1], src_pt, dst_pt, n + 1)
    BY PagingAssumption
  <2> DEFINE k == done[n]
             l == done[n + 1]
  <2>1. l = entry_done(k, src_pt, dst_pt, n)
    <3>1. n + 1 \in 1..PAGE_ENTRIES /\ (n + 1) - 1 = n
      BY PagingAssumption
    <3> QED
      BY <1>1, <3>1
  <2>2. Grows(k, l)
    BY <2>1, CopyEntryGrows
  <2> SUFFICES ASSUME l.handed # Frames
               PROVE  /\ Leaves(m, l, dst_pt)
                      /\ EntriesCopied(m, l, src_pt, dst_pt, n + 1)
    BY <2>2 DEF Grows
  <2>3. Leaves(m, k, dst_pt) /\ EntriesCopied(m, k, src_pt, dst_pt, n)
    <3>1. k.handed # Frames
      BY <2>2, FramesLeft
    <3> QED
      BY <3>1
  <2>4. /\ Base(k) /\ k.mem[src_pt] = m.mem[src_pt]
        /\ dst_pt \in k.handed /\ m.handed \subseteq k.handed
    BY <2>3 DEF Leaves
  <2> HIDE DEF k, l
  <2>5. CASE n \notin DOMAIN m.mem[src_pt].tab
    <3>1. l = k
      BY <2>1, <2>4, <2>5 DEF entry_done
    <3>2. { j \in DOMAIN m.mem[src_pt].tab : j < n + 1 } =
          { j \in DOMAIN m.mem[src_pt].tab : j < n }
      BY <2>5, PagingAssumption
    <3>3. EntriesCopied(m, k, src_pt, dst_pt, n + 1)
      BY ONLY <2>3, <3>2 DEF EntriesCopied
    <3> QED
      BY <2>3, <3>1, <3>3
  <2>6. CASE n \in DOMAIN m.mem[src_pt].tab
    <3> DEFINE f == l.mem[dst_pt].tab[n].frame
               page == m.mem[src_pt].tab[n].frame
    <3>1. /\ Leaves(k, l, dst_pt)
          /\ f \in l.handed /\ f \notin k.handed /\ l.handed = k.handed \cup {f}
          /\ l.mem[f] = k.mem[page]
          /\ DOMAIN l.mem[dst_pt].tab = DOMAIN k.mem[dst_pt].tab \cup {n}
          /\ \A h \in DOMAIN k.mem[dst_pt].tab :
               h # n => l.mem[dst_pt].tab[h] = k.mem[dst_pt].tab[h]
      <4>1. n \in DOMAIN k.mem[src_pt].tab /\ k.mem[src_pt].tab[n].frame = page
        BY <2>4, <2>6
      <4>2. entry_done(k, src_pt, dst_pt, n).handed # Frames
        BY <2>1
      <4>3. EntryCopied(k, entry_done(k, src_pt, dst_pt, n), src_pt, dst_pt, n)
        BY <2>4, <4>1, <4>2, CopyEntryDoes
      <4> HIDE DEF page
      <4> QED
        BY <2>1, <4>1, <4>3 DEF EntryCopied
    <3>2. k.mem[page] = m.mem[page]
      BY <2>3, <2>6 DEF Leaves
    <3> HIDE DEF f, page
    <3>3. Leaves(m, l, dst_pt)
      BY <2>3, <3>1 DEF Leaves
    <3>4. { j \in DOMAIN m.mem[src_pt].tab : j < n + 1 } =
          { j \in DOMAIN m.mem[src_pt].tab : j < n } \cup {n}
      BY <2>6, PagingAssumption
    <3>5. DOMAIN l.mem[dst_pt].tab = { j \in DOMAIN m.mem[src_pt].tab : j < n + 1 }
      BY <2>3, <3>1, <3>4 DEF EntriesCopied
    <3>6. ASSUME NEW j \in DOMAIN l.mem[dst_pt].tab
          PROVE  LET g == l.mem[dst_pt].tab[j].frame
                 IN  /\ g \in l.handed \ m.handed
                     /\ l.mem[g].data = m.mem[m.mem[src_pt].tab[j].frame].data
      <4>1. CASE j = n
        BY <2>4, <3>1, <3>2, <4>1 DEF f, page
      <4>2. CASE j # n
        <5> DEFINE g == k.mem[dst_pt].tab[j].frame
        <5>1. j \in DOMAIN k.mem[dst_pt].tab /\ l.mem[dst_pt].tab[j] = k.mem[dst_pt].tab[j]
          BY <3>1, <3>6, <4>2
        <5>2. /\ g \in k.handed \ m.handed
              /\ k.mem[g].data = m.mem[m.mem[src_pt].tab[j].frame].data
          BY <2>3, <5>1 DEF EntriesCopied
        <5> HIDE DEF g
        <5>3. l.mem[g] = k.mem[g] /\ g \in l.handed
          BY <3>1, <5>2 DEF Leaves
        <5> QED
          BY <5>1, <5>2, <5>3 DEF g
      <4> QED
        BY <4>1, <4>2
    <3>7. ASSUME NEW g \in l.handed \ m.handed
          PROVE  \E j \in DOMAIN l.mem[dst_pt].tab : g = l.mem[dst_pt].tab[j].frame
      <4>1. CASE g = f
        BY <3>1, <4>1 DEF f
      <4>2. CASE g # f
        <5>1. PICK j \in DOMAIN k.mem[dst_pt].tab : g = k.mem[dst_pt].tab[j].frame
          BY <2>3, <3>1, <4>2 DEF EntriesCopied
        <5>2. j # n
          <6>1. DOMAIN k.mem[dst_pt].tab = { h \in DOMAIN m.mem[src_pt].tab : h < n }
            BY <2>3 DEF EntriesCopied
          <6>2. ~(n < n)
            OBVIOUS
          <6> QED
            BY ONLY <5>1, <6>1, <6>2
        <5> QED
          BY <3>1, <5>1, <5>2
      <4> QED
        BY <4>1, <4>2
    <3>8. EntriesCopied(m, l, src_pt, dst_pt, n + 1)
      BY <3>5, <3>6, <3>7 DEF EntriesCopied
    <3> QED
      BY <3>3, <3>8
  <2> QED
    BY <2>5, <2>6
<1> HIDE DEF S
<1>4. PAGE_ENTRIES \in S
  BY <1>2, <1>3, SetInduction, PagingAssumption
<1> QED
  BY <1>1, <1>4 DEF S

(* The directory src_pd's entry i can be copied to dst_pd: the table and   *)
(* its pages are frames that are handed out, and none of them is dst_pd.   *)
CanCopy(m, src_pd, dst_pd, i) ==
  LET st == m.mem[src_pd].tab[i].frame
  IN  /\ st \in m.handed /\ st # dst_pd
      /\ \A j \in DOMAIN m.mem[st].tab :
           /\ j \in 0..(PAGE_ENTRIES - 1)
           /\ m.mem[st].tab[j].frame \in m.handed
           /\ m.mem[st].tab[j].frame # dst_pd

(* In n, the directory dst_pd has m's entry i of src_pd: a new table with  *)
(* the same entries, and behind each a new page with the same contents.    *)
TableCopied(m, n, src_pd, dst_pd, i) ==
  LET st == m.mem[src_pd].tab[i].frame
      dt == n.mem[dst_pd].tab[i].frame
  IN  /\ dt \in n.handed \ m.handed /\ dt # dst_pd
      /\ DOMAIN n.mem[dt].tab = DOMAIN m.mem[st].tab
      /\ \A j \in DOMAIN m.mem[st].tab :
           /\ n.mem[dt].tab[j].frame \in n.handed \ m.handed
           /\ n.mem[dt].tab[j].frame # dst_pd
           /\ n.mem[n.mem[dt].tab[j].frame].data = m.mem[m.mem[st].tab[j].frame].data

(* From m to n nothing but the entry i of dst_pd has been written, and the *)
(* new frames are behind it.                                               *)
Entered(m, n, dst_pd, i) ==
  /\ Leaves(m, n, dst_pd)
  /\ DOMAIN n.mem[dst_pd].tab = DOMAIN m.mem[dst_pd].tab \cup {i}
  /\ \A h \in DOMAIN m.mem[dst_pd].tab : h # i => n.mem[dst_pd].tab[h] = m.mem[dst_pd].tab[h]
  /\ \A g \in n.handed \ m.handed : Behind(n.mem, dst_pd, i, g)

(* A present entry of the directory that is copied.                        *)
LEMMA CopyTableDoes ==
  ASSUME NEW m, Base(m), NEW src_pd, NEW dst_pd \in m.handed,
         NEW i \in DOMAIN m.mem[src_pd].tab, CanCopy(m, src_pd, dst_pd, i),
         table_done(m, src_pd, dst_pd, i).handed # Frames
  PROVE  /\ Entered(m, table_done(m, src_pd, dst_pd, i), dst_pd, i)
         /\ TableCopied(m, table_done(m, src_pd, dst_pd, i), src_pd, dst_pd, i)
<1> DEFINE st == m.mem[src_pd].tab[i].frame
           t  == AllocatedZeroed(m)
           dt == t.answer
           e  == Entry(dt, {"rw", "user"})
           s  == SetEntry(t, dst_pd, i, e)
           l  == copy_entries(s, st, dt)
<1>1. table_done(m, src_pd, dst_pd, i) = l
  BY DEF table_done, copy_table
<1>2. e.frame = dt
  BY DEF Entry
<1>3. /\ Base(t)
      /\ t.handed # Frames =>
           /\ dt \in Frames /\ dt \notin m.handed /\ t.handed = m.handed \cup {dt}
           /\ t.mem[dt] = Zeroed /\ \A g \in m.handed : t.mem[g] = m.mem[g]
  BY AllocatedZeroedGrows DEF Grows
<1> HIDE DEF t, dt, e
<1>4. dst_pd \in Frames \cup {NULL} /\ m.handed \subseteq Frames
  BY DEF Base
<1>5. /\ Base(s) /\ s.handed = t.handed
      /\ DOMAIN s.mem[dst_pd].tab = DOMAIN t.mem[dst_pd].tab \cup {i}
      /\ s.mem[dst_pd].tab[i] = e
      /\ \A h \in DOMAIN t.mem[dst_pd].tab : h # i => s.mem[dst_pd].tab[h] = t.mem[dst_pd].tab[h]
      /\ \A g \in Frames \cup {NULL} : g # dst_pd => s.mem[g] = t.mem[g]
  BY <1>3, <1>4, SetEntryGrows DEF Grows
<1> HIDE DEF s
<1>6. Grows(s, l)
  BY <1>5, EntriesGrow
<1>7. s.handed # Frames
  BY <1>1, <1>5, <1>6, FramesLeft
<1>8. /\ dt \in Frames /\ dt \notin m.handed /\ s.handed = m.handed \cup {dt}
      /\ s.mem[dt] = Zeroed
      /\ \A g \in m.handed : g # dst_pd => s.mem[g] = m.mem[g]
      /\ dt # dst_pd
  BY <1>3, <1>4, <1>5, <1>7
<1>9. /\ st \in m.handed /\ st # dst_pd
      /\ \A j \in DOMAIN m.mem[st].tab :
           /\ j \in 0..(PAGE_ENTRIES - 1)
           /\ m.mem[st].tab[j].frame \in m.handed
           /\ m.mem[st].tab[j].frame # dst_pd
  BY DEF CanCopy
<1> HIDE DEF st
<1>10. s.mem[st] = m.mem[st] /\ st # dt /\ st \in s.handed /\ dt \in s.handed
  BY <1>8, <1>9
<1>11. Leaves(s, l, dt) /\ EntriesCopied(s, l, st, dt, PAGE_ENTRIES)
  <2>1. DOMAIN s.mem[dt].tab = {}
    BY <1>8 DEF Zeroed
  <2>2. \A j \in DOMAIN s.mem[st].tab :
          /\ j \in 0..(PAGE_ENTRIES - 1)
          /\ s.mem[st].tab[j].frame \in s.handed
          /\ s.mem[st].tab[j].frame # dt
    BY <1>8, <1>9, <1>10
  <2>3. copy_entries(s, st, dt).handed # Frames
    BY <1>1
  <2> QED
    BY <1>5, <1>10, <2>1, <2>2, <2>3, EntriesDo
<1> HIDE DEF l
<1>12. l.mem[dst_pd] = s.mem[dst_pd] /\ t.mem[dst_pd] = m.mem[dst_pd]
  BY <1>3, <1>5, <1>7, <1>8, <1>11 DEF Leaves
<1>13. Entered(m, l, dst_pd, i)
  <2>1. Leaves(m, l, dst_pd)
    BY <1>8, <1>11 DEF Leaves
  <2>2. l.mem[dst_pd].tab[i].frame = dt
    BY <1>2, <1>5, <1>12
  <2>3. ASSUME NEW g \in l.handed \ m.handed PROVE Behind(l.mem, dst_pd, i, g)
    <3>1. g = dt \/ g \in l.handed \ s.handed
      BY <1>8
    <3>2. g = dt \/ \E j \in DOMAIN l.mem[dt].tab : g = l.mem[dt].tab[j].frame
      BY <1>11, <3>1 DEF EntriesCopied
    <3> QED
      BY <2>2, <3>2 DEF Behind
  <2>4. /\ DOMAIN l.mem[dst_pd].tab = DOMAIN m.mem[dst_pd].tab \cup {i}
        /\ \A h \in DOMAIN m.mem[dst_pd].tab :
             h # i => l.mem[dst_pd].tab[h] = m.mem[dst_pd].tab[h]
    BY <1>5, <1>12
  <2> QED
    BY <2>1, <2>3, <2>4 DEF Entered
<1>14. TableCopied(m, l, src_pd, dst_pd, i)
  <2>1. l.mem[dst_pd].tab[i].frame = dt
    BY <1>2, <1>5, <1>12
  <2>2. dt \in l.handed
    BY <1>10, <1>11 DEF Leaves
  <2>3. { j \in DOMAIN s.mem[st].tab : j < PAGE_ENTRIES } = DOMAIN m.mem[st].tab
    BY <1>9, <1>10, PagingAssumption
  <2>4. DOMAIN l.mem[dt].tab = DOMAIN m.mem[st].tab
    BY <1>11, <2>3 DEF EntriesCopied
  <2>5. ASSUME NEW j \in DOMAIN m.mem[st].tab
        PROVE  /\ l.mem[dt].tab[j].frame \in l.handed \ m.handed
               /\ l.mem[dt].tab[j].frame # dst_pd
               /\ l.mem[l.mem[dt].tab[j].frame].data = m.mem[m.mem[st].tab[j].frame].data
    <3>1. /\ l.mem[dt].tab[j].frame \in l.handed
          /\ l.mem[dt].tab[j].frame \notin s.handed
          /\ l.mem[l.mem[dt].tab[j].frame].data = s.mem[s.mem[st].tab[j].frame].data
      BY <1>11, <2>4 DEF EntriesCopied
    <3>2. s.mem[s.mem[st].tab[j].frame] = m.mem[m.mem[st].tab[j].frame]
      BY <1>8, <1>9, <1>10
    <3> QED
      BY <1>8, <3>1, <3>2
  <2> QED
    BY <1>8, <2>1, <2>2, <2>4, <2>5 DEF TableCopied, st
<1> QED
  BY <1>1, <1>13, <1>14

(* What other entries do not touch stays copied.                           *)
LEMMA CopiedStays ==
  ASSUME NEW m, NEW k, NEW l, NEW src_pd, NEW dst_pd, NEW i, NEW h, h # i,
         TableCopied(m, k, src_pd, dst_pd, h), h \in DOMAIN k.mem[dst_pd].tab,
         Entered(k, l, dst_pd, i)
  PROVE  TableCopied(m, l, src_pd, dst_pd, h)
<1> DEFINE st == m.mem[src_pd].tab[h].frame
           dt == k.mem[dst_pd].tab[h].frame
<1>1. l.mem[dst_pd].tab[h] = k.mem[dst_pd].tab[h]
  BY DEF Entered
<1>2. /\ k.handed \subseteq l.handed
      /\ \A g \in k.handed : g # dst_pd => l.mem[g] = k.mem[g]
  BY DEF Entered, Leaves
<1>3. /\ dt \in k.handed \ m.handed /\ dt # dst_pd
      /\ DOMAIN k.mem[dt].tab = DOMAIN m.mem[st].tab
      /\ \A j \in DOMAIN m.mem[st].tab :
           /\ k.mem[dt].tab[j].frame \in k.handed \ m.handed
           /\ k.mem[dt].tab[j].frame # dst_pd
           /\ k.mem[k.mem[dt].tab[j].frame].data = m.mem[m.mem[st].tab[j].frame].data
  BY DEF TableCopied
<1>4. l.mem[dst_pd].tab[h].frame = dt /\ l.mem[dt] = k.mem[dt]
  BY <1>1, <1>2, <1>3
<1> HIDE DEF dt, st
<1>5. \A j \in DOMAIN m.mem[st].tab :
        /\ l.mem[dt].tab[j].frame \in l.handed \ m.handed
        /\ l.mem[dt].tab[j].frame # dst_pd
        /\ l.mem[l.mem[dt].tab[j].frame].data = m.mem[m.mem[st].tab[j].frame].data
  <2> SUFFICES ASSUME NEW j \in DOMAIN m.mem[st].tab
               PROVE  /\ l.mem[dt].tab[j].frame \in l.handed \ m.handed
                      /\ l.mem[dt].tab[j].frame # dst_pd
                      /\ l.mem[l.mem[dt].tab[j].frame].data
                           = m.mem[m.mem[st].tab[j].frame].data
    OBVIOUS
  <2> DEFINE g == k.mem[dt].tab[j].frame
  <2>1. /\ g \in k.handed \ m.handed /\ g # dst_pd
        /\ k.mem[g].data = m.mem[m.mem[st].tab[j].frame].data
    BY <1>3
  <2>2. l.mem[dt].tab[j].frame = g
    BY <1>4
  <2> HIDE DEF g
  <2>3. g \in l.handed /\ l.mem[g] = k.mem[g]
    BY <1>2, <2>1
  <2> QED
    BY <2>1, <2>2, <2>3
<1> QED
  BY <1>2, <1>3, <1>4, <1>5 DEF TableCopied, st

(* What is behind other entries stays there.                               *)
LEMMA BehindStays ==
  ASSUME NEW m, NEW k, NEW l, NEW src_pd, NEW dst_pd, NEW i, NEW h, h # i,
         TableCopied(m, k, src_pd, dst_pd, h), h \in DOMAIN k.mem[dst_pd].tab,
         Entered(k, l, dst_pd, i), NEW g, Behind(k.mem, dst_pd, h, g)
  PROVE  Behind(l.mem, dst_pd, h, g)
<1> DEFINE dt == k.mem[dst_pd].tab[h].frame
<1>1. l.mem[dst_pd].tab[h] = k.mem[dst_pd].tab[h]
  BY DEF Entered
<1>2. l.mem[dt] = k.mem[dt]
  BY DEF Entered, Leaves, TableCopied
<1>3. g = dt \/ \E j \in DOMAIN k.mem[dt].tab : g = k.mem[dt].tab[j].frame
  BY DEF Behind
<1>4. l.mem[dst_pd].tab[h].frame = dt
  BY <1>1
<1> HIDE DEF dt
<1> QED
  BY <1>2, <1>3, <1>4 DEF Behind

(* What is copied from a machine that left the source alone is a copy of   *)
(* the source as it was.                                                   *)
LEMMA CopiedBefore ==
  ASSUME NEW m, NEW k, NEW l, NEW src_pd, NEW dst_pd, NEW i,
         src_pd \in m.handed, src_pd # dst_pd,
         CanCopy(m, src_pd, dst_pd, i), Leaves(m, k, dst_pd)
  PROVE  /\ CanCopy(k, src_pd, dst_pd, i)
         /\ TableCopied(k, l, src_pd, dst_pd, i) => TableCopied(m, l, src_pd, dst_pd, i)
<1> DEFINE st == m.mem[src_pd].tab[i].frame
<1>1. k.mem[src_pd] = m.mem[src_pd]
  BY DEF Leaves
<1>2. /\ st \in m.handed /\ st # dst_pd
      /\ \A j \in DOMAIN m.mem[st].tab :
           /\ j \in 0..(PAGE_ENTRIES - 1)
           /\ m.mem[st].tab[j].frame \in m.handed
           /\ m.mem[st].tab[j].frame # dst_pd
  BY DEF CanCopy
<1>3. k.mem[src_pd].tab[i].frame = st /\ k.mem[st] = m.mem[st] /\ st \in k.handed
  BY <1>1, <1>2 DEF Leaves
<1>4. \A j \in DOMAIN m.mem[st].tab :
        /\ k.mem[st].tab[j].frame \in k.handed
        /\ k.mem[m.mem[st].tab[j].frame] = m.mem[m.mem[st].tab[j].frame]
  BY <1>2, <1>3 DEF Leaves
<1> HIDE DEF st
<1>5. CanCopy(k, src_pd, dst_pd, i)
  BY <1>2, <1>3, <1>4 DEF CanCopy
<1>6. ASSUME TableCopied(k, l, src_pd, dst_pd, i)
      PROVE  TableCopied(m, l, src_pd, dst_pd, i)
  <2> DEFINE dt == l.mem[dst_pd].tab[i].frame
  <2>1. /\ dt \in l.handed \ k.handed /\ dt # dst_pd
        /\ DOMAIN l.mem[dt].tab = DOMAIN m.mem[st].tab
        /\ \A j \in DOMAIN m.mem[st].tab :
             /\ l.mem[dt].tab[j].frame \in l.handed \ k.handed
             /\ l.mem[dt].tab[j].frame # dst_pd
             /\ l.mem[l.mem[dt].tab[j].frame].data = k.mem[m.mem[st].tab[j].frame].data
    BY <1>3, <1>6 DEF TableCopied
  <2> HIDE DEF dt
  <2>2. \A j \in DOMAIN m.mem[st].tab :
          l.mem[l.mem[dt].tab[j].frame].data = m.mem[m.mem[st].tab[j].frame].data
    BY <1>4, <2>1
  <2>3. m.handed \subseteq k.handed
    BY DEF Leaves
  <2> QED
    BY <2>1, <2>2, <2>3 DEF TableCopied, st, dt
<1> QED
  BY <1>5, <1>6

(* The whole lower half of a directory: copy_addr_space.                   *)
AllCopied(m, n, src_pd, dst_pd, entries) ==
  /\ Leaves(m, n, dst_pd)
  /\ DOMAIN n.mem[dst_pd].tab =
       DOMAIN m.mem[dst_pd].tab \cup { i \in DOMAIN m.mem[src_pd].tab : i < entries }
  /\ \A i \in DOMAIN m.mem[src_pd].tab :
       i < entries => TableCopied(m, n, src_pd, dst_pd, i)
  /\ \A g \in n.handed \ m.handed :
       \E i \in DOMAIN m.mem[src_pd].tab : i < entries /\ Behind(n.mem, dst_pd, i, g)

(* One more turn of its loop.                                              *)
LEMMA NextTable ==
  ASSUME NEW m, NEW k, Base(k), NEW src_pd \in m.handed, NEW dst_pd \in m.handed,
         src_pd # dst_pd, NEW n \in Nat, DOMAIN m.mem[src_pd].tab \subseteq Nat,
         n \in DOMAIN m.mem[src_pd].tab => CanCopy(m, src_pd, dst_pd, n),
         AllCopied(m, k, src_pd, dst_pd, n),
         table_done(k, src_pd, dst_pd, n).handed # Frames
  PROVE  AllCopied(m, table_done(k, src_pd, dst_pd, n), src_pd, dst_pd, n + 1)
<1> DEFINE l == table_done(k, src_pd, dst_pd, n)
           D == DOMAIN m.mem[src_pd].tab
<1>1. k.mem[src_pd] = m.mem[src_pd] /\ dst_pd \in k.handed /\ Leaves(m, k, dst_pd)
  BY DEF AllCopied, Leaves
<1>2. CASE n \notin D
  <2>1. l = k
    BY <1>1, <1>2 DEF table_done
  <2>2. \A i \in D : i < n + 1 <=> i < n
    BY <1>2
  <2>3. { i \in D : i < n + 1 } = { i \in D : i < n }
    BY <2>2
  <2>4. /\ DOMAIN k.mem[dst_pd].tab = DOMAIN m.mem[dst_pd].tab \cup { i \in D : i < n }
        /\ \A i \in D : i < n => TableCopied(m, k, src_pd, dst_pd, i)
        /\ \A g \in k.handed \ m.handed : \E i \in D : i < n /\ Behind(k.mem, dst_pd, i, g)
    BY DEF AllCopied
  <2>5. /\ \A i \in D : i < n + 1 => TableCopied(m, k, src_pd, dst_pd, i)
        /\ \A g \in k.handed \ m.handed :
             \E i \in D : i < n + 1 /\ Behind(k.mem, dst_pd, i, g)
    BY <2>2, <2>4
  <2>6. AllCopied(m, k, src_pd, dst_pd, n + 1)
    BY ONLY <1>1, <2>3, <2>4, <2>5 DEF AllCopied, D
  <2> QED
    BY <2>1, <2>6
<1>3. CASE n \in D
  <2>1. CanCopy(k, src_pd, dst_pd, n)
    BY <1>1, <1>3, CopiedBefore
  <2>2. n \in DOMAIN k.mem[src_pd].tab
    BY <1>1, <1>3
  <2>3. Entered(k, l, dst_pd, n) /\ TableCopied(k, l, src_pd, dst_pd, n)
    BY <1>1, <2>1, <2>2, CopyTableDoes
  <2> HIDE DEF l
  <2>4. TableCopied(m, l, src_pd, dst_pd, n)
    BY <1>1, <1>3, <2>3, CopiedBefore
  <2>5. Leaves(m, l, dst_pd)
    BY <1>1, <2>3 DEF Entered, Leaves
  <2>6. \A i \in D : i < n + 1 <=> i < n \/ i = n
    OBVIOUS
  <2>7. DOMAIN l.mem[dst_pd].tab = DOMAIN m.mem[dst_pd].tab \cup { i \in D : i < n + 1 }
    BY <1>3, <2>3, <2>6 DEF AllCopied, Entered
  <2>8. ASSUME NEW i \in D, i < n PROVE TableCopied(m, l, src_pd, dst_pd, i)
    <3>1. TableCopied(m, k, src_pd, dst_pd, i) /\ i \in DOMAIN k.mem[dst_pd].tab /\ i # n
      BY <2>8 DEF AllCopied
    <3> QED
      BY <2>3, <3>1, CopiedStays
  <2>9. \A i \in D : i < n + 1 => TableCopied(m, l, src_pd, dst_pd, i)
    BY <2>4, <2>6, <2>8
  <2>10. ASSUME NEW g \in l.handed \ m.handed
         PROVE  \E i \in D : i < n + 1 /\ Behind(l.mem, dst_pd, i, g)
    <3>1. CASE g \notin k.handed
      BY <1>3, <2>3, <3>1 DEF Entered
    <3>2. CASE g \in k.handed
      <4>1. PICK i \in D : i < n /\ Behind(k.mem, dst_pd, i, g)
        BY <3>2 DEF AllCopied
      <4>2. TableCopied(m, k, src_pd, dst_pd, i) /\ i \in DOMAIN k.mem[dst_pd].tab /\ i # n
        BY <4>1 DEF AllCopied
      <4>3. Behind(l.mem, dst_pd, i, g)
        BY <2>3, <4>1, <4>2, BehindStays
      <4> QED
        BY <2>6, <4>1, <4>3
    <3> QED
      BY <3>1, <3>2
  <2>11. AllCopied(m, l, src_pd, dst_pd, n + 1)
    BY ONLY <2>5, <2>7, <2>9, <2>10 DEF AllCopied, D
  <2> QED
    BY <2>11 DEF l
<1> QED
  BY <1>2, <1>3

(* The whole of copy_addr_space, turn by turn.                             *)
LEMMA TablesDo ==
  ASSUME NEW m, Base(m), NEW src_pd \in m.handed, NEW dst_pd \in m.handed,
         src_pd # dst_pd, DOMAIN m.mem[src_pd].tab \subseteq Nat,
         \A i \in DOMAIN m.mem[src_pd].tab :
           i < KERNEL_PD_INDEX => CanCopy(m, src_pd, dst_pd, i),
         copy_addr_space(m, src_pd, dst_pd).handed # Frames
  PROVE  AllCopied(m, copy_addr_space(m, src_pd, dst_pd), src_pd, dst_pd, KERNEL_PD_INDEX)
<1>1. PICK done :
        /\ done[0] = m
        /\ \A n \in 1..KERNEL_PD_INDEX : done[n] = table_done(done[n - 1], src_pd, dst_pd, n - 1)
        /\ copy_addr_space(m, src_pd, dst_pd) = done[KERNEL_PD_INDEX]
  BY ONLY TablesLoop
<1> DEFINE S == { n \in Nat : n <= KERNEL_PD_INDEX =>
                    /\ Base(done[n])
                    /\ done[n].handed # Frames => AllCopied(m, done[n], src_pd, dst_pd, n) }
<1>2. 0 \in S
  <2>1. \A i \in DOMAIN m.mem[src_pd].tab : ~(i < 0)
    OBVIOUS
  <2>2. AllCopied(m, m, src_pd, dst_pd, 0)
    BY <2>1 DEF AllCopied, Leaves
  <2> QED
    BY <1>1, <2>2
<1>3. \A n \in Nat : n \in S => n + 1 \in S
  <2> SUFFICES ASSUME NEW n \in Nat, n + 1 <= KERNEL_PD_INDEX, Base(done[n]),
                      done[n].handed # Frames => AllCopied(m, done[n], src_pd, dst_pd, n)
               PROVE  /\ Base(done[n + 1])
                      /\ done[n + 1].handed # Frames =>
                           AllCopied(m, done[n + 1], src_pd, dst_pd, n + 1)
    BY PagingAssumption
  <2>1. done[n + 1] = table_done(done[n], src_pd, dst_pd, n)
    <3>1. n + 1 \in 1..KERNEL_PD_INDEX /\ (n + 1) - 1 = n
      BY PagingAssumption
    <3> QED
      BY <1>1, <3>1
  <2>2. Grows(done[n], done[n + 1])
    BY <2>1, CopyTableGrows
  <2>3. n \in DOMAIN m.mem[src_pd].tab => CanCopy(m, src_pd, dst_pd, n)
    BY PagingAssumption
  <2>4. done[n + 1].handed # Frames => AllCopied(m, done[n + 1], src_pd, dst_pd, n + 1)
    <3> SUFFICES ASSUME done[n + 1].handed # Frames
                 PROVE  AllCopied(m, done[n + 1], src_pd, dst_pd, n + 1)
      OBVIOUS
    <3>1. AllCopied(m, done[n], src_pd, dst_pd, n)
      BY <2>2, FramesLeft
    <3> QED
      BY <2>1, <2>3, <3>1, NextTable
  <2> QED
    BY <2>2, <2>4 DEF Grows
<1> HIDE DEF S
<1>4. KERNEL_PD_INDEX \in S
  BY <1>2, <1>3, SetInduction, PagingAssumption
<1> QED
  BY <1>1, <1>4 DEF S

(* When two processes see the same in the lower half, in different states. *)
LEMMA SameView ==
  ASSUME NEW d, NEW e, Low(d)' = Low(e),
         \A i \in Low(e) :
           /\ DOMAIN mem'[TableAt(d, i)'].tab = DOMAIN mem[TableAt(e, i)].tab
           /\ \A j \in DOMAIN mem[TableAt(e, i)].tab :
                mem'[mem'[TableAt(d, i)'].tab[j].frame].data
                  = mem[mem[TableAt(e, i)].tab[j].frame].data
  PROVE  LowView(d)' = LowView(e)
<1>1. LowPages(d)' = LowPages(e)
  BY DEF LowPages, PagesIn
<1>2. \A a \in LowPages(e) : /\ a[1] \in Low(e)
                             /\ a[2] \in DOMAIN mem[TableAt(e, a[1])].tab
  BY DEF LowPages, PagesIn
<1>3. \A a \in LowPages(e) : mem'[PageAt(d, a)'].data = mem[PageAt(e, a)].data
  BY <1>2 DEF PageAt
<1> QED
  BY <1>1, <1>3 DEF LowView

(* What a fork leaves, m being the machine after create_process, d the     *)
(* child's directory and e the parent's: all of the parent's lower half is *)
(* copied, and it was as before when that began.                           *)
Forked(m, e, d) ==
  /\ AllCopied(m, copy_addr_space(m, e, d), e, d, KERNEL_PD_INDEX)
  /\ e \in m.handed /\ d \in m.handed /\ m.mem[e] = mem[e]
  /\ \A h \in DOMAIN m.mem[d].tab :
       h \in Common \/ (h < KERNEL_PD_INDEX /\ h \in DOMAIN mem[e].tab)
  /\ \A i \in DOMAIN mem[e].tab :
       i < KERNEL_PD_INDEX =>
         LET st == mem[e].tab[i].frame
         IN  /\ m.mem[st] = mem[st]
             /\ \A j \in DOMAIN mem[st].tab :
                  m.mem[mem[st].tab[j].frame] = mem[mem[st].tab[j].frame]

(* The step of a fork leaves that.                                         *)
LEMMA ForkMakes ==
  ASSUME Types, NEW use, Sound(use), Fork, handed' # Frames
  PROVE  LET c == create_process(Machine)
         IN  Forked(c.machine, page_dir[current_process], c.dir)
<1> DEFINE c   == create_process(Machine)
           m   == c.machine
           n   == Len(page_dir) + 1
           q   == current_process
<1>0. PICK d : d = c.dir
  OBVIOUS
<1>00. PICK e : e = page_dir[q]
  OBVIOUS
<1> DEFINE l == copy_addr_space(m, e, d)
<1>1. /\ Becomes(l) /\ Enlist(d) /\ current_process # NULL
      /\ UNCHANGED current_process
  BY <1>0, <1>00 DEF Fork
<1>2. Grows(Machine, m)
  BY CreateGrows DEF Types
<1>3. Grows(m, l)
  BY <1>2, TablesGrow DEF Grows
<1>4. l.handed # Frames /\ m.handed # Frames
  BY <1>1, <1>2, <1>3, FramesLeft DEF Becomes, Grows
<1>6. /\ q \in 1..Len(page_dir) /\ Len(page_dir) \in Nat
      /\ e \in DOMAIN use /\ use[e] = Directory(q)
      /\ StackPage \div PAGE_ENTRIES \in DOMAIN mem[e].tab
  <2>1. q \in 1..Len(page_dir) /\ e = page_dir[q]
    BY <1>1, <1>00, RunningDirectory
  <2>2. Len(page_dir) \in Nat /\ DOMAIN use = handed
    BY PidsListed DEF Types, Sound, Owns, Machine
  <2> QED
    BY <2>1, <2>2 DEF Sound
<1>7. n # 0 /\ q # n
  BY <1>6
<1> HIDE DEF n
<1>8. \E after :
        /\ Act(Machine, use, n, m, after)
        /\ d \in DOMAIN after /\ after[d] = Directory(n)
        /\ DOMAIN m.mem[d].tab = Common \cup {StackPage \div PAGE_ENTRIES}
  <2>1. Base(Machine) /\ Owns(Machine, use) /\ kernel_page_dir \in DOMAIN use
        /\ use[kernel_page_dir] = Directory(0)
        /\ { i \in DOMAIN Machine.mem[kernel_page_dir].tab : i >= KERNEL_PD_INDEX } = Common
    BY DEF Types, Sound, Owns, Machine
  <2> QED
    BY <1>0, <1>4, <1>7, <2>1, CreateActs
<1> HIDE DEF c, m
<1>9. PICK after :
        /\ Act(Machine, use, n, m, after)
        /\ d \in DOMAIN after /\ after[d] = Directory(n)
        /\ DOMAIN m.mem[d].tab = Common \cup {StackPage \div PAGE_ENTRIES}
  BY <1>8
<1>10. /\ DOMAIN after = m.handed /\ Agrees(m.mem, after)
       /\ DOMAIN use \subseteq DOMAIN after
       /\ \A f \in DOMAIN use : after[f] = use[f]
       /\ \A f \in DOMAIN use : use[f][1] = q => m.mem[f] = mem[f]
  BY <1>7, <1>9 DEF Act, Owns, Machine
<1>11. /\ e \in m.handed /\ d \in m.handed /\ e # d
       /\ after[e] = Directory(q) /\ m.mem[e] = mem[e]
  BY <1>6, <1>7, <1>9, <1>10 DEF Directory
<1>12. ASSUME NEW i \in DOMAIN mem[e].tab, i < KERNEL_PD_INDEX
       PROVE  LET st == mem[e].tab[i].frame
              IN  /\ m.mem[st] = mem[st] /\ st \in m.handed /\ st # d
                  /\ \A j \in DOMAIN mem[st].tab :
                       /\ j \in 0..(PAGE_ENTRIES - 1)
                       /\ mem[st].tab[j].frame \in m.handed
                       /\ mem[st].tab[j].frame # d
                       /\ m.mem[mem[st].tab[j].frame] = mem[mem[st].tab[j].frame]
  <2> DEFINE st == mem[e].tab[i].frame
  <2>1. Agrees(mem, use)
    BY DEF Sound, Owns, Machine
  <2>2. st \in DOMAIN use /\ use[st] = Table(q, i)
    BY <1>6, <1>12, <2>1, CommonIsHigh DEF Agrees
  <2> HIDE DEF st
  <2>3. \A j \in DOMAIN mem[st].tab :
          /\ j \in 0..(PAGE_ENTRIES - 1)
          /\ mem[st].tab[j].frame \in DOMAIN use
          /\ use[mem[st].tab[j].frame] = Page(q, i, j)
    BY <1>6, <2>1, <2>2 DEF Agrees
  <2>4. m.mem[st] = mem[st] /\ st \in m.handed /\ st # d
    BY <1>9, <1>10, <2>2 DEF Table, Directory
  <2>5. \A j \in DOMAIN mem[st].tab :
          /\ mem[st].tab[j].frame \in m.handed
          /\ mem[st].tab[j].frame # d
          /\ m.mem[mem[st].tab[j].frame] = mem[mem[st].tab[j].frame]
    BY <1>9, <1>10, <2>3 DEF Page, Directory
  <2> QED
    BY <2>3, <2>4, <2>5 DEF st
<1>13. DOMAIN mem[e].tab \subseteq Nat /\ DOMAIN m.mem[d].tab \subseteq Nat
  <2>1. \A i \in DOMAIN m.mem[e].tab : i \in Nat
    BY <1>10, <1>11 DEF Agrees
  <2>2. \A i \in DOMAIN m.mem[d].tab : i \in Nat
    BY <1>9, <1>10 DEF Agrees
  <2> QED
    BY <1>11, <2>1, <2>2
<1>14. AllCopied(m, l, e, d, KERNEL_PD_INDEX)
  <2>1. ASSUME NEW i \in DOMAIN m.mem[e].tab, i < KERNEL_PD_INDEX
        PROVE  CanCopy(m, e, d, i)
    <3> DEFINE st == mem[e].tab[i].frame
    <3>1. m.mem[e].tab[i].frame = st /\ i \in DOMAIN mem[e].tab
      BY <1>11
    <3>2. /\ m.mem[st] = mem[st] /\ st \in m.handed /\ st # d
          /\ \A j \in DOMAIN mem[st].tab :
               /\ j \in 0..(PAGE_ENTRIES - 1)
               /\ mem[st].tab[j].frame \in m.handed
               /\ mem[st].tab[j].frame # d
      BY <1>12, <2>1, <3>1
    <3> HIDE DEF st
    <3> QED
      BY <3>1, <3>2 DEF CanCopy
  <2>2. Base(m)
    BY <1>2 DEF Grows
  <2> QED
    BY <1>4, <1>11, <1>13, <2>1, <2>2, TablesDo
<1>15. \A h \in DOMAIN m.mem[d].tab :
         h \in Common \/ (h < KERNEL_PD_INDEX /\ h \in DOMAIN mem[e].tab)
  BY <1>6, <1>9, ProcessAssumption
<1>16. Forked(m, e, d)
  <2>1. \A i \in DOMAIN mem[e].tab :
          i < KERNEL_PD_INDEX =>
            LET st == mem[e].tab[i].frame
            IN  /\ m.mem[st] = mem[st]
                /\ \A j \in DOMAIN mem[st].tab :
                     m.mem[mem[st].tab[j].frame] = mem[mem[st].tab[j].frame]
    BY <1>12
  <2> QED
    BY ONLY <1>11, <1>14, <1>15, <2>1 DEF Forked
<1> QED
  BY <1>0, <1>00, <1>16 DEF c, m

(* After a fork the child, first on the list now, sees through its         *)
(* directory what the parent sees through its own, below the kernel half.  *)
LEMMA ForkCopies ==
  ASSUME Types, NEW use, Sound(use), Fork, handed' # Frames
  PROVE  LowView(page_dir[process_list[1]])' = LowView(page_dir[current_process])
<1> DEFINE c   == create_process(Machine)
           m   == c.machine
           n   == Len(page_dir) + 1
           q   == current_process
<1>0. PICK d : d = c.dir
  OBVIOUS
<1>00. PICK e : e = page_dir[q]
  OBVIOUS
<1> DEFINE l == copy_addr_space(m, e, d)
<1>1. /\ Becomes(l) /\ Enlist(d) /\ current_process # NULL
      /\ UNCHANGED current_process
  BY <1>0, <1>00 DEF Fork
<1>2. Forked(m, e, d)
  BY <1>0, <1>00, ForkMakes
<1>5. page_dir'[process_list'[1]] = d
  <2>1. /\ page_dir \in Seq(Frames \cup {NULL}) /\ Len(page_dir) \in Nat
        /\ Len(process_list) = Len(page_dir)
    BY PidsListed DEF Types, Listed
  <2>2. process_list' = <<n>> \o process_list /\ page_dir' = Append(page_dir, d)
    BY <1>1, <2>1 DEF Enlist, next_pid
  <2>3. process_list \in Seq(Int)
    BY <2>1 DEF Types, Listed
  <2>4. process_list'[1] = n
    BY <2>1, <2>2, <2>3
  <2>5. page_dir'[n] = d
    BY <2>1, <2>2
  <2> QED
    BY <2>4, <2>5
<1> HIDE DEF c, m
<1>6. /\ AllCopied(m, l, e, d, KERNEL_PD_INDEX) /\ m.mem[e] = mem[e]
      /\ \A h \in DOMAIN m.mem[d].tab : h < KERNEL_PD_INDEX => h \in DOMAIN mem[e].tab
  BY <1>2, CommonIsHigh DEF Forked
<1>7. \A i \in DOMAIN mem[e].tab :
        i < KERNEL_PD_INDEX =>
          LET st == mem[e].tab[i].frame
          IN  /\ m.mem[st] = mem[st]
              /\ \A j \in DOMAIN mem[st].tab :
                   m.mem[mem[st].tab[j].frame] = mem[mem[st].tab[j].frame]
  BY <1>2 DEF Forked
<1> HIDE DEF l, n
<1>8. mem' = l.mem
  BY <1>1 DEF Becomes
<1>9. Low(d)' = Low(e)
  <2>1. DOMAIN mem'[d].tab =
          DOMAIN m.mem[d].tab \cup { i \in DOMAIN mem[e].tab : i < KERNEL_PD_INDEX }
    BY <1>6, <1>8 DEF AllCopied
  <2>2. Low(d)' = { i \in DOMAIN mem'[d].tab : i < KERNEL_PD_INDEX }
    BY DEF Low
  <2>3. Low(e) = { i \in DOMAIN mem[e].tab : i < KERNEL_PD_INDEX }
    BY DEF Low
  <2> QED
    BY <1>6, <2>1, <2>2, <2>3
<1>10. ASSUME NEW i \in Low(e)
       PROVE  /\ DOMAIN mem'[TableAt(d, i)'].tab = DOMAIN mem[TableAt(e, i)].tab
              /\ \A j \in DOMAIN mem[TableAt(e, i)].tab :
                   mem'[mem'[TableAt(d, i)'].tab[j].frame].data
                     = mem[mem[TableAt(e, i)].tab[j].frame].data
  <2> DEFINE st == TableAt(e, i)
             dt == l.mem[d].tab[i].frame
  <2>1. i \in DOMAIN mem[e].tab /\ i < KERNEL_PD_INDEX
    BY DEF Low
  <2>2. TableCopied(m, l, e, d, i)
    BY <1>6, <2>1 DEF AllCopied
  <2>3. /\ m.mem[e].tab[i].frame = st /\ m.mem[st] = mem[st]
        /\ \A j \in DOMAIN mem[st].tab :
             m.mem[mem[st].tab[j].frame] = mem[mem[st].tab[j].frame]
    <3>1. st = mem[e].tab[i].frame
      BY DEF TableAt
    <3> HIDE DEF st
    <3> QED
      BY <1>6, <1>7, <2>1, <3>1
  <2>4. TableAt(d, i)' = dt
    BY <1>8 DEF TableAt
  <2>5. /\ DOMAIN l.mem[dt].tab = DOMAIN m.mem[st].tab
        /\ \A j \in DOMAIN m.mem[st].tab :
             l.mem[l.mem[dt].tab[j].frame].data = m.mem[m.mem[st].tab[j].frame].data
    BY <2>2, <2>3 DEF TableCopied
  <2> HIDE DEF st, dt
  <2>6. /\ DOMAIN mem'[dt].tab = DOMAIN mem[st].tab
        /\ \A j \in DOMAIN mem[st].tab :
             mem'[mem'[dt].tab[j].frame].data = mem[mem[st].tab[j].frame].data
    BY <1>8, <2>3, <2>5
  <2> QED
    BY <2>4, <2>6 DEF st
<1>11. LowView(d)' = LowView(e)
  BY <1>9, <1>10, SameView
<1>12. LowView(page_dir[process_list[1]])' = LowView(d)'
  BY <1>5
<1> QED
  BY <1>00, <1>11, <1>12

(* __fork gives the child what the parent sees in the lower half: the same *)
(* pages at the same places with the same contents, whatever the parent    *)
(* has mapped and written, and no page more, although create_process has   *)
(* made a stack for the child before.                                      *)
THEOREM ChildSeesWhatParentSees == Spec /\ [](handed # Frames) => ForkCopiesTheParent
<1> DEFINE Copied == forks' # forks =>
                       LowView(page_dir[process_list[1]])' = LowView(page_dir[current_process])
<1>1. IInv /\ (handed # Frames)' /\ [Next]_vars => [Copied]_vars
  <2> SUFFICES ASSUME IInv, handed' # Frames, [Next]_vars, forks' # forks
               PROVE  LowView(page_dir[process_list[1]])' = LowView(page_dir[current_process])
    OBVIOUS
  <2>1. Fork
    BY DEF Next, BootPaging, CreateProcess, ForkNobody, Schedule, Write, PageFault,
           vars, procVars
  <2>2. Types
    BY DEF IInv
  <2>3. handed # Frames
    BY <2>2, TypesStep, FramesLeft DEF IInv, Types, Machine
  <2>4. PICK use : Sound(use)
    BY <2>1, <2>3 DEF IInv, Fork, Running
  <2> QED
    BY <2>1, <2>2, <2>4, ForkCopies
<1> QED
  BY <1>1, ProcessInvariance, PTL DEF Spec, ForkCopiesTheParent

-----------------------------------------------------------------------------
(***************************************************************************)
(* What __fork loses.                                                      *)
(***************************************************************************)

(* The frame f is the directory pd or behind an entry that is pd's own; it *)
(* is the kernel's directory or one of its tables, or a page that a fault  *)
(* has entered in one of these.                                            *)
Holds(memory, pd, f) ==
  f = pd \/ \E i \in DOMAIN memory[pd].tab : i \notin Common /\ Behind(memory, pd, i, f)

HasTable(memory, kpd, f) ==
  f = kpd \/ \E i \in DOMAIN memory[kpd].tab : f = memory[kpd].tab[i].frame

HasPage(memory, kpd, f) ==
  \E i \in DOMAIN memory[kpd].tab :
    LET t == memory[kpd].tab[i].frame
    IN  \E j \in DOMAIN memory[t].tab :
          "user" \in memory[t].tab[j].flags /\ f = memory[t].tab[j].frame

OfKernel(memory, kpd, f) == HasTable(memory, kpd, f) \/ HasPage(memory, kpd, f)

(* The frames that nobody reaches.                                         *)
Lost ==
  { f \in handed : /\ ~OfKernel(mem, kernel_page_dir, f)
                   /\ \A p \in 1..Len(page_dir) : ~Holds(mem, page_dir[p], f) }

(* These are the frames that the model calls a process's.                  *)
LEMMA FramesAreHeld ==
  ASSUME NEW pd, NEW f, Shared = Common
  PROVE  f \in FramesOf(pd) <=> Holds(mem, pd, f)
<1>1. f \in Tables(pd) <=>
        \E i \in DOMAIN mem[pd].tab : i \notin Common /\ f = TableAt(pd, i)
  BY DEF Tables, Own
<1>2. f \in PagesOf(pd) <=>
        \E i \in DOMAIN mem[pd].tab :
          i \notin Common /\ \E j \in DOMAIN mem[TableAt(pd, i)].tab :
                                   f = mem[TableAt(pd, i)].tab[j].frame
  <2>1. ASSUME NEW a \in OwnPages(pd)
        PROVE  /\ a[1] \in DOMAIN mem[pd].tab /\ a[1] \notin Common
               /\ a[2] \in DOMAIN mem[TableAt(pd, a[1])].tab
    BY DEF OwnPages, PagesIn, Own
  <2>2. ASSUME NEW i \in DOMAIN mem[pd].tab, i \notin Common,
               NEW j \in DOMAIN mem[TableAt(pd, i)].tab
        PROVE  /\ <<i, j>> \in OwnPages(pd)
               /\ PageAt(pd, <<i, j>>) = mem[TableAt(pd, i)].tab[j].frame
    <3>1. i \in Own(pd)
      BY <2>2 DEF Own
    <3>2. <<i, j>> \in {i} \X DOMAIN mem[TableAt(pd, i)].tab
      OBVIOUS
    <3> QED
      BY <3>1, <3>2 DEF OwnPages, PagesIn, PageAt
  <2>3. ASSUME f \in PagesOf(pd)
        PROVE  \E i \in DOMAIN mem[pd].tab :
                 i \notin Common /\ \E j \in DOMAIN mem[TableAt(pd, i)].tab :
                                          f = mem[TableAt(pd, i)].tab[j].frame
    <3>1. PICK a \in OwnPages(pd) : f = mem[TableAt(pd, a[1])].tab[a[2]].frame
      BY <2>3 DEF PagesOf, PageAt
    <3> QED
      BY <2>1, <3>1
  <2>4. ASSUME NEW i \in DOMAIN mem[pd].tab, i \notin Common,
               NEW j \in DOMAIN mem[TableAt(pd, i)].tab,
               f = mem[TableAt(pd, i)].tab[j].frame
        PROVE  f \in PagesOf(pd)
    BY <2>2, <2>4 DEF PagesOf
  <2> QED
    BY <2>3, <2>4
<1> QED
  BY <1>1, <1>2 DEF FramesOf, Holds, Behind, TableAt

(* What the directory pd holds belongs to the process p: a directory, a    *)
(* table or a page of it, each at its place.                               *)
OwnedBy(m, use, p, pd) ==
  /\ \A i \in DOMAIN m.mem[pd].tab :
       i \notin Common =>
         LET t == m.mem[pd].tab[i].frame
         IN  /\ t \in DOMAIN use /\ use[t] = Table(p, i)
             /\ \A j \in DOMAIN m.mem[t].tab :
                  /\ m.mem[t].tab[j].frame \in DOMAIN use
                  /\ use[m.mem[t].tab[j].frame] = Page(p, i, j)
  /\ \A f : Holds(m.mem, pd, f) => f \in m.handed /\ use[f][1] = p

(* It does when memory agrees with the uses of its frames.                 *)
LEMMA UsesOfHeld ==
  ASSUME NEW m, NEW use, Owns(m, use), NEW p, p # 0,
         NEW pd \in DOMAIN use, use[pd] = Directory(p)
  PROVE  OwnedBy(m, use, p, pd)
<1>1. Agrees(m.mem, use) /\ DOMAIN use = m.handed
  BY DEF Owns
<1>2. ASSUME NEW i \in DOMAIN m.mem[pd].tab, i \notin Common
      PROVE  /\ m.mem[pd].tab[i].frame \in DOMAIN use
             /\ use[m.mem[pd].tab[i].frame] = Table(p, i)
             /\ \A j \in DOMAIN m.mem[m.mem[pd].tab[i].frame].tab :
                  /\ m.mem[m.mem[pd].tab[i].frame].tab[j].frame \in DOMAIN use
                  /\ use[m.mem[m.mem[pd].tab[i].frame].tab[j].frame] = Page(p, i, j)
  <2> DEFINE t == m.mem[pd].tab[i].frame
  <2>1. t \in DOMAIN use /\ use[t] = Table(p, i)
    BY <1>1, <1>2 DEF Agrees
  <2> HIDE DEF t
  <2>2. \A j \in DOMAIN m.mem[t].tab :
          m.mem[t].tab[j].frame \in DOMAIN use /\ use[m.mem[t].tab[j].frame] = Page(p, i, j)
    BY <1>1, <2>1 DEF Agrees
  <2> QED
    BY <2>1, <2>2 DEF t
<1>3. ASSUME NEW f, Holds(m.mem, pd, f) PROVE f \in m.handed /\ use[f][1] = p
  <2>1. CASE f = pd
    BY <1>1, <2>1 DEF Directory
  <2>2. ASSUME NEW i \in DOMAIN m.mem[pd].tab, i \notin Common, Behind(m.mem, pd, i, f)
        PROVE  f \in DOMAIN use /\ use[f][1] = p
    <3> DEFINE t == m.mem[pd].tab[i].frame
    <3>1. /\ t \in DOMAIN use /\ use[t] = Table(p, i)
          /\ \A j \in DOMAIN m.mem[t].tab :
               m.mem[t].tab[j].frame \in DOMAIN use /\ use[m.mem[t].tab[j].frame] = Page(p, i, j)
      BY <1>2, <2>2
    <3>2. f = t \/ \E j \in DOMAIN m.mem[t].tab : f = m.mem[t].tab[j].frame
      BY <2>2 DEF Behind
    <3> HIDE DEF t
    <3> QED
      BY <3>1, <3>2 DEF Table, Page
  <2> QED
    BY <1>1, <1>3, <2>1, <2>2 DEF Holds
<1>4. OwnedBy(m, use, p, pd)
  BY <1>2, <1>3 DEF OwnedBy
<1> QED
  BY <1>4

(* Where the directory and the tables stay, what it holds stays.           *)
LEMMA HeldStays ==
  ASSUME NEW memory, NEW later, NEW pd, later[pd] = memory[pd],
         \A i \in DOMAIN memory[pd].tab :
           i \notin Common =>
             later[memory[pd].tab[i].frame] = memory[memory[pd].tab[i].frame],
         NEW f
  PROVE  Holds(later, pd, f) <=> Holds(memory, pd, f)
<1>1. ASSUME NEW i \in DOMAIN memory[pd].tab, i \notin Common
      PROVE  Behind(later, pd, i, f) <=> Behind(memory, pd, i, f)
  <2> DEFINE t == memory[pd].tab[i].frame
  <2>1. later[pd].tab[i].frame = t /\ later[t] = memory[t]
    BY <1>1
  <2>2. Behind(memory, pd, i, f) <=>
          f = t \/ \E j \in DOMAIN memory[t].tab : f = memory[t].tab[j].frame
    BY DEF Behind
  <2> HIDE DEF t
  <2> QED
    BY <2>1, <2>2 DEF Behind
<1> QED
  BY <1>1 DEF Holds

(* Nothing is held or let go when a page is written.                       *)
LEMMA PageWritten ==
  ASSUME NEW m, Base(m), NEW use, Owns(m, use), NEW p, p # 0,
         NEW pd \in DOMAIN use, use[pd] = Directory(p),
         NEW g \in DOMAIN use, NEW q, NEW h, NEW j, use[g] = Page(q, h, j),
         NEW content, NEW f
  PROVE  Holds(Fill(m, g, content).mem, pd, f) <=> Holds(m.mem, pd, f)
<1>0. OwnedBy(m, use, p, pd)
  BY UsesOfHeld
<1> DEFINE n == Fill(m, g, content)
<1>1. \A d \in Frames \cup {NULL} : d # g => n.mem[d] = m.mem[d]
  BY FillGrows
<1> HIDE DEF n
<1>2. DOMAIN use \subseteq Frames
  BY DEF Owns, Base
<1>3. \A d \in DOMAIN use : d # g => n.mem[d] = m.mem[d]
  BY <1>1, <1>2
<1>4. n.mem[pd] = m.mem[pd]
  BY <1>3 DEF Directory, Page
<1>5. ASSUME NEW i \in DOMAIN m.mem[pd].tab, i \notin Common
      PROVE  n.mem[m.mem[pd].tab[i].frame] = m.mem[m.mem[pd].tab[i].frame]
  <2> DEFINE t == m.mem[pd].tab[i].frame
  <2>1. t \in DOMAIN use /\ use[t] = Table(p, i)
    BY <1>0, <1>5 DEF OwnedBy
  <2> HIDE DEF t
  <2>2. n.mem[t] = m.mem[t]
    BY <1>3, <2>1 DEF Table, Page
  <2> QED
    BY <2>2 DEF t
<1>6. Holds(n.mem, pd, f) <=> Holds(m.mem, pd, f)
  BY <1>4, <1>5, HeldStays
<1> QED
  BY <1>6 DEF n

(* map_page has entered frame at the place j of the table pt of pd's       *)
(* entry i, a table that was there or that is new.                         *)
PageEntered(m, l, pd, i, j, frame) ==
  LET pt == l.mem[pd].tab[i].frame
  IN  /\ DOMAIN l.mem[pd].tab = DOMAIN m.mem[pd].tab \cup {i}
      /\ \A h \in DOMAIN m.mem[pd].tab : l.mem[pd].tab[h] = m.mem[pd].tab[h]
      /\ \A g \in m.handed : g # pd /\ g # pt => l.mem[g] = m.mem[g]
      /\ j \in DOMAIN l.mem[pt].tab /\ l.mem[pt].tab[j].frame = frame
      /\ i \in DOMAIN m.mem[pd].tab =>
           /\ l.handed = m.handed
           /\ DOMAIN l.mem[pt].tab = DOMAIN m.mem[pt].tab \cup {j}
           /\ \A k \in DOMAIN m.mem[pt].tab : k # j => l.mem[pt].tab[k] = m.mem[pt].tab[k]
      /\ i \notin DOMAIN m.mem[pd].tab =>
           /\ pt \notin m.handed /\ l.handed = m.handed \cup {pt}
           /\ DOMAIN l.mem[pt].tab = {j}

(* That is what it does, for the kernel as well as for a process.          *)
LEMMA MapPageEnters ==
  ASSUME NEW m, Base(m), NEW use, Owns(m, use), NEW p,
         NEW pd \in DOMAIN use, use[pd] = Directory(p),
         NEW page \in Nat, NEW frame, NEW flags,
         p # 0 => page \div PAGE_ENTRIES \notin Common,
         map_page(m, pd, page, frame, flags).handed # Frames
  PROVE  PageEntered(m, map_page(m, pd, page, frame, flags), pd,
                     page \div PAGE_ENTRIES, page % PAGE_ENTRIES, frame)
<1> DEFINE i == page \div PAGE_ENTRIES
           j == page % PAGE_ENTRIES
           t == create_page_table(m)
           n == IF i \in DOMAIN m.mem[pd].tab THEN m
                ELSE SetEntry(t, pd, i, Entry(t.answer, {"rw", "user"}))
           pt == n.mem[pd].tab[i].frame
           l == map_page(m, pd, page, frame, flags)
<1>1. l = SetEntry(n, pt, j, Entry(frame, flags))
  BY DEF map_page
<1>2. Base(t) /\ Grows(m, t)
  BY AllocatedZeroedGrows DEF create_page_table, Grows
<1>3. t.handed # Frames =>
        /\ t.answer \in Frames /\ t.answer \notin m.handed
        /\ t.handed = m.handed \cup {t.answer}
        /\ t.mem[t.answer] = Zeroed /\ \A g \in m.handed : t.mem[g] = m.mem[g]
  BY AllocatedZeroedGrows DEF create_page_table
<1>4. \A f, g : Entry(f, g).frame = f
  BY DEF Entry
<1>5. p # 0 => i \notin Common
  OBVIOUS
<1>6. pd \in m.handed /\ m.handed \subseteq Frames /\ Agrees(m.mem, use)
      /\ DOMAIN use = m.handed
  BY DEF Owns, Base
<1> HIDE DEF i, j, l, t
<1>7. CASE i \in DOMAIN m.mem[pd].tab
  <2> DEFINE st == m.mem[pd].tab[i].frame
  <2>1. n = m
    BY <1>7
  <2>2. st \in DOMAIN use /\ use[st] = Table(p, i)
    BY <1>5, <1>6, <1>7 DEF Agrees
  <2>3. pd # st /\ st \in m.handed
    BY <1>6, <2>2 DEF Directory, Table
  <2>4. pt = st
    BY <2>1
  <2> HIDE DEF n, pt, st
  <2>5. l = SetEntry(m, st, j, Entry(frame, flags))
    BY <1>1, <2>1, <2>4
  <2>6. /\ l.handed = m.handed
        /\ DOMAIN l.mem[st].tab = DOMAIN m.mem[st].tab \cup {j}
        /\ l.mem[st].tab[j] = Entry(frame, flags)
        /\ \A k \in DOMAIN m.mem[st].tab : k # j => l.mem[st].tab[k] = m.mem[st].tab[k]
        /\ \A g \in m.handed : g # st => l.mem[g] = m.mem[g]
    BY <1>6, <2>3, <2>5, SetEntryGrows
  <2>7. l.mem[pd] = m.mem[pd]
    BY <1>6, <2>3, <2>6
  <2>8. l.mem[pd].tab[i].frame = st
    BY <2>7 DEF st
  <2>9. /\ j \in DOMAIN l.mem[st].tab /\ l.mem[st].tab[j].frame = frame
        /\ DOMAIN l.mem[pd].tab = DOMAIN m.mem[pd].tab \cup {i}
    BY <1>4, <1>7, <2>6, <2>7
  <2>10. PageEntered(m, l, pd, i, j, frame)
    BY <1>7, <2>6, <2>7, <2>8, <2>9 DEF PageEntered
  <2> QED
    BY <2>10 DEF l, i, j
<1>8. CASE i \notin DOMAIN m.mem[pd].tab
  <2> DEFINE s == SetEntry(t, pd, i, Entry(t.answer, {"rw", "user"}))
  <2>1. n = s
    BY <1>8
  <2>2. /\ Base(s) /\ s.handed = t.handed
        /\ DOMAIN s.mem[pd].tab = DOMAIN t.mem[pd].tab \cup {i}
        /\ s.mem[pd].tab[i] = Entry(t.answer, {"rw", "user"})
        /\ \A h \in DOMAIN t.mem[pd].tab : h # i => s.mem[pd].tab[h] = t.mem[pd].tab[h]
        /\ \A g \in Frames \cup {NULL} : g # pd => s.mem[g] = t.mem[g]
    BY <1>2, <1>6, SetEntryGrows DEF Grows
  <2> HIDE DEF s
  <2>3. pt = t.answer
    BY <1>4, <2>1, <2>2
  <2> HIDE DEF n, pt
  <2>4. l = SetEntry(s, t.answer, j, Entry(frame, flags))
    BY <1>1, <2>1, <2>3
  <2>5. l.handed = s.handed
    BY <2>2, <2>4, SetEntryGrows
  <2>6. t.handed # Frames
    BY <2>2, <2>5 DEF l
  <2> DEFINE a == t.answer
  <2>7. /\ a \in Frames /\ a \notin m.handed /\ a # pd
        /\ l.handed = m.handed \cup {a} /\ s.mem[a].tab = <<>>
        /\ \A g \in m.handed : t.mem[g] = m.mem[g]
    BY <1>3, <1>6, <2>2, <2>5, <2>6 DEF Zeroed
  <2> HIDE DEF a
  <2>8. l = SetEntry(s, a, j, Entry(frame, flags)) /\ s.mem[pd].tab[i].frame = a
    BY <1>4, <2>2, <2>4 DEF a
  <2>9. /\ DOMAIN l.mem[a].tab = {} \cup {j}
        /\ l.mem[a].tab[j] = Entry(frame, flags)
        /\ \A g \in m.handed : g # a => l.mem[g] = s.mem[g]
    BY <1>6, <2>2, <2>7, <2>8, SetEntryGrows
  <2>10. l.mem[pd] = s.mem[pd] /\ t.mem[pd] = m.mem[pd]
    BY <1>6, <2>7, <2>9
  <2>11. /\ DOMAIN l.mem[pd].tab = DOMAIN m.mem[pd].tab \cup {i}
         /\ \A h \in DOMAIN m.mem[pd].tab : l.mem[pd].tab[h] = m.mem[pd].tab[h]
         /\ l.mem[pd].tab[i].frame = a
    BY <1>8, <2>2, <2>8, <2>10
  <2>12. \A g \in m.handed : g # pd /\ g # a => l.mem[g] = m.mem[g]
    BY <1>6, <2>2, <2>7, <2>9
  <2>13. /\ j \in DOMAIN l.mem[a].tab /\ l.mem[a].tab[j].frame = frame
         /\ DOMAIN l.mem[a].tab = {j}
    BY <1>4, <2>9
  <2>14. PageEntered(m, l, pd, i, j, frame)
    BY <1>8, <2>7, <2>11, <2>12, <2>13 DEF PageEntered
  <2> QED
    BY <2>14 DEF l, i, j
<1> QED
  BY <1>7, <1>8

(* map_page puts a new page, and the table it makes for it, where they are *)
(* held, and lets go of nothing if the page was not there before.          *)
LEMMA MapPageTakes ==
  ASSUME NEW m, NEW l, NEW use, Owns(m, use), NEW p, p # 0,
         NEW pd \in DOMAIN use, use[pd] = Directory(p),
         NEW i, i \notin Common, NEW j, NEW frame,
         PageEntered(m, l, pd, i, j, frame),
         i \in DOMAIN m.mem[pd].tab => j \notin DOMAIN m.mem[m.mem[pd].tab[i].frame].tab
  PROVE  \A f \in l.handed :
           Holds(l.mem, pd, f) <=> Holds(m.mem, pd, f) \/ f = frame \/ f \notin m.handed
<1> DEFINE pt == l.mem[pd].tab[i].frame
<1>1. OwnedBy(m, use, p, pd) /\ DOMAIN use = m.handed
  BY UsesOfHeld DEF Owns
<1>2. /\ DOMAIN l.mem[pd].tab = DOMAIN m.mem[pd].tab \cup {i}
      /\ \A h \in DOMAIN m.mem[pd].tab : l.mem[pd].tab[h] = m.mem[pd].tab[h]
      /\ \A g \in m.handed : g # pd /\ g # pt => l.mem[g] = m.mem[g]
      /\ j \in DOMAIN l.mem[pt].tab /\ l.mem[pt].tab[j].frame = frame
      /\ i \in DOMAIN m.mem[pd].tab =>
           /\ l.handed = m.handed
           /\ DOMAIN l.mem[pt].tab = DOMAIN m.mem[pt].tab \cup {j}
           /\ \A k \in DOMAIN m.mem[pt].tab : k # j => l.mem[pt].tab[k] = m.mem[pt].tab[k]
      /\ i \notin DOMAIN m.mem[pd].tab =>
           /\ pt \notin m.handed /\ l.handed = m.handed \cup {pt}
           /\ DOMAIN l.mem[pt].tab = {j}
  BY DEF PageEntered
<1>3. i \in DOMAIN m.mem[pd].tab =>
        /\ m.mem[pd].tab[i].frame = pt /\ use[pt] = Table(p, i)
        /\ j \notin DOMAIN m.mem[pt].tab
  <2>1. i \in DOMAIN m.mem[pd].tab => m.mem[pd].tab[i].frame = pt
    BY <1>2
  <2> HIDE DEF pt
  <2> QED
    BY <1>1, <2>1 DEF OwnedBy
<1> HIDE DEF pt
<1>4. ASSUME NEW h \in DOMAIN m.mem[pd].tab, h \notin Common, h # i, NEW f
      PROVE  Behind(l.mem, pd, h, f) <=> Behind(m.mem, pd, h, f)
  <2> DEFINE t == m.mem[pd].tab[h].frame
  <2>1. t \in m.handed /\ use[t] = Table(p, h)
    BY <1>1, <1>4 DEF OwnedBy
  <2>2. l.mem[pd].tab[h].frame = t
    BY <1>2
  <2> HIDE DEF t
  <2>3. t # pd /\ t # pt
    BY <1>2, <1>3, <1>4, <2>1 DEF Directory, Table
  <2>4. l.mem[t] = m.mem[t]
    BY <1>2, <2>1, <2>3
  <2> QED
    BY <2>2, <2>4 DEF Behind, t
<1>5. ASSUME NEW f \in l.handed
      PROVE  Behind(l.mem, pd, i, f) <=>
               f = frame \/ f \notin m.handed
                 \/ (i \in DOMAIN m.mem[pd].tab /\ Behind(m.mem, pd, i, f))
  <2>1. Behind(l.mem, pd, i, f) <=>
          f = pt \/ \E k \in DOMAIN l.mem[pt].tab : f = l.mem[pt].tab[k].frame
    BY DEF Behind, pt
  <2>2. CASE i \in DOMAIN m.mem[pd].tab
    <3>1. Behind(m.mem, pd, i, f) <=>
            f = pt \/ \E k \in DOMAIN m.mem[pt].tab : f = m.mem[pt].tab[k].frame
      BY <1>3, <2>2 DEF Behind
    <3> QED
      BY <1>2, <1>3, <2>1, <2>2, <3>1
  <2>3. CASE i \notin DOMAIN m.mem[pd].tab
    BY <1>2, <2>1, <2>3
  <2> QED
    BY <2>2, <2>3
<1>6. SUFFICES ASSUME NEW f \in l.handed
               PROVE  Holds(l.mem, pd, f) <=>
                        Holds(m.mem, pd, f) \/ f = frame \/ f \notin m.handed
  OBVIOUS
<1>7. Holds(l.mem, pd, f) =>
        Holds(m.mem, pd, f) \/ f = frame \/ f \notin m.handed
  BY <1>2, <1>4, <1>5 DEF Holds
<1>8. Holds(m.mem, pd, f) => Holds(l.mem, pd, f)
  <2>1. ASSUME NEW h \in DOMAIN m.mem[pd].tab, h \notin Common, Behind(m.mem, pd, h, f)
        PROVE  h \in DOMAIN l.mem[pd].tab /\ Behind(l.mem, pd, h, f)
    BY <1>2, <1>4, <1>5, <2>1
  <2> QED
    BY <2>1 DEF Holds
<1>9. f = frame \/ f \notin m.handed => Holds(l.mem, pd, f)
  BY <1>2, <1>5 DEF Holds
<1> QED
  BY <1>7, <1>8, <1>9

(* map_page for the kernel: its directory goes on having every frame that  *)
(* has been handed out.                                                    *)
LEMMA MapPageForKernel ==
  ASSUME NEW m, NEW l, NEW pd, NEW i, NEW j, NEW frame,
         PageEntered(m, l, pd, i, j, frame),
         \A f \in m.handed : HasTable(m.mem, pd, f)
  PROVE  \A f \in l.handed : HasTable(l.mem, pd, f)
<1>0. \A h \in DOMAIN m.mem[pd].tab :
        h \in DOMAIN l.mem[pd].tab /\ l.mem[pd].tab[h] = m.mem[pd].tab[h]
  BY DEF PageEntered
<1>1. \A f \in m.handed : HasTable(l.mem, pd, f)
  BY <1>0 DEF HasTable
<1>2. ASSUME NEW f \in l.handed, f \notin m.handed
      PROVE  f = l.mem[pd].tab[i].frame /\ i \in DOMAIN l.mem[pd].tab
  BY <1>2 DEF PageEntered
<1> QED
  BY <1>1, <1>2 DEF HasTable

(* create_process takes three frames, the directory, the stack and the     *)
(* table it is in, and its directory holds these and no other.             *)
CreateTook(m, c) ==
  /\ \E s, t : /\ s # t /\ s # c.dir /\ t # c.dir
               /\ s \notin m.handed /\ t \notin m.handed /\ c.dir \notin m.handed
               /\ c.machine.handed = m.handed \cup {c.dir, s, t}
  /\ \A f \in c.machine.handed : Holds(c.machine.mem, c.dir, f) <=> f \notin m.handed

(* That is what it does.                                                   *)
LEMMA CreateTakes ==
  ASSUME NEW m, Base(m), NEW use, Owns(m, use), NEW p, p # 0,
         kernel_page_dir \in DOMAIN use, use[kernel_page_dir] = Directory(0),
         { h \in DOMAIN m.mem[kernel_page_dir].tab : h >= KERNEL_PD_INDEX } = Common,
         create_process(m).machine.handed # Frames
  PROVE  CreateTook(m, create_process(m))
<1> DEFINE d   == AllocatedZeroed(m)
           pd  == d.answer
           k   == clone_kernel_space(d, pd, kernel_page_dir)
           s   == Allocated(k)
           stk == s.answer
           pg  == map_page(s, pd, StackPage, stk, {"rw", "user"})
           l   == Fill(pg, stk, Zeroed)
           i   == StackPage \div PAGE_ENTRIES
           j   == StackPage % PAGE_ENTRIES
<1>1. create_process(m).machine = l /\ create_process(m).dir = pd
  BY DEF create_process
<1>2. /\ Base(d)
      /\ d.handed # Frames => pd \in Frames /\ pd \notin m.handed
                              /\ d.handed = m.handed \cup {pd}
  BY AllocatedZeroedGrows DEF Grows
<1>3. Base(k) /\ k.handed = d.handed
  BY <1>2, CloneGrows DEF Grows
<1>4. d.handed # Frames => \E after :
        /\ Act(m, use, p, k, after) /\ pd \in DOMAIN after /\ after[pd] = Directory(p)
        /\ DOMAIN k.mem[pd].tab = Common
  BY CloneActs
<1> HIDE DEF d, pd, k
<1>5. /\ Grows(k, s) /\ s.mem = k.mem
      /\ s.handed # Frames => stk \notin k.handed /\ s.handed = k.handed \cup {stk}
  BY <1>3, AllocatedGrows
<1> HIDE DEF s, stk
<1>6. Grows(s, pg)
  BY <1>5, MapPageGrows DEF Grows
<1> HIDE DEF pg
<1>7. l.handed = pg.handed
  BY <1>6, FillGrows DEF Grows
<1> HIDE DEF l
<1>8. pg.handed # Frames /\ s.handed # Frames /\ k.handed # Frames /\ d.handed # Frames
  BY <1>1, <1>3, <1>5, <1>6, <1>7, FramesLeft DEF Grows
<1>9. PICK u : /\ Act(m, use, p, k, u) /\ pd \in DOMAIN u /\ u[pd] = Directory(p)
               /\ DOMAIN k.mem[pd].tab = Common
  BY <1>4, <1>8
<1>10. PICK v : Act(k, u, p, s, v) /\ stk \in DOMAIN v /\ v[stk] = Page(p, i, j)
  <2>1. Owns(k, u)
    BY <1>9 DEF Act
  <2> HIDE DEF i, j
  <2> QED
    BY <1>3, <1>8, <2>1, AllocatedActs DEF s, stk
<1>11. Owns(s, v) /\ pd \in DOMAIN v /\ v[pd] = Directory(p)
  BY <1>9, <1>10 DEF Act
<1>12. StackPage \in Nat /\ i \notin Common
  BY ProcessAssumption, CommonIsHigh
<1>13. PageEntered(s, pg, pd, i, j, stk)
  BY <1>5, <1>8, <1>11, <1>12, MapPageEnters DEF pg, Grows
<1>14. PICK w : Act(s, v, p, pg, w)
  <2>1. Acts(s, v, p, pg)
    BY <1>5, <1>8, <1>10, <1>11, <1>12, MapPageActs DEF pg, Grows
  <2> QED
    BY <2>1 DEF Acts
<1> HIDE DEF i, j
<1>15. DOMAIN s.mem[pd].tab = Common
  BY <1>5, <1>9
<1>16. i \notin DOMAIN s.mem[pd].tab
  BY <1>12, <1>15
<1>17. PICK t : t \notin s.handed /\ pg.handed = s.handed \cup {t}
  BY <1>13, <1>16 DEF PageEntered
<1>18. /\ pd \notin m.handed /\ stk \notin m.handed /\ t \notin m.handed
       /\ stk # pd /\ t # pd /\ stk # t
       /\ l.handed = m.handed \cup {pd, stk, t} /\ s.handed = m.handed \cup {pd, stk}
  BY <1>2, <1>3, <1>5, <1>7, <1>8, <1>17
<1>19. ASSUME NEW f \in l.handed PROVE Holds(pg.mem, pd, f) <=> f \notin m.handed
  <2>1. Holds(s.mem, pd, f) <=> f = pd
    BY <1>15 DEF Holds
  <2>2. Holds(pg.mem, pd, f) <=> Holds(s.mem, pd, f) \/ f = stk \/ f \notin s.handed
    BY <1>7, <1>11, <1>12, <1>13, <1>16, MapPageTakes
  <2> QED
    BY <1>18, <2>1, <2>2
<1>20. ASSUME NEW f PROVE Holds(l.mem, pd, f) <=> Holds(pg.mem, pd, f)
  <2>1. /\ Owns(pg, w) /\ stk \in DOMAIN w /\ w[stk] = Page(p, i, j)
        /\ pd \in DOMAIN w /\ w[pd] = Directory(p)
    BY <1>10, <1>11, <1>14 DEF Act
  <2> QED
    BY <1>6, <2>1, PageWritten DEF l, Grows
<1>21. \E a, b : /\ a # b /\ a # pd /\ b # pd
                 /\ a \notin m.handed /\ b \notin m.handed /\ pd \notin m.handed
                 /\ l.handed = m.handed \cup {pd, a, b}
  BY <1>18
<1>22. \A f \in l.handed : Holds(l.mem, pd, f) <=> f \notin m.handed
  BY <1>19, <1>20
<1> QED
  BY ONLY <1>1, <1>21, <1>22 DEF CreateTook

(* copy_addr_space: the child's directory holds itself and what the copy   *)
(* has taken, and nothing more of what create_process had made.            *)
LEMMA ForkTakes ==
  ASSUME NEW m, NEW e, NEW d, Forked(m, e, d),
         NEW f \in copy_addr_space(m, e, d).handed
  PROVE  Holds(copy_addr_space(m, e, d).mem, d, f) <=> f = d \/ f \notin m.handed
<1> DEFINE l == copy_addr_space(m, e, d)
<1>1. /\ AllCopied(m, l, e, d, KERNEL_PD_INDEX)
      /\ \A h \in DOMAIN m.mem[d].tab :
           h \notin Common => h < KERNEL_PD_INDEX /\ h \in DOMAIN m.mem[e].tab
  BY DEF Forked
<1>2. f \in l.handed
  OBVIOUS
<1> HIDE DEF l
<1>3. ASSUME f \notin m.handed PROVE Holds(l.mem, d, f)
  <2>1. PICK i \in DOMAIN m.mem[e].tab :
          i < KERNEL_PD_INDEX /\ Behind(l.mem, d, i, f)
    BY <1>1, <1>2, <1>3 DEF AllCopied
  <2>2. i \in DOMAIN l.mem[d].tab /\ i \notin Common
    BY <1>1, <2>1, CommonIsHigh DEF AllCopied
  <2> QED
    BY <2>1, <2>2 DEF Holds
<1>4. ASSUME NEW i \in DOMAIN l.mem[d].tab, i \notin Common, Behind(l.mem, d, i, f)
      PROVE  f \notin m.handed
  <2>1. i \in DOMAIN m.mem[e].tab /\ i < KERNEL_PD_INDEX
    BY <1>1, <1>4 DEF AllCopied
  <2>2. TableCopied(m, l, e, d, i)
    BY <1>1, <2>1 DEF AllCopied
  <2> QED
    BY <1>4, <2>2 DEF TableCopied, Behind
<1>5. Holds(l.mem, d, f) <=> f = d \/ f \notin m.handed
  BY <1>3, <1>4 DEF Holds
<1> QED
  BY <1>5 DEF l

(* Every frame that is handed out is the kernel's.                         *)
AllOfKernel(m, kpd) == \A f \in m.handed : HasTable(m.mem, kpd, f)

(* map_physical_region for the kernel: what it takes are the kernel's      *)
(* tables.                                                                 *)
LEMMA RegionTakes ==
  ASSUME NEW m, Base(m), NEW use, Owns(m, use),
         NEW pd \in DOMAIN use, use[pd] = Directory(0), AllOfKernel(m, pd),
         NEW page, page \in Nat, NEW frame, NEW pages \in Nat,
         NEW flags, "user" \notin flags,
         map_region(m, pd, page, frame, pages, flags).handed # Frames
  PROVE  AllOfKernel(map_region(m, pd, page, frame, pages, flags), pd)
<1>0. PICK mapped : RegionTurns(mapped, m, pd, page, frame, pages, flags)
  BY RegionLoop
<1>1. /\ mapped[0] = m
      /\ \A n \in 1..pages :
           mapped[n] = map_page(mapped[n - 1], pd, page + n - 1, frame + n - 1, flags)
      /\ map_region(m, pd, page, frame, pages, flags) = mapped[pages]
  BY <1>0 DEF RegionTurns
<1> DEFINE Done(l) == Acts(m, use, 0, l) /\ AllOfKernel(l, pd)
           S == { n \in Nat : n <= pages => /\ Base(mapped[n])
                                            /\ mapped[n].handed # Frames => Done(mapped[n]) }
<1>2. 0 \in S
  BY <1>1, NoAct DEF Acts
<1>3. \A n \in Nat : n \in S => n + 1 \in S
  <2> SUFFICES ASSUME NEW n \in Nat, n + 1 <= pages, Base(mapped[n]),
                      mapped[n].handed # Frames => Done(mapped[n])
               PROVE  /\ Base(mapped[n + 1])
                      /\ mapped[n + 1].handed # Frames => Done(mapped[n + 1])
    OBVIOUS
  <2> DEFINE a == page + (n + 1) - 1
             b == frame + (n + 1) - 1
  <2>1. mapped[n + 1] = map_page(mapped[n], pd, a, b, flags)
    <3>1. n + 1 \in 1..pages /\ (n + 1) - 1 = n
      OBVIOUS
    <3> QED
      BY <1>1, <3>1
  <2>2. a \in Nat
    OBVIOUS
  <2> HIDE DEF a, b
  <2>3. Grows(mapped[n], mapped[n + 1])
    BY <2>1, MapPageGrows
  <2>4. ASSUME mapped[n + 1].handed # Frames PROVE Done(mapped[n + 1])
    <3>0. Acts(m, use, 0, mapped[n]) /\ AllOfKernel(mapped[n], pd)
      BY <2>3, <2>4, FramesLeft
    <3>1. PICK during : Act(m, use, 0, mapped[n], during)
      BY <3>0 DEF Acts
    <3>2. Owns(mapped[n], during) /\ pd \in DOMAIN during /\ during[pd] = Directory(0)
      BY <3>1 DEF Act
    <3>3. Acts(mapped[n], during, 0, mapped[n + 1])
      BY <2>1, <2>2, <2>4, <3>2, MapPageActs
    <3>4. PageEntered(mapped[n], mapped[n + 1], pd, a \div PAGE_ENTRIES, a % PAGE_ENTRIES, b)
      BY <2>1, <2>2, <2>4, <3>2, MapPageEnters
    <3>5. AllOfKernel(mapped[n + 1], pd)
      BY <3>0, <3>4, MapPageForKernel DEF AllOfKernel
    <3> QED
      BY <3>1, <3>3, <3>5, ActThenAct DEF Acts
  <2> QED
    BY <2>3, <2>4 DEF Grows
<1> HIDE DEF S
<1>4. pages \in S
  BY <1>2, <1>3, SetInduction
<1> QED
  BY <1>1, <1>4 DEF S

(* The boot takes frames for the kernel only.                              *)
LEMMA BootTakes ==
  ASSUME NEW m, Base(m), m.handed = {},
         LET b == init_pages(m) IN map_framebuffer(b.machine, b.dir).handed # Frames
  PROVE  LET b == init_pages(m) IN AllOfKernel(map_framebuffer(b.machine, b.dir), b.dir)
<1> DEFINE n == AllocatedZeroed(m)
           k == map_region(n, n.answer, WindowBase, 0, WindowPages, {"rw"})
           l == map_region(k, n.answer, FbPage, FbPage, FbPages, {"rw", "wt"})
<1>1. /\ init_pages(m).machine = k /\ init_pages(m).dir = n.answer
      /\ map_framebuffer(k, n.answer) = l
  BY DEF init_pages, map_framebuffer
<1>2. Base(n) /\ (n.handed # Frames => n.handed = {n.answer})
  <2>1. n.handed # Frames => n.handed = m.handed \cup {n.answer}
    BY AllocatedZeroedGrows
  <2>2. Base(n)
    BY AllocatedZeroedGrows DEF Grows
  <2> HIDE DEF n
  <2> QED
    BY <2>1, <2>2
<1>3. n.handed # Frames => \E v : /\ Owns(n, v) /\ n.answer \in DOMAIN v
                                  /\ v[n.answer] = Directory(0)
  <2> DEFINE e == [f \in {} |-> Directory(0)]
  <2>1. Owns(m, e)
    BY DEF Owns, Agrees
  <2>2. Directory(0)[1] = 0
    BY DEF Directory
  <2> HIDE DEF e
  <2>3. n.handed # Frames =>
          \E v : /\ Act(m, e, 0, n, v) /\ n.answer \in DOMAIN v /\ v[n.answer] = Directory(0)
    BY <2>1, <2>2, AllocatedZeroedActs
  <2> QED
    BY <2>3 DEF Act
<1> HIDE DEF n
<1>4. Grows(n, k)
  BY <1>2, RegionGrows, PagingAssumption
<1> HIDE DEF k
<1>5. Grows(k, l)
  BY <1>4, RegionGrows, PagingAssumption DEF Grows
<1>6. l.handed # Frames
  BY <1>1
<1> HIDE DEF l
<1>7. k.handed # Frames /\ n.handed # Frames
  BY <1>2, <1>4, <1>5, <1>6, FramesLeft DEF Grows
<1>8. PICK v : Owns(n, v) /\ n.answer \in DOMAIN v /\ v[n.answer] = Directory(0)
  BY <1>3, <1>7
<1>0. "user" \notin {"rw"} /\ "user" \notin {"rw", "wt"}
  OBVIOUS
<1>9. AllOfKernel(n, n.answer)
  BY <1>2, <1>7 DEF AllOfKernel, HasTable
<1>10. PICK w : Act(n, v, 0, k, w)
  <2>1. Acts(n, v, 0, k)
    BY <1>0, <1>2, <1>7, <1>8, RegionActs, PagingAssumption DEF k
  <2> QED
    BY <2>1 DEF Acts
<1>11. AllOfKernel(k, n.answer)
  BY <1>0, <1>2, <1>7, <1>8, <1>9, RegionTakes, PagingAssumption DEF k
<1>12. Owns(k, w) /\ n.answer \in DOMAIN w /\ w[n.answer] = Directory(0)
  BY <1>8, <1>10 DEF Act
<1>13. AllOfKernel(l, n.answer)
  BY <1>0, <1>4, <1>6, <1>11, <1>12, RegionTakes, PagingAssumption DEF l, Grows
<1> QED
  BY <1>1, <1>13

-----------------------------------------------------------------------------
(* What a step of the running system does to Lost.                         *)

(* Where the kernel's directory and its tables stay, its frames do.        *)
LEMMA OfKernelStays ==
  ASSUME NEW memory, NEW later, NEW kpd, later[kpd] = memory[kpd],
         \A i \in DOMAIN memory[kpd].tab :
           later[memory[kpd].tab[i].frame] = memory[memory[kpd].tab[i].frame],
         NEW f
  PROVE  OfKernel(later, kpd, f) <=> OfKernel(memory, kpd, f)
<1>1. HasTable(later, kpd, f) <=> HasTable(memory, kpd, f)
  BY DEF HasTable
<1> DEFINE Has(m, t) == \E j \in DOMAIN m[t].tab :
                          "user" \in m[t].tab[j].flags /\ f = m[t].tab[j].frame
<1>2. ASSUME NEW i \in DOMAIN memory[kpd].tab
      PROVE  Has(later, memory[kpd].tab[i].frame) <=> Has(memory, memory[kpd].tab[i].frame)
  <2> DEFINE t == memory[kpd].tab[i].frame
  <2>1. later[t] = memory[t]
    OBVIOUS
  <2> HIDE DEF t
  <2> QED
    BY <2>1 DEF t
<1>3. /\ HasPage(later, kpd, f)
           <=> \E i \in DOMAIN memory[kpd].tab : Has(later, memory[kpd].tab[i].frame)
      /\ HasPage(memory, kpd, f)
           <=> \E i \in DOMAIN memory[kpd].tab : Has(memory, memory[kpd].tab[i].frame)
  BY DEF HasPage
<1> HIDE DEF Has
<1>4. HasPage(later, kpd, f) <=> HasPage(memory, kpd, f)
  BY <1>2, <1>3
<1> QED
  BY <1>1, <1>4 DEF OfKernel

(* The uses of the kernel's frames.                                        *)
LEMMA KernelsFrames ==
  ASSUME NEW use, Sound(use)
  PROVE  /\ kernel_page_dir \in handed /\ use[kernel_page_dir] = Directory(0)
         /\ \A i \in DOMAIN mem[kernel_page_dir].tab :
              /\ mem[kernel_page_dir].tab[i].frame \in handed
              /\ use[mem[kernel_page_dir].tab[i].frame] = Table(0, i)
         /\ \A f : OfKernel(mem, kernel_page_dir, f) => f \in handed
<1>1. /\ DOMAIN use = handed /\ Agrees(mem, use)
      /\ kernel_page_dir \in handed /\ use[kernel_page_dir] = Directory(0)
  BY DEF Sound, Owns, Machine
<1>2. \A i \in DOMAIN mem[kernel_page_dir].tab :
        /\ mem[kernel_page_dir].tab[i].frame \in handed
        /\ use[mem[kernel_page_dir].tab[i].frame] = Table(0, i)
  BY <1>1 DEF Agrees
<1>3. ASSUME NEW f, HasPage(mem, kernel_page_dir, f) PROVE f \in handed
  <2>1. PICK i \in DOMAIN mem[kernel_page_dir].tab :
          \E j \in DOMAIN mem[mem[kernel_page_dir].tab[i].frame].tab :
            /\ "user" \in mem[mem[kernel_page_dir].tab[i].frame].tab[j].flags
            /\ f = mem[mem[kernel_page_dir].tab[i].frame].tab[j].frame
    BY <1>3 DEF HasPage
  <2> DEFINE t == mem[kernel_page_dir].tab[i].frame
  <2>2. t \in DOMAIN use /\ use[t] = Table(0, i)
    BY <1>1, <1>2
  <2>3. \E j \in DOMAIN mem[t].tab :
          "user" \in mem[t].tab[j].flags /\ f = mem[t].tab[j].frame
    BY <2>1
  <2> HIDE DEF t
  <2> QED
    BY <1>1, <2>2, <2>3 DEF Agrees
<1>4. \A f : HasTable(mem, kernel_page_dir, f) => f \in handed
  BY <1>1, <1>2 DEF HasTable
<1> QED
  BY <1>1, <1>2, <1>3, <1>4 DEF OfKernel

(* What an action of one process, or of the kernel, does to the frames     *)
(* that others hold: nothing.                                              *)
LEMMA OthersHold ==
  ASSUME Types, NEW use, Sound(use), NEW p, NEW after,
         Act(Machine, use, p, Machine', after), NEW f
  PROVE  /\ p # 0 => (OfKernel(mem', kernel_page_dir, f)
                        <=> OfKernel(mem, kernel_page_dir, f))
         /\ OfKernel(mem, kernel_page_dir, f) => f \in handed
         /\ \A q \in 1..Len(page_dir) :
              /\ q # p => (Holds(mem', page_dir[q], f) <=> Holds(mem, page_dir[q], f))
              /\ Holds(mem, page_dir[q], f) => f \in handed
<1>1. /\ DOMAIN use = handed /\ Agrees(mem, use) /\ Owns(Machine, use)
      /\ kernel_page_dir \in handed /\ use[kernel_page_dir] = Directory(0)
      /\ \A q \in 1..Len(page_dir) :
           page_dir[q] \in handed /\ use[page_dir[q]] = Directory(q)
  BY DEF Sound, Owns, Machine
<1>2. \A g \in handed : use[g][1] # p => mem'[g] = mem[g]
  BY <1>1 DEF Act, Machine
<1>3. ASSUME p # 0
      PROVE  OfKernel(mem', kernel_page_dir, f) <=> OfKernel(mem, kernel_page_dir, f)
  <2>1. mem'[kernel_page_dir] = mem[kernel_page_dir]
    BY <1>1, <1>2, <1>3 DEF Directory
  <2>2. ASSUME NEW i \in DOMAIN mem[kernel_page_dir].tab
        PROVE  mem'[mem[kernel_page_dir].tab[i].frame]
                 = mem[mem[kernel_page_dir].tab[i].frame]
    <3> DEFINE t == mem[kernel_page_dir].tab[i].frame
    <3>1. t \in handed /\ use[t] = Table(0, i)
      BY KernelsFrames
    <3> HIDE DEF t
    <3>2. mem'[t] = mem[t]
      BY <1>2, <1>3, <3>1 DEF Table
    <3> QED
      BY <3>2 DEF t
  <2> QED
    BY <2>1, <2>2, OfKernelStays
<1>4. ASSUME NEW q \in 1..Len(page_dir)
      PROVE  /\ q # p => (Holds(mem', page_dir[q], f) <=> Holds(mem, page_dir[q], f))
             /\ Holds(mem, page_dir[q], f) => f \in handed
  <2> DEFINE pd == page_dir[q]
  <2>0. q # 0
    BY PidsListed DEF Types
  <2>1. pd \in handed /\ use[pd] = Directory(q)
    BY <1>1
  <2> HIDE DEF pd
  <2>2. OwnedBy(Machine, use, q, pd)
    BY <1>1, <2>0, <2>1, UsesOfHeld
  <2>3. Holds(mem, pd, f) => f \in handed
    BY <2>2 DEF OwnedBy, Machine
  <2>4. ASSUME q # p PROVE Holds(mem', pd, f) <=> Holds(mem, pd, f)
    <3>1. mem'[pd] = mem[pd]
      BY <1>2, <2>1, <2>4 DEF Directory
    <3>2. ASSUME NEW i \in DOMAIN mem[pd].tab, i \notin Common
          PROVE  mem'[mem[pd].tab[i].frame] = mem[mem[pd].tab[i].frame]
      <4> DEFINE t == mem[pd].tab[i].frame
      <4>1. t \in handed /\ use[t] = Table(q, i)
        BY <1>1, <2>2, <3>2 DEF OwnedBy, Machine
      <4> HIDE DEF t
      <4>2. mem'[t] = mem[t]
        BY <1>2, <2>4, <4>1 DEF Table
      <4> QED
        BY <4>2 DEF t
    <3> QED
      BY <3>1, <3>2, HeldStays
  <2> QED
    BY <2>3, <2>4 DEF pd
<1>5. OfKernel(mem, kernel_page_dir, f) => f \in handed
  BY KernelsFrames
<1> QED
  BY <1>3, <1>4, <1>5

(* Where the running process goes on holding what it did, and holds what   *)
(* is new, nothing is lost and nothing is found.                           *)
LEMMA LostStays ==
  ASSUME Types, NEW use, Sound(use), NEW after, NEW p, p # 0, Acting(use, after, p),
         handed \subseteq handed', UNCHANGED <<kernel_page_dir, page_dir>>,
         current_process \in 1..Len(page_dir),
         \A f \in handed' :
           Holds(mem', page_dir[current_process], f)
             <=> Holds(mem, page_dir[current_process], f) \/ f \notin handed
  PROVE  Lost' = Lost
<1> DEFINE q == current_process
<1>1. Len(page_dir) \in Nat
  BY PidsListed DEF Types
<1>2. (p = q \/ p = Len(page_dir) + 1) /\ Act(Machine, use, p, Machine', after)
  BY DEF Acting
<1>3. \A f : /\ OfKernel(mem', kernel_page_dir, f) <=> OfKernel(mem, kernel_page_dir, f)
             /\ OfKernel(mem, kernel_page_dir, f) => f \in handed
             /\ \A r \in 1..Len(page_dir) :
                  r # q => (Holds(mem', page_dir[r], f) <=> Holds(mem, page_dir[r], f))
  <2>1. \A r \in 1..Len(page_dir) : r # q => r # p
    BY <1>1, <1>2
  <2> QED
    BY <1>2, <2>1, OthersHold
<1>4. Lost' = { f \in handed' : /\ ~OfKernel(mem', kernel_page_dir, f)
                                /\ \A r \in 1..Len(page_dir) : ~Holds(mem', page_dir[r], f) }
  BY DEF Lost
<1>5. ASSUME NEW f PROVE f \in Lost' <=> f \in Lost
  BY <1>3, <1>4 DEF Lost
<1> QED
  BY <1>5

(* Where a process is made that does not hold all of the frames that are   *)
(* taken for it, those are lost.                                           *)
LEMMA LostGrows ==
  ASSUME Types, NEW use, Sound(use), NEW after, Acting(use, after, Len(page_dir) + 1),
         handed \subseteq handed', UNCHANGED kernel_page_dir,
         NEW d, page_dir' = Append(page_dir, d),
         NEW X \in SUBSET (handed' \ handed),
         \A f \in handed' : Holds(mem', d, f) <=> f \notin handed /\ f \notin X
  PROVE  Lost' = Lost \cup X
<1> DEFINE n == Len(page_dir)
<1>1. n \in Nat /\ page_dir \in Seq(Frames \cup {NULL})
  BY PidsListed DEF Types, Listed
<1>2. n + 1 # 0 /\ Act(Machine, use, n + 1, Machine', after)
  BY <1>1 DEF Acting
<1>3. \A f : /\ OfKernel(mem', kernel_page_dir, f) <=> OfKernel(mem, kernel_page_dir, f)
             /\ OfKernel(mem, kernel_page_dir, f) => f \in handed
             /\ \A r \in 1..n :
                  /\ Holds(mem', page_dir[r], f) <=> Holds(mem, page_dir[r], f)
                  /\ Holds(mem, page_dir[r], f) => f \in handed
  <2>1. \A r \in 1..n : r # n + 1
    BY <1>1
  <2> QED
    BY <1>2, <2>1, OthersHold
<1>4. /\ Len(page_dir') = n + 1 /\ page_dir'[n + 1] = d
      /\ \A r \in 1..n : page_dir'[r] = page_dir[r]
  BY <1>1
<1>5. \A r : r \in 1..(n + 1) <=> r \in 1..n \/ r = n + 1
  BY <1>1
<1>6. Lost' = { f \in handed' : /\ ~OfKernel(mem', kernel_page_dir, f)
                                /\ \A r \in 1..(n + 1) : ~Holds(mem', page_dir'[r], f) }
  BY <1>4 DEF Lost
<1>7. Lost = { f \in handed : /\ ~OfKernel(mem, kernel_page_dir, f)
                              /\ \A r \in 1..n : ~Holds(mem, page_dir[r], f) }
  BY DEF Lost
<1> HIDE DEF n
<1>8. ASSUME NEW f
      PROVE  (\A r \in 1..(n + 1) : ~Holds(mem', page_dir'[r], f))
               <=> ~Holds(mem', d, f) /\ \A r \in 1..n : ~Holds(mem', page_dir[r], f)
  BY <1>4, <1>5
<1>9. ASSUME NEW f PROVE f \in Lost' <=> f \in Lost \/ f \in X
  <2>1. CASE f \in handed
    BY <1>3, <1>6, <1>7, <1>8, <2>1
  <2>2. CASE f \notin handed
    BY <1>3, <1>6, <1>7, <1>8, <2>2
  <2> QED
    BY <2>1, <2>2
<1> QED
  BY <1>9

(* create_process loses nothing.                                           *)
LEMMA CreateLosesNothing ==
  ASSUME Types, NEW use, Sound(use), CreateProcess, handed' # Frames
  PROVE  Lost' = Lost
<1> DEFINE c == create_process(Machine)
<1>0. PICK d : d = c.dir
  OBVIOUS
<1>1. /\ Becomes(c.machine) /\ page_dir' = Append(page_dir, d)
      /\ UNCHANGED kernel_page_dir
  BY <1>0 DEF CreateProcess, Enlist
<1>2. CreateTook(Machine, c)
  <2>1. Base(Machine) /\ Owns(Machine, use) /\ kernel_page_dir \in DOMAIN use
        /\ use[kernel_page_dir] = Directory(0)
        /\ { i \in DOMAIN Machine.mem[kernel_page_dir].tab : i >= KERNEL_PD_INDEX } = Common
    BY DEF Types, Sound, Owns, Machine
  <2>2. c.machine.handed # Frames
    BY <1>1 DEF Becomes
  <2>3. PICK p : p # 0
    <3>1. 1 # 0
      OBVIOUS
    <3> QED
      BY <3>1
  <2> QED
    BY <2>1, <2>2, <2>3, CreateTakes
<1> HIDE DEF c
<1>3. /\ handed \subseteq handed'
      /\ \A f \in handed' : Holds(mem', d, f) <=> f \notin handed /\ f \notin {}
  BY <1>0, <1>1, <1>2 DEF CreateTook, Becomes, Machine
<1>4. PICK after : Acting(use, after, Len(page_dir) + 1)
  BY CreateProcessActs
<1>5. Lost' = Lost \cup {}
  BY <1>1, <1>3, <1>4, LostGrows
<1> QED
  BY <1>5

(* __fork loses the stack that create_process made, and its table.         *)
LEMMA ForkLosesTwo ==
  ASSUME Types, NEW use, Sound(use), Fork, handed' # Frames
  PROVE  \E s, t : s # t /\ s \notin Lost /\ t \notin Lost /\ Lost' = Lost \cup {s, t}
<1> DEFINE c == create_process(Machine)
           m == c.machine
<1>0. PICK d : d = c.dir
  OBVIOUS
<1>00. PICK e : e = page_dir[current_process]
  OBVIOUS
<1> DEFINE l == copy_addr_space(m, e, d)
<1>1. /\ Becomes(l) /\ page_dir' = Append(page_dir, d)
      /\ UNCHANGED kernel_page_dir
  BY <1>0, <1>00 DEF Fork, Enlist
<1>2. Grows(Machine, m)
  BY CreateGrows DEF Types
<1>3. Grows(m, l)
  BY <1>2, TablesGrow DEF Grows
<1>4. CreateTook(Machine, c)
  <2>1. Base(Machine) /\ Owns(Machine, use) /\ kernel_page_dir \in DOMAIN use
        /\ use[kernel_page_dir] = Directory(0)
        /\ { i \in DOMAIN Machine.mem[kernel_page_dir].tab : i >= KERNEL_PD_INDEX } = Common
    BY DEF Types, Sound, Owns, Machine
  <2>2. m.handed # Frames
    BY <1>1, <1>2, <1>3, FramesLeft DEF Becomes, Grows
  <2>3. PICK p : p # 0
    <3>1. 1 # 0
      OBVIOUS
    <3> QED
      BY <3>1
  <2> QED
    BY <2>1, <2>2, <2>3, CreateTakes
<1>5. Forked(m, e, d)
  BY <1>0, <1>00, ForkMakes
<1>6. \A f \in l.handed : Holds(l.mem, d, f) <=> f = d \/ f \notin m.handed
  BY <1>5, ForkTakes
<1> HIDE DEF l
<1>7. PICK s, t : /\ s # t /\ s # d /\ t # d
                  /\ s \notin handed /\ t \notin handed /\ d \notin handed
                  /\ m.handed = handed \cup {d, s, t}
  BY <1>0, <1>4 DEF CreateTook, Machine
<1> HIDE DEF c, m
<1> DEFINE X == {s, t}
<1>8. /\ handed \subseteq handed' /\ X \in SUBSET (handed' \ handed)
      /\ \A f \in handed' : Holds(mem', d, f) <=> f \notin handed /\ f \notin X
  BY <1>1, <1>3, <1>6, <1>7 DEF Becomes, Grows
<1> HIDE DEF X
<1>9. PICK after : Acting(use, after, Len(page_dir) + 1)
  BY ForkActs
<1>10. Lost' = Lost \cup X
  BY <1>1, <1>8, <1>9, LostGrows
<1> QED
  BY <1>7, <1>10 DEF X, Lost

(* A write neither loses a frame nor finds one.                            *)
LEMMA WriteLosesNothing ==
  ASSUME Types, NEW use, Sound(use), NEW page \in UserPages, NEW v, Write(page, v)
  PROVE  Lost' = Lost
<1> DEFINE i == page \div PAGE_ENTRIES
           j == page % PAGE_ENTRIES
           t == mem[cr3].tab[i].frame
           g == mem[t].tab[j].frame
           content == [tab |-> <<>>, data |-> v]
           l == Fill(Machine, g, content)
           p == Owner(i)
<1>1. /\ Maps(mem, cr3, page) /\ current_process # NULL
      /\ "user" \in EntryOf(mem, cr3, page).flags
      /\ UNCHANGED <<handed, answer, paging, kernel_page_dir, procVars>>
  BY DEF Write
<1>2. i \in DOMAIN mem[cr3].tab /\ j \in DOMAIN mem[t].tab /\ "user" \in mem[t].tab[j].flags
  BY <1>1 DEF Maps, EntryOf
<1>3. mem' = l.mem
  BY DEF Write, EntryOf, Fill, Machine
<1>4. /\ Base(Machine) /\ Owns(Machine, use) /\ DOMAIN use = handed
      /\ Agrees(mem, use) /\ handed \subseteq Frames
  BY DEF Sound, Owns, Machine, Types, Base
<1>5. t \in DOMAIN use /\ use[t] = Table(p, i)
  BY <1>1, <1>2, ActiveTables
<1> HIDE DEF i, j, content, t, p
<1>6. g \in DOMAIN use /\ use[g] = Page(p, i, j)
  BY <1>2, <1>4, <1>5 DEF Agrees
<1> HIDE DEF g
<1>7. ASSUME NEW d \in handed, d # g PROVE mem'[d] = mem[d]
  <2>1. Machine.mem = mem /\ d \in Frames \cup {NULL}
    BY <1>4 DEF Machine
  <2> QED
    BY <1>3, <1>4, <1>7, <2>1, FillGrows
<1>8. ASSUME NEW f, NEW q \in 1..Len(page_dir)
      PROVE  Holds(mem', page_dir[q], f) <=> Holds(mem, page_dir[q], f)
  <2> DEFINE pd == page_dir[q]
  <2>1. q # 0 /\ pd \in DOMAIN use /\ use[pd] = Directory(q)
    BY <1>4, PidsListed DEF Types, Sound
  <2> HIDE DEF pd
  <2>2. Holds(l.mem, pd, f) <=> Holds(Machine.mem, pd, f)
    BY <1>4, <1>6, <2>1, PageWritten
  <2> QED
    BY <1>3, <2>2 DEF pd, Machine
<1> HIDE DEF l
<1>9. ASSUME NEW f
      PROVE  OfKernel(mem', kernel_page_dir, f) <=> OfKernel(mem, kernel_page_dir, f)
  <2>1. mem'[kernel_page_dir] = mem[kernel_page_dir]
    BY <1>6, <1>7, KernelsFrames DEF Page, Directory
  <2>2. ASSUME NEW h \in DOMAIN mem[kernel_page_dir].tab
        PROVE  mem'[mem[kernel_page_dir].tab[h].frame]
                 = mem[mem[kernel_page_dir].tab[h].frame]
    <3> DEFINE k == mem[kernel_page_dir].tab[h].frame
    <3>1. k \in handed /\ use[k] = Table(0, h)
      BY KernelsFrames
    <3> HIDE DEF k
    <3>2. mem'[k] = mem[k]
      BY <1>6, <1>7, <3>1 DEF Page, Table
    <3> QED
      BY <3>2 DEF k
  <2> QED
    BY <2>1, <2>2, OfKernelStays
<1>10. UNCHANGED <<handed, kernel_page_dir, page_dir>>
  BY <1>1 DEF procVars
<1> QED
  BY <1>8, <1>9, <1>10 DEF Lost

(* A page fault in a table that all processes share loses nothing: the new *)
(* page is the kernel's now.                                               *)
LEMMA SharedFaultLosesNothing ==
  ASSUME Types, NEW use, Sound(use), NEW page \in UserPages, PageFault(page),
         handed' # Frames, page \div PAGE_ENTRIES \in Common
  PROVE  Lost' = Lost
<1> DEFINE i  == page \div PAGE_ENTRIES
           j  == page % PAGE_ENTRIES
           pt == mem[cr3].tab[i].frame
           a  == Allocated(Machine)
           f  == a.answer
           e  == Entry(f, {"rw", "user"})
<1>1. /\ current_process # NULL /\ ~Maps(mem, cr3, page)
      /\ UNCHANGED <<paging, kernel_page_dir, procVars>>
  BY DEF PageFault
<1>2. /\ pt \in handed /\ use[pt] = Table(0, i) /\ Machine' = SetEntry(a, pt, j, e)
      /\ mem'[kernel_page_dir] = mem[kernel_page_dir]
      /\ \E after : Act(Machine, use, 0, Machine', after)
  BY SharedFaultActs
<1>3. /\ i \in DOMAIN mem[cr3].tab /\ i \in DOMAIN mem[kernel_page_dir].tab
      /\ mem[kernel_page_dir].tab[i].frame = pt
  BY <1>1, ActiveTables
<1>4. j \notin DOMAIN mem[pt].tab
  BY <1>1, <1>3 DEF Maps
<1>5. e.frame = f /\ "user" \in e.flags
  BY DEF Entry
<1>6. /\ Base(a) /\ a.mem = mem
      /\ a.handed # Frames => f \notin handed /\ a.handed = handed \cup {f}
  <2>1. Base(Machine) /\ Machine.mem = mem /\ Machine.handed = handed
    BY DEF Machine, Types
  <2> QED
    BY <2>1, AllocatedGrows DEF Grows
<1>7. handed \subseteq Frames
  BY DEF Types, Base, Machine
<1> HIDE DEF i, j, pt, a, f, e
<1>8. /\ handed' = a.handed
      /\ DOMAIN mem'[pt].tab = DOMAIN mem[pt].tab \cup {j} /\ mem'[pt].tab[j] = e
      /\ \A k \in DOMAIN mem[pt].tab : k # j => mem'[pt].tab[k] = mem[pt].tab[k]
      /\ \A g \in Frames \cup {NULL} : g # pt => mem'[g] = mem[g]
  <2>1. mem' = SetEntry(a, pt, j, e).mem /\ handed' = SetEntry(a, pt, j, e).handed
    BY <1>2 DEF Machine
  <2> QED
    BY <1>2, <1>6, <1>7, <2>1, SetEntryGrows
<1>9. f \notin handed /\ handed' = handed \cup {f}
  BY <1>6, <1>8
<1>10. ASSUME NEW g
       PROVE  OfKernel(mem', kernel_page_dir, g)
                <=> OfKernel(mem, kernel_page_dir, g) \/ g = f
  <2>1. HasTable(mem', kernel_page_dir, g) <=> HasTable(mem, kernel_page_dir, g)
    BY <1>2 DEF HasTable
  <2>2. ASSUME NEW t \in handed
        PROVE  (\E k \in DOMAIN mem'[t].tab :
                  "user" \in mem'[t].tab[k].flags /\ g = mem'[t].tab[k].frame)
                 <=> \/ \E k \in DOMAIN mem[t].tab :
                          "user" \in mem[t].tab[k].flags /\ g = mem[t].tab[k].frame
                     \/ t = pt /\ g = f
    <3>1. CASE t = pt
      BY <1>4, <1>5, <1>8, <3>1
    <3>2. CASE t # pt
      BY <1>7, <1>8, <3>2
    <3> QED
      BY <3>1, <3>2
  <2>3. \A h \in DOMAIN mem[kernel_page_dir].tab : mem[kernel_page_dir].tab[h].frame \in handed
    BY KernelsFrames
  <2> DEFINE dir == mem[kernel_page_dir].tab
             Has(memory, t) == \E k \in DOMAIN memory[t].tab :
                                 /\ "user" \in memory[t].tab[k].flags
                                 /\ g = memory[t].tab[k].frame
  <2>4. \A t \in handed : Has(mem', t) <=> Has(mem, t) \/ (t = pt /\ g = f)
    BY <2>2
  <2>5. /\ HasPage(mem', kernel_page_dir, g) <=> \E h \in DOMAIN dir : Has(mem', dir[h].frame)
        /\ HasPage(mem, kernel_page_dir, g) <=> \E h \in DOMAIN dir : Has(mem, dir[h].frame)
    BY <1>2 DEF HasPage
  <2>6. \E h \in DOMAIN dir : dir[h].frame = pt
    BY <1>3
  <2>7. \A h \in DOMAIN dir : dir[h].frame \in handed
    BY <2>3
  <2> HIDE DEF dir, Has
  <2>8. HasPage(mem', kernel_page_dir, g) <=> HasPage(mem, kernel_page_dir, g) \/ g = f
    BY <2>4, <2>5, <2>6, <2>7
  <2> QED
    BY <2>1, <2>8 DEF OfKernel
<1>11. ASSUME NEW g, NEW q \in 1..Len(page_dir)
       PROVE  /\ Holds(mem', page_dir[q], g) <=> Holds(mem, page_dir[q], g)
              /\ Holds(mem, page_dir[q], g) => g \in handed
  <2>1. q # 0
    BY PidsListed DEF Types
  <2> QED
    BY <1>2, <2>1, OthersHold
<1>12. UNCHANGED <<kernel_page_dir, page_dir>>
  BY <1>1 DEF procVars
<1> QED
  BY <1>9, <1>10, <1>11, <1>12 DEF Lost

(* One elsewhere loses nothing either: its page and the table are held by  *)
(* the process that runs.                                                  *)
LEMMA PageFaultLosesNothing ==
  ASSUME Types, NEW use, Sound(use), NEW page \in UserPages, PageFault(page),
         handed' # Frames, page \div PAGE_ENTRIES \notin Common
  PROVE  Lost' = Lost
<1> DEFINE i  == page \div PAGE_ENTRIES
           j  == page % PAGE_ENTRIES
           p  == current_process
           pd == page_dir[p]
           a  == Allocated(Machine)
           l  == map_page(a, pd, page, a.answer, {"rw", "user"})
<1>1. /\ Becomes(l) /\ current_process # NULL /\ ~Maps(mem, cr3, page)
      /\ UNCHANGED <<paging, kernel_page_dir, procVars>>
  BY DEF PageFault
<1>2. /\ p # 0 /\ p \in 1..Len(page_dir) /\ cr3 = pd
      /\ pd \in DOMAIN use /\ use[pd] = Directory(p)
  BY <1>1, RunningDirectory
<1>3. page \in Nat /\ i \notin Common
  BY ProcessAssumption
<1>4. Base(Machine) /\ Owns(Machine, use)
  BY DEF Sound, Types
<1>5. /\ Grows(Machine, a) /\ a.mem = mem
      /\ a.handed # Frames => a.answer \notin handed /\ a.handed = handed \cup {a.answer}
  <2>1. a.mem = Machine.mem /\ Machine.mem = mem /\ Machine.handed = handed
    BY <1>4, AllocatedGrows DEF Machine
  <2> QED
    BY <1>4, <2>1, AllocatedGrows
<1>6. Grows(a, l)
  BY <1>5, MapPageGrows DEF Grows
<1>7. l.handed # Frames /\ a.handed # Frames
  BY <1>1, <1>5, <1>6, FramesLeft DEF Becomes, Grows
<1>8. i \in DOMAIN mem[pd].tab => j \notin DOMAIN mem[mem[pd].tab[i].frame].tab
  BY <1>1, <1>2 DEF Maps
<1> HIDE DEF pd
<1>9. PICK u : Act(Machine, use, p, a, u)
  BY <1>4, <1>7, AllocatedActs
<1> HIDE DEF a
<1>10. Owns(a, u) /\ pd \in DOMAIN u /\ u[pd] = Directory(p)
  BY <1>2, <1>9 DEF Act
<1>11. PageEntered(a, l, pd, i, j, a.answer)
  BY <1>3, <1>5, <1>7, <1>10, MapPageEnters DEF Grows
<1> HIDE DEF i, j, l
<1>12. \A f \in l.handed :
         Holds(l.mem, pd, f) <=> Holds(a.mem, pd, f) \/ f = a.answer \/ f \notin a.handed
  BY <1>2, <1>3, <1>5, <1>8, <1>10, <1>11, MapPageTakes
<1>13. /\ handed \subseteq handed'
       /\ \A f \in handed' : Holds(mem', pd, f) <=> Holds(mem, pd, f) \/ f \notin handed
  BY <1>1, <1>5, <1>6, <1>7, <1>12 DEF Becomes, Grows
<1>14. PICK after : Acting(use, after, p)
  BY PageFaultActs
<1>15. UNCHANGED <<kernel_page_dir, page_dir>>
  BY <1>1 DEF procVars
<1> QED
  BY <1>2, <1>13, <1>14, <1>15, LostStays DEF pd

(* The boot leaves no frame that the kernel has not.                       *)
LEMMA BootLosesNothing ==
  ASSUME Types, handed = {}, BootPaging, handed' # Frames
  PROVE  Lost' = {}
<1> DEFINE b == init_pages(Machine)
           l == map_framebuffer(b.machine, b.dir)
<1>1. Becomes(l) /\ kernel_page_dir' = b.dir
  BY DEF BootPaging
<1>2. AllOfKernel(l, b.dir)
  <2>1. l.handed # Frames
    BY <1>1 DEF Becomes
  <2>2. Machine.handed = {}
    BY DEF Machine
  <2> QED
    BY <2>1, <2>2, BootTakes DEF Types
<1> HIDE DEF b, l
<1>3. \A f \in handed' : OfKernel(mem', kernel_page_dir', f)
  BY <1>1, <1>2 DEF AllOfKernel, OfKernel, Becomes
<1> QED
  BY <1>3 DEF Lost

(* Two frames are lost for every fork, and no others.                      *)
Counted ==
  /\ ~paging => Lost = {} /\ forks = 0
  /\ paging /\ handed # Frames => IsFiniteSet(Lost) /\ Cardinality(Lost) = 2 * forks

(* Nothing is lost before the system runs.                                 *)
LEMMA InitCounted == Init => Counted
BY DEF Init, Counted, Lost

(* Every step keeps count.                                                 *)
LEMMA StepCounted == IInv /\ Counted /\ [Next]_vars => Counted'
<1> SUFFICES ASSUME IInv, Counted, [Next]_vars PROVE Counted'
  OBVIOUS
<1>1. Types /\ Types' /\ Grows(Machine, Machine') /\ forks \in Nat
  BY TypesStep, PidsListed DEF IInv, Types, Listed
<1>2. handed' # Frames => handed # Frames
  BY <1>1, FramesLeft DEF Types, Machine
<1>3. CASE ~paging
  <2>1. handed = {} /\ forks = 0
    BY <1>3 DEF IInv, Counted
  <2>2. CASE BootPaging
    <3>1. paging' /\ forks' = 0
      BY <2>1, <2>2 DEF BootPaging
    <3>2. handed' # Frames => Lost' = {}
      BY <1>1, <2>1, <2>2, BootLosesNothing
    <3> QED
      BY <3>1, <3>2, FS_EmptySet DEF Counted
  <2>3. CASE UNCHANGED vars
    BY <1>3, <2>3 DEF Counted, Lost, vars, procVars
  <2> QED
    BY <1>3, <2>2, <2>3 DEF Next, Running, CreateProcess, ForkNobody, Fork, Schedule,
                            Write, PageFault
<1>4. CASE paging
  <2>1. paging'
    BY <1>4 DEF Next, BootPaging, CreateProcess, ForkNobody, Fork, Schedule,
                Write, PageFault, vars, procVars
  <2> SUFFICES ASSUME handed' # Frames
               PROVE  IsFiniteSet(Lost') /\ Cardinality(Lost') = 2 * forks'
    BY <2>1 DEF Counted
  <2>2. PICK use : Sound(use)
    BY <1>2, <1>4 DEF IInv
  <2>3. IsFiniteSet(Lost) /\ Cardinality(Lost) = 2 * forks
    BY <1>2, <1>4 DEF Counted
  <2>4. ASSUME Lost' = Lost, UNCHANGED forks
        PROVE  IsFiniteSet(Lost') /\ Cardinality(Lost') = 2 * forks'
    BY <2>3, <2>4
  <2>5. CASE CreateProcess
    BY <1>1, <2>2, <2>4, <2>5, CreateLosesNothing DEF CreateProcess
  <2>6. CASE Fork
    <3>1. PICK s, t : /\ s # t /\ s \notin Lost /\ t \notin Lost
                      /\ Lost' = Lost \cup {s, t}
      BY <1>1, <2>2, <2>6, ForkLosesTwo
    <3>2. /\ IsFiniteSet(Lost \cup {s}) /\ Cardinality(Lost \cup {s}) = 2 * forks + 1
      BY <2>3, <3>1, FS_AddElement
    <3>3. Lost' = (Lost \cup {s}) \cup {t} /\ t \notin Lost \cup {s}
      BY <3>1
    <3>4. /\ IsFiniteSet(Lost')
          /\ Cardinality(Lost') = Cardinality(Lost \cup {s}) + 1
      BY <3>2, <3>3, FS_AddElement
    <3>5. forks' = forks + 1
      BY <2>6 DEF Fork
    <3> QED
      BY <1>1, <3>2, <3>4, <3>5
  <2>7. ASSUME NEW page \in UserPages, NEW v \in Values, Write(page, v)
        PROVE  IsFiniteSet(Lost') /\ Cardinality(Lost') = 2 * forks'
    <3>1. Lost' = Lost
      BY <1>1, <2>2, <2>7, WriteLosesNothing
    <3>2. UNCHANGED forks
      BY <2>7 DEF Write, procVars
    <3> QED
      BY <2>4, <3>1, <3>2
  <2>8. ASSUME NEW page \in UserPages, PageFault(page)
        PROVE  IsFiniteSet(Lost') /\ Cardinality(Lost') = 2 * forks'
    <3>1. Lost' = Lost
      BY <1>1, <2>2, <2>8, SharedFaultLosesNothing, PageFaultLosesNothing
    <3>2. UNCHANGED forks
      BY <2>8 DEF PageFault, procVars
    <3> QED
      BY <2>4, <3>1, <3>2
  <2>9. CASE UNCHANGED <<handed, mem, kernel_page_dir, page_dir, forks>>
    BY <2>4, <2>9 DEF Lost
  <2> QED
    BY <1>4, <2>5, <2>6, <2>7, <2>8, <2>9
       DEF Next, BootPaging, ForkNobody, Schedule, vars, procVars
<1> QED
  BY <1>3, <1>4

(* Each successful fork loses exactly two frames for good, the child's     *)
(* stack page and its table, which copy_addr_space no longer finds when it *)
(* has replaced the directory entry that create_process made; nothing else *)
(* that the kernel does ever loses a frame, as long as one is left.        *)
THEOREM OnlyForkLosesFrames == Spec => [](handed # Frames => TwoFramesLostPerFork)
<1> DEFINE Reached == KernelFrames \cup UNION { FramesOf(page_dir[p]) : p \in Procs }
<1>1. Spec => []Counted
  BY InitCounted, StepCounted, ProcessInvariance, PTL DEF Spec
<1>2. IInv /\ Counted => (handed # Frames => TwoFramesLostPerFork)
  <2> SUFFICES ASSUME IInv, Counted, handed # Frames, paging
               PROVE  Cardinality(handed) = Cardinality(Reached) + 2 * forks
    BY DEF TwoFramesLostPerFork
  <2>1. PICK use : Sound(use)
    BY DEF IInv
  <2>2. Types /\ Procs = 1..Len(page_dir) /\ forks \in Nat
    BY PidsListed DEF IInv, Types, Listed
  <2>3. \A f : f \in Reached <=> \/ OfKernel(mem, kernel_page_dir, f)
                                 \/ \E p \in 1..Len(page_dir) : Holds(mem, page_dir[p], f)
    <3>1. Shared = Common
      BY <2>1, SharedIsCommon
    <3>2. ASSUME NEW f
          PROVE  f \in KernelFrames <=> OfKernel(mem, kernel_page_dir, f)
      <4>1. f \in KernelTables
              <=> \E i \in DOMAIN mem[kernel_page_dir].tab :
                    f = mem[kernel_page_dir].tab[i].frame
        BY DEF KernelTables
      <4>2. (\E t \in KernelTables : f \in Faulted(t)) <=> HasPage(mem, kernel_page_dir, f)
        <5>1. \A t : f \in Faulted(t) <=>
                \E j \in DOMAIN mem[t].tab :
                  "user" \in mem[t].tab[j].flags /\ f = mem[t].tab[j].frame
          BY DEF Faulted
        <5> QED
          BY <5>1 DEF HasPage, KernelTables
      <4> QED
        BY <4>1, <4>2 DEF KernelFrames, OfKernel, HasTable
    <3> QED
      BY <2>2, <3>1, <3>2, FramesAreHeld
  <2> HIDE DEF Reached
  <2>4. \A f \in Reached : f \in handed
    <3>1. Owns(Machine, use) /\ DOMAIN use = handed /\ Agrees(mem, use)
      BY <2>1 DEF Sound, Owns, Machine
    <3>2. ASSUME NEW f, OfKernel(mem, kernel_page_dir, f) PROVE f \in handed
      BY <2>1, <3>2, KernelsFrames
    <3>3. ASSUME NEW p \in 1..Len(page_dir), NEW f, Holds(mem, page_dir[p], f)
          PROVE  f \in handed
      <4>1. p # 0
        BY <2>2, PidsListed DEF Types
      <4>2. OwnedBy(Machine, use, p, page_dir[p])
        BY <2>1, <3>1, <4>1, UsesOfHeld DEF Sound
      <4> QED
        BY <3>3, <4>2 DEF OwnedBy, Machine
    <3> QED
      BY <2>3, <3>2, <3>3
  <2>5. Lost = handed \ Reached
    BY <2>3 DEF Lost
  <2>6. IsFiniteSet(handed)
    <3>1. handed \subseteq Frames
      BY <2>2 DEF Types, Base, Machine
    <3> QED
      BY <3>1, FS_Subset, PagingAssumption
  <2>7. handed \cap Reached = Reached
    BY <2>4
  <2>8. /\ IsFiniteSet(Reached) /\ Cardinality(handed) \in Nat /\ Cardinality(Reached) \in Nat
        /\ Cardinality(handed \ Reached) = Cardinality(handed) - Cardinality(handed \cap Reached)
    <3>1. Reached \subseteq handed
      BY <2>4
    <3>2. IsFiniteSet(Reached)
      BY <2>6, <3>1, FS_Subset
    <3>3. Cardinality(handed \ Reached) = Cardinality(handed) - Cardinality(handed \cap Reached)
      BY <2>6, FS_Difference
    <3> QED
      BY <2>6, <3>2, <3>3, FS_CardinalityType
  <2>9. Cardinality(Lost) = 2 * forks
    BY DEF Counted
  <2>10. /\ Cardinality(handed) \in Nat /\ Cardinality(Reached) \in Nat /\ forks \in Nat
         /\ Cardinality(handed) - Cardinality(Reached) = 2 * forks
    BY <2>2, <2>5, <2>7, <2>8, <2>9
  <2> QED
    BY ONLY <2>10
<1> QED
  BY <1>1, <1>2, ProcessInvariance, PTL
=============================================================================
