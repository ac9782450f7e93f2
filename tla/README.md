# A verification of the Nika kernel

TLA+ models of the parts of Nika that carry its logic, the TLC runs that check
them on small instances, and TLAPS proofs of the safety properties: every invariant
and every action property that a passing run checks is also a theorem, for every
value of the constants (section 4 says under which conditions). Every definition is
translated from the C and assembly source;
`PROJECT.json` maps each one to the lines it stands for, lists the hazards of
the code with the properties aimed at them, and records the disagreements found.

To check a run: `tlc -config <run>.cfg <module>.tla`; to check a component's
proofs: `tlapm <module>.tla`, for `PhysMemProofs`, `HeapProofs`, `ProcessProofs`,
`InterruptsProofs`, `RamFsProofs`, `GraphicsLogProofs`, `DevicesProofs` and
`NumberInduction`.

## 1. Inventory

Nika is a single-processor 32-bit x86 kernel. `kmain` calls `kernel_init`, which
sets up each part in a fixed order, and then loops: `schedule()`, `hlt`.
Concurrency is that of interrupts with this one thread of execution. Nothing is
persisted.

| part | state | operations | what makes it correct |
|---|---|---|---|
| Physical memory manager `memory/pmm.c` | `memMap`, `total_pages`, `pmm_bitmap` | `pmm_init` (with `get_memmap`, `pmm_reserve_kernel`, `pmm_mark_free`), `pmm_alloc_page` | only usable, unreserved frames are handed out, none twice |
| Heap `memory/heap.c` | block list, `heap_end`, `heap_limit` | `heap_init`, `malloc`, `free` | allocations are private; freeing everything restores the heap; `malloc` returns |
| Paging `memory/paging.c` | page tables in physical memory, `kernel_page_dir` | `init_pages`, `map_page`, `map_framebuffer`, `clone_kernel_space`, `copy_addr_space` | tables and pages have one owner; the kernel half is shared |
| Page faults `memory/pf.c` | the tables of the current process | `page_fault_handler` | maps a fresh frame for the process that faulted, and nothing else |
| Processes `process/fork.c` | `process_list`, `current_process`, `next_pid`, CR3 | `create_process`, `__fork`, `schedule`, `switch_to_process` | a fork copies; address spaces stay separate; everyone runs again |
| Interrupts `core/io/irq.c`, `core/io/pic.c`, `core/idt.c`, `core/hal.c`, `asm/irq_stub.asm` | IDT, controllers' IMR/IRR/ISR, `irq_handlers`, IF | `idt_init`, `pic_remap`, `x86IRQ_clearmask`, `irq_install_handler`, `irq_handler`, the stubs | no unready handler, no nesting, each EOI ends its own interrupt |
| Timer `core/io/timer.c` | `sys_ticks` | `pit_init`, `timer_handler`, `ksleep` (uncalled) | the clock goes on; a sleep is long enough and ends |
| Keyboard `drivers/kybrd.c` | the controller's output buffer | `kybrd_init`, `kybrd_handler` | every scancode is read, so that the next can come |
| Mouse `drivers/mouse.c` | packet buffer, position, buttons | `mouse_init`, `wait_for_input`, `mouse_irq_handler`, `process_packet` | packets stay framed, the pointer goes where the mouse goes and stays on the screen; the boot gets past the wait |
| Boot and main loop `core/init.c`, `asm/entry.s` | the step reached | `kernel_init`, `kmain` | each part is ready before it is used |
| RAM file system `fs/ramfs.c` | `ramfs_files`, `mounts`, `fs_true` | `ramfs_create/write/read/list`, `fs_mount`, `fs_get_ops`, `ramfs_init` | reads return what was written; the tables stay in bounds |
| Descriptor tables `core/gdt.c`, `core/idt.c` | `gdt`, `tss`, `idt_entries` | `gdt_init`, `gdt_set_gate`, `tss_init`, the flushes, `idt_set_gate` | the processor reads out of the bytes what was put in |
| Graphics log `drivers/gd.c` | framebuffer, cursor | `gd_init`, `gdl_putchar`, `kDebug`, `gdl_print_color`, `scroll_screen` | text on the screen stays readable from top to bottom, nothing is drawn over |
| Text console `lib/stdio.c` | cursor | `putchar`, under `Stdout` and `EarlyLog` | the cursor stays in the text buffer |
| Numbers `lib/stdio.c`, `lib/serial.c` | none | `itoa` (twice), `ptoa` | they print the number |
| Serial line `lib/serial.c` | the UART's holding register | `serial_write`, `serial_printf` (uncalled) | every byte goes out once and in order |
| Strings `lib/string.c` | none | `strcmp`, `strncpy`, `memset`, ... | their definitions |
| PCI `drivers/pci.c` | the recursion, `headerType`, `vendorID` | `checkAllBuses`, `checkBus`, `checkDev`, `checkFunction` | the scan ends and looks at every function on the bus (it does neither: section 5) |
| System calls `core/syscall.c` | the file is empty | | |

**Interaction.** `pmm_alloc_page` is called by the heap, by page table creation, by
process creation and fork, and by the page fault handler. Processes call the heap
for their descriptors and paging for their address spaces; the RAM file system
calls the heap for file data. Interrupts reach the kernel through the IDT and the
stubs, call the drivers' handlers, and wake `kmain`'s `hlt`, after which
`schedule` runs. Drivers register with `irq_install_handler` and unmask their line
in the controllers. The consoles, the serial line, the descriptor tables, the PCI
scan and the mouse's packets share no state with each other or with the rest;
`ksleep` shares `sys_ticks` with the timer's handler only.

**Hard behaviours.** Interrupts at any point of the boot sequence and of the loop;
the exact order of reservation, unmasking, installing and enabling; unspecific
end-of-interrupt commands; a frame allocator that never gets anything back and
whose refusals most callers do not look at; sharing and copying of page tables;
long sequences of `malloc` and `free`; unsigned arithmetic at the edges; a 64-bit
counter read in two loads against its interrupt; a byte lost from a stream without
framing; recursion whose depth the hardware decides; a polling wait that halts
before interrupts are enabled.

## 2. The modules

| module | models | role |
|---|---|---|
| `FrameAllocator` | what a client may expect of `pmm_alloc_page` | abstract specification |
| `PhysMem` | `memory/pmm.c` | implements `FrameAllocator` (`RefinesFrameAllocator`, checked and proved) |
| `PhysMemProofs` | | proofs about `PhysMem` |
| `Heap` | `memory/heap.c` | client of `FrameAllocator` |
| `HeapProofs` | | proofs about `Heap` |
| `Paging` | `memory/paging.c` | operators on physical memory and the frame allocator |
| `Process` | `process/fork.c`, `memory/pf.c`, the paging steps of `kernel_init` | composes `Paging` and `FrameAllocator` |
| `ProcessProofs` | | proofs about `Process` and the operators of `Paging` |
| `Interrupts` | boot order, IDT, controllers, dispatch, timer, keyboard, mouse set-up, `kmain`'s loop | state machine of its own |
| `InterruptsProofs` | | proofs about `Interrupts` |
| `RamFs` | `fs/ramfs.c` | state machine of its own |
| `RamFsProofs` | | proofs about `RamFs` |
| `GraphicsLog` | `drivers/gd.c` | state machine of its own |
| `TextConsole` | `putchar` of `lib/stdio.c` | state machine of its own |
| `Numerals` | the two `itoa`s and `ptoa` | functions, against a reference reader |
| `Serial` | `lib/serial.c` and the UART | kernel and device |
| `Clock` | `ksleep` of `core/io/timer.c` | sleeper and timer |
| `Pci` | `drivers/pci.c` | state machine, over any configuration space |
| `MousePackets` | `mouse_irq_handler`, `process_packet` | driver and mouse |
| `Descriptors` | `core/gdt.c`, the gates of `core/idt.c` | encodings, against the processor's decoding |
| `Devices` | | the eight modules above side by side |
| `GraphicsLogProofs` | | proofs about `GraphicsLog` |
| `DevicesProofs` | | proofs about the seven others, and about the eight side by side |
| `NumberInduction` | | the least number of a set and induction over a set, for the proofs about loops |
| `MC...` | | small instances for TLC |

**PhysMem.** `pmm_bitmap` is the set of page numbers whose bit is 1. Before
`pmm_init` the memory under the bitmap may hold anything (`Garbage`); `PmmInit`
leaves there what `memset`, the loop over the blocks and the three reservations
leave, in their order. `total_pages`, `memMap` and the modulo-2^32 subtraction
are as in the source, including the block that reaches 4 GiB and is stored with
`End = 0`. `PmmInit` goes on without blocks when `get_memmap` fails, since its result
is ignored. `AllocPage` may be called before `PmmInit`: the first `gd_init` does.
The history `handed` lists the pages handed out, in order; `answer` is the last
pointer as a page number, so that NULL and page 0 are the same answer, as in C.

**Heap.** Addresses and sizes are in bytes; `FrameSize` is 4096 in the source and
`Header` (`sizeof(HeapBlock)`) 12, which does not divide it. The runs have smaller numbers
in the same relation, the proofs hold for all. `malloc` is one
action for its call (`MallocCall`) and one for each turn of its recursion:
`MallocFit` returns a block, `MallocGrow` takes a frame and calls again,
`MallocFail` returns NULL. `free` is one action; its merging loop is the recursive
function `Merged`, one turn after the other. Other
clients take frames between the calls (`OtherClient`), so that the heap's frames
need not be contiguous. The compiler turns the recursion into a jump at `-O2`, so
its depth costs no stack.

**Paging and Process.** A frame is a table (a function from the indices of the
present entries to entries) or data. Each function of `paging.c` is an operator
on `[mem, handed, answer]`, with its source name; a loop over pages or entries is a
recursive function of the number of turns done, so that a proof can follow it turn by
turn. `map_region` is the loop that `init_pages` and `map_framebuffer` share.
A call into this code is one step, because it runs without being preempted by
anything that touches the same state. `Running` says that the directory in CR3
maps the kernel's image; when it does not, the next instruction fetch cannot be
carried out and no action is enabled.

In the source the kernel lies below `KERNEL_PD_INDEX` and is not in the part
`clone_kernel_space` copies. The constant `WindowBase` is the page at which `init_pages`
maps frame 0; in the source it is 0, and **the first switch to a process is the last
step the kernel takes** (run `process_unmapped`). What `schedule`, `__fork` and the page
fault handler do once processes run is code that the source cannot reach as it is. The
run `process` checks it for a hypothetical kernel whose window lies at `KERNEL_BASE`,
the layout that `inc/paging.h` announces; nothing else differs. The proofs hold for
every `WindowBase`, the source's included, where they say little beyond the first
switch. A switch loads CR3 and no other register, so that the module is about whose
address space is loaded and never about whose code runs. Kernel code reads and writes
page tables by their physical addresses, as the source does.

`page_fault_handler` maps any address at which a page is missing, in the kernel half too:
`PageFault` takes pages of either half. In the kernel half the page goes into a table that
all processes share, if the kernel has one at that entry, and is then everyone's; else
into a new table of the faulting process alone. `Own` tells a process's own entries from
the `Shared` ones accordingly. From the first frame the allocator refuses, the handler maps
frame 0, since `panic` only prints; the model follows it there, but only the types still
hold of it.

**Interrupts.** Every step of `kernel_init` that matters to interrupts is an action,
in order (`stage`); `kmain`'s loop is the stage "loop" with `hlt` (`HaltCpu`).
The controllers' three registers, their priorities, the cascade, unspecific EOI
and spurious requests are modelled as the code uses them (external entries in the
map). A dispatch is `Interrupt` (acknowledge and gate), `Handle` (the driver's
handler), `Eoi` and `Return` (`sti; iret`). The devices are `TimerEdge` and
`KeyPressed`, at any moment. `mouse_init` waits for the 8042's input buffer
(`kbc_busy`, which may hold a byte at boot and drains in its own time); while it is
full `WaitForInput` halts, with interrupts still disabled, and what follows is
nothing: `Hung`. The commands themselves go to wrong ports and change no device.
`pcisub_init` is followed as far as its end matters (module `Pci` has the rest): it ends
(`BootPci`) or, on a machine where some function reads like a bridge (`bridge`), calls
itself until the stack overruns (`BootPciOverrun`), after which the source no longer says
what happens, and no interrupt is taken in the model.

**RamFs.** The two conditions that decide whether a write or a read does anything
(`len > RAMFS_MAX_FILE_SIZE`, `size > max_len`) and the inverted test of
`malloc`'s answer are as in the source. A file's contents are one value of
`Buffers`; `Kept` gives the 63 characters `strncpy` keeps of a name. Files whose `malloc`
failed have `data` NULL, and nobody looks: they all read and write the bytes at address 0
(`at_null`), which each such create clears. `null_for` remembers for which name they were
written last, so that `ReadsWhatWasWritten` can say what a read of such a file returns.
What else the kernel keeps at address 0 (frame 0 is the first that `pmm_alloc_page` hands
out, for the page directory) is not modelled. `ramfs_create` reports -1 when `malloc`
succeeded and 0 when it failed, having taken the slot in both cases; that inversion
is in the model, and the three properties that hold are stated in spite of it.

**GraphicsLog.** Positions are counted in characters, and a row of the screen keeps
only how far its text reaches (`used`) and how many line feeds ago it was written
(`age`), which is what order and preservation of text need. The operators `gdl_putchar`,
`kDebugPlain` and `gdl_print_color` differ as the three functions do: only the first
scrolls when a line is full, and `kDebug` advances the cursor once more after
`gdl_putchar` already has. `scroll_screen` moves by `depth` rows (`pitch * (bpp / 8)`
bytes to the line), which means accesses beyond the framebuffer, where `map_framebuffer`
maps nothing: whether they fault depends on what is mapped behind it, and is not modelled;
the module says what the screen shows when they go through. When the cursor is below the
screen `put_pixel`'s bounds test (`Drawn`) drops every pixel: nothing on the screen is
harmed, and what is printed is silently lost. `GdInit` accepts and refuses what
`get_framebuffer` does.

**TextConsole and Numerals.** `putchar` with its order of wrap and line feed; the cell it
writes is an index into the text buffer, the only page mapped of it. The conversions
are written as the loops compute them (`Digits` is a recursive function over the ints
and unsigned ints, with C's `%` and `/` for negative numbers and the negation that
overflows), and `ReadsAs` says, from the other end, which number a string of digits
denotes (`NumberRead`).

**Serial.** `serial_write` and `serial_printf` send characters one by one: `Poll` reads
the line status, `Put` writes the data port, `UartSends` empties the register at any
moment. A line feed becomes two or three bytes, which differ between the functions.

**Clock.** `LoadFirst` and `LoadSecond` are the two 32-bit loads of `sys_ticks`, in either
order, for the target and for each comparison; `timer_handler` and other interrupts come
between any two steps. `torn` records that a carry into the upper half came between two
loads: then the value is wrong by 2^32, and so is everything that rests on it. A tick just
before the `hlt` does not end it. `MaxTicks` stops the count, not the interrupts.

**Pci.** The configuration space is any set of functions present, of addresses that read
as a bridge's class, of addresses with bit 7 set, and of devices with the vendor 0xFFF,
which `checkDev` takes for absent where an absent one reads as 0xFFFF. The addresses the
code forms (`offset * 0xFC`, `lbus < 16`) are decoded as the host bridge decodes them,
so that the class and the header type come from other functions' registers, and every
bus is bus 0. A "bridge" makes `checkFunction` call `checkBus` for bus 0 again; `calls`
is that recursion and `StackLimit` the depth that the kernel's stack allows ("overrun").
Which functions *exist* is the machine's business (`present`), not the header type's:
`EveryFunctionIsChecked` compares what was looked at with that, and is violated;
`OnlyMisreadsAreMissed` says which functions are missed and that no others are.

**MousePackets.** The module takes line 12 as unmasked, which it is not today. The mouse
reports movements, byte by byte; a byte may be lost. The ninth bits of a movement are
among the buttons, which nobody reads: a movement counts as its low byte, read as a signed
number (`InByte`). `hand_x` and `hand_y` are where the movements so read lead.

**Descriptors.** 32-bit numbers are four bytes; `gate` and `idt_set_gate` place them, and
`BaseOf`, `LimitOf`, `Ring`, ... read them as the processor does (external).

**Devices.** Composes the eight by `part`: a behaviour exercises one of them, since they
share no variable and their interleavings would only multiply the states. `ClockFairness`
and the scan's fairness hold for the part in question.

## 3. The runs

| run | expectation | what it shows |
|---|---|---|
| `pmm` | holds | types, `ReservedNeverHanded`, `AscendingFresh`, `HandedIsRam`, and the refinement of `FrameAllocator` |
| `pmm_oom` | violated | `OutOfMemoryIsGenuine`: NULL does not mean out of memory: total pages are used as a bound on page numbers |
| `heap` | holds | over up to three frames, with `free` while the heap is one frame: `LiveIsPrivate`, `ListTilesFrame`, `FreeRestores`, `GrowsAtMostOnce`, `MallocReturns` |
| `heap_overlap` | violated | `LiveIsPrivate`: over several frames, with `free`, allocations overlap |
| `process` | holds | for a kernel mapped at `KERNEL_BASE`, with page faults in both halves of the address space: `FramesAreOwned`, `KernelHalfIsShared`, `TwoFramesLostPerFork`, `BoundedWait`, `ForkCopiesTheParent`, `OthersKeepTheirView` |
| `process_unmapped` | violated | `KernelStaysMapped`: the first switch unmaps the kernel |
| `interrupts` | holds | `DispatchIsReady`, `HandlersDoNotNest`, `EoiEndsItsOwn`, `OnlyTheMouseCanHang`, and, unless `mouse_init` hangs or the PCI scan overruns the stack, `ClockGoesOn`, `KeysAreRead`, `LoopGoesOn` |
| `interrupts_mouse` | violated | `HltCanEnd`: `wait_for_input` halts with interrupts disabled |
| `ramfs` | holds | `ReadsWhatWasWritten`, `OneFilePerNameWritten`, tables in bounds |
| `devices` | holds | graphics log: `LinesStayInOrder`, `CursorPastText`; numbers: `NumeralsAreRight`; serial line: `SerialInOrder`; `ksleep`: `SleepsLongEnough`, `SleepEnds`; PCI: `OnlyMisreadsAreMissed`, `ScanEnds`; mouse: `FollowsTheMouse`; descriptors: `SegmentsDecode`; cursors, pointer and registers in bounds (`DevicesTypeOK`) |
| `pci_missed` | violated | `EveryFunctionIsChecked`: the scan passes over functions that are there |
| `log_scroll` | violated | `ScrollsUp`: a line feed at the bottom moves the picture by several lines |

### Bounds, and why they are enough

* `pmm`: 16 pages of 4 bytes, 2 bits to a bitmap byte. The nineteen memory maps
  include blocks that end inside a page, holes below and above the kernel, a block
  that reaches the end of the address space, one entry of another type, more entries
  than `MAX_MEM_BLOCKS`, an odd number of pages (so that the last bitmap byte is
  partly used), and an invalid map; the bitmap's memory is all zeros or all ones.
* `heap`: frames of 7 units and headers of 2, so that a frame is no whole number of
  headers; one frame in use when the heap begins and three to take, in any
  order and with gaps, by the heap or by others. Requests 0, 1, 3, 5 and 6: nothing,
  small, one that leaves exactly one header, one that fills the frame, one that cannot
  fit. `free` is called while the heap is one frame; with several, it breaks the heap,
  which is what `heap_overlap` shows (`Frees` tells the two apart). The state space is
  finite, so that all sequences of calls are covered.
* `heap_overlap`: the same with `free` at any time, frames of 6 units, headers of 1.
* `process`: tables of 8 entries, 5 of them below the kernel half; three processes and one
  value to store besides the fresh contents: a fork of a fork, and faults before and after
  forks, happen. The kernel has two tables in its half, for the window (pages 40 to 47) and
  for the framebuffer (48 and 49). Pages are touched in the lower half (16, in another
  table than the stack's 15), beside the framebuffer (50, in the kernel's table) and in the
  kernel half where the kernel has no table (56). `MaxProcs` bounds the processes created,
  and the 31 frames are enough for them. Behaviours are followed until 19 frames are handed
  out (`FewFrames`): this includes a fork of a fork, a fork after faults in both halves, and
  faults of all three processes in tables of their own.
* `process_unmapped`: the source's `WindowBase`, 0.
* `interrupts`: all sixteen lines; only `sys_ticks` wraps after 3 instead of 2^64.
* `ramfs`: three files, two mounts, three names of which two are the same when stored, a
  file size of two, lengths below, at and above it; every `malloc` may succeed or fail,
  so that files with and without memory mix.
* `devices`: three framebuffers of 3x4, 1x3 and 2x5 characters with 4, 3 and 2 bytes to
  the pixel, so that a scroll moves everything off the screen or some rows only, and one
  framebuffer of each kind `gd_init` refuses; the cursor is followed to two rows below
  the screen (`MaxBelow`; the wraps that do not scroll leave it there, where every
  further row is like these). The text console and the PCI bus have their real sizes
  (80x25, 32 by 8), the descriptor tables too; numbers are every int of 10 bits in both
  bases (`IntMax` 511), which has numerals of one to four characters and an `INT_MIN`.
  Strings of up to three characters, among them line feeds, after up to three bytes
  before; 2^32 is 4, so that two carries happen in the nine ticks, five of which may
  come before the target is known, and sleeps last 0 to 3; 96 configuration spaces, of
  single- and multi-function devices, with and without something at the wrong addresses,
  with and without the vendor 0xFFF, and three calls of `checkBus` on the stack (what
  lies beyond is the same call again). A screen of 5x4 and bytes of 3 bits: movements
  reach both ends of a signed byte, lie beyond one, and reach all edges. Descriptor
  addresses with all, no and different bytes set.
* `pci_missed`: as `devices`, without the vendor 0xFFF, which no maker of devices has: what
  is missed there is missed for the header type's address.
* `log_scroll`: the three framebuffers that are accepted.

`process_unmapped` and `interrupts` do not check for deadlock: the machine really stops
there (in `interrupts` when `mouse_init` hangs, or the PCI scan overruns the stack, and
the timer's request is already pending). Neither do `devices` and `pci_missed`: a scan,
a sleep, a conversion and the set-up of the tables end. In every other run each
reachable state has a successor.

### Fairness

* `Heap`: the steps of one call of `malloc` are taken in turn (weak fairness).
* `Process`: none. Who waits for how long is counted in calls of `schedule`
  (`BoundedWait`), since after the first switch nothing guarantees another one.
* `Interrupts`: the processor executes the handler it has entered and the timer
  ticks (weak fairness). A tick is 1 ms, far longer than a handler: when handlers
  run again and again, then again and again one returns with no tick pending
  (`TicksLeaveTime`), and the timer does not starve the keyboard's request or the
  interrupted code for ever (strong fairness of `Interrupt(Keyboard)`, `Boot` and
  `HaltCpu`). A tick may come during any handler, the timer's own included. Keys and
  spurious interrupts come or do not come: no fairness. Nor is the 8042 obliged to drain.
  Its liveness properties make two exceptions (`Lost`): a hang in `mouse_init`, and a PCI
  scan on a machine where it recurses without end. That `kernel_init` goes on otherwise is
  fairness of `Boot`: between its steps is straight-line code, apart from the PCI scan,
  whose end `ScanEnds` shows.
* `Clock`: the processor executes the sleeper's next step and the timer ticks (weak
  fairness of each; the timer's is what `ClockGoesOn` shows of `Interrupts`). Other
  interrupts have none: the sleep must not depend on them.
* `Pci`: the scan is straight-line code (weak fairness of `Scan`).
* `Serial`, `MousePackets`, `GraphicsLog`: no liveness claimed, no fairness.

## 4. What is proved

### Physical memory

`PhysMemProofs` proves, for every page size, address space, position of kernel,
bitmap and VGA page, every memory map and every content of memory at boot that
`GeometryAssumption` and `MemoryMapAssumption` allow:

| theorem | statement |
|---|---|
| `Invariance` | `Spec => []IInv` |
| `TypeCorrect` | `Spec => []TypeOK` |
| `ReservedStaysReserved` | `Spec => []ReservedNeverHanded` |
| `NeverHandedTwice` | `Spec => []AscendingFresh` |
| `OnlyRamIsHanded` | `Spec => []HandedIsRam` |
| `Refinement` | `Spec => RefinesFrameAllocator` |

**Assumptions.** `GeometryAssumption` says that constants are natural numbers of
sensible relation (the address space is a multiple of the page size, the kernel,
bitmap and VGA page lie in it). `MemoryMapAssumption` says that the boot loader's
map does not list more usable pages than the address space has, that the recorded
blocks are well formed, and that no block ends within the last page below 4 GiB
(stepping through it would wrap `addr`); a block that ends *at* 4 GiB is recorded
with `End = 0` and is allowed. TLC evaluates both on the instance of run `pmm`.

**Argument.** None of the properties is inductive alone. First fit only hands out
clear bits, and sets the bit of what it hands out, so `IInv` adds to `TypeOK` and
`AscendingFresh`: nothing is handed out before `pmm_init`; after it, the reserved
pages' bits are set and no page handed out is reserved; and every bit at or below a
page handed out is set, because there is no free operation and the first clear bit
only moves up. From it a page that is handed out is new and larger than all before
(`AscendingFresh`) and not reserved (`ReservedNeverHanded`). `HandedIsRam` needs a
second invariant, `ClearIsRam`: after `pmm_init`, every clear bit below `total_pages`
is that of a page of a usable block. That it holds initially is the lemma
`MemsetCovers`: the bits `memset` sets are at least those that `pmm_alloc_page` reads,
which is where rounding the bitmap's size up matters. The refinement maps `handed` to
its range; `PmmInit` is a stutter, `Grant` is `Take`, and a NULL answer is `Refuse`.

### Heap

`HeapProofs` proves, for every header size, every frame size above it (a multiple or not),
every set of requests and every set of frames (`HeapAssumption`):

| theorem | statement |
|---|---|
| `HeapTypeOK` | `~Frees => (Spec => []TypeOK)` |
| `AllocationsArePrivate` | `~Frees => (Spec => []LiveIsPrivate)` |
| `TheListTilesItsFrame` | `~Frees => (Spec => []ListTilesFrame)` |
| `FreeingRestores` | `~Frees => (Spec => []FreeRestores)` |
| `HeapGrowsAtMostOnce` | `~Frees => (Spec => []GrowsAtMostOnce)` |

**The hypothesis.** `~Frees` says that `free` is called only while the heap is one frame.
It does not exclude `free`: any sequence of `malloc` and `free` in the first frame, then
any sequence of `malloc`. Without it `LiveIsPrivate` is false: this is finding
`heap_overlap`.

**Argument.** The list and the live allocations are related by their addresses, not by
their order: `MallocGrow` may link the new frame's block so that blocks are cut off the
list while their allocations live on. The inductive invariant `HInv` therefore says
separately how the blocks lie in the heap's frames (`BlocksInFrames`: ascending,
disjoint, each in one frame), how the allocations do (`LiveInFrames`, `LiveApart`: room
for a header between any two) and that no allocation meets a free block (`FreeApart`);
what `malloc` splits or hands out comes from a free block. For a heap of one frame,
`OneFrame` says more: the blocks adjoin from its first byte to its last, no two
neighbours are free, and the used ones are exactly the live allocations. `free` needs
this for its merging loop, whose result is followed turn by turn (`Merged`). `EndOnList`
keeps `heap_end` on the list, so that the recursion of `malloc` finds the block it has
just linked, and `Grown` says that this block is large enough: hence one recursion.

### Processes and paging

`ProcessProofs` proves, for page tables, memories, windows and programs of any size and
any `KERNEL_PD_INDEX` and `WindowBase`, and for page faults at any address of either half
(`PagingAssumption`, `ProcessAssumption`):

| theorem | statement |
|---|---|
| `ProcessInvariance` | `Spec => []IInv` |
| `ProcessTypes` | `Spec => []TypeOK` |
| `NobodyIsPassedOver` | `Spec => []BoundedWait` |
| `EveryFrameHasOneUse` | `Spec => [](handed # Frames => FramesAreOwned)` |
| `OneKernelHalf` | `Spec => [](handed # Frames => KernelHalfIsShared)` |
| `OnlyForkLosesFrames` | `Spec => [](handed # Frames => TwoFramesLostPerFork)` |
| `NobodyElseSeesIt` | `Spec /\ [](handed # Frames) => OthersKeepTheirView` |
| `ChildSeesWhatParentSees` | `Spec /\ [](handed # Frames) => ForkCopiesTheParent` |

**The hypothesis.** `handed # Frames` says that a frame is left, so that no call of
`pmm_alloc_page` has been refused. From the first refusal on the properties are false:
no caller looks at the answer, and tables and pages of all processes become frame 0
(page 0 itself, once `map_page` writes through it). Frames are never taken back, so that
the hypothesis, once false, stays false. `TypeOK` and `BoundedWait` need no such hypothesis.
With the source's `WindowBase` the theorems are about boot, creations and one switch.

**Argument.** `FramesAreOwned` is not inductive: it is silent about frames that nothing
refers to any more and about tables that a call has allocated and not yet entered, and
the state does not say what those are for. The invariant says that *there is* a function
from the frames handed out to what each was handed out for (a directory, the table of
one entry, the page of one entry, each of one process or of the kernel), with which
memory agrees (`Agrees`): what a directory's entry points at is its table for that
entry, and so on. Since a frame has one use, and a use names the process and the place
it is for, two places never lead to the same frame. Each operator of `Paging` is shown
to extend it by frames of the running process and to change only memory of that process
(`Act`, `Acts`); two such actions in a row are one (`ActThenAct`), and a loop is one by
induction on its turns.

Not all of the kernel half is the kernel's. `Common` are the entries in which `init_pages`
and `gd_init` map something; `clone_kernel_space` copies them into every directory, and
nothing writes them in a process's directory afterwards, since they are present: this is
`KernelHalfIsShared`. A page fault at such an entry enters a page in the kernel's own
table, where it is everyone's (it counts as the kernel's: `KernelFrames`); a fault at
another entry of that half makes a table of the process's own, as in the lower half.

`BoundedWait` rests on the order of `process_list`: `schedule` walks towards its tail and
`create_process` adds at its head, so that a process has waited for fewer calls than there
are places between (`Patience`).

For `TwoFramesLostPerFork` a second invariant, `Counted`, counts the frames that nothing
refers to (`Lost`). Each operator is shown to make reachable what it takes, and to leave
reachable what was, except `copy_addr_space`: it puts a new table over the one entry that
`create_process` has made, which loses that table and the page in it.

### Interrupts

`InterruptsProofs` proves, for every range of `sys_ticks` of at least two values
(`TickAssumption`):

| theorem | statement |
|---|---|
| `Invariance` | `Spec => []IInv` |
| `TypeCorrect` | `Spec => []TypeOK` |
| `DispatchAlwaysReady` | `Spec => []DispatchIsReady` |
| `NoNesting` | `Spec => []HandlersDoNotNest` |
| `EoiIsExact` | `Spec => []EoiEndsItsOwn` |
| `NoOtherHang` | `Spec => []OnlyTheMouseCanHang` |

**Argument.** That a dispatch is safe follows from the order in `kernel_init`, not from
anything a single step tests. `SetUp` says what is installed when each stage is reached;
`Quiet`, that interrupts stay out until `sti` and while one is served. `kybrd_init`
unmasks its line one step before it installs its handler; only `Quiet` makes this
harmless. `Requests` says that only the timer and the keyboard ever raise a line, and
`OneAtMost` what the one interrupt in service may be: timer, keyboard or the spurious
line 7, its in-service bit gone by the time its handler returns. Since at most one bit
is set, the unspecific EOI, which clears the highest, clears the right one, and a
spurious interrupt's clears none. `Awake` says that a halted processor is in
`mouse_init`, or has interrupts enabled, and that they are enabled from `sti` on
whenever no handler runs: hence `NoOtherHang`. The theorem is about `hlt` only: the other
way the boot can end, the recursion of the PCI scan, is no hang of this kind.

### RAM file system

`RamFsProofs` proves, for every number of files and mounts, every file size, every set
of names, paths, lengths and buffers, and every way of cutting names when they are
stored (`RamFsAssumption` asks for natural numbers and a stored name for each name):

| theorem | statement |
|---|---|
| `Invariance` | `Spec => []IInv` |
| `TypeCorrect` | `Spec => []TypeOK` |
| `OneFilePerName` | `Spec => []OneFilePerNameWritten` |
| `ReadsReturnTheLastWrite` | `Spec => []ReadsWhatWasWritten` |

**Argument.** Several files of a name are common, because `ramfs_create` takes a slot
even when it reports an error and never looks for the name. `FirstOfItsName` says that a
file that was ever written (its size is not 0) is the first of its name: a write
starts from the beginning of the table, its condition does not depend on the file, and
the table only grows at its end. `HoldsLastWrite` says that such a file holds the
last write carried out; that a write which goes to *another* file of the name leaves it
untouched cannot happen, by `FirstOfItsName`. A read may skip the first file of a
name, since its condition depends on the size, but what it then finds was written, and
so is the first after all.

### Drivers

| module | theorem | statement |
|---|---|---|
| `GraphicsLogProofs` | `LogInvariance` | `LogSpec => []LInv` |
| | `LogTypes` | `LogSpec => []LogTypeOK` |
| | `LinesInOrder` | `LogSpec => []LinesStayInOrder` |
| | `NothingOverwritten` | `LogSpec => []CursorPastText` |
| `DevicesProofs` | `BytesStayInOrder` | `SerialSpec => []SerialInOrder` |
| | `ClockInvariance` | `ClockSpec => []CInv` |
| | `NeverEarly` | `ClockSpec => []SleepsLongEnough` |
| | `MouseInvariance` | `MouseSpec => []MInv` |
| | `PointerFollows` | `MouseSpec => []FollowsTheMouse` |
| | `TextStaysOnScreen` | `TextSpec => []TextTypeOK` |
| | `DescriptorsDecode` | `DescSpec => []SegmentsDecode` |
| | `PciInvariance` | `PciSpec => []PInv` |
| | `PciTypes` | `PciSpec => []PciTypeOK` |
| | `OnlyMisreadsHide` | `PciSpec => []OnlyMisreadsAreMissed` |
| | `NumeralsPrintNumbers` | `NumSpec => []NumeralsAreRight` |
| | `DevicesInvariance` | `DevicesSpec => []DInv` |
| | `DevicesTypes` | `DevicesSpec => []DevicesTypeOK` |
| | `DevicesAreRight` | `DevicesSpec => []`(all the properties above) |

All but the last three are about each module's own specification. The last three are
about the composition that TLC runs: each part sees steps of its own or none
(`EachPartSteps`), so that the invariants hold side by side. All constants are free
within the named assumptions of the module: any framebuffer of any size and depth
(`LogAssumption`), any alphabet with a line feed (`SerialAssumption`), any number of
devices and any configuration spaces (`PciAssumption`), any width of a load above one
value (`ClockAssumption`), any byte and screen size (`MouseAssumption`,
`TextAssumption`), any addresses of four bytes (`DescriptorAssumption`), any width of an
int (`NumeralsAssumption`). Movements may be of any length: one that needs the ninth bit,
which a real mouse reports and `process_packet` does not look at, moves the pointer by its
low byte, that is the wrong way, and `FollowsTheMouse` says so.

**Graphics log.** Order and preservation of text need each other. A character is drawn at
the cursor, so `LinesStayInOrder` needs that rows with text lie above the cursor or in its
row (`CursorPastText`), that the cursor's own row was begun after the last line feed (age
0) and that all rows above were aged by it. `scroll_screen` moves rows towards the top
and never across each other, by whatever distance; the cursor stays behind them. Both
properties are about the text on the screen; what is printed below it is not there.

**Serial line.** `thr` may only be overwritten when `Poll` has seen it empty and only the
kernel fills it: `ready` implies that it is still empty. With that every step keeps the
concatenation of what is out, in the register and to come equal to what was asked for.

**PCI.** `checked` only grows, so that the invariant may speak of each call in progress:
all devices before the one it looks at, and the functions of that one before its next,
have been looked at or misread (`TakenForAbsent`, or bit 7 clear at the address that is
read). When the last call returns, its position is behind the last device. With no function
at (0,0) `checkAllBuses` looks at nothing, which the property leaves out.
A recursion starts a call at the beginning and does not disturb those below it.

**Clock.** A read that was not torn lies between the ticks at its first load and those at
its second, whichever half was first: both are bounded by the same upper half. The target
is therefore at least `started + ms`, and a value compared with it at most `ticks`.

**Mouse.** The bytes collected and the bytes still to come make up one packet, whose
effect on the pointer is where the report has already led `hand_x` and `hand_y`;
`int8` of a movement's low byte is `InByte` of the movement.

**Descriptors.** The invariant (`DescInv`) says which entries have been built at each
stage, as applications of `gate` and `idt_set_gate`; `FlatGate` and `TssGate` then
compute what the processor reads out of the eight bytes, for every address of the TSS
and the handlers.

**Numerals.** `DigitsLoop` and `ReadLoop` give the two loops turn by turn.
`DigitsAreNumeral` is by induction on the number: the digits of `n` are its last digit
and those of the quotient, and a numeral with one more digit is one for `q * b + r`
(`NumeralGrows`). `SignFirst` and `NumeralReads` turn the buffer round. What the
property says of the numbers is all that is true: `INT_MIN` and negative numbers in base
16 print as characters below `0`.

### Induction over data

The library's induction theorems take an operator as a parameter, which the provers cannot
instantiate. `NumberInduction` states the two facts that the proofs about loops need with
*sets* instead: a set of numbers that is not empty has a least one, which `Min` finds
(`LeastNumber`, from the library's theorem about well-founded relations), and a set that
contains 0 and the successors of its members contains all numbers (`SetInduction`). A
recursive function is first shown to satisfy its own equation, by `SetInduction` on the
number of turns, and then followed turn by turn.

### Only model-checked

Liveness, since fairness and `ENABLED` are out of the prover's reach: `MallocReturns`,
`ClockGoesOn`, `KeysAreRead`, `LoopGoesOn`, `SleepEnds` and
`ScanEnds`. And the behaviour outside of the hypotheses above: a heap of several frames
with `free`, of which a violated run shows what happens, and processes after the last frame
is gone, of which only the types are known.

## 5. Findings

Six properties that the documentation, the comments or the messages of the source
suggest are violated; `PROJECT.json` quotes the lines. In short: spurious "out of
memory" (`pmm_oom`), overlapping allocations after `free` in a grown heap
(`heap_overlap`), a switch to a process unmaps the kernel (`process_unmapped`), a wait
of the boot that halts with interrupts disabled (`interrupts_mouse`), a PCI scan that
misses functions because it reads the header type at a wrong address (`pci_missed`), and
a scroll by the wrong distance (`log_scroll`). Besides, the PCI scan calls itself until
the stack overruns when some function reads like a bridge at that wrong address;
`ScanEnds`, `ClockGoesOn` and `LoopGoesOn` name this as an outcome. `free` and
`create_process` have no caller that reaches them today, so that two of these wait for
their first user.

## 6. What is not modelled

* No callers and nothing to relate them to: `map_user_space`, `pic_disable`, `pic_get_irr`,
  `pic_get_isr`, `irq_uninstall_handler`, `x86IRQ_setmask`, `pmm_mark_used`,
  `set_kernel_stack`, `pciCheckVendor`.
* `__serial`, which only programs the line's settings; the TSS's fields for a
  hardware task switch, which never happens.
* Pixels, colours and fonts; the mouse's buttons and wheel, written and never read; the
  keyboard's decoding, whose result is dropped.
* The string functions, loops over one buffer: `strcmp`, `strncpy` and `memset` appear in
  `RamFs` and `PhysMem` by what they do. `fs_get_ops` and `ramfs_list` only read and print.
* The header `inc/multiboot.h` and the font are third-party declarations and data;
  `core/syscall.c` is empty.
* `kernel_init`'s first `gd_init`, which maps the framebuffer through a NULL
  `kernel_page_dir` before there is a frame allocator, and its remapping of the VGA
  page with other flags; a page fault with no current process. All need a model of
  what lives in the first page of memory.
* Whether `scroll_screen`'s accesses beyond the framebuffer fault, and what the page fault
  handler then does before any process exists.
* What a page fault that finds no frame left leads to: `panic` only prints and frame 0 is
  mapped. `PageFault` has it, no property does, as no process runs in the source.
* A mouse whose bytes are lost, beyond that the pointer is then wrong for good, and line 12
  unmasked in `Interrupts`.
* `malloc` failing in `create_process`: `Process` stays below 85 processes, for which
  the heap's first frame suffices (4096 / (36 + 12) bytes). The heap's frame is not
  among those counted by `TwoFramesLostPerFork`, which is about paging only.
* Frames above 8 MiB are not in the kernel's window, and the kernel would fault on
  touching them; the model lets it reach all of physical memory.
* The saved `eip`, `esp`, `ebp` and `eflags` of a process: the kernel stores but never
  loads them, so that a "switch" changes the address space only.

## 7. What is left

1. Composition: `Process` with `Heap` for the descriptors, so that `malloc`'s refusal in
   `create_process` is an outcome (it needs more processes than fit one frame of the
   heap); `RamFs` with `Heap` and with what lies at address 0.
2. Proofs of what still holds outside of the hypotheses `~Frees` and `handed # Frames`,
   such as which allocations stay private in a heap of several frames that never has two
   free blocks next to each other in the list.
3. `map_user_space`, when it gets a caller.
