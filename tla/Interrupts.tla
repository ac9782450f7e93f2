----------------------------- MODULE Interrupts -----------------------------
(***************************************************************************)
(* Interrupts of Nika: the order in which kernel_init makes them possible, *)
(* the two 8259 controllers as pic.c programs them, the dispatch in        *)
(* irq_stub.asm and irq.c, the timer and keyboard handlers, and kmain's    *)
(* loop, which every interrupt wakes from hlt.                             *)
(*                                                                         *)
(* Between two interrupts the processor executes kernel code step by step; *)
(* the devices raise their lines at any time.  Lines are the numbers 0..15 *)
(* of irq.c.  mouse_init waits for the 8042's input buffer and installs    *)
(* its handler: the bytes it means for the controller's ports 0x64 and     *)
(* 0x60 go to the ports 0xD4, 0xA8, 0xFF and 0xF4 (x86write takes the port *)
(* first), so that no device changes and line 12 stays masked.             *)
(*                                                                         *)
(* pcisub_init is followed here only as far as its end matters: on a       *)
(* machine where some function reads like a bridge (module Pci) checkBus   *)
(* calls itself until the stack overruns, and what the machine does then   *)
(* nothing in the source says.                                             *)
(***************************************************************************)
EXTENDS Integers, Sequences, FiniteSets

CONSTANT TickMod    \* the range of sys_ticks, 2^64

ASSUME TickAssumption == TickMod \in Nat /\ TickMod > 1

Lines == 0..15
Timer == 0
Keyboard == 1
Cascade == 2
Mouse == 12

VARIABLES
  stage,        \* the next step of kernel_init, then "loop"
  halted,       \* kmain is in its hlt
  IF_flag,      \* EFLAGS.IF
  idt,          \* the vectors with a gate
  base,         \* the vectors of lines 0 and 8
  imr, irr, isr,\* the controllers: masked, requested, in service
  irq_handlers, \* the driver of each line
  service,      \* the interrupts being handled, innermost last
  sys_ticks,
  kbd_full,     \* the keyboard's output buffer holds a scancode
  kbc_busy,     \* the 8042's input buffer holds a byte it has not taken
  bridge        \* the machine: pcisub_init finds what it takes for a bridge

cpu  == <<stage, halted, IF_flag, service>>
pic  == <<base, imr, irr, isr>>
kbc  == <<kbd_full, kbc_busy>>
dev  == <<kbc, bridge>>
vars == <<cpu, pic, idt, irq_handlers, sys_ticks, dev>>

Drivers == {"none", "timer", "keyboard", "mouse"}

Vector(n) == IF n < 8 THEN base[1] + n ELSE base[2] + n - 8

(* Lines of the second controller enter the first one at line 2.           *)
Rank(n) == IF n < 2 THEN n ELSE IF n >= 8 THEN n - 6 ELSE n + 8

-----------------------------------------------------------------------------
(* The boot loader enters with interrupts disabled and the BIOS's vectors. *)
Init ==
  /\ stage = "cli" /\ halted = FALSE /\ IF_flag = FALSE
  /\ idt = {}
  /\ base = <<8, 112>>
  /\ imr \in {{}, Lines} /\ irr = {} /\ isr = {}
  /\ irq_handlers = [n \in Lines |-> "none"]
  /\ service = <<>>
  /\ sys_ticks = 0 /\ kbd_full = FALSE /\ kbc_busy \in BOOLEAN
  /\ bridge \in BOOLEAN

(* kernel_init runs its steps in order, when no interrupt is being served. *)
Step(from, to) ==
  /\ service = <<>> /\ ~halted
  /\ stage = from /\ stage' = to

BootCli ==
  /\ Step("cli", "idt")
  /\ IF_flag' = FALSE
  /\ UNCHANGED <<halted, service, pic, idt, irq_handlers, sys_ticks, dev>>

(* idt_init: gates for page faults and the sixteen lines, no others.       *)
BootIdt ==
  /\ Step("idt", "pic")
  /\ idt' = {14} \cup 32..47
  /\ UNCHANGED <<halted, IF_flag, service, pic, irq_handlers, sys_ticks, dev>>

(* pic_remap: ICW1 resets the controllers and forgets requested edges;     *)
(* then everything but the cascade is masked.                              *)
BootPicUnmoved ==
  /\ Step("pic", "pit")
  /\ imr' = Lines \ {Cascade} /\ irr' = {} /\ isr' = {}
  /\ UNCHANGED <<halted, IF_flag, service, base, idt, irq_handlers, sys_ticks, dev>>

BootPic ==
  /\ Step("pic", "pit")
  /\ base' = <<32, 40>>
  /\ imr' = Lines \ {Cascade} /\ irr' = {} /\ isr' = {}
  /\ UNCHANGED <<halted, IF_flag, service, idt, irq_handlers, sys_ticks, dev>>

irq_install_handler(n, driver) == irq_handlers' = [irq_handlers EXCEPT ![n] = driver]

x86IRQ_clearmask(n) == imr' = imr \ {n}

BootPit ==
  /\ Step("pit", "kbd")
  /\ irq_install_handler(Timer, "timer")
  /\ x86IRQ_clearmask(Timer)
  /\ UNCHANGED <<halted, IF_flag, service, base, irr, isr, idt, sys_ticks, dev>>

(* kybrd_init unmasks its line first and installs the handler afterwards.  *)
BootKbdUnmask ==
  /\ Step("kbd", "kbd2")
  /\ x86IRQ_clearmask(Keyboard)
  /\ UNCHANGED <<halted, IF_flag, service, base, irr, isr, idt, irq_handlers,
                 sys_ticks, dev>>

BootKbdInstall ==
  /\ Step("kbd2", "mouse")
  /\ irq_install_handler(Keyboard, "keyboard")
  /\ UNCHANGED <<halted, IF_flag, service, pic, idt, sys_ticks, dev>>

(* wait_for_input halts while the input buffer is full; no interrupt can   *)
(* end that hlt, as they are still disabled.                               *)
WaitForInput ==
  /\ Step("mouse", "mouse")
  /\ kbc_busy
  /\ halted' = TRUE
  /\ UNCHANGED <<IF_flag, service, pic, idt, irq_handlers, sys_ticks, dev>>

BootMouse ==
  /\ Step("mouse", "sti")
  /\ ~kbc_busy
  /\ irq_install_handler(Mouse, "mouse")
  /\ UNCHANGED <<halted, IF_flag, service, pic, idt, sys_ticks, dev>>

BootStiMissing ==
  /\ Step("sti", "pci")
  /\ UNCHANGED <<halted, IF_flag, service, pic, idt, irq_handlers, sys_ticks, dev>>

BootSti ==
  /\ Step("sti", "pci")
  /\ IF_flag' = TRUE
  /\ UNCHANGED <<halted, service, pic, idt, irq_handlers, sys_ticks, dev>>

(* pcisub_init ends, or overruns the 16 KiB stack, when the kernel takes   *)
(* no further step that the source would tell.                             *)
BootPci ==
  /\ Step("pci", "rest")
  /\ ~bridge
  /\ UNCHANGED <<halted, IF_flag, service, pic, idt, irq_handlers, sys_ticks, dev>>

BootPciOverrun ==
  /\ Step("pci", "overrun")
  /\ bridge
  /\ UNCHANGED <<halted, IF_flag, service, pic, idt, irq_handlers, sys_ticks, dev>>

(* __fork, which finds no process, and __initramfs.                        *)
BootRest ==
  /\ Step("rest", "loop")
  /\ UNCHANGED <<halted, IF_flag, service, pic, idt, irq_handlers, sys_ticks, dev>>

(* kmain: schedule(), then Halt().                                         *)
HaltCpu ==
  /\ Step("loop", "loop")
  /\ halted' = TRUE
  /\ UNCHANGED <<IF_flag, service, pic, idt, irq_handlers, sys_ticks, dev>>

-----------------------------------------------------------------------------
(* The processor takes the request the controllers present, if any: the    *)
(* first unmasked one, unless one of higher rank is in service.  All gates *)
(* are interrupt gates, so IF is clear until the handler's end.            *)
Pending == { n \in irr \ imr : n >= 8 => Cascade \notin imr }

Interrupt(n) ==
  /\ IF_flag /\ stage # "overrun"
  /\ n \in Pending
  /\ \A m \in Pending : Rank(n) <= Rank(m)
  /\ \A s \in isr : Rank(n) < Rank(s)
  /\ irr' = irr \ {n}
  /\ isr' = isr \cup {n} \cup (IF n >= 8 THEN {Cascade} ELSE {})
  /\ IF_flag' = FALSE /\ halted' = FALSE
  /\ service' = Append(service, [irq |-> n, at |-> "handler"])
  /\ UNCHANGED <<stage, base, imr, idt, irq_handlers, sys_ticks, dev>>

(* A request that vanishes before it is acknowledged, with no other to     *)
(* take its place, arrives as line 7, masked or not, and is not marked in  *)
(* service.                                                                *)
Spurious ==
  /\ IF_flag /\ stage # "overrun" /\ base = <<32, 40>> /\ Pending = {}
  /\ IF_flag' = FALSE /\ halted' = FALSE
  /\ service' = Append(service, [irq |-> 7, at |-> "handler"])
  /\ UNCHANGED <<stage, pic, idt, irq_handlers, sys_ticks, dev>>

Serving(at) == service # <<>> /\ service[Len(service)].at = at
Irq         == service[Len(service)].irq
Proceed(at) == service' = [service EXCEPT ![Len(service)].at = at]

(* The end-of-interrupt commands are unspecific: each controller drops the *)
(* line of highest rank that it has in service.                            *)
First(S) == { n \in S : \A m \in S : Rank(n) <= Rank(m) }

AfterEoi(n) ==
  (isr \ First(isr \cap 0..7)) \ (IF n >= 8 THEN First(isr \cap 8..15) ELSE {})

(* irq_handler calls the line's driver, if there is one.  timer_handler    *)
(* counts; kybrd_handler reads the scancode and lets it go;                *)
(* mouse_irq_handler reads the packet's next byte from the same port and   *)
(* ends the interrupt itself, before irq_handler ends it again.            *)
Driver == irq_handlers[Irq]

HandleUnread ==
  /\ Serving("handler")
  /\ Proceed("eoi")
  /\ sys_ticks' = IF Driver = "timer" THEN (sys_ticks + 1) % TickMod ELSE sys_ticks
  /\ isr' = IF Driver = "mouse" THEN AfterEoi(12) ELSE isr
  /\ UNCHANGED <<stage, halted, IF_flag, base, imr, irr, idt, irq_handlers, dev>>

HandleUnbounded ==
  /\ Serving("handler")
  /\ Proceed("eoi")
  /\ sys_ticks' = IF Driver = "timer" THEN sys_ticks + 1 ELSE sys_ticks
  /\ kbd_full' = (kbd_full /\ Driver \notin {"keyboard", "mouse"})
  /\ isr' = IF Driver = "mouse" THEN AfterEoi(12) ELSE isr
  /\ UNCHANGED <<stage, halted, IF_flag, base, imr, irr, idt, irq_handlers,
                 kbc_busy, bridge>>

Handle ==
  /\ Serving("handler")
  /\ Proceed("eoi")
  /\ sys_ticks' = IF Driver = "timer" THEN (sys_ticks + 1) % TickMod ELSE sys_ticks
  /\ kbd_full' = (kbd_full /\ Driver \notin {"keyboard", "mouse"})
  /\ isr' = IF Driver = "mouse" THEN AfterEoi(12) ELSE isr
  /\ UNCHANGED <<stage, halted, IF_flag, base, imr, irr, idt, irq_handlers,
                 kbc_busy, bridge>>

EoiHandledOnly ==
  /\ Serving("eoi")
  /\ Proceed("return")
  /\ isr' = IF Driver # "keyboard" THEN AfterEoi(Irq) ELSE isr
  /\ UNCHANGED <<stage, halted, IF_flag, base, imr, irr, idt, irq_handlers,
                 sys_ticks, dev>>

Eoi ==
  /\ Serving("eoi")
  /\ Proceed("return")
  /\ isr' = AfterEoi(Irq)
  /\ UNCHANGED <<stage, halted, IF_flag, base, imr, irr, idt, irq_handlers,
                 sys_ticks, dev>>

(* sti; iret: sti delays interrupts until the instruction after it, the    *)
(* iret, has given the stack back.                                         *)
ReturnStiEarly ==
  /\ Serving("return")
  /\ IF_flag' = TRUE
  /\ IF IF_flag THEN service' = SubSeq(service, 1, Len(service) - 1)
     ELSE UNCHANGED service
  /\ UNCHANGED <<stage, halted, pic, idt, irq_handlers, sys_ticks, dev>>

Return ==
  /\ Serving("return")
  /\ IF_flag' = TRUE
  /\ service' = SubSeq(service, 1, Len(service) - 1)
  /\ UNCHANGED <<stage, halted, pic, idt, irq_handlers, sys_ticks, dev>>

-----------------------------------------------------------------------------
(* The devices.  A line is latched on its rising edge: a tick that finds   *)
(* its request pending is lost; the keyboard raises its line when a        *)
(* scancode enters the empty buffer, and not again before it is read.      *)
TimerEdge ==
  /\ Timer \notin irr
  /\ irr' = irr \cup {Timer}
  /\ UNCHANGED <<cpu, base, imr, isr, idt, irq_handlers, sys_ticks, dev>>

KeyPressed ==
  /\ ~kbd_full
  /\ kbd_full' = TRUE
  /\ irr' = irr \cup {Keyboard}
  /\ UNCHANGED <<cpu, base, imr, isr, idt, irq_handlers, sys_ticks, kbc_busy, bridge>>

(* What the boot loader left in the input buffer is taken in its own time. *)
KbcDrains ==
  /\ kbc_busy /\ kbc_busy' = FALSE
  /\ UNCHANGED <<cpu, pic, idt, irq_handlers, sys_ticks, kbd_full, bridge>>

Boot ==
  \/ BootCli \/ BootIdt \/ BootPic \/ BootPit \/ BootKbdUnmask
  \/ BootKbdInstall \/ WaitForInput \/ BootMouse \/ BootSti
  \/ BootPci \/ BootPciOverrun \/ BootRest

Dispatch == (\E n \in Lines : Interrupt(n)) \/ Handle \/ Eoi \/ Return

Next == Boot \/ HaltCpu \/ Dispatch \/ Spurious \/ TimerEdge \/ KeyPressed
        \/ KbcDrains

(* The processor executes; the timer ticks; spurious interrupts and keys   *)
(* may come or not.  A tick of 1 ms leaves time for all other work: when   *)
(* handlers run again and again, then again and again no tick is pending   *)
(* when one has returned, and the keyboard's request, the steps of         *)
(* kernel_init and of kmain's loop are not passed over for ever (strong    *)
(* fairness).                                                              *)
TicksLeaveTime ==
  []<>(service # <<>>) => []<>(service = <<>> /\ Timer \notin irr)

Spec ==
  /\ Init /\ [][Next]_vars
  /\ WF_vars(Dispatch) /\ WF_vars(TimerEdge)
  /\ SF_vars(Interrupt(Keyboard)) /\ SF_vars(Boot) /\ SF_vars(HaltCpu)
  /\ TicksLeaveTime

-----------------------------------------------------------------------------
(* Types; sys_ticks wraps to 0 instead of leaving its range.               *)
TypeOK ==
  /\ stage \in {"cli", "idt", "pic", "pit", "kbd", "kbd2", "mouse", "sti", "pci",
                "overrun", "rest", "loop"}
  /\ halted \in BOOLEAN /\ IF_flag \in BOOLEAN /\ kbd_full \in BOOLEAN
  /\ kbc_busy \in BOOLEAN /\ bridge \in BOOLEAN
  /\ idt \subseteq 0..255 /\ base \in {<<8, 112>>, <<32, 40>>}
  /\ imr \subseteq Lines /\ irr \subseteq Lines /\ isr \subseteq Lines
  /\ irq_handlers \in [Lines -> Drivers]
  /\ service \in Seq([irq : Lines, at : {"handler", "eoi", "return"}])
  /\ sys_ticks \in 0..(TickMod - 1)

(* An interrupt that reaches the processor finds a gate in the IDT and, if *)
(* a device raised it, its driver installed, although kybrd_init unmasks   *)
(* the line first: nothing gets in before kernel_init's sti.               *)
DispatchIsReady ==
  \A i \in 1..Len(service) :
    /\ Vector(service[i].irq) \in idt
    /\ service[i].irq # 7 => irq_handlers[service[i].irq] # "none"

(* Handlers never nest: the kernel's single stack holds one interrupt      *)
(* frame at most.                                                          *)
HandlersDoNotNest == Len(service) <= 1 /\ (service # <<>> => ~IF_flag)

(* The unspecific EOI ends the interrupt it is meant for: when no handler  *)
(* runs, nothing is in service that would block further requests, and      *)
(* while one runs it is the only one (none, for a spurious interrupt).     *)
EoiEndsItsOwn ==
  /\ service = <<>> => isr = {}
  /\ service # <<>> => isr \subseteq {Irq, Cascade}

(* The only hlt that no interrupt can end is the one in wait_for_input,    *)
(* with the 8042's input buffer full: neither kmain's loop nor any other   *)
(* step leaves the processor halted with interrupts disabled.              *)
Hung       == halted /\ ~IF_flag
MouseHangs == Hung /\ stage = "mouse"

OnlyTheMouseCanHang == Hung => stage = "mouse"

(* What ends the kernel: mouse_init's hlt, or the recursion of the PCI     *)
(* scan; nothing that happens later in the boot or in kmain does.          *)
Lost == MouseHangs \/ (stage = "overrun" /\ bridge)

(* The clock goes on: sys_ticks changes again and again, from boot on,     *)
(* unless the kernel is lost in mouse_init or the PCI scan; a hlt that     *)
(* hangs anywhere else is no excuse.                                       *)
ClockGoesOn ==
  \A t \in 0..(TickMod - 1) : sys_ticks = t ~> (sys_ticks # t \/ Lost)

(* A key whose request was latched after the controllers were programmed   *)
(* is read eventually, the timer's higher rank notwithstanding, and so the *)
(* keyboard can deliver the next one, unless the kernel is lost.           *)
Programmed == base = <<32, 40>>
KeysAreRead == (Programmed /\ Keyboard \in irr) ~> (~kbd_full \/ Lost)

(* kernel_init ends, and kmain's loop goes on for ever: it halts, is       *)
(* woken, and calls schedule.  The two exceptions are mouse_init's hlt     *)
(* and a machine that pcisub_init reads a bridge on.                       *)
LoopGoesOn ==
  <>Lost \/ ([]<>halted /\ []<>(stage = "loop" /\ ~halted /\ service = <<>>))

(* wait_for_input's hlt is there to "Preserve CPU energy!" (mouse.c:33)    *)
(* until the input buffer is empty: something must be able to end a hlt.   *)
HltCanEnd == halted => IF_flag
=============================================================================
