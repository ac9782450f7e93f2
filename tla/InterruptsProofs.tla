-------------------------- MODULE InterruptsProofs --------------------------
(***************************************************************************)
(* Proofs about Interrupts, for every range of sys_ticks: the boot order   *)
(* makes dispatch safe, handlers never nest, and each unspecific end of    *)
(* interrupt ends the interrupt it is meant for.                           *)
(*                                                                         *)
(* The inductive invariant ties the stage of kernel_init to what has been  *)
(* set up by then, and says what the single interrupt in service may be.   *)
(***************************************************************************)
EXTENDS Interrupts, TLAPS

Ats == {"handler", "eoi", "return"}

Frame(n, a) == [irq |-> n, at |-> a]

(* The stages after sti.                                                   *)
Enabled == {"pci", "overrun", "rest", "loop"}

(* What kernel_init has set up when it reaches a stage.                    *)
SetUp ==
  /\ stage \notin {"cli", "idt"} => idt = {14} \cup 32..47
  /\ stage \notin {"cli", "idt", "pic"} => base = <<32, 40>>
  /\ stage \notin {"cli", "idt", "pic", "pit"} => irq_handlers[Timer] = "timer"
  /\ stage \in {"mouse", "sti"} \cup Enabled => irq_handlers[Keyboard] = "keyboard"

(* Interrupts stay out until sti, and while one is served.                 *)
Quiet ==
  /\ stage \notin Enabled => ~IF_flag /\ service = <<>>
  /\ service # <<>> => ~IF_flag

(* The requests, and the one interrupt that may be in service; it has left *)
(* the controllers when its handler is about to return.                    *)
Requests == irr \subseteq {Timer, Keyboard}

OneAtMost ==
  \/ service = <<>> /\ isr = {}
  \/ \E n \in {Timer, Keyboard, 7}, a \in Ats :
       /\ service = <<Frame(n, a)>> /\ isr \subseteq {n}
       /\ a = "return" => isr = {}

(* Nothing halts before the main loop, except wait_for_input, and between  *)
(* two interrupts of the main loop they are enabled.                       *)
Awake ==
  /\ halted /\ service = <<>> => IF_flag \/ stage = "mouse"
  /\ halted => service = <<>>
  /\ stage \in Enabled /\ service = <<>> => IF_flag

IInv == TypeOK /\ SetUp /\ Quiet /\ Requests /\ OneAtMost /\ Awake

-----------------------------------------------------------------------------
(* The initial states satisfy the inductive invariant.                     *)
LEMMA InitIInv == Init => IInv
<1> SUFFICES ASSUME Init PROVE IInv
  OBVIOUS
<1>1. sys_ticks \in 0..(TickMod - 1)
  BY TickAssumption DEF Init
<1>2. service \in Seq([irq : Lines, at : Ats])
  BY DEF Init
<1>3. irq_handlers \in [Lines -> Drivers]
  BY DEF Init, Drivers
<1>4. TypeOK
  BY <1>1, <1>2, <1>3 DEF Init, TypeOK, Ats
<1> QED
  BY <1>4 DEF Init, IInv, SetUp, Quiet, Requests, OneAtMost, Awake, Enabled

(* irq_install_handler sets one line's driver and no other.                *)
LEMMA InstallHandler ==
  ASSUME NEW n \in Lines, NEW d \in Drivers,
         irq_handlers \in [Lines -> Drivers],
         irq_install_handler(n, d)
  PROVE  /\ irq_handlers' \in [Lines -> Drivers]
         /\ irq_handlers'[n] = d
         /\ \A m \in Lines \ {n} : irq_handlers'[m] = irq_handlers[m]
  BY DEF irq_install_handler

(* A step of kernel_init finds no interrupt in service and sets up what    *)
(* the next stage relies on.                                               *)
LEMMA BootIInv == IInv /\ Boot => IInv'
<1> SUFFICES ASSUME IInv, Boot PROVE IInv'
  OBVIOUS
<1> USE DEF IInv, TypeOK, SetUp, Quiet, Requests, OneAtMost, Awake, Enabled, Step,
            pic, kbc, dev,
            Timer, Keyboard, Cascade, Mouse, Lines, Drivers
<1>1. CASE BootCli
  BY <1>1 DEF BootCli
<1>2. CASE BootIdt
  BY <1>2 DEF BootIdt
<1>3. CASE BootPic
  <2>1. TypeOK'
    BY <1>3 DEF BootPic
  <2>2. Quiet' /\ Requests' /\ OneAtMost' /\ Awake'
    BY <1>3 DEF BootPic
  <2>3. SetUp'
    BY <1>3 DEF BootPic
  <2> QED
    BY <2>1, <2>2, <2>3
<1>4. CASE BootPit
  <2>1. /\ irq_handlers' \in [Lines -> Drivers]
        /\ irq_handlers'[Timer] = "timer"
        /\ \A m \in Lines \ {Timer} : irq_handlers'[m] = irq_handlers[m]
    <3>1. /\ Timer \in Lines /\ "timer" \in Drivers
          /\ irq_handlers \in [Lines -> Drivers]
          /\ irq_install_handler(Timer, "timer")
      BY <1>4 DEF BootPit
    <3> HIDE DEF IInv, TypeOK, SetUp, Quiet, Requests, OneAtMost, Awake, Lines, Drivers
    <3>2. /\ irq_handlers' \in [Lines -> Drivers]
          /\ irq_handlers'[Timer] = "timer"
          /\ \A m \in Lines \ {Timer} : irq_handlers'[m] = irq_handlers[m]
      BY ONLY <3>1, InstallHandler
    <3> QED
      BY <3>2 DEF Lines
  <2>2. TypeOK'
    BY <1>4, <2>1 DEF BootPit, x86IRQ_clearmask
  <2>3. Quiet' /\ Requests' /\ OneAtMost' /\ Awake'
    BY <1>4 DEF BootPit
  <2>4. SetUp'
    BY <1>4, <2>1 DEF BootPit
  <2> QED
    BY <2>2, <2>3, <2>4
<1>5. CASE BootKbdUnmask
  BY <1>5 DEF BootKbdUnmask, x86IRQ_clearmask
<1>6. CASE BootKbdInstall
  <2>1. /\ irq_handlers' \in [Lines -> Drivers]
        /\ irq_handlers'[Keyboard] = "keyboard"
        /\ irq_handlers'[Timer] = irq_handlers[Timer]
    <3>1. /\ Keyboard \in Lines /\ "keyboard" \in Drivers
          /\ irq_handlers \in [Lines -> Drivers]
          /\ irq_install_handler(Keyboard, "keyboard")
      BY <1>6 DEF BootKbdInstall
    <3> HIDE DEF IInv, TypeOK, SetUp, Quiet, Requests, OneAtMost, Awake, Lines, Drivers
    <3>2. /\ irq_handlers' \in [Lines -> Drivers]
          /\ irq_handlers'[Keyboard] = "keyboard"
          /\ \A m \in Lines \ {Keyboard} : irq_handlers'[m] = irq_handlers[m]
      BY ONLY <3>1, InstallHandler
    <3> QED
      BY <3>2 DEF Lines
  <2>2. TypeOK'
    BY <1>6, <2>1 DEF BootKbdInstall
  <2>3. Quiet' /\ Requests' /\ OneAtMost' /\ Awake'
    BY <1>6 DEF BootKbdInstall
  <2>4. SetUp'
    BY <1>6, <2>1 DEF BootKbdInstall
  <2> QED
    BY <2>2, <2>3, <2>4
<1>7. CASE BootMouse
  <2>1. /\ irq_handlers' \in [Lines -> Drivers]
        /\ irq_handlers'[Mouse] = "mouse"
        /\ irq_handlers'[Timer] = irq_handlers[Timer]
        /\ irq_handlers'[Keyboard] = irq_handlers[Keyboard]
    <3>1. /\ Mouse \in Lines /\ "mouse" \in Drivers
          /\ irq_handlers \in [Lines -> Drivers]
          /\ irq_install_handler(Mouse, "mouse")
      BY <1>7 DEF BootMouse
    <3> HIDE DEF IInv, TypeOK, SetUp, Quiet, Requests, OneAtMost, Awake, Lines, Drivers
    <3>2. /\ irq_handlers' \in [Lines -> Drivers]
          /\ irq_handlers'[Mouse] = "mouse"
          /\ \A m \in Lines \ {Mouse} : irq_handlers'[m] = irq_handlers[m]
      BY ONLY <3>1, InstallHandler
    <3> QED
      BY <3>2 DEF Lines
  <2>2. TypeOK'
    BY <1>7, <2>1 DEF BootMouse
  <2>3. Quiet' /\ Requests' /\ OneAtMost' /\ Awake'
    BY <1>7 DEF BootMouse
  <2>4. SetUp'
    BY <1>7, <2>1 DEF BootMouse
  <2> QED
    BY <2>2, <2>3, <2>4
<1>8. CASE BootSti
  BY <1>8 DEF BootSti
<1>9. CASE BootPci
  BY <1>9 DEF BootPci
<1>10. CASE WaitForInput
  BY <1>10 DEF WaitForInput
<1>11. CASE BootPciOverrun
  BY <1>11 DEF BootPciOverrun
<1>12. CASE BootRest
  BY <1>12 DEF BootRest
<1> QED
  BY <1>1, <1>2, <1>3, <1>4, <1>5, <1>6, <1>7, <1>8, <1>9, <1>10, <1>11, <1>12
     DEF Boot

-----------------------------------------------------------------------------
(* The one interrupt in service, while its handler runs.                   *)
LEMMA InService ==
  ASSUME IInv, service # <<>>
  PROVE  \E n \in {Timer, Keyboard, 7}, a \in Ats :
           /\ service = <<Frame(n, a)>> /\ isr \subseteq {n}
           /\ a = "return" => isr = {}
           /\ Len(service) = 1 /\ Irq = n /\ service[1].at = a
<1>1. PICK n \in {Timer, Keyboard, 7}, a \in Ats :
        /\ service = <<Frame(n, a)>> /\ isr \subseteq {n}
        /\ a = "return" => isr = {}
  BY DEF IInv, OneAtMost
<1>2. Len(service) = 1 /\ service[1] = Frame(n, a)
  BY <1>1
<1>3. Frame(n, a).irq = n /\ Frame(n, a).at = a
  BY DEF Frame
<1> QED
  BY <1>1, <1>2, <1>3 DEF Irq

(* A service of one frame is well typed.                                   *)
LEMMA FrameType ==
  ASSUME NEW n \in {Timer, Keyboard, 7}, NEW a \in Ats
  PROVE  <<Frame(n, a)>> \in Seq([irq : Lines, at : {"handler", "eoi", "return"}])
<1>1. Frame(n, a) \in [irq : Lines, at : {"handler", "eoi", "return"}]
  BY DEF Frame, Ats, Lines, Timer, Keyboard
<1> QED
  BY <1>1

(* An interrupt enters only when none is being served, and it is one of    *)
(* the lines whose driver is installed.                                    *)
LEMMA InterruptIInv ==
  ASSUME IInv, NEW n \in Lines, Interrupt(n)
  PROVE  IInv'
<1>1. service = <<>> /\ isr = {} /\ stage \in Enabled
  BY DEF Interrupt, IInv, Quiet, OneAtMost
<1>2. n \in {Timer, Keyboard} /\ ~(n >= 8)
  BY DEF Interrupt, Pending, IInv, Requests, Timer, Keyboard
<1>3. isr' = {n} /\ irr' \subseteq irr
  BY <1>1, <1>2 DEF Interrupt
<1>4. service' = <<Frame(n, "handler")>>
  BY <1>1 DEF Interrupt, Frame
<1>5. /\ IF_flag' = FALSE /\ halted' = FALSE
      /\ UNCHANGED <<stage, base, imr, idt, irq_handlers, sys_ticks, dev>>
  BY DEF Interrupt
<1>6. service' \in Seq([irq : Lines, at : {"handler", "eoi", "return"}])
  BY <1>2, <1>4, FrameType DEF Ats
<1>7. TypeOK'
  <2>1. TypeOK /\ irr' \subseteq Lines /\ isr' \subseteq Lines
    BY <1>3 DEF IInv, TypeOK
  <2>2. /\ stage' = stage /\ base' = base /\ imr' = imr /\ idt' = idt
        /\ irq_handlers' = irq_handlers /\ sys_ticks' = sys_ticks
        /\ kbd_full' = kbd_full /\ kbc_busy' = kbc_busy /\ bridge' = bridge
        /\ IF_flag' \in BOOLEAN /\ halted' \in BOOLEAN
    BY <1>5 DEF kbc, dev
  <2> QED
    BY ONLY <2>1, <2>2, <1>6 DEF TypeOK
<1>8. SetUp' /\ Requests'
  BY <1>3, <1>5 DEF IInv, SetUp, Requests
<1>9. OneAtMost'
  BY <1>2, <1>3, <1>4 DEF OneAtMost, Ats
<1>10. Quiet' /\ Awake'
  BY <1>1, <1>4, <1>5 DEF Quiet, Awake
<1> QED
  BY <1>7, <1>8, <1>9, <1>10 DEF IInv

(* A spurious interrupt arrives as line 7, of which nothing is in service. *)
LEMMA SpuriousIInv ==
  ASSUME IInv, Spurious
  PROVE  IInv'
<1>1. service = <<>> /\ isr = {} /\ stage \in Enabled
  BY DEF Spurious, IInv, Quiet, OneAtMost
<1>2. service' = <<Frame(7, "handler")>>
  BY <1>1 DEF Spurious, Frame
<1>3. /\ IF_flag' = FALSE /\ halted' = FALSE
      /\ UNCHANGED <<stage, pic, idt, irq_handlers, sys_ticks, dev>>
  BY DEF Spurious
<1>4. service' \in Seq([irq : Lines, at : {"handler", "eoi", "return"}])
  BY <1>2, FrameType DEF Ats
<1>5. TypeOK'
  <2>1. TypeOK
    BY DEF IInv
  <2>2. /\ stage' = stage /\ base' = base /\ imr' = imr /\ irr' = irr
        /\ isr' = isr /\ idt' = idt /\ irq_handlers' = irq_handlers
        /\ sys_ticks' = sys_ticks /\ kbd_full' = kbd_full
        /\ kbc_busy' = kbc_busy /\ bridge' = bridge
        /\ IF_flag' \in BOOLEAN /\ halted' \in BOOLEAN
    BY <1>3 DEF pic, kbc, dev
  <2> QED
    BY ONLY <2>1, <2>2, <1>4 DEF TypeOK
<1>6. SetUp' /\ Requests'
  BY <1>3 DEF IInv, SetUp, Requests, pic
<1>7. OneAtMost'
  BY <1>1, <1>2, <1>3 DEF OneAtMost, Ats, pic
<1>8. Quiet' /\ Awake'
  BY <1>1, <1>2, <1>3 DEF Quiet, Awake
<1> QED
  BY <1>5, <1>6, <1>7, <1>8 DEF IInv

(* irq_handler calls a driver: the interrupt stays the only one in         *)
(* service, and no driver adds to it.                                      *)
LEMMA HandleIInv ==
  ASSUME IInv, Handle
  PROVE  IInv'
<1>1. PICK n \in {Timer, Keyboard, 7}, a \in Ats :
        /\ service = <<Frame(n, a)>> /\ isr \subseteq {n}
        /\ Len(service) = 1
  BY InService DEF Handle, Serving
<1>2. service' = <<Frame(n, "eoi")>>
  BY <1>1 DEF Handle, Proceed, Frame
<1>3. isr' \subseteq isr
  BY DEF Handle, AfterEoi
<1>4. sys_ticks' \in 0..(TickMod - 1)
  BY TickAssumption DEF Handle, IInv, TypeOK
<1>5. kbd_full' \in BOOLEAN
  BY DEF Handle
<1>6. UNCHANGED <<stage, halted, IF_flag, base, imr, irr, idt, irq_handlers,
                  kbc_busy, bridge>>
  BY DEF Handle
<1>7. service' \in Seq([irq : Lines, at : {"handler", "eoi", "return"}])
  BY <1>2, FrameType DEF Ats
<1>8. TypeOK'
  BY <1>3, <1>4, <1>5, <1>6, <1>7 DEF IInv, TypeOK, kbc, dev
<1>9. SetUp' /\ Requests'
  BY <1>6 DEF IInv, SetUp, Requests
<1>10. OneAtMost'
  BY <1>1, <1>2, <1>3 DEF OneAtMost, Ats
<1>11. Quiet' /\ Awake'
  <2>1. service # <<>> /\ service' # <<>>
    BY <1>2 DEF Handle, Serving
  <2> QED
    BY <2>1, <1>6 DEF IInv, Quiet, Awake
<1> QED
  BY <1>8, <1>9, <1>10, <1>11 DEF IInv

(* The unspecific EOI clears the one line in service.                      *)
LEMMA EoiClears ==
  ASSUME IInv, service # <<>>
  PROVE  AfterEoi(Irq) = {}
<1>1. PICK n \in {Timer, Keyboard, 7}, a \in Ats :
        isr \subseteq {n} /\ Irq = n
  BY InService
<1>2. n \in 0..7 /\ ~(n >= 8)
  BY DEF Timer, Keyboard
<1>3. \A m \in isr : m = n
  BY <1>1
<1>4. isr \cap 0..7 = isr
  BY <1>2, <1>3
<1>5. Rank(n) <= Rank(n)
  BY DEF Rank, Timer, Keyboard
<1>6. First(isr) = isr
  BY <1>3, <1>5 DEF First
<1>7. First(isr \cap 0..7) = isr
  BY <1>4, <1>6
<1>8. AfterEoi(Irq) = isr \ First(isr \cap 0..7)
  BY <1>1, <1>2, Zenon DEF AfterEoi
<1> QED
  BY <1>7, <1>8

(* The end of interrupt leaves nothing in service.                         *)
LEMMA EoiIInv ==
  ASSUME IInv, Eoi
  PROVE  IInv'
<1>1. PICK n \in {Timer, Keyboard, 7}, a \in Ats :
        service = <<Frame(n, a)>> /\ Len(service) = 1
  BY InService DEF Eoi, Serving
<1>2. service' = <<Frame(n, "return")>>
  BY <1>1 DEF Eoi, Proceed, Frame
<1>3. isr' = {}
  BY EoiClears DEF Eoi, Serving
<1>4. UNCHANGED <<stage, halted, IF_flag, base, imr, irr, idt, irq_handlers,
                  sys_ticks, dev>>
  BY DEF Eoi
<1>5. service' \in Seq([irq : Lines, at : {"handler", "eoi", "return"}])
  BY <1>2, FrameType DEF Ats
<1>6. TypeOK'
  BY <1>3, <1>4, <1>5 DEF IInv, TypeOK, kbc, dev
<1>7. SetUp' /\ Requests'
  BY <1>4 DEF IInv, SetUp, Requests
<1>8. OneAtMost'
  BY <1>2, <1>3 DEF OneAtMost, Ats
<1>9. Quiet' /\ Awake'
  <2>1. service # <<>> /\ service' # <<>>
    BY <1>2 DEF Eoi, Serving
  <2> QED
    BY <2>1, <1>4 DEF IInv, Quiet, Awake
<1> QED
  BY <1>6, <1>7, <1>8, <1>9 DEF IInv

(* sti; iret leaves the machine with nothing in service and interrupts on. *)
LEMMA ReturnIInv ==
  ASSUME IInv, Return
  PROVE  IInv'
<1>1. service = <<>> \/ service # <<>>
  OBVIOUS
<1>2. PICK n \in {Timer, Keyboard, 7}, a \in Ats :
        /\ service = <<Frame(n, a)>>
        /\ a = "return" => isr = {}
        /\ Len(service) = 1 /\ service[1].at = a
  BY InService DEF Return, Serving
<1>3. isr = {}
  BY <1>2 DEF Return, Serving
<1>4. service' = <<>>
  BY <1>2 DEF Return
<1>5. IF_flag' = TRUE /\ UNCHANGED <<stage, halted, pic, idt, irq_handlers, sys_ticks, dev>>
  BY DEF Return
<1>6. stage \in Enabled
  BY DEF Return, Serving, IInv, Quiet, TypeOK
<1>7. TypeOK'
  BY <1>4, <1>5 DEF IInv, TypeOK, pic, kbc, dev
<1>8. SetUp' /\ Requests'
  BY <1>5 DEF IInv, SetUp, Requests, pic
<1>9. OneAtMost' /\ Quiet' /\ Awake'
  BY <1>2, <1>3, <1>4, <1>5, <1>6 DEF IInv, OneAtMost, Quiet, Awake, pic
<1> QED
  BY <1>7, <1>8, <1>9 DEF IInv

(* The devices only raise the two lines that have drivers.                 *)
LEMMA DeviceIInv ==
  IInv /\ (TimerEdge \/ KeyPressed \/ KbcDrains \/ HaltCpu) => IInv'
<1> SUFFICES ASSUME IInv, TimerEdge \/ KeyPressed \/ KbcDrains \/ HaltCpu PROVE IInv'
  OBVIOUS
<1> USE DEF IInv, TypeOK, SetUp, Quiet, Requests, OneAtMost, Awake, Enabled,
            cpu, pic, kbc, dev,
            Timer, Keyboard, Lines
<1>1. CASE TimerEdge
  <2>1. irr' = irr \cup {Timer}
    BY <1>1 DEF TimerEdge
  <2>2. UNCHANGED <<cpu, base, imr, isr, idt, irq_handlers, sys_ticks, dev>>
    BY <1>1 DEF TimerEdge
  <2>3. TypeOK'
    BY <2>1, <2>2
  <2>4. SetUp' /\ Quiet' /\ Requests'
    BY <2>1, <2>2
  <2>5. OneAtMost' /\ Awake'
    BY <2>2
  <2> QED
    BY <2>3, <2>4, <2>5
<1>2. CASE KeyPressed
  <2>1. irr' = irr \cup {Keyboard} /\ kbd_full' = TRUE
    BY <1>2 DEF KeyPressed
  <2>2. UNCHANGED <<cpu, base, imr, isr, idt, irq_handlers, sys_ticks, kbc_busy, bridge>>
    BY <1>2 DEF KeyPressed
  <2>3. TypeOK'
    BY <2>1, <2>2
  <2>4. SetUp' /\ Quiet' /\ Requests'
    BY <2>1, <2>2
  <2>5. OneAtMost' /\ Awake'
    BY <2>2
  <2> QED
    BY <2>3, <2>4, <2>5
<1>3. CASE HaltCpu
  <2>1. service = <<>> /\ stage = "loop" /\ stage' = "loop" /\ halted' = TRUE
    BY <1>3 DEF HaltCpu, Step
  <2>2. UNCHANGED <<IF_flag, service, pic, idt, irq_handlers, sys_ticks, dev>>
    BY <1>3 DEF HaltCpu
  <2>3. TypeOK'
    BY <2>1, <2>2
  <2>4. SetUp' /\ Quiet' /\ Requests'
    BY <2>1, <2>2
  <2>5. OneAtMost'
    BY <2>2
  <2>6. Awake'
    BY <2>1, <2>2
  <2> QED
    BY <2>3, <2>4, <2>5, <2>6
<1>4. CASE KbcDrains
  <2>1. kbc_busy' = FALSE
       /\ UNCHANGED <<cpu, pic, idt, irq_handlers, sys_ticks, kbd_full, bridge>>
    BY <1>4 DEF KbcDrains
  <2>2. TypeOK'
    <3>1. TypeOK
      OBVIOUS
    <3>2. /\ stage' = stage /\ halted' = halted /\ IF_flag' = IF_flag
          /\ service' = service /\ base' = base /\ imr' = imr /\ irr' = irr
          /\ isr' = isr /\ idt' = idt /\ irq_handlers' = irq_handlers
          /\ sys_ticks' = sys_ticks /\ kbd_full' = kbd_full
          /\ bridge' = bridge /\ kbc_busy' \in BOOLEAN
      BY <2>1
    <3> HIDE DEF TypeOK, IInv
    <3> QED
      BY ONLY <3>1, <3>2 DEF TypeOK
  <2>3. SetUp' /\ Quiet' /\ Requests'
    BY <2>1
  <2>4. OneAtMost' /\ Awake'
    BY <2>1
  <2> QED
    BY <2>2, <2>3, <2>4
<1> QED
  BY <1>1, <1>2, <1>3, <1>4

(* Every step keeps the inductive invariant.                               *)
LEMMA NextIInv == IInv /\ [Next]_vars => IInv'
<1> SUFFICES ASSUME IInv, [Next]_vars PROVE IInv'
  OBVIOUS
<1>1. CASE Boot
  BY <1>1, BootIInv
<1>2. CASE \E n \in Lines : Interrupt(n)
  BY <1>2, InterruptIInv
<1>3. CASE Handle
  BY <1>3, HandleIInv
<1>4. CASE Eoi
  BY <1>4, EoiIInv
<1>5. CASE Return
  BY <1>5, ReturnIInv
<1>6. CASE Spurious
  BY <1>6, SpuriousIInv
<1>7. CASE TimerEdge \/ KeyPressed \/ KbcDrains \/ HaltCpu
  BY <1>7, DeviceIInv
<1>8. CASE UNCHANGED vars
  BY <1>8 DEF vars, cpu, pic, kbc, dev, IInv, TypeOK, SetUp, Quiet, Requests,
            OneAtMost, Awake
<1> QED
  BY <1>1, <1>2, <1>3, <1>4, <1>5, <1>6, <1>7, <1>8 DEF Next, Dispatch

-----------------------------------------------------------------------------
(* The inductive invariant holds in every state.                           *)
THEOREM Invariance == Spec => []IInv
<1>1. Init => IInv
  BY InitIInv
<1>2. IInv /\ [Next]_vars => IInv'
  BY NextIInv
<1> QED
  BY <1>1, <1>2, PTL DEF Spec

(* The types hold, and sys_ticks wraps within its range.                   *)
THEOREM TypeCorrect == Spec => []TypeOK
<1>1. IInv => TypeOK
  BY DEF IInv
<1> QED
  BY <1>1, Invariance, PTL

(* No interrupt reaches a missing gate or a missing driver, although       *)
(* kybrd_init unmasks its line before it installs its handler.             *)
THEOREM DispatchAlwaysReady == Spec => []DispatchIsReady
<1>1. IInv => DispatchIsReady
  <2> SUFFICES ASSUME IInv, service # <<>> PROVE DispatchIsReady
    BY DEF DispatchIsReady
  <2>1. PICK n \in {Timer, Keyboard, 7}, a \in Ats :
          service = <<Frame(n, a)>> /\ Len(service) = 1
    BY InService
  <2>2. service[1].irq = n
    BY <2>1 DEF Frame
  <2>3. stage \in Enabled
    BY DEF IInv, Quiet
  <2>4. /\ Vector(n) \in idt
        /\ n # 7 => irq_handlers[n] # "none"
    BY <2>3 DEF IInv, SetUp, Enabled, Vector, Timer, Keyboard
  <2>5. \A i \in 1..Len(service) : service[i].irq = n
    BY <2>1, <2>2
  <2> QED
    BY <2>4, <2>5 DEF DispatchIsReady
<1> QED
  BY <1>1, Invariance, PTL

(* The kernel's stack never holds two interrupt frames.                    *)
THEOREM NoNesting == Spec => []HandlersDoNotNest
<1>1. IInv => HandlersDoNotNest
  <2> SUFFICES ASSUME IInv PROVE HandlersDoNotNest
    OBVIOUS
  <2>1. service # <<>> => ~IF_flag
    BY DEF IInv, Quiet
  <2>2. CASE service = <<>>
    BY <2>1, <2>2 DEF HandlersDoNotNest
  <2>3. CASE service # <<>>
    <3>1. Len(service) = 1
      BY <2>3, InService
    <3> QED
      BY <2>1, <3>1 DEF HandlersDoNotNest
  <2> QED
    BY <2>2, <2>3
<1> QED
  BY <1>1, Invariance, PTL

(* Each unspecific EOI ends the interrupt it is sent for: nothing stays in *)
(* service that would block the lines of lower rank.                       *)
THEOREM EoiIsExact == Spec => []EoiEndsItsOwn
<1>1. IInv => EoiEndsItsOwn
  BY InService DEF IInv, OneAtMost, EoiEndsItsOwn
<1> QED
  BY <1>1, Invariance, PTL

(* No hlt but the one of wait_for_input is executed with interrupts        *)
(* disabled: whenever the processor is halted elsewhere, they can wake it. *)
THEOREM NoOtherHang == Spec => []OnlyTheMouseCanHang
<1>1. IInv => OnlyTheMouseCanHang
  BY DEF IInv, Awake, Hung, OnlyTheMouseCanHang
<1> QED
  BY <1>1, Invariance, PTL
=============================================================================
