-------------------------------- MODULE Clock --------------------------------
(***************************************************************************)
(* ksleep, core/io/timer.c, against the timer's interrupt.  sys_ticks is   *)
(* 64 bits wide and the kernel 32: every read of it is two loads, in an    *)
(* order the compiler chooses, and timer_handler may run between them.     *)
(* Nothing in the kernel calls ksleep yet.                                 *)
(***************************************************************************)
EXTENDS Integers

CONSTANTS
  Half,       \* 2^32, the range of one load
  MaxMs,      \* the longest sleep
  EarlyTicks, \* bound: ticks before the target is known
  MaxTicks    \* bound: ticks in all

ASSUME ClockAssumption ==
  /\ Half \in Nat /\ Half > 1
  /\ MaxMs \in Nat /\ EarlyTicks \in Nat
  /\ MaxTicks \in Nat /\ MaxTicks >= EarlyTicks + MaxMs

VARIABLES
  sleep_at,   \* "awake", "first", "second", "compare", "hlt" or "done"
  ms,         \* ksleep's argument
  target,     \* target_ticks, -1 before it is known
  low_first,  \* which half of sys_ticks is loaded first
  first_load, \* that half
  value,      \* sys_ticks as it was read
  ticks,      \* sys_ticks
  started,    \* history: sys_ticks when ksleep was called
  torn        \* history: a carry came between the two loads

clockVars == <<sleep_at, ms, target, low_first, first_load, value, ticks,
               started, torn>>

ClockInit ==
  /\ sleep_at = "awake" /\ ms = 0 /\ target = -1
  /\ low_first = TRUE /\ first_load = 0 /\ value = 0
  /\ ticks = 0 /\ started = 0 /\ torn = FALSE

Ksleep(t) ==
  /\ sleep_at = "awake" /\ sleep_at' = "first"
  /\ ms' = t /\ started' = ticks
  /\ low_first' \in BOOLEAN
  /\ UNCHANGED <<target, first_load, value, ticks, torn>>

LoadFirst ==
  /\ sleep_at = "first" /\ sleep_at' = "second"
  /\ first_load' = IF low_first THEN ticks % Half ELSE ticks \div Half
  /\ UNCHANGED <<ms, target, low_first, value, ticks, started, torn>>

(* The first value read makes the target, the others are compared with it. *)
LoadSecond ==
  /\ sleep_at = "second"
  /\ value' = IF low_first THEN first_load + Half * (ticks \div Half)
              ELSE first_load * Half + (ticks % Half)
  /\ IF target = -1 THEN target' = value' + ms /\ sleep_at' = "first"
     ELSE target' = target /\ sleep_at' = "compare"
  /\ UNCHANGED <<ms, low_first, first_load, ticks, started, torn>>

CompareEarly ==
  /\ sleep_at = "compare"
  /\ sleep_at' = IF value < target - 1 THEN "hlt" ELSE "done"
  /\ UNCHANGED <<ms, target, low_first, first_load, value, ticks, started, torn>>

CompareExactly ==
  /\ sleep_at = "compare"
  /\ sleep_at' = IF value # target THEN "hlt" ELSE "done"
  /\ UNCHANGED <<ms, target, low_first, first_load, value, ticks, started, torn>>

Compare ==
  /\ sleep_at = "compare"
  /\ sleep_at' = IF value < target THEN "hlt" ELSE "done"
  /\ UNCHANGED <<ms, target, low_first, first_load, value, ticks, started, torn>>

(* Any interrupt ends the hlt; the timer's also counts.  A tick that comes *)
(* just before the hlt does not end it: the next one does.                 *)
Wakes == sleep_at' = IF sleep_at = "hlt" THEN "first" ELSE sleep_at

TickLimit == IF target = -1 THEN EarlyTicks ELSE MaxTicks

timer_handler ==
  /\ ticks' = IF ticks < TickLimit THEN ticks + 1 ELSE ticks
  /\ torn' = (torn \/ (sleep_at = "second" /\ ticks' \div Half # ticks \div Half))
  /\ Wakes
  /\ UNCHANGED <<ms, target, low_first, first_load, value, started>>

OtherInterrupt ==
  /\ sleep_at = "hlt"
  /\ Wakes
  /\ UNCHANGED <<ms, target, low_first, first_load, value, ticks, started, torn>>

Sleeper == LoadFirst \/ LoadSecond \/ Compare

ClockNext ==
  \/ \E t \in 0..MaxMs : Ksleep(t)
  \/ Sleeper \/ timer_handler \/ OtherInterrupt

(* The processor executes the sleeper, and the timer ticks (Interrupts).   *)
ClockFairness == WF_clockVars(Sleeper) /\ WF_clockVars(timer_handler)

ClockSpec == ClockInit /\ [][ClockNext]_clockVars /\ ClockFairness

-----------------------------------------------------------------------------
ClockTypeOK ==
  /\ sleep_at \in {"awake", "first", "second", "compare", "hlt", "done"}
  /\ ms \in 0..MaxMs /\ target \in Int /\ low_first \in BOOLEAN
  /\ first_load \in Nat /\ value \in Nat
  /\ ticks \in 0..MaxTicks /\ started \in 0..MaxTicks /\ torn \in BOOLEAN

(* ksleep does not return early, whichever half is loaded first and        *)
(* wherever ticks come, as long as no carry comes between two loads.       *)
SleepsLongEnough ==
  sleep_at = "done" /\ ~torn => ticks - started >= ms

(* And it returns, unless a carry between the two loads of the target made *)
(* that about 2^32 ticks too late.                                         *)
SleepEnds == sleep_at = "first" ~> (sleep_at = "done" \/ torn)
=============================================================================
