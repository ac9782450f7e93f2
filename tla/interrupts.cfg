SPECIFICATION Spec
CONSTANT TickMod = 3
INVARIANTS TypeOK DispatchIsReady HandlersDoNotNest EoiEndsItsOwn OnlyTheMouseCanHang
PROPERTIES ClockGoesOn KeysAreRead LoopGoesOn
\* the machine stops when mouse_init hangs or the PCI scan overruns the stack
CHECK_DEADLOCK FALSE
