SPECIFICATION Spec
CONSTANT TickMod = 3
INVARIANT HltCanEnd
