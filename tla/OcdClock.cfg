SPECIFICATION Spec
CONSTANT IoGap = 2
INVARIANT NoneSlips
INVARIANT CaughtIsHeld
INVARIANT IoCaught
PROPERTY SelectedThroughT2
