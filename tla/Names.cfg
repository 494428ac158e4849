SPECIFICATION Spec
CONSTANT Setups <- AllSetups
INVARIANT PathsAreTrue
INVARIANT NothingHidden
CHECK_DEADLOCK FALSE
