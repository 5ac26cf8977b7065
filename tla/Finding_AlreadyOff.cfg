SPECIFICATION Spec
INVARIANT AlreadyOff
