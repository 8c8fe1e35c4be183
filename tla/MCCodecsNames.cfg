SPECIFICATION Spec
INVARIANT NamesAreRecovered
CHECK_DEADLOCK FALSE
