SPECIFICATION Spec
INVARIANT CountAtLeastOne
CHECK_DEADLOCK FALSE
