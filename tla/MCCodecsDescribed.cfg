SPECIFICATION Spec
INVARIANT DescribedIsTaken
CHECK_DEADLOCK FALSE
