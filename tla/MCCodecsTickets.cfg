SPECIFICATION Spec
INVARIANT TicketsSurvive
CHECK_DEADLOCK FALSE
