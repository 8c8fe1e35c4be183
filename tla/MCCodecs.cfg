SPECIFICATION Spec
INVARIANTS
  GraphIsExact
  InterfacesAgree
  CalendarIsExact
  NumbersAreExact
  RowsAreExact
  
  XmlIsExact
  ChainIsExact
  RequestIsExact
  AnswerIsExact
  LogonIsExact
CHECK_DEADLOCK FALSE
