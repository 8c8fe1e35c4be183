SPECIFICATION FairSpec
CONSTANTS
  MaxFragments = 2
  MaxCalls = 3
  MaxParts = 3
  MaxCallbacks = 1
  HasHandler = TRUE
  WritesFail = TRUE
INVARIANTS
  ReplyMatchesCall
  ReadyIsQuiet
  OneCallInFlight
  AuthenticatedIsLoggedOn
PROPERTIES
  NothingSentAfterTheEnd
  OperationsReturn
