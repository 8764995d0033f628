SPECIFICATION Spec
CONSTANTS
  Scripts <- MCScripts
  AppScripts <- MCAppScripts
  Nothing = Nothing
  Limits = {0, 1, 2}
  Formats = {"a", "b"}
  Rests = {"a", "b"}
  Defaults <- MCDefaults
  EnvLimit = 1
  Never = Never
  Typed <- MCTyped
  Stored <- MCStored
  MaxPuts = 2
  Unread = Unread
  MaxAsks = 2
INVARIANTS
  TypeOK
  EventsInOrder
  PathFound
  ViewTrue
  LimitAgrees
  
CHECK_DEADLOCK FALSE
