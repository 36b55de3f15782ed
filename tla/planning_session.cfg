CONSTANTS
  NumItems = 3
  Types = {"REQ", "Q"}
  Texts = {"a", "b"}
  NewText = "a"
  Starts <- SomeStarts
  MaxInputs = 2
  MaxFaults = 1
SPECIFICATION Spec
INVARIANTS
  QuietPageShowsTheSession
  NumbersAgree
PROPERTIES
  OnlyLiveItemsBecomeCards
\* Stops when the bounds on inputs are spent.
CHECK_DEADLOCK FALSE
