\* Stops when the bounds on inputs are spent.
SPECIFICATION Spec
CONSTANTS
  NumCards = 2
  BoardOf <- MCBoardOf
  Today = 10
  Starts <- MCStarts
  Dues = {10}
  Me = "me"
  Holders = {"me", "nobody"}
  ShowAll = {TRUE}
  MaxInputs = 4
  MaxFaults = 1
INVARIANTS
  OneRequestPerCompletion
  PageAddsUp
  QuietPageShowsTheInbox
CHECK_DEADLOCK FALSE
