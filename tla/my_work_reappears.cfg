\* Stops when the bounds on inputs are spent.
SPECIFICATION Spec
CONSTANTS
  NumCards = 2
  BoardOf <- MCBoardOf
  Today = 10
  Starts <- BothToday
  Dues = {10}
  Me = "me"
  Holders = {"me", "nobody"}
  ShowAll = {FALSE}
  MaxInputs = 4
  MaxFaults = 0
INVARIANT PendingStaysHidden
CHECK_DEADLOCK FALSE
