\* Stops when the bounds on inputs are spent.
SPECIFICATION Spec
CONSTANTS
  Fields <- MCFields
  Entries <- MCEntries
  Start <- MCStart
  Me = "me"
  Tags = {"s", "t"}
  NewTags = {"t"}
  MAX_TAGS = 1
  Subs = {1}
  Titles = {"p", "q"}
  Columns = {1, 2, 3}
  DoneCols = {1}
  Mine = {TRUE}
  Slots = {1}
  MaxEdits = 4
  MaxFaults = 0
INVARIANTS
  TaskGoesWhereShown
CHECK_DEADLOCK FALSE
