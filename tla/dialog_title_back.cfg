\* Stops when the bounds on inputs are spent.
SPECIFICATION Spec
CONSTANTS
  Fields <- MCFields
  Entries <- MCEntries
  Start <- MCStart
  Me = "me"
  Tags = {"s", "t"}
  NewTags = {"t"}
  MAX_TAGS = 1
  Subs = {1, 2}
  Titles = {"p", "q"}
  Columns = {1, 2}
  DoneCols = {1}
  Mine = {FALSE, TRUE}
  Slots = {1, 2}
  MaxEdits = 3
  MaxFaults = 0
INVARIANTS
  OnlyEntriesAreSaved
CHECK_DEADLOCK FALSE
