\* Stops when the bounds on changes and days are spent.
SPECIFICATION Spec
CONSTANTS
  Cards = {1, 2, 3}
  Columns = {11, 12, 13, 14}
  NewColumns = {12, 14}
  Users = {"me", "bo"}
  Me = "me"
  Tags = {"t"}
  Priorities = {"high"}
  Boards <- MCBoards
  DueDays = {28, 30, 36}
  Today = 29
  LastDay = 30
  MonthStart <- MCMonths
  FirstDow = 5
  Window = 3
  MaxPills = 1
  POSITION_GAP = 16
  MaxEdits = 2
INVARIANTS
  UrgentWorkIsListed
  HeldWorkAddsUp
  BurndownIsHistory
  CalendarPlacesEveryDueCard
PROPERTIES
  DropLandsAtPointer
CHECK_DEADLOCK FALSE
