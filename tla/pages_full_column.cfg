SPECIFICATION Spec
CONSTANTS
  Cards = {1, 2, 3}
  Columns = {11, 12, 13}
  NewColumns = {}
  Users = {"me", "bo"}
  Me = "me"
  Tags = {"t"}
  Priorities = {"high"}
  Boards <- MCBoards
  DueDays = {28, 30, 36}
  Today = 29
  LastDay = 29
  MonthStart <- MCMonths
  FirstDow = 5
  Window = 3
  MaxPills = 1
  POSITION_GAP = 16
  MaxEdits = 2
PROPERTIES
  OnlyEmptyColumnsGo
CHECK_DEADLOCK FALSE
