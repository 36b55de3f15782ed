SPECIFICATION Spec
CONSTANTS
  Cards = {k1, k2}
  Fresh = {k2}
  Columns = {1, 2}
  DoneCols = {2}
  Positions = {1}
  Tabs = {t1, t2}
  Nobody = Nobody
  Reqs = {r1, r2}
  Ops = {"move", "add", "delete", "toggle", "complete", "reload"}
  Faults = {"refuse", "cut", "drop", "restart"}
  MaxCalls = 2
SYMMETRY PagesAndSlots
INVARIANTS
  QuietTabsShowTheBoard
  TabsAgree
\* When no request is left to make, nothing happens.
CHECK_DEADLOCK FALSE
