SPECIFICATION Spec
CONSTANTS
  Cards = {k1}
  Fresh = {}
  Columns = {1, 2}
  DoneCols = {2}
  Positions = {1}
  Tabs = {t1, t2}
  Nobody = Nobody
  Reqs = {r1, r2}
  Ops = {"move"}
  Faults = {"refuse"}
  MaxCalls = 1
SYMMETRY PagesAndSlots
PROPERTIES
  RefusedMoveSnapsBack
\* When no request is left to make, nothing happens.
CHECK_DEADLOCK FALSE
