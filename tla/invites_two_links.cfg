SPECIFICATION InviteSpec
CONSTANTS
  Managers = {m1, m2}
  Accepts = {}
  Users = {}
  MaxLinks = 2
INVARIANTS
  AtMostOneLiveLink
CHECK_DEADLOCK FALSE
