SPECIFICATION InviteSpec
CONSTANTS
  Managers = {m1, m2}
  Accepts = {a1, a2}
  Users = {u}
  MaxLinks = 3
SYMMETRY Interchangeable
INVARIANTS
  ReplacedLinksAreDead
  OneJoinIsReported
PROPERTIES
  OnlyClosingEndsTheLink
\* The links run out.
CHECK_DEADLOCK FALSE
