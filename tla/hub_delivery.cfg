\* Two members of one board and a second board without any: joins, drops,
\* evictions and the shutdown against the pumps, and what each browser sees.
CONSTANTS
  Conns = {1, 2}
  Boards = {"b1", "b2"}
  Users = {"ann", "bob"}
  BoardOf <- Pair
  UserOf <- PairUsers
  Callers = {h1}
  Cap = 1
  MaxMsgs = 2
SPECIFICATION Spec
INVARIANTS NoPanic NothingMissed
PROPERTIES ImplementsFeed
