SPECIFICATION FairSpec
CONSTANTS
  b1 = b1
  b2 = b2
  t1 = t1
  t2 = t2
  t3 = t3
  Browsers <- TwoBrowsers
  Tabs <- ThreeTabs
  Home <- TabHome
  LogoutClients = {b1}
  MaxTokens = 4
  MaxExpired = 1
INVARIANTS
  OneLivePerLogin
  TabRacesBurnNothing
  BurnRevokesWhatItFound
PROPERTIES
  RevocationStands
  RequestsAreAnswered
\* The tokens run out.
CHECK_DEADLOCK FALSE
