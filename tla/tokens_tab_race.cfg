SPECIFICATION CalmSpec
CONSTANTS
  b1 = b1
  b2 = b2
  t1 = t1
  t2 = t2
  t3 = t3
  Browsers <- TwoBrowsers
  Tabs <- ThreeTabs
  Home <- TabHome
  LogoutClients = {}
  MaxTokens = 4
  MaxExpired = 1
PROPERTIES
  ActiveSessionSlides
CHECK_DEADLOCK FALSE
