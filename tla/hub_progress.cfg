\* Two handlers against the hub with one client: fairness for Run alone, and
\* in two of the properties for the client's pumps.
CONSTANTS
  Conns = {1}
  Boards = {"b1"}
  Users = {"ann"}
  BoardOf <- Single
  UserOf <- SingleUser
  Callers = {h1, h2}
  Cap = 2
  MaxMsgs = 3
SPECIFICATION HubSpec
PROPERTIES CallsReturn LostPeersLeave QueuedIsDelivered
