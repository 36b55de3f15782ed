\* A socket between the membership gate and the hub during a removal.
SPECIFICATION RoomSpec
CONSTANTS
  Users = {1, 2}
  Creator = 1
  Reqs = {r1}
  NoReq = NoReq
  Ops = {"accept", "remove", "leave"}
INVARIANT RemovedAreEvicted
