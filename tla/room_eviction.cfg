\* Joins, removals and leaving against sockets that open, close and reconnect.
SPECIFICATION FairRoomSpec
CONSTANTS
  Users = {1, 2}
  Creator = 1
  Reqs = {r1, r2}
  NoReq = NoReq
  Ops = {"add", "accept", "remove", "leave", "stash", "restore"}
INVARIANTS OnlyLateJoinersStay
PROPERTY RemovedSocketsClose
