\* Every operation, two users and two concurrent requests, with fair row locks.
SPECIFICATION FairSpec
CONSTANTS
  Users = {1, 2}
  Creator = 2
  Reqs = {r1, r2}
  NoReq = NoReq
  Ops = {"add", "accept", "update", "leave", "remove", "transfer", "stash", "restore", "purge"}
INVARIANTS
  AtMostOneOwner
  LockedRolesStand
  NoOrphanMembers
PROPERTIES
  OwnershipIsHandedOver
  RequestsFinish
\* Once the board is deleted, or has lost its owner, no request may be possible.
CHECK_DEADLOCK FALSE
