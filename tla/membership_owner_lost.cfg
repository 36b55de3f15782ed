SPECIFICATION Spec
CONSTANTS
  Users = {1, 2}
  Creator = 2
  Reqs = {r1, r2}
  NoReq = NoReq
  Ops = {"accept", "remove", "transfer"}
INVARIANTS
  ExactlyOneOwner
