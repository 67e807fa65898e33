\* Every component at the bounds of README.md, section 4.
CONSTANTS
  None = None
  Clients = {c1, c2, c3}
  UploadIds = {u1, u2}
  MaxUploadCrashes = 1
  SyncCalls = {c1, c2, c3}
  Plain = {c3}
  MaxSyncCrashes = 1
  h1 = h1
  h2 = h2
  Heads = {h1, h2, h3}
  SameSize <- MCSameSize
  Imports = {c1, c2}
  MaxWriteFailures = 1
  Limit = 5
  MaxDeploys = 5
  Versions = {v1}
  Mounts = {m1, m2}
  MaxEdits = 3
  Services = {c1, c2, c3}
  Nobody = Nobody
SPECIFICATION RemoteSpec
INVARIANTS
  UploadSafety
  SyncSafety
  PatchSafety
  ProtocolSafety
  DeploySafety
  ServingIsReachable
PROPERTIES
  RuntimeSafety
CHECK_DEADLOCK FALSE
