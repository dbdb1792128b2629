\* An upload against any other operation of a launcher that may hang.
SPECIFICATION StorageSpec
CONSTANTS
  u = u
  v = v
  home = home
  extra = extra
  Launchers = {u, v}
  Images = {home, extra}
  ImagesOf <- MCImagesOf
  ModesOf <- MCModesOf
  Chunks = 1
  PipeRoom = 0
  Patience = 1
  MayHang = {v}
  MaxFaults = 1
INVARIANT ExclusiveMount
INVARIANT TornIsReported
PROPERTY StoredIsDurable
PROPERTY LaunchersEnd
PROPERTY LeaseIsKept
CHECK_DEADLOCK FALSE
