SPECIFICATION Spec
CONSTANTS
  c1 = c1 c2 = c2 d1 = d1 b1 = b1 b2 = b2 b3 = b3 t1 = t1
  Clients = {c1}
  Devices = {d1}
  Broadcasts = {b1, b2}
  Snapshots = {t1}
  SendCap = 1
  None = None
  DeviceOf <- MCDeviceOf
  TopicOf <- MCTopicOf
INVARIANTS SnapshotNeverPanics
