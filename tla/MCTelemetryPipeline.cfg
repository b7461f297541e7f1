SPECIFICATION PipeSpec
CONSTANTS
  c1 = c1 c3 = c3 d1 = d1 d2 = d2 m1 = m1 m2 = m2 m4 = m4
  Clients = {c1}
  Devices = {d1, d2}
  Broadcasts = {m1, m2, m4}
  Snapshots = {m1, m2, m4}
  SendCap = 2
  None = None
  DeviceOf <- MCDeviceOf
  TopicOf <- MCTopicOf
SYMMETRY MCSymmetry
INVARIANTS PipeTypeOK NoGap ShownIsWritten
