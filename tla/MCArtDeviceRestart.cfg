SPECIFICATION Spec
CONSTANTS
  IPs = {ip1, ip2}
  PollPeriod = 6
  Delay <- MCDelay
  DisconnectTick = 1
  OldTick = 4
  PoolNodes = 11
  Freed = Freed
  NoParameter = NoParameter
PROPERTY
  RestartedDeviceStarts
