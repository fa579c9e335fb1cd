SPECIFICATION MainSpec
CONSTANTS
  BufferSize = 3
  Maps <- MCMaps
  MaxChanges = 1
  Ports = 2
  Slots = 3
  Scratchpads = 33
  PageSizes <- MCPageSizes
  Speeds = {1, 3, 5}
  MaxPlugs = 1
  Machines <- MCMachines
  MaxId = 2
  BarBits = 14
  MaxCount = 1
INVARIANTS
  HeapGetsLastMap
  BarIsWindow
  XhcRunsConfigured
PROPERTIES
  PortKept
  DeviceReachable
  TimeAdvances
