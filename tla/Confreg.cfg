SPECIFICATION FairSpec
CONSTANTS
  Half = {0, 1, 2}
  LastAscii = 1
  Stored = {"NUM", "IO_SIMU", "VIRTUAL_UART", "SIMU_FLAG", "OPEN_TRACE", "NUM_MONITOR"}
  NTyped = 2
  MaxStores = 2
  MaxResets = 1
  TimerRange = 2
INVARIANTS TypeOK InputOnce InputThere OutputOnce LoadsLastStore MonitorExact
PROPERTIES InputAnnounced
CHECK_DEADLOCK FALSE
