SPECIFICATION FairSpec
CONSTANTS
  WordMod = 32
  NReg = 3
  MemCells = 2
  Programs <- ShortPrograms
  LinesUsed <- TimerIfEnabled
  Held = TRUE
PROPERTIES InterruptTaken
