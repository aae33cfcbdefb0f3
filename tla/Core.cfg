SPECIFICATION FairSpec
CONSTANTS
  WordMod = 32
  NReg = 3
  MemCells = 2
  Programs <- CorePrograms
  LinesUsed <- TimerIfEnabled
  Held = TRUE
INVARIANTS TypeOK RequestOfE
PROPERTIES Sequential CommitsOnce RequestHeld KeepsCommitting
