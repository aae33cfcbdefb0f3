SPECIFICATION FairSpec
CONSTANTS
  Words = 2
  Values = {0, 1}
  Sizes = {1}
  Lens = {0, 1, 3}
INVARIANTS OneAtATime
PROPERTIES ImplementsCBus PayloadHeld Answered
