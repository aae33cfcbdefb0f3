SPECIFICATION FairSpec
CONSTANTS
  Words = 4
  Values = {0, 1}
  Sizes = {1, 2}
  Lens = {0, 1, 3}
PROPERTIES ImplementsCBus Answered
