CONSTANTS
  MaxPolls = 2
  TickMod = 2
  VGA_WIDTH = 2
  VGA_HEIGHT = 2
  Keys <- MCKeys
  SHELL_BUFFER_SIZE = 2
  Prompt <- MCPrompt
  CommandNames <- MCCommandNames
  Outputs <- MCOutputs
  NotFound <- MCNotFound
  MaxText = 3
SPECIFICATION FairMachine
CHECK_DEADLOCK FALSE
INVARIANTS TypeOK NoNesting NeverWedged KeysInOrder
PROPERTIES KeysAreAtomic BootCompletes BytesAreRead TimeGoesOn
