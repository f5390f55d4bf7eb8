CONSTANTS
  VGA_WIDTH = 3
  VGA_HEIGHT = 3
  Keys <- AllKeys
  SHELL_BUFFER_SIZE = 5
  Prompt <- MCPrompt
  CommandNames <- MCCommandNames
  Outputs <- MCOutputs
  NotFound <- MCNotFound
  MaxText = 10
SPECIFICATION Spec
CHECK_DEADLOCK FALSE
INVARIANTS TypeOK ScreenShowsText LineIsWhatIsSeen ShiftIsHeld
