CONSTANTS
  VGA_WIDTH = 3
  VGA_HEIGHT = 3
  Keys <- EditKeys
  SHELL_BUFFER_SIZE = 4
  Prompt <- MCPrompt
  CommandNames <- MCCommandNames
  Outputs <- MCOutputs
  NotFound <- MCNotFound
  MaxText = 8
SPECIFICATION Spec
CHECK_DEADLOCK FALSE
INVARIANT OnlyCommandsRun
