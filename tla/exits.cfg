\* Two positions, two confirming ticks, a wait of a minute, an instruction, a suspect gain.
CONSTANTS
  N = 2
  Readings <- MCReadings
  Instructed = {2}
  NoPnl = NoPnl
  ConfirmTicks = 2
  StopLoss <- MCStopLoss
  TakeProfit = 3
  Trigger = 3
  Drop = 2
  Wait = 1
SPECIFICATION ExitFairSpec
CHECK_DEADLOCK FALSE
PROPERTIES ExitsAreJustified LossEndsIt OutEndsIt
