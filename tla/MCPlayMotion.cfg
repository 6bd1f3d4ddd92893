SPECIFICATION MCSpec
CONSTANTS
  Motors = {1, 2}
  Width = 8
  Files <- MCFiles
  Readings <- MCReadings
  Period = 1
  StartTicks = 2
  ReturnTicks = 2
  MaxBusy = 1
  MaxLate = 1
  MaxTime = 10
  MaxKeys = 2
  Window = 3
  Rows = {1, 2, 3}
  MaxFrames = 2
  MaxCaptures = 4
  MaxPause = 3
INVARIANTS
  MotorsAreAccounted
  PauseStopsTheClock
  TracksTrajectory
  ScreenIsRight
PROPERTIES
  MotionIsSmooth
  ReturnsHome
