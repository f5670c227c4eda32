SPECIFICATION StartupLiveSpec
\* A unit that systemd has given up stays as it is.
CHECK_DEADLOCK FALSE
CONSTANTS
  a = a
  b = b
  NaN = NaN
  Garbage = Garbage
  NoAccount = NoAccount
  SegIds <- MCSegIds
  Configs <- MCConfigs
  Answers <- MCAnswers
  Burst = 2
  MaxEdits = 1
INVARIANTS
  StartupTypeOK
  PassesIffSound
  RunsWhole
  GridCanRun
PROPERTIES
  ComesUp
