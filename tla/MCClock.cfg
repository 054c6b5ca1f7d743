SPECIFICATION Spec
CONSTANTS
  ALARM_NUMBER = 2
  WeekdaySpan = 4
  MinutesSpan = 2
  ActionSpan = 1
  ByteSpan = 3
  MinuteLength = 6
  MinutesPerDay = 2
  DaysPerWeek = 2
  SyncSecond = 3
  FirstTime = 2
  PowerOn = 1
  MaxSkew = 1
  MaxDelay = 1
  MaxTime = 15
  Changes <- MCChanges
INVARIANTS
    TimeRight
    ScanExact
PROPERTIES
    EveryMinuteOnce
