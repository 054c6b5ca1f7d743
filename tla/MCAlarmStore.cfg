SPECIFICATION Spec
CONSTANTS
  ALARM_NUMBER = 3
  WeekdaySpan = 2
  MinutesSpan = 2
  ActionSpan = 2
  ByteSpan = 8
  Commands <- MCCommands
  MaxCommands = 2
INVARIANTS
    FlashAgrees
    SurvivorsKept
    NothingResurrected
    ReportFresh
PROPERTIES
    DeleteHitsReported
