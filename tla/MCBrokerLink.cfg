SPECIFICATION FairSpec
CONSTANTS
  Announcements <- MCAnnouncements
  NoName = "none"
  NumFds = 3
INVARIANTS
  
  NoLeak
  SessionIsCurrent
  SessionReadsAlone
PROPERTIES
  Reconnects
  LossShown
  
