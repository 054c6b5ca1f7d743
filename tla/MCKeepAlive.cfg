SPECIFICATION Spec
CONSTANTS
  KeepAliveInterval = 6
  PingTimeout = 2
  CommandTimeout = 3
  YieldTime = 2
  DelayTime = 1
  Intervals = {2, 8}
  HandlerTime = 2
  MaxAnswer = 1
  MaxPushed = 2
  MaxUnanswered = 0
INVARIANTS
    SentInTime
    HealthyStaysUp
    SilenceNoticed
