SPECIFICATION Spec
CONSTANTS
  KeepAliveInterval = 7
  PingTimeout = 3
  CommandTimeout = 4
  YieldTime = 2
  DelayTime = 1
  Intervals = {17}
  HandlerTime = 2
  MaxAnswer = 2
  MaxPushed = 1
  MaxUnanswered = 10
INVARIANT PingTimeoutTerminates
