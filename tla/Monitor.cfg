CONSTANTS
    Event = {e1, e2}
    Message = {m1}
    MaxBeats = 2
    MaxLost = 1
    MaxBreaks = 1
    MaxRows = 2
SPECIFICATION MonitorSpec
INVARIANTS AlertsResume MessagesShowOnce EventsCountedOnce
PROPERTIES AllGetsThrough
CHECK_DEADLOCK FALSE
