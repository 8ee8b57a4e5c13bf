SPECIFICATION FairSpec
CONSTANTS
  Turn = {t1}
  Session = {s1}
  NoSession = NoSession
  Cap = 2
  EventsPerLine = 2
  MaxLines = 3
PROPERTY TurnsEnd
CHECK_DEADLOCK FALSE
