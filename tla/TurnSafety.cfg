SPECIFICATION Spec
CONSTANTS
  Turn = {t1, t2}
  Session = {s1}
  NoSession = NoSession
  Cap = 3
  EventsPerLine = 2
  MaxLines = 2
SYMMETRY Symmetry
INVARIANTS BusyMeansOneTurn OkMeansAllLines SecondWriterOnlyAfterKill
PROPERTY OverIsFinal
CHECK_DEADLOCK FALSE
