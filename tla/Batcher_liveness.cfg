SPECIFICATION FairSpec
CONSTANTS
  main = main  worker = worker  bg = bg
  Main = main
  Bg = bg
  Keys = {k1}
  Views = {v1}
  Producers <- MCTwoProducers
  BatchSize = 2
  Interval = 2
  RowCounts = {1}
  Prompt = TRUE
  ConcatMayFail = FALSE
  MaxFrames = 4
  MaxFailures = 1
INVARIANTS BufferedAtMostTwoIntervals
PROPERTIES EventuallyDelivered
CHECK_DEADLOCK FALSE
