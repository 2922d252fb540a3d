SPECIFICATION Spec
CONSTANTS
  main = main  worker = worker  bg = bg
  Main = main
  Bg = bg
  Keys = {k1}
  Views = {v1, v2}
  Producers <- MCTwoProducers
  BatchSize = 2
  Interval = 1
  RowCounts = {1, 2}
  Prompt = FALSE
  ConcatMayFail = TRUE
  MaxFrames = 3
  MaxFailures = 1
INVARIANTS InflightExclusive Conservation ViewOrder AllViewsWritten NoFullBufferAtRest GracefulShutdown
PROPERTIES ImplementsDelivery
CHECK_DEADLOCK FALSE
