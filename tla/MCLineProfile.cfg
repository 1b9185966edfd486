CONSTANTS
  a = a
  b = b
  mix = mix
  dispatch = dispatch
  Units = {a, b, mix, dispatch}
  Dispatches = {dispatch}
  Out <- MCOut
  Mainlines <- MCMainlines
  Metrics <- MCMetrics
  Failing = {mix}
  NoBlock = NoBlock
  MaxMetrics = 3
  MaxPasses = 3
  MaxRuns = 2
SPECIFICATION Spec
CHECK_DEADLOCK FALSE
INVARIANT LinesAreMeasured
 
PROPERTY PassesReachEveryUnit
