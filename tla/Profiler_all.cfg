\* Two goroutines that start and stop up to two profilers.
SPECIFICATION ProfilerFairSpec
CONSTANTS
  Callers = {c1, c2}
  Profilers = {p1, p2}
  App = App
  NoProfiler = NoProfiler
  GOOS = "linux"
  Options <- MCOptions
INVARIANT QuietAfterStop
PROPERTIES AppUndisturbed StopReturns
