SPECIFICATION ChainsSpec
CONSTANTS
  Throwables = {e1, e2, e3}
  None = none
  MaxChains = 3
SYMMETRY Interchangeable
INVARIANTS FramesRestored NoneLost Settled CaughtIsOwn
