SPECIFICATION ProxySpec
CONSTANTS
  Vars = {v1, v2}
  Iters = {i1, i2}
  Handles = {h1, h2, h3}
  Arrays = {a1, a2}
  Values = {x, y}
  None = none
  Length = 2
  Steps <- StepsTaken
SYMMETRY Symmetric
INVARIANTS HandlesLive OneKeeper
PROPERTY ProxiesRandomAccess
