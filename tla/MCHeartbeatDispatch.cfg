SPECIFICATION FairSpec
CONSTANTS
  a = a
  b = b
  c = c
  Agents = {a, b, c}
  Reactive = {a}
  Dependencies <- MCDependencies
  Beats = {h1}
  Slots = {r1, r2}
  MaxConcurrent = 2
  MaxRestarts = 1
INVARIANTS TypeOK WaveOrder OneTurn
PROPERTIES ImplementsOrderedTurns RowSettles NoEndlessWait
