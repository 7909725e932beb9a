SPECIFICATION Spec
CONSTANTS
  q1 = q1
  q2 = q2
  q3 = q3
  h1 = h1
  h2 = h2
  SetIds <- ThreeIds
  Handlers <- TwoHandlers
  MaxRows = 2
  NoSet = NoSet
SYMMETRY IdSymmetry
INVARIANTS
  AnswersDurable
  ResultsTraceable
  StartupLoadsOnce
