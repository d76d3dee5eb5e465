\* One delivery, one round of three attempts, two notifiers that die or come late.
SPECIFICATION Spec
CONSTANTS
  Events = {e1}
  Workers = {w1, w2}
  Owners = {}
  RetryDelays <- ThreeAttempts
  ClaimTimeout = 1
  MaxRound = 1
  NoValue = NoValue
SYMMETRY WorkerSymmetry
INVARIANTS
  TypeOK
  ClaimLedger
  HonestLedger
  ExclusiveClaims
  BackoffRespected
PROPERTIES
  KeepsPromise
