\* Two deliveries of two attempts a round, one notifier that dies at any step, an owner, two rounds.
SPECIFICATION FairSpec
CONSTANTS
  Events = {e1, e2}
  Workers = {w1}
  Owners = {o1}
  RetryDelays <- TwoAttempts
  ClaimTimeout = 0
  MaxRound = 2
  NoValue = NoValue
VIEW QueueView
INVARIANTS
  VersionIdentifiesState
PROPERTIES
  Settles
