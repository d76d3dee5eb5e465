\* Two evaluators that die, stall or fail over two batches, and one owner.
SPECIFICATION FairSpec
CONSTANTS
  Evaluators = {v1, v2}
  Owners = {o1}
  Entities = {shenzhen}
  OtherConclusions = {watch}
  MaxBatches = 2
  MaxClaims = 2
  MaxDecisions = 0
  NoValue = NoValue
INVARIANTS
  TypeOK
  ResultsMatchStatus
  SuggestionIsNewest
PROPERTIES
  BatchesSettle
