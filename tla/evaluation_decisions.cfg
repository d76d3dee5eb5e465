\* Two owners decide on two batches that one evaluator works on.
SPECIFICATION Spec
CONSTANTS
  Evaluators = {v1}
  Owners = {o1, o2}
  Entities = {shenzhen, guangzhou}
  OtherConclusions = {watch}
  MaxBatches = 2
  MaxClaims = 1
  MaxDecisions = 3
  NoValue = NoValue
SYMMETRY ActorSymmetry
INVARIANTS
  HumanDecisionStands
  DecisionsRestOnConfirmations
PROPERTIES
  FollowsDesign
