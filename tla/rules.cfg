\* Three sessions over two rule sets, three versions and a batch.
SPECIFICATION Spec
CONSTANTS
  Sets = {a, b}
  Users = {o1, o2, o3}
  Contents = {full, partial}
  Complete = {full}
  MaxVersions = 3
  MaxBatches = 1
  NoValue = NoValue
SYMMETRY RulesSymmetry
INVARIANTS
  TypeOK
  NumbersFollow
  BatchesKeepRules
PROPERTIES
  OneRuleInForce
