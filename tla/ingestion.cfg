\* Two spiders over two addresses whose pages change; a spider may die at any step.
SPECIFICATION Spec
CONSTANTS
  Spiders = {s1, s2}
  Pages <- Site
  RulePublished = TRUE
  MaxPolicies = 2
  MaxLeftover = 2
  NoValue = NoValue
  u1 = u1
  u2 = u2
  n1 = n1
  t1 = t1
  d1 = d1
  b1 = b1
  b2 = b2
VIEW ItemView
SYMMETRY SpiderSymmetry
INVARIANTS
  TypeOK
  OnePolicyPerUrl
  VersionHistory
PROPERTIES
  CommittedFilesKept
