\* Two owners convert two policies with two keys, or correct the projects, while the policies change.
SPECIFICATION Spec
CONSTANTS
  Policies = {p1, p2}
  Owners = {o1, o2}
  Keys = {k1, k2}
  Titles = {t1, t2}
  Names <- NoName
  MaxDecisions = 2
  MaxVersion = 2
  NoValue = NoValue
SYMMETRY ConversionSymmetry
INVARIANTS
  TypeOK
  OneProject
PROPERTIES
  CopiesCurrentDecision
