\* Section 6.3 of the stage-3 design on a repeated conversion request.
SPECIFICATION Spec
CONSTANTS
  Policies = {p1}
  Owners = {o1, o2}
  Keys = {k1}
  Titles = {t1}
  Names <- NoName
  MaxDecisions = 1
  MaxVersion = 1
  NoValue = NoValue
PROPERTIES
  RepeatReturnsProject
