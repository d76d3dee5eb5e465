\* An owner and the liaison write from pages of any age, on two days.
SPECIFICATION Spec
CONSTANTS
  Users = {owner, liaison}
  Owners = {owner}
  Liaison = liaison
  LastDay = 2
  MaxVersion = 5
  NoValue = NoValue
  Unset = Unset
INVARIANTS
  TypeOK
  HistoryChain
  AnnouncesFirst
  VersionDetectsWrites
  FieldsFitStatus
PROPERTIES
  FollowsWorkflow
