SPECIFICATION FactoriesSpec
CONSTANTS
  Connections = {c1, c2}
  MaxObjects = 2
  MaxAdds = 2
  Limit = 1
SYMMETRY ConnectionSymmetry
INVARIANTS
  GoneIsNoMember
  StorageOfMembers
  EmptyIsUnregistered
  LengthAccurate
  SerializedKeepsTogether
  SerializedLimit
CHECK_DEADLOCK FALSE
