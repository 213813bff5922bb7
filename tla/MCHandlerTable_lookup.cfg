SPECIFICATION TableSpec
CONSTANTS
  Hashes   <- MCHashes
  Handlers  = {"a", "b"}
  Capacity  = 128
  MaxLength = 3
INVARIANTS LookupExact
