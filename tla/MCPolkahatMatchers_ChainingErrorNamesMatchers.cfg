CONSTANTS
  E1 = E1
  E2 = E2
  k1 = k1
  v1 = v1
  v2 = v2
  v3 = v3
  s1 = s1
  s2 = s2
  o1 = o1
  x1 = x1
  x2 = x2
  Undef = Undef
  Null = Null
  None = None
  NoError = NoError
  EventNames <- MCEventNames
  ArgKeys <- MCArgKeys
  ArgValues = {0, 1}
  UnitVariants <- MCUnitVariants
  StringVariants <- MCStringVariants
  ObjectVariants <- MCObjectVariants
  Strings <- MCStrings
  ObjectPayloads <- MCObjectPayloads
  Entries <- MCEntries
  Deltas = {0, 1}
  MaxEvents = 2
  MaxEntries = 2
  MaxDeltas = 3
  TxBlock = 2

SPECIFICATION Spec

INVARIANT ChainingErrorNamesMatchers
