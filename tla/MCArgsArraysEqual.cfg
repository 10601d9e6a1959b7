\* Expected arguments without byte arrays.
CONSTANTS
  a1 = a1
  a2 = a2
  p1 = p1
  Todo = Todo
  None = None
  Atoms <- MCAtoms
  Predicates <- MCPredicates
  Accepts <- MCAccepts
  ByteArrays <- MCByteArraysNone
  Hex <- MCHex
  MaxLen = 2

SPECIFICATION Spec

\* One call of the function: it returns, and nothing follows.
CHECK_DEADLOCK FALSE

INVARIANT ArgsEqualAgreesWithReference
