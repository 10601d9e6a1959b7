--------------------------- MODULE ArgsArraysEqual ---------------------------
(***************************************************************************)
(* assertArgsArraysEqual of polkahat-chai-matchers (src/packages/          *)
(* polkahat-chai-matchers/src/internal/utils.ts): the comparison of an     *)
(* event's or error's argument array with the expected one, recursing     *)
(* into nested arrays.  An expected argument is a value (compared with    *)
(* ===), a predicate, a Uint8Array or an array.  Every assert that fails  *)
(* throws, and the try/catch blocks only prefix the message, so the       *)
(* outcome is "pass" or "fail".                                           *)
(*                                                                         *)
(* Values are atoms (strings or numbers, as model values) and arrays of   *)
(* them; a predicate is a model value with the set of atoms it returns    *)
(* true on (one that throws fails the same way as one that returns false).*)
(***************************************************************************)
EXTENDS Naturals, Sequences

LOCAL SeqExt == INSTANCE SequencesExt

CONSTANTS
  Atoms,        \* primitive values: strings without a length test, numbers
  Predicates,   \* expected arguments that are functions
  Accepts,      \* Accepts[p]: the values on which predicate p returns true
  ByteArrays,   \* expected arguments that are Uint8Arrays
  Hex,          \* Hex[b]: the hex string the chain decodes b's bytes to
  Todo,         \* the string "todo"
  MaxLen,       \* bound on the length of an array
  None          \* no outcome yet

Arrays(S) == SeqExt!BoundedSeq(S, MaxLen)

\* expectedArg?.length !== undefined && typeof expectedArg !== "string".
IsArray(v) == v \notin Atoms \cup Predicates \cup ByteArrays \cup {Todo}

\* The expected arguments: one level of nested arrays below the top one.
ExpectedLeaves == Atoms \cup Predicates \cup ByteArrays
ExpectedArgs == Arrays(ExpectedLeaves \cup Arrays(ExpectedLeaves))

\* The decoded arguments of an event or error.
ActualArgs == Arrays(Atoms \cup Arrays(Atoms))

\* actualArgs.length: undefined on an atom.
LengthOf(v) == IF IsArray(v) THEN Len(v) ELSE None

RECURSIVE innerAssertArgsArraysEqual(_, _), innerAssertArgEqual(_, _)

\* Mutant of innerAssertArgsArraysEqual: no length assert.
innerAssertArgsArraysEqualNoLength(expectedArgs, actualArgs) ==
  IF \E i \in DOMAIN expectedArgs :
       ~IsArray(actualArgs) \/ i > Len(actualArgs) \/
       innerAssertArgEqual(expectedArgs[i], actualArgs[i]) = "fail"
  THEN "fail" ELSE "pass"

\* The length assert, then each argument in order; the first that fails
\* throws out of the loop.
innerAssertArgsArraysEqual(expectedArgs, actualArgs) ==
  IF LengthOf(actualArgs) # Len(expectedArgs) THEN "fail"
  ELSE IF \E i \in DOMAIN expectedArgs :
            innerAssertArgEqual(expectedArgs[i], actualArgs[i]) = "fail"
  THEN "fail" ELSE "pass"

innerAssertArgEqual(expectedArg, actualArg) ==
  CASE expectedArg \in Predicates ->
         IF actualArg \in Accepts[expectedArg] THEN "pass" ELSE "fail"
    [] expectedArg \in ByteArrays ->
         IF actualArg = Todo THEN "pass" ELSE "fail"
    [] IsArray(expectedArg) ->
         innerAssertArgsArraysEqual(expectedArg, actualArg)
    [] OTHER -> IF actualArg = expectedArg THEN "pass" ELSE "fail"

assertArgsArraysEqual(expectedArgs, actualArgs) ==
  innerAssertArgsArraysEqual(expectedArgs, actualArgs)

\* What the comparison is for: the arrays have the same shape, and each
\* expected leaf matches its actual value (a predicate holds of it, a byte
\* array is its hex encoding, any other value is equal to it).
RECURSIVE ArgMatches(_, _)
ArgMatches(e, a) ==
  IF IsArray(e)
  THEN IsArray(a) /\ Len(a) = Len(e) /\ \A i \in DOMAIN e : ArgMatches(e[i], a[i])
  ELSE IF e \in Predicates THEN a \in Accepts[e]
  ELSE IF e \in ByteArrays THEN a = Hex[e]
  ELSE a = e

-----------------------------------------------------------------------------
(* One call of assertArgsArraysEqual on arguments the caller holds.       *)

VARIABLES expected, actual, outcome

vars == <<expected, actual, outcome>>

Init ==
  /\ expected \in ExpectedArgs
  /\ actual \in ActualArgs
  /\ outcome = None

compare ==
  /\ outcome = None
  /\ outcome' = assertArgsArraysEqual(expected, actual)
  /\ UNCHANGED <<expected, actual>>

Next == compare

Spec == Init /\ [][Next]_vars

-----------------------------------------------------------------------------

\* assertArgsArraysEqual passes exactly when the decoded arguments match
\* the expected ones at every depth of nesting.
ArgsEqualAgreesWithReference ==
  outcome # None =>
    (outcome = "pass" <=> ArgMatches(expected, actual))

=============================================================================
