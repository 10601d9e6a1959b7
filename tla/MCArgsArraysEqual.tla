-------------------------- MODULE MCArgsArraysEqual --------------------------
(* Two atoms, one predicate accepting the first, arrays of up to two      *)
(* elements nested one level, no Uint8Arrays (see README).               *)
EXTENDS ArgsArraysEqual

CONSTANTS a1, a2, p1

MCAtoms == {a1, a2}
MCPredicates == {p1}
MCAccepts == [p \in MCPredicates |-> {a1}]
MCByteArraysNone == {}
MCHex == [b \in ByteArrays |-> a2]

=============================================================================
