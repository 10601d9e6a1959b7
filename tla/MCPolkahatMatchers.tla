-------------------------- MODULE MCPolkahatMatchers --------------------------
(* Two event names and one argument key with two values; three error     *)
(* variants, one per payload kind, and two strings; two token            *)
(* holders, up to two entries and three deltas of 0 or 1.                *)
EXTENDS PolkahatMatchers

CONSTANTS E1, E2, k1, v1, v2, v3, s1, s2, o1, x1, x2

MCEventNames == {E1, E2}
MCArgKeys == {k1}
MCUnitVariants == {v1}
MCStringVariants == {v2}
MCObjectVariants == {v3}
MCStrings == {s1, s2}
MCObjectPayloads == {o1}
MCEntries == {x1, x2}

=============================================================================
