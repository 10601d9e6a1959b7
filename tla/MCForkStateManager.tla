------------------------- MODULE MCForkStateManager -------------------------
(***************************************************************************)
(* Model-checking instance of ForkStateManager: one genesis account and    *)
(* one contract, one storage key, a fork at block 1 with one remote block  *)
(* (block 0) below it whose data differs from the fork block's.            *)
(***************************************************************************)
EXTENDS ForkStateManager, TLC

CONSTANTS a1, a2, k1, c1, r0

MCAddresses == {a1}
MCKeys == {k1}
MCCodes == {c1}
MCGenesisBalances == (a1 :> 0)
MCBlockNumbers == {0, 1, 2}
MCRemoteRoots == {r0}

\* Roots a caller of setBlockContext may pass with a block below the fork
\* when it is not restricted to the roots of remote blocks: any token.
MCAnyRoots == {1, 2} \cup MCRemoteRoots

\* The archival node: a2 is a contract with code c1 and slot k1 = 1 at the
\* fork block; at block 0 it has no code yet and an empty slot.  a1 had
\* code c1 at block 0 that was destroyed before the fork block, so its
\* code, too, depends on the context height.
MCRemoteAccountData(h, a) ==
  IF (a = a2 /\ h >= 1) \/ (a = a1 /\ h < 1)
  THEN [transactionCount |-> 0, balance |-> 0, code |-> c1]
  ELSE [transactionCount |-> 0, balance |-> 0, code |-> "0x"]

MCRemoteStorage(h, a, k) == IF a = a2 /\ h >= 1 THEN 1 ELSE 0

=============================================================================
