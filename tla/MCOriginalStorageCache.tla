----------------------- MODULE MCOriginalStorageCache -----------------------
(***************************************************************************)
(* Model-checking instance of OriginalStorageCache: one contract account   *)
(* with one 2-byte storage key (standing for a 32-byte key), two             *)
(* concurrent readers, and one 1-byte key that is too short but unpads to  *)
(* the same bytes as a valid key.                                          *)
(***************************************************************************)
EXTENDS OriginalStorageCache, TLC

CONSTANTS a1, c1, r0, p1, p2

MCAddresses == {a1}
MCKeys == {<<0, 1>>}
MCQueryKeys == MCKeys \cup {<<1>>}
MCAddressBytes == (a1 :> <<7>>)
MCCodes == {c1}
MCBlockNumbers == {0, 1, 2}
MCRemoteRoots == {r0}
MCReaders == {p1, p2}
MCGenesisBalances == <<>>

MCRemoteAccountData(h, a) ==
  [transactionCount |-> 0, balance |-> 0, code |-> IF h >= 1 THEN c1 ELSE "0x"]

\* Slot 0x..01 holds 1 at the fork block and nothing at block 0.
MCRemoteStorage(h, a, k) == IF h >= 1 /\ k = <<0, 1>> THEN 1 ELSE 0

=============================================================================
