------------------------- MODULE OriginalStorageCache -------------------------
(***************************************************************************)
(* ForkStateManager's original-value cache (_originalStorageCache,        *)
(* getOriginalContractStorage, clearOriginalStorageCache) composed with    *)
(* the overlay it reads through.                                           *)
(*                                                                         *)
(* getOriginalContractStorage looks the cache up under encodeStorageKey,   *)
(* and on a miss calls getContractStorage, whose local read and key-length *)
(* check happen before its await on the remote node; the cache is filled  *)
(* after the await.  A miss is therefore two steps, and several readers    *)
(* may be between them at once (spec.md 5 allows concurrent reads).  The   *)
(* VM awaits every write and clears the cache at the start of a message,   *)
(* so writes and clear happen only while no read is in flight.             *)
(*                                                                         *)
(* Storage keys are byte strings: KeyLength stands for the 32 bytes of a   *)
(* real key; a caller may pass a key of another length.                    *)
(***************************************************************************)
EXTENDS ForkStateManager

CONSTANTS
  Readers,        \* concurrent callers of getOriginalContractStorage
  QueryKeys,      \* byte strings passed as key; Keys are those of KeyLength
  KeyLength,      \* the valid key length (32 in the code)
  AddressBytes,   \* address -> its fixed-width byte string
  Idle            \* a reader with no read in flight

ASSUME Keys = {k \in QueryKeys : Len(k) = KeyLength}

VARIABLES
  originalStorageCache,  \* _originalStorageCache: encoded key -> value
  inFlight,              \* reader -> Idle or the read it awaits
  firstSeen,             \* history: encoded key -> the slot's value when it
                         \* was first read in the current window, or Undef
  returned               \* history: reader -> last [key, ck, value] returned

cacheVars == <<originalStorageCache, inFlight, firstSeen, returned>>
allVars == <<vars, cacheVars>>

\* unpadBytes: drop the leading zero bytes.
RECURSIVE unpadBytes(_)
unpadBytes(b) == IF b # <<>> /\ Head(b) = 0 THEN unpadBytes(Tail(b)) ELSE b

\* encodeStorageKey: hex of the address followed by hex of the unpadded key.
encodeStorageKey(address, position) ==
  AddressBytes[address] \o unpadBytes(position)

CacheKeys == {encodeStorageKey(a, k) : a \in Addresses, k \in QueryKeys}

CacheInit ==
  /\ originalStorageCache = [ck \in CacheKeys |-> Undef]
  /\ inFlight = [r \in Readers |-> Idle]
  /\ firstSeen = [ck \in CacheKeys |-> Undef]
  /\ returned = [r \in Readers |-> Idle]

Init2 == Init /\ CacheInit

NoReadInFlight == \A r \in Readers : inFlight[r] = Idle

\* Record that reader r returned value for key of address a, and, on the
\* first read of the window, the value the slot has now.
Return(r, a, key, ck, value) ==
  LET now == IF key \in Keys
             THEN getContractStorage(state, contextBlockNumber, a, key)
             ELSE value
  IN  /\ returned' = [returned EXCEPT ![r] = [key |-> key, ck |-> ck,
                                              value |-> value]]
      /\ firstSeen' = [firstSeen EXCEPT ![ck] = IF @ = Undef THEN now ELSE @]

\* A cache hit returns at once.
getOriginalHit(r, a, key) ==
  LET ck == encodeStorageKey(a, key) IN
  /\ inFlight[r] = Idle
  /\ originalStorageCache[ck] # Undef
  /\ Return(r, a, key, ck, originalStorageCache[ck])
  /\ UNCHANGED <<vars, originalStorageCache, inFlight>>

\* Mutant: the miss skips getContractStorage's key-length check.
getOriginalMissNoLengthCheck(r, a, key) ==
  LET ck == encodeStorageKey(a, key) IN
  /\ inFlight[r] = Idle
  /\ originalStorageCache[ck] = Undef
  /\ inFlight' = [inFlight EXCEPT ![r] =
                   [address |-> a, key |-> key, ck |-> ck,
                    value |-> getContractStorage(state, contextBlockNumber, a, key),
                    remote |-> LocalStorage(state, a, key) = Remote]]
  /\ UNCHANGED <<vars, originalStorageCache, firstSeen, returned>>

\* A miss runs getContractStorage up to its await: the key-length check
\* (a wrong length throws and nothing changes) and the local read.
getOriginalMiss(r, a, key) ==
  LET ck == encodeStorageKey(a, key) IN
  /\ inFlight[r] = Idle
  /\ originalStorageCache[ck] = Undef
  /\ Len(key) = KeyLength
  /\ inFlight' = [inFlight EXCEPT ![r] =
                   [address |-> a, key |-> key, ck |-> ck,
                    value |-> getContractStorage(state, contextBlockNumber, a, key),
                    remote |-> LocalStorage(state, a, key) = Remote]]
  /\ UNCHANGED <<vars, originalStorageCache, firstSeen, returned>>

\* After the await: fill the cache and return.
getOriginalFill(r) ==
  /\ inFlight[r] # Idle
  /\ originalStorageCache' =
       [originalStorageCache EXCEPT ![inFlight[r].ck] = inFlight[r].value]
  /\ Return(r, inFlight[r].address, inFlight[r].key, inFlight[r].ck,
            inFlight[r].value)
  /\ inFlight' = [inFlight EXCEPT ![r] = Idle]
  /\ UNCHANGED vars

\* getStorageAt rejects (an RPC error, or the client's timeout): the
\* rejection propagates out of getContractStorage and of
\* getOriginalContractStorage before the fill, so nothing is cached.
getOriginalRemoteFails(r) ==
  /\ inFlight[r] # Idle
  /\ inFlight[r].remote
  /\ inFlight' = [inFlight EXCEPT ![r] = Idle]
  /\ UNCHANGED <<vars, originalStorageCache, firstSeen, returned>>

\* Mutant: the clear starts a new window but keeps the old map.
clearOriginalStorageCacheKeepsCache ==
  /\ NoReadInFlight
  /\ firstSeen' = [ck \in CacheKeys |-> Undef]
  /\ returned' = [r \in Readers |-> Idle]
  /\ UNCHANGED <<vars, inFlight, originalStorageCache>>

\* clearOriginalStorageCache starts a new window.
clearOriginalStorageCache ==
  /\ NoReadInFlight
  /\ originalStorageCache' = [ck \in CacheKeys |-> Undef]
  /\ firstSeen' = [ck \in CacheKeys |-> Undef]
  /\ returned' = [r \in Readers |-> Idle]
  /\ UNCHANGED <<vars, inFlight>>

\* Every overlay method, awaited by the VM: never while a read is in flight.
OverlayStep == NoReadInFlight /\ Next /\ UNCHANGED cacheVars

Next2 ==
  \/ OverlayStep
  \/ clearOriginalStorageCache
  \/ \E r \in Readers :
       \/ getOriginalFill(r)
       \/ getOriginalRemoteFails(r)
       \/ \E a \in Addresses, key \in QueryKeys :
            getOriginalHit(r, a, key) \/ getOriginalMiss(r, a, key)

Spec2 == Init2 /\ [][Next2]_allVars

-----------------------------------------------------------------------------

CacheTypeOK ==
  /\ TypeOK
  /\ originalStorageCache \in [CacheKeys -> StorageValues \cup {0, Undef}]
  /\ inFlight \in [Readers -> {Idle} \cup
                     [address: Addresses, key: Keys, ck: CacheKeys,
                      value: StorageValues \cup {0}, remote: BOOLEAN]]

\* getOriginalContractStorage returns the value the slot had when it was
\* first read in the current window, whatever writes followed and however
\* concurrent readers' fills were ordered (the cache check, the fill after
\* the await, and clearOriginalStorageCache starting a window).
OriginalIsFirstObserved ==
  \A r \in Readers :
    returned[r] # Idle => returned[r].value = firstSeen[returned[r].ck]

\* A key that is not KeyLength bytes long is rejected, as getContractStorage
\* rejects it, and never answered from the cache.
InvalidKeyRejected ==
  \A r \in Readers : returned[r] # Idle => Len(returned[r].key) = KeyLength

=============================================================================
