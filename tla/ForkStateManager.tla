--------------------------- MODULE ForkStateManager ---------------------------
(***************************************************************************)
(* The forked-state overlay of Hardhat Network, class ForkStateManager     *)
(* (src/packages/hardhat-core/src/internal/hardhat-network/provider/fork/  *)
(* ForkStateManager.ts).                                                   *)
(*                                                                         *)
(* state is the live snapshot: address -> account record, or Absent when   *)
(* the immutable map has no entry.  A record keeps nonce, balance and code *)
(* independently (Undef = never set locally), a storage map whose slots    *)
(* are Undef (no entry), Null (a tombstone) or a non-zero value, and the   *)
(* storageCleared flag.  Snapshots are compared by value; the code         *)
(* compares them by reference, which differs only in minting a spurious    *)
(* token for a value-equal copy (see README).                              *)
(*                                                                         *)
(* stateRootToState is the append-only registry of randomHash() tokens;    *)
(* a fresh token is the next natural number, remote block roots are model  *)
(* values.  Every method runs to completion before the next one starts:    *)
(* the only awaits of the mutating methods are on calls that resolve       *)
(* without touching the overlay, and the VM awaits each call (spec.md 5).  *)
(***************************************************************************)
EXTENDS Naturals, Sequences

LOCAL SeqExt == INSTANCE SequencesExt

CONSTANTS
  Addresses,          \* account addresses
  Keys,               \* storage keys; every key is 32 bytes long
  StorageValues,      \* non-zero storage values (after unpadBytes)
  AccountValues,      \* nonce and balance values
  Codes,              \* non-empty contract codes
  GenesisBalances,    \* genesis address -> configured balance
  ForkBlockNumber,    \* _forkBlockNumber
  BlockNumbers,       \* block numbers a block context may name
  RemoteRoots,        \* state roots of remote blocks below the fork
  PastBlockRoots,     \* roots the caller passes with a block below the fork
  RemoteAccountData(_, _),  \* (height, address) -> remote account data
  RemoteStorage(_, _, _),   \* (height, address, key) -> remote slot value
  MaxRoots,           \* bound on the number of tokens randomHash() mints
  MaxCheckpoints,     \* bound on the depth of the checkpoint stack
  Undef, Null, Absent, NoState, Remote

ASSUME MaxRoots \in Nat \ {0} /\ MaxCheckpoints \in Nat
ASSUME ForkBlockNumber \in BlockNumbers
ASSUME PastBlockRoots \subseteq (1..MaxRoots) \cup RemoteRoots

EmptyCode == "0x"

\* Tokens minted by randomHash(): 1 is _initialStateRoot.
LocalRoots == 1..MaxRoots
Roots == LocalRoots \cup RemoteRoots
InitialStateRoot == 1

VARIABLES
  state,               \* _state
  stateRoot,           \* _stateRoot
  stateRootToState,    \* _stateRootToState
  stateCheckpoints,    \* _stateCheckpoints
  contextBlockNumber,  \* _contextBlockNumber
  contextChanged,      \* _contextChanged
  minted               \* number of tokens randomHash() has returned

vars == <<state, stateRoot, stateRootToState, stateCheckpoints,
          contextBlockNumber, contextChanged, minted>>

-----------------------------------------------------------------------------
(* Account records (AccountState.ts is not part of this repository).      *)

AccountStates ==
  [nonce: AccountValues \cup {Undef}, balance: AccountValues \cup {Undef},
   code: Codes \cup {EmptyCode, Undef},
   storage: [Keys -> StorageValues \cup {Null, Undef}],
   storageCleared: BOOLEAN]

Snapshots == [Addresses -> AccountStates \cup {Absent}]

makeAccountState ==
  [nonce |-> Undef, balance |-> Undef, code |-> Undef,
   storage |-> [k \in Keys |-> Undef], storageCleared |-> FALSE]

makeEmptyAccountState ==
  [nonce |-> 0, balance |-> 0, code |-> EmptyCode,
   storage |-> [k \in Keys |-> Undef], storageCleared |-> TRUE]

\* this._state.get(hexAddress) ?? makeAccountState()
LocalAccount(s, a) == IF s[a] = Absent THEN makeAccountState ELSE s[a]

-----------------------------------------------------------------------------
(* Reads.  LocalStorage is the local half of getContractStorage: a value, *)
(* or Remote when the method goes on to call getStorageAt.                *)



LocalStorage(s, a, k) ==
  IF s[a] = Absent THEN Remote
  ELSE IF s[a].storage[k] # Undef
       THEN IF s[a].storage[k] = Null THEN 0 ELSE s[a].storage[k]
       ELSE IF s[a].storageCleared THEN 0 ELSE Remote

getContractStorage(s, h, a, k) ==
  LET v == LocalStorage(s, a, k)
  IN  IF v = Remote THEN RemoteStorage(h, a, k) ELSE v

\* getAccount: each of nonce, balance, code is local when set, else remote.
getAccount(s, h, a) ==
  LET acc == LocalAccount(s, a)
      rem == RemoteAccountData(h, a)
  IN  [nonce   |-> IF acc.nonce # Undef THEN acc.nonce ELSE rem.transactionCount,
       balance |-> IF acc.balance # Undef THEN acc.balance ELSE rem.balance,
       code    |-> IF acc.code # Undef THEN acc.code ELSE rem.code]

\* getContractCode: the local code, else the remote code at the context
\* height.
getContractCode(s, h, a) ==
  IF LocalAccount(s, a).code # Undef THEN LocalAccount(s, a).code
  ELSE RemoteAccountData(h, a).code

-----------------------------------------------------------------------------
(* Construction and initializeGenesisAccounts: each genesis account gets  *)
(* its remote nonce at the fork block, its configured balance and empty   *)
(* code, and _initialStateRoot is re-registered to the populated state.   *)

GenesisState ==
  [a \in Addresses |->
     IF a \in DOMAIN GenesisBalances
     THEN [makeAccountState EXCEPT
             !.nonce = RemoteAccountData(ForkBlockNumber, a).transactionCount,
             !.balance = GenesisBalances[a], !.code = EmptyCode]
     ELSE Absent]

Init ==
  /\ state = GenesisState
  /\ stateRoot = InitialStateRoot
  /\ stateRootToState =
       [t \in Roots |-> IF t = InitialStateRoot THEN GenesisState ELSE NoState]
  /\ stateCheckpoints = <<>>
  /\ contextBlockNumber = ForkBlockNumber
  /\ contextChanged = FALSE
  /\ minted = 1

-----------------------------------------------------------------------------
(* Writes to the live snapshot.                                           *)

SetAccount(a, acc) ==
  /\ state' = [state EXCEPT ![a] = acc]
  /\ UNCHANGED <<stateRoot, stateRootToState, stateCheckpoints,
                 contextBlockNumber, contextChanged, minted>>

\* _putAccount: nonce and balance; code "0x" when codeHash is KECCAK256_NULL.
PutAccountFields(a, nonce, balance, codeHashIsNull) ==
  SetAccount(a, [LocalAccount(state, a) EXCEPT
                   !.nonce = nonce, !.balance = balance,
                   !.code = IF codeHashIsNull THEN EmptyCode ELSE @])

putAccount(a) ==
  \E nonce, balance \in AccountValues, codeHashIsNull \in BOOLEAN :
    PutAccountFields(a, nonce, balance, codeHashIsNull)

\* Mutant of modifyAccountFieldsWith: the account is resolved at the fork
\* block instead of the context height.
modifyAccountFieldsAtFork(a, nonce, balance, codeHash) ==
  LET acc == getAccount(state, ForkBlockNumber, a)
      codeOfHash == IF codeHash # Undef THEN codeHash ELSE acc.code
  IN  PutAccountFields(a, IF nonce # Undef THEN nonce ELSE acc.nonce,
                          IF balance # Undef THEN balance ELSE acc.balance,
                          codeOfHash = EmptyCode)

\* modifyAccountFields: getAccount at the context height, override the
\* fields the caller names, putAccount.  codeHash is Undef (not named) or
\* the hash of a code, standing for that code; storageRoot is ignored by
\* _putAccount.
modifyAccountFieldsWith(a, nonce, balance, codeHash) ==
  LET acc == getAccount(state, contextBlockNumber, a)
      codeOfHash == IF codeHash # Undef THEN codeHash ELSE acc.code
  IN  PutAccountFields(a, IF nonce # Undef THEN nonce ELSE acc.nonce,
                          IF balance # Undef THEN balance ELSE acc.balance,
                          codeOfHash = EmptyCode)

modifyAccountFields(a) ==
  \E nonce, balance \in AccountValues \cup {Undef},
     codeHash \in Codes \cup {EmptyCode, Undef} :
    modifyAccountFieldsWith(a, nonce, balance, codeHash)

putContractCode(a) ==
  \E code \in Codes \cup {EmptyCode} :
    SetAccount(a, [LocalAccount(state, a) EXCEPT !.code = code])

\* Mutant of putContractStorage: the zero value is stored as written,
\* without the tombstone normalisation.
putContractStorageNoTombstone(a) ==
  \E k \in Keys, value \in StorageValues \cup {0} :
    SetAccount(a, [LocalAccount(state, a) EXCEPT !.storage[k] = value])

\* putContractStorage: a value that unpads to nothing is stored as null.
putContractStorage(a) ==
  \E k \in Keys, value \in StorageValues \cup {0} :
    SetAccount(a, [LocalAccount(state, a) EXCEPT
                     !.storage[k] = IF value = 0 THEN Null ELSE value])

clearContractStorage(a) ==
  SetAccount(a, [LocalAccount(state, a) EXCEPT
                   !.storageCleared = TRUE,
                   !.storage = [k \in Keys |-> Undef]])

deleteAccount(a) == SetAccount(a, makeEmptyAccountState)

-----------------------------------------------------------------------------
(* The root registry and the checkpoint stack.                            *)

\* getStateRoot: mint and register a token when the live state is not the
\* one registered under the current token.
MintRootIfDirty ==
  IF stateRootToState[stateRoot] # state
  THEN /\ minted < MaxRoots
       /\ minted' = minted + 1
       /\ stateRoot' = minted + 1
       /\ stateRootToState' = [stateRootToState EXCEPT ![minted + 1] = state]
  ELSE UNCHANGED <<minted, stateRoot, stateRootToState>>

getStateRoot ==
  /\ MintRootIfDirty
  /\ UNCHANGED <<state, stateCheckpoints, contextBlockNumber, contextChanged>>

\* _setStateRoot: throws "Unknown state root" for an unregistered token.
SetStateRootTo(root) ==
  /\ stateRootToState[root] # NoState
  /\ stateRoot' = root
  /\ state' = stateRootToState[root]

setStateRoot ==
  \E root \in Roots :
    /\ SetStateRootTo(root)
    /\ UNCHANGED <<stateRootToState, stateCheckpoints, contextBlockNumber,
                   contextChanged, minted>>

\* Mutant of checkpoint: pushes this._stateRoot without calling
\* getStateRoot first.
checkpointWithoutMint ==
  /\ Len(stateCheckpoints) < MaxCheckpoints
  /\ stateCheckpoints' = Append(stateCheckpoints, stateRoot)
  /\ UNCHANGED <<state, stateRoot, stateRootToState, minted,
                 contextBlockNumber, contextChanged>>

checkpoint ==
  /\ Len(stateCheckpoints) < MaxCheckpoints
  /\ MintRootIfDirty
  /\ stateCheckpoints' = Append(stateCheckpoints, stateRoot')
  /\ UNCHANGED <<state, contextBlockNumber, contextChanged>>

commit ==
  /\ stateCheckpoints # <<>>
  /\ stateCheckpoints' = SeqExt!Front(stateCheckpoints)
  /\ UNCHANGED <<state, stateRoot, stateRootToState, contextBlockNumber,
                 contextChanged, minted>>

\* revert pops, then adopts the popped root.  Its "Unknown state root"
\* branch (stack popped, state kept) needs an unregistered checkpoint
\* token, which the refinement property rules out.
revert ==
  /\ stateCheckpoints # <<>>
  /\ stateCheckpoints' = SeqExt!Front(stateCheckpoints)
  /\ SetStateRootTo(SeqExt!Last(stateCheckpoints))
  /\ UNCHANGED <<stateRootToState, contextBlockNumber, contextChanged, minted>>

-----------------------------------------------------------------------------
(* setBlockContext, one action per case in the order the code tries them, *)
(* and restoreForkBlockContext.  Both throw when checkpointed.            *)

setBlockContextIrregular ==
  /\ stateCheckpoints = <<>>
  /\ \E irregularState \in Roots : SetStateRootTo(irregularState)
  /\ UNCHANGED <<stateRootToState, stateCheckpoints, contextBlockNumber,
                 contextChanged, minted>>

setBlockContextAtFork ==
  /\ stateCheckpoints = <<>>
  /\ SetStateRootTo(InitialStateRoot)
  /\ UNCHANGED <<stateRootToState, stateCheckpoints, contextBlockNumber,
                 contextChanged, minted>>

setBlockContextAfterFork ==
  /\ stateCheckpoints = <<>>
  /\ \E root \in Roots : SetStateRootTo(root)
  /\ UNCHANGED <<stateRootToState, stateCheckpoints, contextBlockNumber,
                 contextChanged, minted>>

\* Below the fork: a fresh empty state registered under the caller's root.
setBlockContextBeforeFork ==
  /\ stateCheckpoints = <<>>
  /\ \E root \in PastBlockRoots, blockNumber \in BlockNumbers :
       /\ blockNumber < ForkBlockNumber
       /\ contextChanged' = TRUE
       /\ state' = [a \in Addresses |-> Absent]
       /\ stateRoot' = root
       /\ stateRootToState' =
            [stateRootToState EXCEPT ![root] = [a \in Addresses |-> Absent]]
       /\ contextBlockNumber' = blockNumber
  /\ UNCHANGED <<stateCheckpoints, minted>>

restoreForkBlockContext ==
  /\ stateCheckpoints = <<>>
  /\ \E root \in Roots : SetStateRootTo(root)
  /\ contextChanged' = FALSE
  /\ contextBlockNumber' = IF contextChanged THEN ForkBlockNumber
                                             ELSE contextBlockNumber
  /\ UNCHANGED <<stateRootToState, stateCheckpoints, minted>>

-----------------------------------------------------------------------------

Next ==
  \/ \E a \in Addresses :
       \/ putAccount(a) \/ modifyAccountFields(a) \/ putContractCode(a)
       \/ putContractStorage(a) \/ clearContractStorage(a) \/ deleteAccount(a)
  \/ getStateRoot \/ setStateRoot
  \/ checkpoint \/ commit \/ revert
  \/ setBlockContextIrregular \/ setBlockContextAtFork
  \/ setBlockContextAfterFork \/ setBlockContextBeforeFork
  \/ restoreForkBlockContext

Spec == Init /\ [][Next]_vars

-----------------------------------------------------------------------------
(* Properties.                                                            *)

TypeOK ==
  /\ state \in Snapshots
  /\ stateRoot \in Roots
  /\ stateRootToState \in [Roots -> Snapshots \cup {NoState}]
  /\ stateCheckpoints \in Seq(Roots)
  /\ contextBlockNumber \in BlockNumbers
  /\ contextChanged \in BOOLEAN
  /\ minted \in LocalRoots

\* The overlay's opinion of a snapshot, read through getAccount and
\* getContractStorage with the remote half left as Remote.
Opinion(s) ==
  [a \in Addresses |->
     LET acc == LocalAccount(s, a) IN
     [nonce   |-> IF acc.nonce # Undef THEN acc.nonce ELSE Remote,
      balance |-> IF acc.balance # Undef THEN acc.balance ELSE Remote,
      code    |-> IF acc.code # Undef THEN acc.code ELSE Remote,
      storage |-> [k \in Keys |-> LocalStorage(s, a, k)]]]

RegisteredOpinion(root) ==
  IF stateRootToState[root] = NoState THEN NoState
  ELSE Opinion(stateRootToState[root])

Overlay == INSTANCE VersionedOverlay WITH
  opinion <- Opinion(state),
  height  <- contextBlockNumber,
  saved   <- [i \in 1..Len(stateCheckpoints) |->
                RegisteredOpinion(stateCheckpoints[i])],
  named   <- [t \in Roots |-> RegisteredOpinion(t)],
  None    <- NoState

\* ForkStateManager implements the overlay contract: every write is read
\* back as written with tombstones, cleared and deleted storage masking the
\* remote; checkpoint/revert restore exactly the checkpointed opinion and
\* commit changes nothing; a registered token keeps naming the same opinion;
\* the context height changes only outside checkpoints, and
\* restoreForkBlockContext returns it to the fork block.
ImplementsOverlay == Overlay!Spec

\* I1: once _stateRootToState maps a token to a state, it maps it to that
\* state forever (getStateRoot, setBlockContext below the fork).
RegistryAppendOnly ==
  [][\A t \in Roots : stateRootToState[t] # NoState =>
                        stateRootToState'[t] = stateRootToState[t]]_vars

\* modifyAccountFields writes back nonce and balance with the code hash of
\* the code getAccount resolved at the context height; when the caller
\* names no codeHash, no such step changes the code getContractCode reads
\* at that height, for any account (_putAccount stores "0x" only for the
\* empty code's hash, and leaves a local code alone otherwise).
ModifyKeepsCode ==
  [][\A a \in Addresses, n, b \in AccountValues \cup {Undef} :
       modifyAccountFieldsWith(a, n, b, Undef) =>
         \A x \in Addresses :
           getContractCode(state', contextBlockNumber, x) =
             getContractCode(state, contextBlockNumber, x)]_vars

=============================================================================
