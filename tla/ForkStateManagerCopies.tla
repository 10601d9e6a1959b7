------------------------- MODULE ForkStateManagerCopies -------------------------
(***************************************************************************)
(* Several ForkStateManager instances made by copy() (ForkStateManager.ts  *)
(* lines 136-147).  copy() runs the constructor, which mints a fresh       *)
(* _initialStateRoot and registers the empty state under it in a new Map,  *)
(* then overwrites the copy's _state, _stateRoot and _stateRootToState     *)
(* with the original's: the registry is shared by reference, the block     *)
(* context and the checkpoint stack are the constructor's.                 *)
(*                                                                         *)
(* Each manager's fields are functions of the manager.  A Map object is    *)
(* named by the manager whose constructor made it, and registryOf[m] is    *)
(* the Map m's _stateRootToState refers to.  The account store is          *)
(* abstracted to snapshot values: the registry only ever compares and      *)
(* stores whole snapshots, so what a write changes inside one does not     *)
(* matter here (ForkStateManager.tla models that).                         *)
(***************************************************************************)
EXTENDS Naturals, Sequences

LOCAL SeqExt == INSTANCE SequencesExt

CONSTANTS
  Managers,          \* ForkStateManager objects, constructed or not yet
  Original,          \* the manager the node constructs; the others are copies
  Written,           \* snapshots a write can produce
  Genesis,           \* the state after initializeGenesisAccounts
  Empty,             \* ImmutableMap(): the constructor's state
  ForkBlockNumber, BlockNumbers,
  PastBlockRoots,    \* roots the node passes with a block below the fork
  MaxRoots,          \* bound on the tokens randomHash() mints
  MaxCheckpoints,    \* bound on each checkpoint stack
  NoState            \* Map.get of an unregistered token

ASSUME Original \in Managers /\ ForkBlockNumber \in BlockNumbers

Snapshots == Written \cup {Genesis, Empty}
LocalRoots == 1..MaxRoots
Roots == LocalRoots \cup PastBlockRoots

VARIABLES
  constructed,        \* the managers that exist
  state,              \* m -> _state
  stateRoot,          \* m -> _stateRoot
  initialStateRoot,   \* m -> _initialStateRoot
  stateCheckpoints,   \* m -> _stateCheckpoints
  contextBlockNumber, \* m -> _contextBlockNumber
  contextChanged,     \* m -> _contextChanged
  registryOf,         \* m -> the Map m._stateRootToState refers to
  maps,               \* Map object -> its contents
  minted              \* tokens randomHash() has returned

vars == <<constructed, state, stateRoot, initialStateRoot, stateCheckpoints,
          contextBlockNumber, contextChanged, registryOf, maps, minted>>

NoRegistry == [t \in Roots |-> NoState]

\* The Map manager m reads and writes through _stateRootToState.
Registry(m) == maps[registryOf[m]]

\* The node constructs the original and loads the genesis accounts, which
\* re-registers _initialStateRoot (token 1).
Init ==
  /\ constructed = {Original}
  /\ state = [m \in Managers |-> Genesis]
  /\ stateRoot = [m \in Managers |-> 1]
  /\ initialStateRoot = [m \in Managers |-> 1]
  /\ stateCheckpoints = [m \in Managers |-> <<>>]
  /\ contextBlockNumber = [m \in Managers |-> ForkBlockNumber]
  /\ contextChanged = [m \in Managers |-> FALSE]
  /\ registryOf = [m \in Managers |-> m]
  /\ maps = [o \in Managers |->
              IF o = Original THEN [NoRegistry EXCEPT ![1] = Genesis]
                              ELSE NoRegistry]
  /\ minted = 1

-----------------------------------------------------------------------------

\* copy(): the constructor mints t and registers Empty under it in the new
\* Map n; then _state, _stateRoot and _stateRootToState are the original's.
copy(m, n) ==
  /\ n \notin constructed
  /\ minted < MaxRoots
  /\ LET t == minted + 1 IN
     /\ minted' = t
     /\ initialStateRoot' = [initialStateRoot EXCEPT ![n] = t]
     /\ maps' = [maps EXCEPT ![n] = [NoRegistry EXCEPT ![t] = Empty]]
  /\ constructed' = constructed \cup {n}
  /\ state' = [state EXCEPT ![n] = state[m]]
  /\ stateRoot' = [stateRoot EXCEPT ![n] = stateRoot[m]]
  /\ registryOf' = [registryOf EXCEPT ![n] = registryOf[m]]
  /\ UNCHANGED <<stateCheckpoints, contextBlockNumber, contextChanged>>

\* A write (putAccount, putContractStorage, deleteAccount, ...) replaces
\* _state with another snapshot.
write(m) ==
  /\ \E s \in Snapshots \ {state[m]} : state' = [state EXCEPT ![m] = s]
  /\ UNCHANGED <<constructed, stateRoot, initialStateRoot, stateCheckpoints,
                 contextBlockNumber, contextChanged, registryOf, maps, minted>>

\* getStateRoot: mint and register a token when _state is not the state
\* registered under _stateRoot in m's Map.
MintRootIfDirty(m) ==
  IF Registry(m)[stateRoot[m]] # state[m]
  THEN /\ minted < MaxRoots
       /\ minted' = minted + 1
       /\ stateRoot' = [stateRoot EXCEPT ![m] = minted + 1]
       /\ maps' = [maps EXCEPT ![registryOf[m]][minted + 1] = state[m]]
  ELSE UNCHANGED <<minted, stateRoot, maps>>

getStateRoot(m) ==
  /\ MintRootIfDirty(m)
  /\ UNCHANGED <<constructed, state, initialStateRoot, stateCheckpoints,
                 contextBlockNumber, contextChanged, registryOf>>

\* Mutant of SetStateRootTo: no "Unknown state root" check.
SetStateRootToUnchecked(m, root) ==
  /\ stateRoot' = [stateRoot EXCEPT ![m] = root]
  /\ state' = [state EXCEPT ![m] = Registry(m)[root]]

\* _setStateRoot: throws "Unknown state root" for a token m's Map lacks.
SetStateRootTo(m, root) ==
  /\ Registry(m)[root] # NoState
  /\ stateRoot' = [stateRoot EXCEPT ![m] = root]
  /\ state' = [state EXCEPT ![m] = Registry(m)[root]]

AdoptRoot(m, root) ==
  /\ SetStateRootTo(m, root)
  /\ UNCHANGED <<constructed, initialStateRoot, stateCheckpoints,
                 contextBlockNumber, contextChanged, registryOf, maps, minted>>

\* setStateRoot, and setBlockContext with an irregular state or a block
\* after the fork: adopt a registered token, outside checkpoints for the
\* latter two.
setStateRoot(m) == \E root \in Roots : AdoptRoot(m, root)

setBlockContextAdopt(m) ==
  /\ stateCheckpoints[m] = <<>>
  /\ \E root \in Roots : AdoptRoot(m, root)

\* setBlockContext at the fork block adopts this._initialStateRoot.
setBlockContextAtFork(m) ==
  /\ stateCheckpoints[m] = <<>>
  /\ AdoptRoot(m, initialStateRoot[m])

checkpoint(m) ==
  /\ Len(stateCheckpoints[m]) < MaxCheckpoints
  /\ MintRootIfDirty(m)
  /\ stateCheckpoints' = [stateCheckpoints EXCEPT ![m] = Append(@, stateRoot'[m])]
  /\ UNCHANGED <<constructed, state, initialStateRoot, contextBlockNumber,
                 contextChanged, registryOf>>

commit(m) ==
  /\ stateCheckpoints[m] # <<>>
  /\ stateCheckpoints' = [stateCheckpoints EXCEPT ![m] = SeqExt!Front(@)]
  /\ UNCHANGED <<constructed, state, stateRoot, initialStateRoot,
                 contextBlockNumber, contextChanged, registryOf, maps, minted>>

revert(m) ==
  /\ stateCheckpoints[m] # <<>>
  /\ stateCheckpoints' = [stateCheckpoints EXCEPT ![m] = SeqExt!Front(@)]
  /\ SetStateRootTo(m, SeqExt!Last(stateCheckpoints[m]))
  /\ UNCHANGED <<constructed, initialStateRoot, contextBlockNumber,
                 contextChanged, registryOf, maps, minted>>

\* Below the fork: ImmutableMap() registered under the caller's root.
setBlockContextBeforeFork(m) ==
  /\ stateCheckpoints[m] = <<>>
  /\ \E root \in PastBlockRoots, h \in BlockNumbers :
       /\ h < ForkBlockNumber
       /\ contextChanged' = [contextChanged EXCEPT ![m] = TRUE]
       /\ state' = [state EXCEPT ![m] = Empty]
       /\ stateRoot' = [stateRoot EXCEPT ![m] = root]
       /\ maps' = [maps EXCEPT ![registryOf[m]][root] = Empty]
       /\ contextBlockNumber' = [contextBlockNumber EXCEPT ![m] = h]
  /\ UNCHANGED <<constructed, initialStateRoot, stateCheckpoints, registryOf,
                 minted>>

restoreForkBlockContext(m) ==
  /\ stateCheckpoints[m] = <<>>
  /\ \E root \in Roots : SetStateRootTo(m, root)
  /\ contextChanged' = [contextChanged EXCEPT ![m] = FALSE]
  /\ contextBlockNumber' =
       [contextBlockNumber EXCEPT ![m] = IF contextChanged[m]
                                         THEN ForkBlockNumber ELSE @]
  /\ UNCHANGED <<constructed, initialStateRoot, stateCheckpoints, registryOf,
                 maps, minted>>

Next ==
  \/ \E m \in constructed, n \in Managers : copy(m, n)
  \/ \E m \in constructed :
       \/ write(m) \/ getStateRoot(m) \/ setStateRoot(m)
       \/ checkpoint(m) \/ commit(m) \/ revert(m)
       \/ setBlockContextAdopt(m) \/ setBlockContextAtFork(m)
       \/ setBlockContextBeforeFork(m) \/ restoreForkBlockContext(m)

Spec == Init /\ [][Next]_vars

-----------------------------------------------------------------------------

CopiesTypeOK ==
  /\ constructed \subseteq Managers
  /\ state \in [Managers -> Snapshots]
  /\ stateRoot \in [Managers -> Roots]
  /\ initialStateRoot \in [Managers -> LocalRoots]
  /\ stateCheckpoints \in [Managers -> Seq(Roots)]
  /\ contextBlockNumber \in [Managers -> BlockNumbers]
  /\ contextChanged \in [Managers -> BOOLEAN]
  /\ registryOf \in [Managers -> Managers]
  /\ maps \in [Managers -> [Roots -> Snapshots \cup {NoState}]]
  /\ minted \in LocalRoots

\* spec.md 4.4 case 2 and section 3: setBlockContext at the fork block
\* resets to the snapshot registered at construction, so every manager's
\* _initialStateRoot is registered in the Map it reads.
InitialRootRegistered ==
  \A m \in constructed : Registry(m)[initialStateRoot[m]] # NoState

=============================================================================
