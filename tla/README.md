# TLA+ models of polkahat's forked-state overlay and chai matchers

This directory holds TLA+ models of the code under `src/`, the TLC configurations
that check them, and `PROJECT.json`. That file lists the components, the runs,
the mutants, the map from definitions to source lines, the findings and the hazards.

## 1. Inventory

### 1.1 Components

| Component | Source | State | Operations |
|---|---|---|---|
| Persistent state store + account/storage resolver | `ForkStateManager.ts` | `_state`: immutable map address -> `AccountState` record (`nonce`, `balance`, `code`, each possibly unset; `storage`: key -> hex value or `null` tombstone; `storageCleared`) | `getAccount`, `putAccount`, `modifyAccountFields`, `putContractCode`, `getContractCode`, `getContractStorage`, `putContractStorage`, `clearContractStorage`, `deleteAccount`, `accountIsEmpty` |
| Root registry | `ForkStateManager.ts` | `_stateRoot`, `_initialStateRoot`, `_stateRootToState` (token -> state, meant to be append-only) | `getStateRoot` (lazy minting with `randomHash()`), `setStateRoot`/`_setStateRoot` |
| Checkpoint stack | `ForkStateManager.ts` | `_stateCheckpoints` (tokens) | `checkpoint`, `commit`, `revert` |
| Block-context switcher | `ForkStateManager.ts` | `_contextBlockNumber`, `_contextChanged`, fixed `_forkBlockNumber` | `setBlockContext` (irregular state / at fork / after fork / before fork), `restoreForkBlockContext` |
| Genesis initialisation | `ForkStateManager.ts` | writes to `_state`, re-registers `_initialStateRoot` | `initializeGenesisAccounts` (awaits remote nonces) |
| Original-value cache | `ForkStateManager.ts` | `_originalStorageCache`: `encodeStorageKey(address, key)` -> value | `getOriginalContractStorage` (check, await, fill), `clearOriginalStorageCache` |
| Overlay copy | `ForkStateManager.ts` | a second manager sharing `_state`, `_stateRoot` and `_stateRootToState` | `copy` |
| Unsupported / no-op methods | `ForkStateManager.ts` | none | `dump*`, `getProof`, `generate*Genesis`, `hasGenesisState`, `accountExists` throw; `touchAccount`, `cleanupTouchedAccounts`, `flush` do nothing |
| Async matcher chaining guard | `polkahat-chai-matchers/.../utils.ts` | the chai flag `PREVIOUS_MATCHER_NAME` on an assertion object | `preventAsyncMatcherChaining`, called by each matcher |
| Token delta matchers | `changeTokenBalances.ts`, `changeTokenAllowances.ts`, `tmp/abaxfinance/utils.ts` | none of their own; they read chain state at blocks N-1 and N | `changeTokenBalances`, `changeTokenAllowances`, `getApiAt` |
| Event / error matchers | `emitEvent.ts`, `reverted/revertedWithError.ts`, `utils.ts` | none | event filtering and argument matching; first-key error comparison; recursive `assertArgsArraysEqual` |
| Helpers, types, registration, tests | `contract-helpers.ts`, `PSP22.type.ts`, `eventtypedescriptor.type.ts`, `errors.ts`, `types.ts`, `add-chai-matchers.ts`, `polkahatChaiMatchers.ts`, two test files | none | formatting, declarations and `chai.use` only |

### 1.2 How they interact

The execution engine (the ethereumjs VM, outside this repository) is the only
caller of `ForkStateManager`. It awaits every call, so there is a single writer
(spec.md section 5). Reads whose answer is not local call the `JsonRpcClient` at
`_contextBlockNumber`. That remote data is immutable per height, so it is
modelled as constant functions of (height, address[, key]). Checkpoint, commit and
revert act on tokens only, and revert adopts the state a token names. The
block-context switcher is used by the node when a call runs against an older
block: it calls `setBlockContext`, runs the call, then calls
`restoreForkBlockContext`.

The chai matchers run in the test process against a Substrate node through
`@polkadot/api`. Each matcher stores its name on the assertion object and then
returns a derived promise.

### 1.3 What is hard

- **Lazy root minting**. `getStateRoot` mints a token only when the registered
  state differs from the live one. Checkpoints hold tokens, not states, so
  rollback is correct only if every checkpoint token still names the state it
  had when it was pushed.
- **Three-way slot resolution**. A slot can hold a value, be a tombstone, or be
  absent. `storageCleared` is layered on top. `deleteAccount` stores an "empty"
  record so that the remote is never asked again.
- **Context switching**. Reads go to a different height below the fork. This
  must never happen inside a checkpoint. One case registers the caller's root,
  and `copy()` shares the registry between two managers.
- **Awaits between a read and a write**: `getOriginalContractStorage` and
  `modifyAccountFields`. Also the matchers' reads of two blocks, which other
  extrinsics in the same block can disturb.

### 1.4 Properties that make each component correct

- Store + resolver: a write is read back as written; a zero write, a cleared
  storage or a deleted account masks the remote value; unset fields fall back
  independently.
- Registry: a token, once registered, names the same state forever (I1).
- Checkpoints: revert restores exactly the checkpointed state, and commit changes
  nothing (P2, P3, I4, I5).
- Context: the height changes only when no checkpoint is open (P7), and restore
  returns to the fork block.
- Original-value cache: the cached value was the slot's value at some point of
  the current window, and it is never replaced within the window. Keys that are
  not 32 bytes long fail.
- Copy: every token that either manager may adopt is registered.
- Matchers: the chaining guard rejects every pair of async matchers. The delta
  matcher passes exactly when the asserted transaction moved the balances by the
  given deltas.

## 2. Plan

Modules, in order of importance:

1. `ForkStateManager` (done): store, resolver, registry, checkpoints and block
   context in one module. Its state is shared by all these operations.
2. `VersionedOverlay` (done): the abstract contract. `ForkStateManager` is shown
   to implement it through `INSTANCE ... WITH` a refinement mapping.
3. `OriginalStorageCache` (done): extends the manager with the cache, with
   `getOriginalContractStorage` split at its await. Keys are byte strings, and
   `unpadBytes` and `encodeStorageKey` are operators (`unpadBytes` is
   recursive). One run passes: every read returns the value first observed in
   its window. One run finds a violation: a short key is answered from the
   cache. A write between check and fill is not reachable, because the VM
   awaits every write (section 3).
4. `ForkStateManagerCopies` (done): two managers sharing one registry
   through `copy()`. One run passes and checks only the type invariant: a
   checkpoint-token or registry-sharing property either holds by the shape of
   the model or needs a past-block root the node never passes (section 3). One
   run finds a violation: the copy's `_initialStateRoot` is not registered.
5. `PolkahatMatchers` (done): the chaining guard, the four async matchers and
   the chai Assertion they run on (negate flag, then binding, awaits). It
   replaces the separate `MatcherChaining` and `TokenDeltaMatcher` modules
   planned earlier: the properties worth checking come from how the guard,
   the negate flag and the matchers' awaits interleave, so they belong in one
   module.
6. `ArgsArraysEqual` (done): `assertArgsArraysEqual` as a recursive operator,
   checked against a structural reference.
7. `BlockContextCaller` (dropped): the set/run/restore discipline belongs to
   `HardhatNode`, which is not in this repository, and spec.md section 2 makes
   the context height independent of the active snapshot, so nothing stated
   is left to check beyond what the refinement checks. `ImplementsOverlay`
   requires `restoreForkBlockContext` to return the height to the fork block
   after any sequence of switches (hazard at `ForkStateManager.ts:393`).
8. `getContractCode` and the whole input of `modifyAccountFields` (done, in
   `ForkStateManager`): checked by `ModifyKeepsCode` (hazard at
   `ForkStateManager.ts:444`).

## 3. Modules

### `ForkStateManager.tla`

| Code | Model |
|---|---|
| `_state` | `state`: `[Addresses -> AccountStates \cup {Absent}]` |
| `_stateRoot`, `_stateRootToState` | `stateRoot`, `stateRootToState` (`NoState` = not registered) |
| `randomHash()` | the next natural number (`minted` counts them, bounded by `MaxRoots`); remote roots are model values |
| `_stateCheckpoints` | `stateCheckpoints` (a sequence, top at the end) |
| `_contextBlockNumber`, `_contextChanged` | same names |
| constructor + `initializeGenesisAccounts` | `Init`, `GenesisState` |
| each write method | one action of the same name; `_putAccount` is `PutAccountFields` |
| `getStateRoot` | `getStateRoot`, with the mint in `MintRootIfDirty` (shared with `checkpoint`) |
| `setBlockContext` | four actions, one per case |
| `getAccount`, `getContractCode`, `getContractStorage` | operators (they change no state) |

Modelling decisions:

- **Snapshots are compared by value.** The code compares them by reference.
  `Immutable.Map.set` returns the same instance when nothing changes, so the two
  comparisons differ only when a write produces a new instance equal to the old
  one. The code then mints a spurious extra token, which no read can tell apart.
- **Length checks.** A key or value of the wrong length throws before any
  assignment, so those calls are stutters and are left out. Storage values are
  numbers after `unpadBytes`, and 0 stands for "unpads to nothing".
- **Code hashes.** `keccak256(code)` is abstracted to the code itself, which is
  injective. `KECCAK256_NULL` is the empty code `"0x"`.
- **AccountState.ts** is not in this repository. `makeAccountState` and
  `makeEmptyAccountState` are modelled from spec.md sections 3 and 4.3 and are
  marked `spec_modelled`. The empty account has `storageCleared = TRUE`, so a
  deleted contract's storage is masked.
- **revert** pops first and then adopts the token. Its "Unknown state root"
  branch needs an unregistered checkpoint token, and the refinement property
  rules that out.
- **`modifyAccountFields`** is one atomic step, since the single-writer caller
  awaits it. It is `modifyAccountFieldsWith(a, nonce, balance, codeHash)` over
  every input: each field is given or `Undef` (`??` keeps the resolved one),
  and a given `codeHash` stands for the code it hashes. `storageRoot` is
  dropped by `_putAccount`, so it is not an input.

The module also holds three mutant operators, `putContractStorageNoTombstone`,
`modifyAccountFieldsAtFork` and `checkpointWithoutMint`. They are variants of the mapped definitions and are used
only to check that the properties catch plausible bugs.

### `VersionedOverlay.tla`

This is the contract from spec.md, written without tokens' minting or the
persistent map. Its variables:

- `opinion`: each field or slot is a value, or `Remote`.
- `height`: the remote height that `Remote` opinions are read at.
- `saved`: the opinions recorded by the open checkpoints.
- `named`: token -> opinion.

Its actions:

- writes, which change one account in a prescribed way;
- `Name` and `Begin`, which may give the live opinion a token that named nothing;
- `Fold` (commit), which changes nothing but the stack;
- `Undo` (rollback), which restores the top saved opinion;
- `Jump`, which adopts a named opinion;
- `Rebase` (below fork), allowed only with no checkpoint open and only under an
  unused token;
- `Restore`, allowed only with no checkpoint open, which sets the height back to
  the fork block.

The refinement mapping takes `Opinion(state)`, built from the local half of
`getContractStorage` and `getAccount`, and the opinions of the registered
states. Because opinions leave remote values symbolic, a token names the same
opinion at every context height.

### `OriginalStorageCache.tla`

This module extends `ForkStateManager` with the state of the cache:

- `originalStorageCache` models `_originalStorageCache`. It maps
  `encodeStorageKey(address, key)` to a value, or to `Undef`.
- `inFlight` holds, for each reader, the read it awaits. A reader is one of
  several concurrent callers of `getOriginalContractStorage`.
- Two history variables record what readers saw. `firstSeen` holds the slot's
  value at the first read of each cache key in the window. `returned` holds
  each reader's last answer.

`getOriginalContractStorage` is split into three actions:

- `getOriginalHit`: the key is in the cache, and its value is returned at once.
- `getOriginalMiss`: runs `getContractStorage` up to its await. This covers the
  32-byte check (a key of another length throws, and nothing changes) and the
  local read. The remote value is a function of the context height, which
  cannot change while a read is in flight. So the value is computed here.
- `getOriginalFill`: the continuation after the await. It writes the cache and
  returns.
- `getOriginalRemoteFails`: the fault model. When the value had to come from
  the remote node, `getStorageAt` may reject (an RPC error, or the client's
  timeout). The rejection propagates out of `getContractStorage` and
  `getOriginalContractStorage` before the fill, so nothing is cached and
  nothing is returned.

`clearOriginalStorageCache` replaces the map and starts a new window.

The VM awaits every state-manager write, and it clears the cache at the start
of a message. So every `ForkStateManager` action, and the clear, runs only
while no read is in flight (`OverlayStep`). Reads do interleave with each
other.

Keys are byte sequences. `KeyLength = 2` stands for 32 bytes. The query keys
are the valid key `<<0, 1>>` and the invalid key `<<1>>`. Both unpad to
`<<1>>`, as `0x00..01` and `0x01` do in the code.

### `ForkStateManagerCopies.tla`

Models the root registry of `ForkStateManager` with several managers,
`Managers`, of which `Original` exists at the start. The registry Map is held
by reference. `registryOf[m]` names the Map that manager `m` uses, and `maps[id]`
is that Map's contents. This lets `copy` be modelled as the code writes it:
the constructor registers a fresh `_initialStateRoot` in the new manager's own
Map, and then `copy` replaces `_stateRootToState` with the original's Map.
Snapshots are abstracted to `Genesis`, `Empty` and the `Written` values.
Tokens are `1..MaxRoots` (minted) and `PastBlockRoots` (passed in by the caller).

Actions, for each manager: `copy`, `write` (any state-changing resolver
call), `getStateRoot`, `setStateRoot`, the four cases of `setBlockContext`,
`restoreForkBlockContext`, `checkpoint`, `commit` and `revert`.

The passing run checks only `CopiesTypeOK`. A checkpoint token of one manager
can be overwritten in the shared Map by the other only through
`setBlockContext` below the fork with a root that is already registered, and
the node passes there the root of a past block, which the overlay never mints
(that overwrite on one manager is the `fsm_past_root` finding). With past-block
roots, a property that every token names the state it was taken of, or that
both managers read one Map, held by the shape of the model, so the run keeps
the type invariant and serves as the passing base of `copies_initial_root`.

### `PolkahatMatchers.tla`

The four async matchers are operators from their inputs to an outcome:
`"pass"` (the promise resolves), `"fail"` (`this.assert` throws an
AssertionError) or `"error"` (any other exception). The operators are
`verifyRevertedWithCustomError`, `emitEvent` (with the recursive per-key
loop `emitEventKeys`), `changeTokenBalances` and `changeTokenAllowances`.
Chain data is abstracted to what the matchers compare:
- decoded events are records of argument strings;
- errors are a variant name with a unit, string or object payload;
- balances are the result of a query at a block. Each entry gains 1 in block
  `TxBlock - 1`, then moves by the transaction's effect `txEff` and the rest
  of the block's effect `otherEff`.

The state is one chai Assertion of a test:
- `objIsPromise`: `expect` was given a promise;
- `negate`: the negate flag;
- `previous`: the `PREVIOUS_MATCHER_NAME` flag;
- `calls`: the matchers started, with their inputs and outcomes;
- `boundTo`: the call that `then` is bound to;
- `thrown`: a synchronous NonChainableMatcherError;
- `phase`: the test's progress;
- `observed`: the outcome the test's await observed.

Actions:
- `not`;
- `callMatcher(m)`: the addMethod callback. It runs the guard, then the async
  function up to its first await, then binds `then` and `catch`;
- `resume(i)`: the rest of the async function after the await. It reads the
  flag as it is at that time, as `this.assert` does;
- `await`, `settle` and `nextTest`.

Whether a matcher awaits before it asserts follows the code:
- `emitEvent` and `revertedWithError` await only when `_obj` is a promise;
- the token matchers await `getBlock` whenever they get past `tx.blockHash`.

### `ArgsArraysEqual.tla`

`innerAssertArgsArraysEqual` and `innerAssertArgEqual` are mutually recursive
operators. Each expected argument is handled by one of four branches:
predicate, Uint8Array, array (recursion) or strict equality. They are compared
with `ArgMatches`, a structural reference. Values are atoms (model values) and
arrays of up to `MaxLen` elements nested one level. A predicate is given by the
set of atoms it accepts.

### `MCForkStateManager.tla`

Model values `a1`, `a2`, `k1`, `c1` and `r0`. Only `a1` is a genesis address
and a target of the write actions. The fork is at block 1, and block 0 (below
the fork) and block 2 (after it) are also nameable. The remote node's data
differs between block 0 and block 1: `a1` has code `c1` at block 0 and none at
the fork block. So a read or a `modifyAccountFields` below the fork resolves
other code than one at the fork block. `a2` is not an address of this run.

## 4. Runs

| Run | Checks | Result |
|---|---|---|
| `fsm_overlay` | `TypeOK`, `ImplementsOverlay` (the refinement), `ModifyKeepsCode` | passes, 58,642 distinct states, about 1 min 30 s |
| `fsm_past_root` | `RegistryAppendOnly` with the caller free to pass any token with a block below the fork | violation in 2 steps: `setBlockContext(initialRoot, 0)` re-registers the genesis root as an empty state (finding, spec.md 4.4 case 4 and I1) |
| `cache_first_observed` | `CacheTypeOK`, `OriginalIsFirstObserved` | passes, 715,752 distinct states, about 50 s |
| `cache_short_key` | `InvalidKeyRejected` | violation in 3 steps: read `<<0,1>>` (miss, fill), then read `<<1>>`, which hits the cache instead of throwing (finding, spec.md 4.3 and section 7) |
| `copies_shared_registry` | `CopiesTypeOK` | passes, 453,390 distinct states, about 15 s |
| `copies_initial_root` | `InitialRootRegistered` | violation in 2 states: after `copy()` the copy's `_initialStateRoot` is in no Map it can read, so `setBlockContext` at the fork block on the copy throws "Unknown state root" (finding, spec.md 4.4 case 2) |
| `matchers_chain` | `MatchersTypeOK`, `EmitEventAgreesWithReference`, `TokenMatchersMeasureTx` | passes, 750,488 distinct states, under 10 s |
| `matchers_chaining_error` | `ChainingErrorNamesMatchers` | violation in 3 states: `changeTokenAllowances` after `emitEvent` throws an error naming `changeTokenBalances` (finding, `changeTokenAllowances.ts:139`) |
| `matchers_stale_negation` | `NegationFixedAtCall` | violation in 4 states: `expect(promise).to.emitEvent(...)`, then `.not`, then the transaction resolves with no event and the matcher, which reads the flag at its assert after the await, passes negated (finding; the commented-out capture at `revertedWithError.ts:70`) |
| `reverted_object_payload` | `RevertedWithErrorMatchesEqualErrors` | violation in 2 states: the call reverted with exactly the expected error, whose payload is an object, and the matcher fails (finding, `revertedWithError.ts:47`) |
| `reverted_negated_success` | `NotRevertedWithError` | violation in 3 states: `.not.revertedWithError(e)` on a call that succeeded rejects with a TypeError from `Object.keys(undefined)` (finding, `revertedWithError.ts:44`) |
| `args_arrays_equal` | `ArgsEqualAgreesWithReference` | passes, 49,686 distinct states, 2 s |

Bounds in `fsm_overlay`:

- one genesis address and one key;
- nonce and balance values `{0}`, storage values `{1}` (0 is the tombstone),
  one contract code;
- `MaxRoots = 2` (the initial root plus one minted token);
- `MaxCheckpoints = 2`.

These bounds are enough for every state a slot or field can be in: unset, value,
tombstone, cleared, deleted. They also cover nested checkpoints over a dirty
state, which needs one mint. Every action fires, including all four cases of
`setBlockContext` and both branches of `getStateRoot` and
`restoreForkBlockContext`. More addresses, or `MaxRoots = 3`, exceed a few
minutes because the registry holds one snapshot per token.

Mutants: dropping the tombstone normalisation breaks `TypeOK`. Pushing
`_stateRoot` in `checkpoint` without `getStateRoot` breaks `ImplementsOverlay`
(rollback no longer restores the checkpointed opinion). A
`modifyAccountFields` that resolves the account at the fork block instead of
`_contextBlockNumber` breaks `ModifyKeepsCode`: below the fork, `a1`'s code
`c1` is replaced by the fork block's empty code. The refinement misses this
mutant because the abstract `SetFields` may mark the code empty. Only
`ModifyKeepsCode` ties the marking to the code that `getAccount` resolved.

Bounds in `cache_first_observed`:

- one address, one valid key and one invalid key, and two readers;
- the remote slot is 1 at and above the fork and 0 below it;
- `MaxRoots = 2` and `MaxCheckpoints = 1`.

With these bounds, two readers can miss the same key before either fills it.
Overlay writes, context switches and checkpoints then happen between windows.

Mutants:
- dropping the key-length check from the miss breaks `CacheTypeOK`;
- a clear that keeps the old map breaks `OriginalIsFirstObserved`: after a
  write, the next window returns the previous window's value;

A remote failure adds no distinct state: it returns the reader to `Idle`,
which the same state already had before the miss. It is enabled whenever a
read of a remote value is in flight.

Bounds in `copies_shared_registry`:

- two managers;
- one written value;
- blocks 0 and 1 with the fork at 1;
- one past-block root;
- `MaxRoots = 4`, so the copy's fresh root and two mints fit;
- `MaxCheckpoints = 1`.

With these bounds, a copy is made after writes and mints, each manager
checkpoints over states the other dirtied, and both context cases run on
either manager. Every action fires.

Mutants:
- `SetStateRootTo` without the "Unknown state root" check breaks `CopiesTypeOK`;

Bounds in `matchers_chain`:

- two event names;
- one argument key with two values;
- up to two events per transaction;
- three error variants, one with each payload kind that `PSP22ErrorBuilder`
  builds (null, a string, a `NoncesError` object), and two strings;
- two token entries, up to two entries and three deltas of 0 or 1;
- `TxBlock = 2`.

These bounds reach:
- one and several events of a name;
- a missing argument;
- fewer, as many and more deltas than entries;
- a transaction alone in its block and one sharing it;
- `.not` before and after every matcher call, with `_obj` a promise or not.

Every action fires, and so do both branches of the guard. A negated token
matcher passes on two entries.

Mutants:
- a `resume` that leaves the call pending breaks `MatchersTypeOK`;
- `emitEvent`'s single-event branch without the has-argument assert breaks
  `EmitEventAgreesWithReference`;
- `changeTokenBalances` reading both balances at the transaction's block
  breaks `TokenMatchersMeasureTx`.

Bounds in `args_arrays_equal`:

- two atoms;
- one predicate;
- arrays of up to two elements, nested one level.

That gives about 25,000 pairs of expected and actual arguments, including an
array against an atom and lengths that differ at either depth. Uint8Arrays are
left out of the expected arguments. `innerAssertArgEqual` compares them with
the placeholder `"todo"`, so with one in (`ByteArrays = {u1}`, `Hex[u1] = a2`)
the property fails at once. The function has no caller yet, so this is
recorded as a hazard, not as a run.

The mutant: dropping the length assert breaks `ArgsEqualAgreesWithReference`.

Also seen while modelling, and recorded as hazards rather than runs:
`changeTokenBalances` compares whole blocks, so another extrinsic in the
transaction's block can make it pass. Extra deltas are ignored.
`TokenMatchersMeasureTx` therefore states the matcher's result only for a
transaction alone in its block with one delta per entry.

## 5. Fairness and liveness

No run checks a liveness property, and no specification assumes fairness.
The one wait in the state manager is `getOriginalContractStorage`'s await on
`getContractStorage`. The event loop runs its continuation once the awaited
promise settles, and spec.md section 5 bounds a remote fetch by the client's
timeout, so weak fairness of the continuation for each reader would be
justified. But in `OriginalStorageCache` the continuation (the fill, or the
rejection of a failed `getStorageAt`) is enabled whenever the reader is in
flight, whatever the other readers do, so "every read that reached its await
completes" would restate that fairness assumption and say nothing about the
code. The cache's correctness is the safety property `OriginalIsFirstObserved`.

The matchers are not given a liveness property. In `PolkahatMatchers`, an
awaiting test can only resume a pending call or settle. If neither were
enabled the state would be a deadlock, which every run already checks.

Runs check deadlock:
- the state-manager models always have an enabled write;
- `PolkahatMatchers` always has `nextTest` once a test is done.

`args_arrays_equal` is the exception. It models one call of a function that
returns, so its cfg sets `CHECK_DEADLOCK FALSE`.

## 6. Not modelled, and why

- Remote fetch failures of the resolver's other reads (`getAccount`,
  `getContractCode`) propagate unchanged and leave no state behind. Only the
  cache read, where a failure falls between a miss and a fill, models them.
- `shallowCopy` returns `this` (hazard at `ForkStateManager.ts:99`). Its caller,
  the VM, is not in this repository, and with no second instance there is no
  state to model.
- Methods that throw unconditionally or do nothing (see `PROJECT.json`).
- Type declarations, plugin registration, `replaceNumericPropsWithStrings`
  (message formatting only) and the two test files. `PSP22.type.ts` and
  `eventtypedescriptor.type.ts` are declarations. Some parts are modelled:
  the error shapes of `PSP22ErrorBuilder` (`Errors`), the two names that
  `NonChainableMatcherError` carries, and the matcher signatures of
  `types.ts` (`InputsOf`). Message text is not.
- `tmp/abaxfinance/utils.ts` (`getApiAt`, gas limits, weight conversion) is
  RPC plumbing. The token matchers' queries are abstracted to a value at a
  block, or a failure.
- `decodeEvents` is abstracted to its result, the decoded events.
- The block context of a copy (hazard at `ForkStateManager.ts:140`). The copy
  gets the constructor's context, not the original's. spec.md says nothing
  about it, so there is no stated behaviour to check.
- Clearing the original-storage cache at a block-context switch (hazard at
  `ForkStateManager.ts:384`). `setBlockContext` leaves the cache alone, and
  its comment relies on the VM to clear it before the next message. spec.md
  section 4.5 also gives that clear to the execution engine, which is not in
  this repository. `OriginalIsFirstObserved` holds within a window whatever
  switches happen in it.
