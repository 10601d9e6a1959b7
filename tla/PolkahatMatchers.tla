--------------------------- MODULE PolkahatMatchers ---------------------------
(***************************************************************************)
(* The async chai matchers of polkahat-chai-matchers: emitEvent,           *)
(* changeTokenBalances, changeTokenAllowances and revertedWithError, and   *)
(* preventAsyncMatcherChaining (src/packages/polkahat-chai-matchers/src/   *)
(* internal).                                                              *)
(*                                                                         *)
(* A test builds one chai Assertion (expect(x)), may set its negate flag   *)
(* (.not), calls a matcher, and awaits the assertion, whose then the       *)
(* matcher bound to its own promise.  Each matcher's async function runs   *)
(* synchronously up to its first await; the rest runs later, and reads    *)
(* the negate flag when it calls this.assert.  The outcome of a matcher is *)
(* computed by an operator translated from its async function:            *)
(*   "pass"  - the promise resolves;                                       *)
(*   "fail"  - this.assert throws an AssertionError;                       *)
(*   "error" - any other exception (a missing block hash, a failed query,  *)
(*             a TypeError).                                               *)
(* Chain data is abstracted to what the matchers compare: decoded event    *)
(* arguments are the strings toString() yields, balances are integers.    *)
(***************************************************************************)
EXTENDS Integers, Sequences

LOCAL SeqExt == INSTANCE SequencesExt
LOCAL SetExt == INSTANCE FiniteSetsExt

CONSTANTS
  EventNames,       \* event names in the contract's metadata
  ArgKeys,          \* event argument names
  ArgValues,        \* argument values, as their toString()
  UnitVariants,     \* error variants with a null payload
  StringVariants,   \* error variants with a string payload
  ObjectVariants,   \* error variants with an object payload
  Strings,          \* string payloads of error variants
  ObjectPayloads,   \* object payloads of error variants (NoncesError)
  Entries,          \* addresses (balances) or [owner, spender] (allowances)
  Deltas,           \* balance changes
  MaxEvents,        \* bound on the events of one transaction
  MaxEntries,       \* bound on the addresses passed to a matcher
  MaxDeltas,        \* bound on the deltas passed to a matcher
  TxBlock,          \* the number of the block the transaction is in
  Undef,            \* undefined
  Null,             \* null, the payload of a unit error variant
  None,             \* no value (no args, no error thrown, nothing observed)
  NoError           \* result.err === undefined: the call did not revert

Outcomes == {"pass", "fail", "error"}

\* chai's Assertion.assert: the expression is negated when the flag is set.
Check(negate, expr) == IF negate THEN ~expr ELSE expr

-----------------------------------------------------------------------------
(* revertedWithError: verifyRevertedWithCustomError.                      *)

\* A PSP22Error as PSP22ErrorBuilder builds it: one key, the variant, with
\* null (insufficientBalance, ...), a string (custom, safeTransferCheckFailed)
\* or a NoncesError object (noncesError) as its value.
Errors ==
  [name: UnitVariants, value: {Null}] \cup
  [name: StringVariants, value: Strings] \cup
  [name: ObjectVariants, value: ObjectPayloads]

RevertInputs ==
  [queryFailed: BOOLEAN, err: Errors \cup {NoError}, expected: Errors]

\* ===: an object decoded from the chain is never the object the test built.
StrictEquals(x, y) == x = y /\ x \notin ObjectPayloads

verifyRevertedWithCustomError(negate, in) ==
  IF in.queryFailed THEN "error"
  ELSE IF ~Check(negate, in.err # NoError) THEN "fail"
  ELSE IF in.err = NoError THEN "error"   \* Object.keys(undefined)
  ELSE IF Check(negate, /\ in.err.name = in.expected.name
                        /\ StrictEquals(in.err.value, in.expected.value))
       THEN "pass" ELSE "fail"

-----------------------------------------------------------------------------
(* emitEvent.                                                             *)

DecodedEvents == [name: EventNames, args: [ArgKeys -> ArgValues \cup {Undef}]]

ArgRecords == UNION {[K -> ArgValues] : K \in SUBSET ArgKeys}

EmitInputs ==
  [hasResult: BOOLEAN, events: SeqExt!BoundedSeq(DecodedEvents, MaxEvents),
   eventName: EventNames, args: {None} \cup ArgRecords]

\* The args of one event agree with the expected ones by toString().
ArgsMatch(e, args) == \A k \in DOMAIN args : e.args[k] = args[k]

\* Mutant of emitEventSingle: no check that the event has the argument, so
\* a missing one is read as undefined.toString().
emitEventSingleUnchecked(negate, e, args) ==
  IF \E k \in DOMAIN args : e.args[k] = Undef THEN "error"
  ELSE IF \E k \in DOMAIN args : ~Check(negate, e.args[k] = args[k])
       THEN "fail" ELSE "pass"

\* One event of that name: for each expected argument, in Object.entries
\* order, assert that the event has it, then that it is equal.
RECURSIVE emitEventKeys(_, _, _, _)
emitEventKeys(negate, e, args, ks) ==
  IF ks = <<>> THEN "pass"
  ELSE LET k == Head(ks) IN
       IF ~Check(negate, e.args[k] # Undef) THEN "fail"
       ELSE IF e.args[k] = Undef THEN "error"   \* undefined.toString()
       ELSE IF ~Check(negate, e.args[k] = args[k]) THEN "fail"
       ELSE emitEventKeys(negate, e, args, Tail(ks))

emitEventSingle(negate, e, args) ==
  emitEventKeys(negate, e, args, SeqExt!SetToSeq(DOMAIN args))

emitEvent(negate, in) ==
  LET withName == SelectSeq(in.events, LAMBDA e : e.name = in.eventName) IN
  IF ~in.hasResult THEN "error"
  ELSE IF ~Check(negate, Len(withName) > 0) THEN "fail"
  ELSE IF in.args = None THEN "pass"
  ELSE IF Len(withName) = 1 THEN emitEventSingle(negate, withName[1], in.args)
  ELSE IF \E i \in DOMAIN withName : ArgsMatch(withName[i], in.args)
       THEN "pass"
  ELSE IF Check(negate, FALSE) THEN "pass" ELSE "fail"

-----------------------------------------------------------------------------
(* changeTokenBalances and changeTokenAllowances.  Every entry gains 1 in *)
(* block TxBlock - 1; in block TxBlock the transaction moves it by txEff  *)
(* and the block's other extrinsics by otherEff.                          *)

TokenInputs ==
  [hasBlockHash: BOOLEAN, queriesOk: BOOLEAN,
   entries: SeqExt!BoundedSeq(Entries, MaxEntries),
   deltas: SeqExt!BoundedSeq(Deltas, MaxDeltas),
   txEff: [Entries -> Deltas], otherEff: [Entries -> Deltas]]

\* The PSP22 balance_of / allowance query through the api at block b.
getBalanceOf(in, b, a) ==
  (IF b >= TxBlock - 1 THEN 1 ELSE 0) +
  (IF b >= TxBlock THEN in.txEff[a] + in.otherEff[a] ELSE 0)

getAllowanceOf(in, b, pair) == getBalanceOf(in, b, pair)

\* tx.blockHash (undefined on a promise), the balances at blocks N - 1 and
\* N, then one assert per entry; deltas[i] undefined makes pre.add throw.
TokenDeltaOutcome(negate, objIsPromise, in, preBalances, postBalances) ==
  LET bad == {i \in DOMAIN in.entries :
                i > Len(in.deltas) \/
                ~Check(negate, postBalances[i] = preBalances[i] + in.deltas[i])}
  IN  IF objIsPromise \/ ~in.hasBlockHash \/ ~in.queriesOk THEN "error"
      ELSE IF bad = {} THEN "pass"
      ELSE IF SetExt!Min(bad) > Len(in.deltas) THEN "error" ELSE "fail"

\* Mutant of changeTokenBalances: both balances read at the tx's block.
changeTokenBalancesSameBlock(negate, objIsPromise, in) ==
  LET Balances(b) == [i \in DOMAIN in.entries |->
                        getBalanceOf(in, b, in.entries[i])]
  IN  TokenDeltaOutcome(negate, objIsPromise, in,
                        Balances(TxBlock), Balances(TxBlock))

changeTokenBalances(negate, objIsPromise, in) ==
  LET post == TxBlock
      pre  == post - 1
      Balances(b) == [i \in DOMAIN in.entries |->
                        getBalanceOf(in, b, in.entries[i])]
  IN  TokenDeltaOutcome(negate, objIsPromise, in, Balances(pre), Balances(post))

changeTokenAllowances(negate, objIsPromise, in) ==
  LET post == TxBlock
      pre  == post - 1
      Allowances(b) == [i \in DOMAIN in.entries |->
                          getAllowanceOf(in, b, in.entries[i])]
  IN  TokenDeltaOutcome(negate, objIsPromise, in,
                        Allowances(pre), Allowances(post))

-----------------------------------------------------------------------------
(* The matchers' names, and preventAsyncMatcherChaining.                  *)

EMIT_EVENT_MATCHER == "emitEvent"
CHANGE_TOKEN_BALANCES_MATCHER == "changeTokenBalances"
CHANGE_TOKEN_ALLOWANCES_MATCHER == "changeTokenAllowances"
REVERTED_WITH_ERROR_MATCHER == "revertedWithError"

Matchers == {EMIT_EVENT_MATCHER, CHANGE_TOKEN_BALANCES_MATCHER,
             CHANGE_TOKEN_ALLOWANCES_MATCHER, REVERTED_WITH_ERROR_MATCHER}

TokenMatchers == {CHANGE_TOKEN_BALANCES_MATCHER, CHANGE_TOKEN_ALLOWANCES_MATCHER}

InputsOf(m) ==
  CASE m = EMIT_EVENT_MATCHER -> EmitInputs
    [] m \in TokenMatchers -> TokenInputs
    [] m = REVERTED_WITH_ERROR_MATCHER -> RevertInputs

\* The name each addMethod callback passes to preventAsyncMatcherChaining.
GuardName(m) ==
  IF m = CHANGE_TOKEN_ALLOWANCES_MATCHER THEN CHANGE_TOKEN_BALANCES_MATCHER
  ELSE m

\* The error preventAsyncMatcherChaining throws; it names the two matchers.
NonChainableMatcherError(matcherName, previousMatcherName) ==
  [matcher |-> matcherName, previous |-> previousMatcherName]

\* The flag is set by the first matcher; any later one throws, unless it is
\* the same matcher and allowSelfChaining (false at every call site).
preventAsyncMatcherChaining(previous, matcherName) ==
  IF previous = None
  THEN [ok |-> TRUE, flag |-> matcherName]
  ELSE [ok |-> FALSE, flag |-> previous]

\* The outcome of matcher m's async function under the given negate flag.
Outcome(m, negate, objIsPromise, in) ==
  CASE m = EMIT_EVENT_MATCHER -> emitEvent(negate, in)
    [] m = CHANGE_TOKEN_BALANCES_MATCHER ->
         changeTokenBalances(negate, objIsPromise, in)
    [] m = CHANGE_TOKEN_ALLOWANCES_MATCHER ->
         changeTokenAllowances(negate, objIsPromise, in)
    [] m = REVERTED_WITH_ERROR_MATCHER ->
         verifyRevertedWithCustomError(negate, in)

\* Whether the async function reaches an await before its first assert:
\* emitEvent and revertedWithError await this._obj when it is a promise;
\* the token matchers await getBlock once tx.blockHash is known.
AwaitsBeforeAsserts(m, objIsPromise, in) ==
  IF m \in TokenMatchers THEN ~objIsPromise /\ in.hasBlockHash
  ELSE objIsPromise

\* Whether the async function reaches a this.assert, the only reader of the
\* negate flag: emitEvent throws first without tx.result; the token
\* matchers without a block hash or on a failed query, and before their
\* first assert when there is no entry or pre.add(deltas[0]) throws;
\* revertedWithError on a query that failed hard.
ReachesAssert(m, objIsPromise, in) ==
  CASE m = EMIT_EVENT_MATCHER -> in.hasResult
    [] m \in TokenMatchers ->
         /\ ~objIsPromise /\ in.hasBlockHash /\ in.queriesOk
         /\ Len(in.entries) > 0 /\ Len(in.deltas) > 0
    [] m = REVERTED_WITH_ERROR_MATCHER -> ~in.queryFailed

\* The flag the asserts read, or None when no assert runs.
FlagRead(m, objIsPromise, in, neg) ==
  IF ReachesAssert(m, objIsPromise, in) THEN neg ELSE None

-----------------------------------------------------------------------------
(* One test: expect(x)[.not].matcher(...)...; await.                      *)

VARIABLES
  objIsPromise,  \* expect(x): x is a promise of the transaction or query
  negate,        \* the Assertion's negate flag
  previous,      \* the PREVIOUS_MATCHER_NAME flag, None until set
  calls,         \* the matchers started on the Assertion, in call order
  boundTo,       \* the call whose promise this.then is bound to (0: none)
  thrown,        \* the error the expression threw synchronously, or None
  phase,         \* "chain": building the expression; "await"; "done"
  observed       \* what the test's await observed, or None

vars == <<objIsPromise, negate, previous, calls, boundTo, thrown, phase,
          observed>>

Calls == [matcher: Matchers, in: EmitInputs \cup TokenInputs \cup RevertInputs,
          negAtCall: BOOLEAN, pending: BOOLEAN,
          outcome: Outcomes \cup {None}, negUsed: BOOLEAN \cup {None}]

\* A fresh expect(obj): the matchers read this._obj as a transaction response
\* or as a promise of one; chai starts with no flags set.
Init ==
  /\ objIsPromise \in BOOLEAN
  /\ negate = FALSE
  /\ previous = None
  /\ calls = <<>>
  /\ boundTo = 0
  /\ thrown = None
  /\ phase = "chain"
  /\ observed = None

\* .not: chai sets the negate flag.
not ==
  /\ phase = "chain"
  /\ negate' = TRUE
  /\ UNCHANGED <<objIsPromise, previous, calls, boundTo, thrown, phase,
                 observed>>

\* The addMethod callback: the chaining guard, then the async function runs
\* up to its first await (to completion if it has none), then this.then and
\* this.catch are bound to its promise.
callMatcher(m) ==
  /\ phase = "chain"
  /\ LET g == preventAsyncMatcherChaining(previous, GuardName(m)) IN
     IF g.ok
     THEN \E in \in InputsOf(m) :
            LET waits == AwaitsBeforeAsserts(m, objIsPromise, in) IN
            /\ previous' = g.flag
            /\ calls' = Append(calls,
                 [matcher |-> m, in |-> in, negAtCall |-> negate,
                  pending |-> waits,
                  outcome |-> IF waits THEN None
                              ELSE Outcome(m, negate, objIsPromise, in),
                  negUsed |-> IF waits THEN None
                              ELSE FlagRead(m, objIsPromise, in, negate)])
            /\ boundTo' = Len(calls) + 1
            /\ UNCHANGED <<thrown, phase>>
     ELSE LET e == NonChainableMatcherError(GuardName(m), previous) IN
          /\ thrown' = [matcher |-> e.matcher, previous |-> e.previous,
                        called |-> m]
          /\ phase' = "done"
          /\ UNCHANGED <<previous, calls, boundTo>>
  /\ UNCHANGED <<objIsPromise, negate, observed>>

\* Mutant of resume: the promise settles but stays pending.
resumeKeepsPending(i) ==
  /\ calls[i].pending
  /\ calls' = [calls EXCEPT ![i].outcome =
                   Outcome(calls[i].matcher, negate, objIsPromise, calls[i].in),
                 ![i].negUsed = FlagRead(calls[i].matcher, objIsPromise,
                                         calls[i].in, negate)]
  /\ UNCHANGED <<objIsPromise, negate, previous, boundTo, thrown, phase,
                 observed>>

\* The rest of call i's async function runs, reading the flag as it is now.
resume(i) ==
  /\ calls[i].pending
  /\ calls' = [calls EXCEPT ![i].pending = FALSE,
                 ![i].outcome = Outcome(calls[i].matcher, negate, objIsPromise,
                                          calls[i].in),
                 ![i].negUsed = FlagRead(calls[i].matcher, objIsPromise,
                                         calls[i].in, negate)]
  /\ UNCHANGED <<objIsPromise, negate, previous, boundTo, thrown, phase,
                 observed>>

\* await expect(...)...: the expression is complete.
await ==
  /\ phase = "chain"
  /\ boundTo # 0
  /\ phase' = "await"
  /\ UNCHANGED <<objIsPromise, negate, previous, calls, boundTo, thrown,
                 observed>>

\* The awaited then settles with the bound promise's outcome.
settle ==
  /\ phase = "await"
  /\ ~calls[boundTo].pending
  /\ observed' = calls[boundTo].outcome
  /\ phase' = "done"
  /\ UNCHANGED <<objIsPromise, negate, previous, calls, boundTo, thrown>>

\* The next test starts from a fresh Assertion.
nextTest ==
  /\ phase = "done"
  /\ \A i \in DOMAIN calls : ~calls[i].pending
  /\ objIsPromise' \in BOOLEAN
  /\ negate' = FALSE
  /\ previous' = None
  /\ calls' = <<>>
  /\ boundTo' = 0
  /\ thrown' = None
  /\ phase' = "chain"
  /\ observed' = None

\* The Assertion's steps: .not, the four matchers polkahatChaiMatchers
\* registers, their resumptions, and the test's await.
Next ==
  \/ not \/ await \/ settle \/ nextTest
  \/ \E m \in Matchers : callMatcher(m)
  \/ \E i \in DOMAIN calls : resume(i)

Spec == Init /\ [][Next]_vars

-----------------------------------------------------------------------------
(* Properties.                                                            *)

MatchersTypeOK ==
  /\ objIsPromise \in BOOLEAN
  /\ negate \in BOOLEAN
  /\ previous \in Matchers \cup {None}
  /\ calls \in Seq(Calls)
  /\ boundTo \in 0..Len(calls)
  /\ thrown \in {None} \cup [matcher: Matchers, previous: Matchers,
                             called: Matchers]
  /\ phase \in {"chain", "await", "done"}
  /\ observed \in Outcomes \cup {None}
  /\ \A i \in DOMAIN calls : calls[i].pending <=> calls[i].outcome = None

\* The settled calls of the matchers in M.
Settled(M) == {i \in DOMAIN calls : calls[i].matcher \in M /\ ~calls[i].pending}

\* A chaining error names the matcher the test called and the matcher it
\* called before (preventAsyncMatcherChaining's matcherName and flag).
ChainingErrorNamesMatchers ==
  thrown # None =>
    /\ thrown.matcher = thrown.called
    /\ thrown.previous = calls[1].matcher

\* Each matcher that reaches an assert asserts under the negation the test
\* wrote before calling it, even when its asserts run after an await (the
\* flag is read by this.assert, after the expression may have gone on to
\* set .not).
NegationFixedAtCall ==
  \A i \in Settled(Matchers) : calls[i].negUsed \in {None, calls[i].negAtCall}

\* emitEvent: plain, it passes exactly when an event of that name was
\* emitted with all the expected args; negated, exactly when no event of
\* that name was emitted; it errors only without a tx result.
EmitEventReference(neg, in) ==
  LET named == {i \in DOMAIN in.events : in.events[i].name = in.eventName} IN
  IF ~in.hasResult THEN "error"
  ELSE IF neg THEN IF named = {} THEN "pass" ELSE "fail"
  ELSE IF \E i \in named : in.args = None \/ ArgsMatch(in.events[i], in.args)
       THEN "pass" ELSE "fail"

EmitEventAgreesWithReference ==
  \A i \in Settled({EMIT_EVENT_MATCHER}) :
    calls[i].outcome = EmitEventReference(calls[i].negUsed, calls[i].in)

\* changeTokenBalances / changeTokenAllowances on a transaction alone in its
\* block with one delta per entry: plain, they pass exactly when the
\* transaction moved every entry by its delta; negated, exactly when it
\* moved none by its delta; they error only when the block or a query is
\* unavailable.
TokenDeltaReference(neg, in) ==
  IF ~in.hasBlockHash \/ ~in.queriesOk THEN "error"
  ELSE IF \A j \in DOMAIN in.entries :
            Check(neg, in.txEff[in.entries[j]] = in.deltas[j])
       THEN "pass" ELSE "fail"

AloneInBlock(in) == \A a \in Entries : in.otherEff[a] = 0

TokenMatchersMeasureTx ==
  \A i \in Settled(TokenMatchers) :
    LET in == calls[i].in IN
    (~objIsPromise /\ AloneInBlock(in) /\ Len(in.deltas) = Len(in.entries)) =>
      calls[i].outcome = TokenDeltaReference(calls[i].negUsed, in)

\* revertedWithError: plain, it passes exactly when the call reverted with
\* an error equal to the expected one; negated, exactly when it did not.
RevertReference(neg, in) ==
  IF in.queryFailed THEN "error"
  ELSE IF Check(neg, in.err = in.expected) THEN "pass" ELSE "fail"

RevertedWithErrorMatchesEqualErrors ==
  \A i \in Settled({REVERTED_WITH_ERROR_MATCHER}) :
    calls[i].negUsed = FALSE =>
      calls[i].outcome = RevertReference(FALSE, calls[i].in)

NotRevertedWithError ==
  \A i \in Settled({REVERTED_WITH_ERROR_MATCHER}) :
    calls[i].negUsed = TRUE =>
      calls[i].outcome = RevertReference(TRUE, calls[i].in)

=============================================================================
