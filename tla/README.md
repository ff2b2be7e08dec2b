# TLA+ models of the agreement trace harness

This directory models the test harness in `src/agreement/state_machine_test.go` and the generated
stringer in `src/agreement/eventtype_string.go`. The harness checks agreement state machines as I/O
automata. The models cover:
- the trace and the safety properties;
- both adapters, the listener adapter and the player adapter;
- the deterministic test-case validator composed with each adapter;
- the test-case builder, and an abstract specification of what it promises, which it is shown
  to implement;
- an abstract specification of the `ioAutomata` interface, which both adapters are shown to
  implement;
- `eventType.String`.

TLC checks them on small instances. For every value of the constants, TLAPS proves:
- the type invariant;
- three of the validator's safety properties;
- the refinement of the interface by both adapters;
- that the hidden trace is the top-level projection of the visible one;
- that a built test case never changes, and that the builder refines its abstract promise;
- that `eventType.String` never panics.

## The system

| Part | Code | What it does |
|---|---|---|
| trace | `ioTrace` (84-176) | A slice of events. It supports `extend`, `checkWellFormed` (no nil entry) and the queries `Contains`, `CountEvent` and `countAction`. |
| safety properties | `ioPropAll`, `ioPropWrapper`, `directMatchIoSafetyProp` (178-264) | `containsTrace` says whether a trace is in the property. `directMatch` compares fingerprints (`ComparableStr`) position by position. The wrapper feeds a checker one event at a time. |
| listener adapter | `ioAutomataConcrete` (295-388) | Wraps a listener. `transition` calls `callHandler`, which silences the logger, recovers a panic and restores the logger to `os.Stderr`. On success it appends `(input, output)` to the hidden and the visible trace. The hijacked `dispatch` appends every routed event to the visible trace while `handle` runs. `resetTrace` clears both traces. |
| validator | `determisticTraceTestCase.ValidateAsExtension` (405-500) | Points the logger at a blackhole, then checks the shape of the test case and builds the expected trace. It runs `transitionAll`, matches the new part of the hidden trace against the expected trace, and checks the panic expectation and the length. Last it evaluates every safety property on the whole hidden trace. |
| interface | `ioAutomata`, `ioTraceable` (266-294) | `getTrace` is "the trace of the execution so far", and `resetTrace` restarts it. |
| player adapter | `ioAutomataConcretePlayer` (563-642) | The same for a root router. `savedTrace` is a pointer that is nil until the first `transition`, and `resetTrace` sets it back to nil. `callSubmitTop` wraps every action `submitTop` returns as an event, and `transition` appends the input and then all of them. |
| builder | `testCaseBuilder` (503-529) | Appends pairs and properties to three slices. `Build` copies the slice headers into a test case. |
| stringer | `eventtype_string.go` 1-64 | `eventType.String`: the slice of one name string between two offsets of an index table, or `eventType(<n>)` out of range. `_()` fails the build when the constants are renumbered. |
| config defaults | `eventtype_string.go` 65-190 | A generated `package config` literal appended to the same file. Not modelled (see below). |

The parts interact as follows. A test creates an adapter. It may call `transition`, `transitionAll`
and `resetTrace` itself, and it calls `Validate` or `ValidateAsExtension` with test cases, possibly
several times on the same adapter. The validator drives the adapter and reads its hidden trace. The
safety properties read that trace. The only resource shared beyond one adapter is the process-wide
logger.

## Modules

- **`IOTrace`** holds the constants and the operators on traces. These are `Extend`, `WellFormed`,
  `Contains`, `CountEvent`, `CountAction`, `DirectMatch`, `WrapperContains` and `PropContains`.
  - An event is a model value of `Event`, and the nil interface value is `Nil`.
  - The fingerprint `Fp` is a constant operator. Two distinct events may share one.
  - A property checker is the constant predicate `CheckerAccepts` on the prefix it has been fed.
  - `containsTrace` returns one of contained, rejected, error, or panic. Panic covers nil reaching
    `ComparableStr`, or the unsupported checker of `directMatch`.
  - `Extend` is concatenation. The guard `eventsToAppend == nil` tests the variadic slice, and no
    call site passes an empty one, so the error branch is never taken.
  - No operator is recursive, because the proofs use this module.
  - It extends `FiniteSets` ahead of `Sequences`, for the `Cardinality` in `VisibleTop`. In the
    other order tlapm can no longer expand `BSeq` in the proof modules.
- **`IOAutomataConcrete`** holds the adapter state:
  - `hidden` and `visible` are the two traces.
  - `sink` is the logger output.
  - `rHandle` records whether the router handle has been allocated.
  - `vorigin` and `nsteps` are history variables. For each visible entry, `vorigin` records which
    handle call produced it and whether it was a top-level entry. `nsteps` counts handle calls.

  `Handle(in, ds, res)` is one whole `transition`. It covers `callHandler`, the dispatches `ds`
  routed by the listener, the outcome `res` (an output event or `Panic`), the early return on a
  panic, and the four `extend` calls. `ResetTrace` is `resetTrace`.

  `VisibleTop`, the top-level entries of `visible` in order, is written without recursion.
  `TopIdx` is the set of top-level positions. Entry `k` is the position in `TopIdx` with
  `k - 1` positions of `TopIdx` before it, counted with `Cardinality`. TLC checked that this
  form equals `SelectSeq(visible, ...)` filtered on `vorigin` on every state of
  `mc_validator`. The proof could not use the `SelectSeq` form (see Proofs).
- **`TraceValidator`** composes the validator with the adapter and with the test code around it.
  - `vpc` is the validator's program counter: `idle` while test code runs, `run` inside
    `transitionAll`, and `check` once the loop ends.
  - The locals are `tc`, `existing` (`existingTraceLength`), `expected`, `idx` (the loop index) and
    `panicked`. `verdict` is the result of the last validation.
  - The actions are as follows.
    - Test code does `DirectTransition` and `Reset`.
    - `ValidateMalformed` and `ValidateNilOutput` are the runtime-error returns at 420 and 437.
    - `ValidateBegin` starts a validation. It runs up to the call of `transitionAll`.
    - `RunStep` is one iteration of `transitionAll`, and `RunDone` ends the loop.
    - `Check` covers lines 441-500 and the deferred restore of the logger.
  - `CheckVerdict` follows the early returns of 444-499 in the code's order. `PropsVerdict` is the
    loop at 489-497. `DivergedVerdict` is the divergence return at 453-456. Its error message
    formats the whole extension with `ioTrace.String`, which calls `ComparableStr` on every entry.
    A nil past the first differing position, which the prefix match never reached, therefore
    makes `ValidateAsExtension` panic there instead of returning "diverged".
- **`IOAutomaton`** is the abstract specification of the interface. Its one variable is `trace`.
  `Step(in, outs)` appends an input and then a sequence of outputs, and `Reset` empties the trace.
  A panicking transition is a stutter. `Outputs` is a constant: one event for a listener, and up
  to `MaxActions` actions for a player. `TraceValidator` and `PlayerValidator` each instantiate it
  with a refinement mapping: the hidden trace for the listener, `*savedTrace` for the player.
- **`PlayerAdapter`** holds the player's state: `saved` (the pointer, `{}` for nil and `{t}` for a
  trace `t`), `tracer`, `sink` and the history variable `nsteps`.
  - `PlayerTransition(in, res)` is one whole `transition` with `callSubmitTop`. The router's
    result `res` is up to `MaxActions` events, or `Panic`.
  - `PlayerResetTrace` sets the pointer to nil.
  - `TraceOf` is the dereference.
- **`PlayerValidator`** composes the player with `ValidateAsExtension`. It reuses the validator's
  operators (`ShapeOK`, `ExpectedTrace`, `CheckVerdict`) through `INSTANCE TraceValidator`, with the
  player's trace as `hidden`. Its actions mirror those of `TraceValidator`, with one addition:
  `ValidateNilTrace` is the nil dereference of `getTrace` at line 425 (`*w.savedTrace`, line 574), which unwinds as a panic.
  The history variable `counts` records how many actions each handled input produced.
- **`TestCaseBuilder`** keeps Go's memory:
  - a slice is a header `[arr, len, cap]` into the backing array `mem[arr]`;
  - `GoAppend` follows the runtime, writing in place while `len < cap` and otherwise copying into
    an array of twice the capacity;
  - `AddInOutPair`, `AddSafetyProp` and `Build` are actions;
  - the history variable `snap` records what each built case held when `Build` returned it.
- **`TestCaseBuilderAbstract`** is what the builder promises (spec 4.6): `cur` holds three
  sequences; `AddInOutPair` appends to inputs and outputs in lockstep, `AddSafetyProp` to the
  properties, and `Build` appends `cur` to `cases`. `TestCaseBuilder` instantiates it with the
  refinement mapping `cur <- Contents(mem, b)` (what the builder's three headers read in `mem`)
  and `cases <- ` what each built case's headers read now.
- **`EventTypeString`** translates the stringer's tables, `String`, Go's bounds checks on an
  array index and a string slice, and `strconv.FormatInt`. A run-time panic is a result of its
  own. A step is one call on an argument in `-ProbeBound..ProbeBound`. `NameLengthAssumption`
  states that the table's last offset is the length of the name string. The stringer generates
  the table that way, and TLC evaluates the assumption on every run.
- **`MC_TraceValidator`** and **`MC_PlayerValidator`** instantiate the validator for TLC.
- **`TraceValidatorProofs`**, **`TraceProjectionProofs`**, **`PlayerValidatorProofs`**,
  **`TestCaseBuilderProofs`**, **`TestCaseBuilderRefinementProofs`** and
  **`EventTypeStringProofs`** hold the TLAPS proofs.

## Runs

The `mc_validator` run and its violation runs use `MC_TraceValidator` with the following
constants:
- the events `a`, `a2` and `b`, where `a` and `a2` share the fingerprint "A";
- test inputs `{a, Nil}` and test outputs `{a2, b, Nil}`;
- routed events `{b}`, with at most one dispatch per handle call;
- at most 3 handle calls, 2 inputs per test case, 1 safety property per test case and 2 validations;
- one property each of the kinds `directMatch`, wrapper, and wrapper around `directMatch`. The wrapper's checker rejects two equal fingerprints in a row. `ioPropAll` is left out because, with at most one property per case, it gives the verdict of an empty list.

With these bounds the following cases all happen:
- a validation after earlier transitions;
- a validation after a reset;
- panics on the first and on the last input;
- a dispatch followed by a panic;
- nil inputs and nil expected outputs;
- every verdict.

| Run | Expect | What it shows |
|---|---|---|
| `mc_validator` | pass (1.0M states, 75 s) | `HiddenIsVisibleProjection`: across dispatches, panics and resets the hidden trace is exactly the visible trace with routed events removed. `ValidateSoundFresh`: on an automaton with an empty trace, `(nil, nil)` means the run produced exactly the expected pairs and panicked exactly when one input was left without an output. `RuntimeOnlyFromHarness`: a runtime error after the run occurs only when the hidden trace holds nil. `PanicOnlyFromContractViolation`: a panic escapes `ValidateAsExtension` only from the verdict computation, on a trace holding nil or a wrapper around `directMatch` (whose `newPropChecker` panics "Unsupported", line 263). The panic may come from the prefix match, from the divergence message (455) or from a property. `ImplementsIOAutomaton`: the hidden trace refines `IOAutomaton`. |
| `mc_validate_sound` | violation | `ValidateSound` fails. The automaton has already run, and the listener panics on the first of two expected pairs. The prefix match accepts the short extension, and line 476 measures the whole trace, so the verdict is a pass. This is a code bug. |
| `mc_hidden_wellformed` | violation | A nil input enters the trace (`extend` does not check elements). |
| `mc_visible_causal` | violation | Routed events precede their cause in the visible trace. |
| `mc_logger_suppressed` | violation | `callHandler` restores `os.Stderr` in the middle of a validation, ending the suppression set at 415. |

`mc_player` and its violation runs use `MC_PlayerValidator`. It has the same events, fingerprints,
test inputs and outputs. In addition:
- each `submitTop` returns at most 2 actions, or panics;
- there are at most 3 transitions and one validation;
- the properties are `directMatch` and the wrapper.

The wrapper around `directMatch` is left out here. It is handled by code shared with the listener,
and `mc_validator` covers it. The bounds still reach the cases that matter:
- a validation on a nil pointer, both before the first transition and after a reset;
- a validation on an empty trace and on a non-empty one;
- inputs that yield zero, one or two actions;
- a panic inside the loop.

| Run | Expect | What it shows |
|---|---|---|
| `mc_player` | pass (1.0M states, 75 s) | `PlayerValidateSoundOneAction`: on an empty trace, a pass is exact when every input produced one action. `ImplementsIOAutomaton`: `*savedTrace`, with nil read as empty, refines `IOAutomaton`, with all of an input's actions appended after it. |
| `mc_player_sound_fresh` | violation | On a fresh player, a last input that yields two actions still passes. The extra action lies beyond the expected trace, which the prefix match and the lower-bound length check at 476 do not see. |
| `mc_player_nil_trace` | violation | After `resetTrace`, or before any transition, `ValidateAsExtension` panics at `getTrace` (574, called at 425). |
| `mc_builder` | pass (288K states, 4 s) | `BuiltCaseImmutable`: the spec's "immutable test case on build" holds. The case's slices alias the builder's arrays, and later appends write into those arrays in place, but always beyond the case's length. Five adds push every slice through capacities 1, 2, 4 and 8, with three builds in between. `ImplementsBuilderPromise`: read through Go's memory, the builder refines `TestCaseBuilderAbstract`; appending the output to the input slice (mutant `AddInOutPairOpsOutputsFromInputs`) breaks it. |
| `mc_eventtype_string` | pass (121 states) | `StringNamesConstant`: every constant renders as its own name. `StringNeverPanics`: this holds on `-60..60`, including the boundary 42. |

Each property of a passing run has a mutant, listed in `PROJECT.json`, that TLC must catch:
- `resetTrace` clears only the hidden trace;
- the panic-missing check is dropped (it breaks both soundness properties);
- a checker rejection is reported as an error;
- `directMatch` loops over the reference and indexes past the trace;
- the output is appended before the input, in either adapter;
- `Build` hands out an alias of the builder;
- `AddInOutPair` appends the output to the input slice;
- a stale index table;
- the range check of `String` is off by one.

Only safety is checked, so no fairness is assumed. Every operation of the harness is a synchronous
call that returns or panics, and there is nothing to wait for. Deadlock is checked in the validator
runs, whose model only stops when the bounds are used up. The builder run does not check deadlock,
because a test may stop calling the builder at any point.

## Proofs

`TraceValidatorProofs` proves the following for every value of the constants that satisfies the
assumptions:

- **`TypeCorrect`**: `Spec => []TypeOK`. `TypeOK` is proved here and is not a property of a run.
  The bugs the code could have keep every trace a sequence of events or nil. For example, a missing
  early return at 354-357 would append `(in, nil)`. So no mutant of the code breaks `TypeOK`.
  - `TypeOK` is inductive as it stands. `InitType` and `NextType` prove the base case and the step.
  - The main step is `TransitionType`: one `transition` keeps the traces sequences of events or
    nil, and keeps `Len(vorigin) = Len(visible)`.
  - It rests on `DispatchSeqsType`, `TagsType`, `ConcatOrigin`, `Concat3Type`, `ExpectedTraceType`
    and `CheckVerdictType`.
- **`ValidationInvariant`**: `Spec => [](TypeOK /\ ValidationInv)`. `ValidationInv` is the
  strengthening that `ValidateSoundFresh` needs.
  - In idle, `idx = 1` and there was no panic.
  - During the run and the check, the test case is well shaped, `expected = ExpectedTrace(tc)`,
    `idx <= Len(inputs) + 1` and `Len(hidden) = existing + 2 * (idx - 1)`.
  - During the run there was no panic.
  - At the check, a panic means `idx <= Len(inputs)`, and no panic means `idx = Len(inputs) + 1`.
  - The step is `ValidationStep`, with one case per action. `TransitionHidden` says one transition
    adds two entries, or none after a panic.
  - TLC checked `TypeOK /\ ValidationInv` as an invariant of the `mc_validator` configuration
    before it was proved.
- **`ValidateSoundFreshCorrect`**: `Spec => ValidateSoundFresh`.
  - `FromCheck` shows that the only step out of the check is `Check`.
  - `OkMeansMatch` derives `RunMatchesTestCase` from a pass verdict, `ValidationInv` and
    `existing = 0`. The prefix match (`DirectMatchContained`) gives the entries. The
    panic-expectation branches and the length check pin `idx` to `Len(outputs) + 1`.
  - The argument needs `existing = 0` at exactly one point: the length check at line 476 compares
    `Len(hidden)`, not the length of the extension. The `mc_validate_sound` run shows that the
    property fails without it.
- **`RuntimeOnlyFromHarnessCorrect`**: `Spec => RuntimeOnlyFromHarness`, from `TypeCorrect` alone.
  - `CheckVerdictRuntime`: a runtime verdict at the check comes from the property loop.
  - `PropsVerdictRuntime`: the property loop reports an error only through a property that
    reported one.
  - `DirectMatchNoError`: `directMatch` never reports one, so the error comes from `ioPropWrapper`
    rejecting a trace that is not well formed.

- **`PanicOnlyFromContractViolationCorrect`**: `Spec => PanicOnlyFromContractViolation`.
  - A return to idle with a panic verdict is not one of the validation starts. They all increment
    `nvalid`, so the step is `Check` (by `FromCheck`).
  - `CheckVerdictPanic`: the panic comes from the prefix match, from the divergence message or
    from the property loop. In the first case `DirectMatchPanic` yields a nil entry of the
    extension. In the second, `DivergedVerdict` panics only on an extension that is not well
    formed. Either way, `ExtensionEntries` (built on `SubSeqProperties`) places the nil in the
    hidden trace.
  - `PropsVerdictPanic`: the loop panics at the first property that does not return contained.
    `LeastIndex` picks it with `WFMin` over `<` on `Nat`, which is well founded. That property
    is a `directMatch` on a trace with nil, or a wrapper around `directMatch`.
- **`ImplementsIOAutomatonCorrect`**: `Spec => Abstract!Spec` for the listener. `TransitionRefines`
  shows that a transition is an abstract `Step`, or a stutter after a panic. It uses
  associativity of `\o` and `SeqEqual` for `<<in>> \o <<res>> = <<in, res>>`. Each other
  action leaves `hidden` alone or is `Reset`. The input of a `RunStep` is an event or nil by
  `TypeOK` and `TestEventsAssumption`.

`PlayerValidatorProofs` proves two results for the player.

- **`PlayerImplementsIOAutomatonCorrect`**: the same refinement as for the listener.
  - The trace needs no invariant: `TraceOf({t}) = t` makes a transition exactly an abstract step.
  - The one invariant is `InputsOK`: the current test case's inputs are a sequence of test
    inputs, and `idx` is positive. `PlayerInputsAssumption` then makes every input an event or nil.
  - The validator's assumptions are not available through `INSTANCE`, so the module declares its
    own.
- **`PlayerValidateSoundOneActionCorrect`**: `Spec => PlayerValidateSoundOneAction`.
  - The strengthening is `PlayerRunInv`. It is `ValidationInv` for the player, with the type
    facts it needs, and one change. A transition adds the input and all of `submitTop`'s actions,
    so the length equation `Len(TraceOf(saved)) = existing + 2 * (idx - 1)` is stated only under
    `OneActionEach`.
  - The conditional equation is inductive. `counts` only grows during a run, so once an input
    produced a number of actions other than one, `OneActionEach` stays false until the next
    `ValidateBegin` clears `counts`.
  - The step lemmas are `PlayerTransitionLen`, `PlayerEarlyReturn`, `PlayerBegin` and
    `PlayerRun`. `PlayerOkMeansMatch` and `PlayerFromCheck` then repeat the argument of
    `OkMeansMatch`.
  - Through the instance `V`, `V!DirectMatch` and `V!MinNat` are symbols of their own to the
    prover and have to be expanded by those names.
  - TLC checked `PlayerRunInv` as an invariant of the `mc_player` configuration (821,671
    distinct states) before it was proved.

`TestCaseBuilderProofs` proves **`BuiltCaseImmutableCorrect`**, `Spec => []BuiltCaseImmutable`,
for any events, properties and bounds.
- The model keeps Go's memory. A slice is a header `[arr, len, cap]` into the backing array
  `mem[arr]`, so the theorem is about aliasing: Build copies headers, and append may write into a
  shared array in place.
- The inductive invariant is `IInv`, that is `Good(mem, b, Hdrs(built), snap)`. It holds that:
  - every header is valid (`len <= cap`, nil has capacity 0, the array exists with `cap` slots);
  - the builder's three fields use distinct arrays (`Disjoint`);
  - every header of a built case is `Behind` the builder: it shares an array only with the same
    field of the builder, and is no longer than it;
  - every built case reads as its snapshot.
- `Keeps(m, m2, a, n)` says `m2` changes no slot of `m` except those of array `a` past `n`.
  `ReadFrame` shows a valid header that is not in that region reads the same in both.
- `EnsureNonNilProps`, `GoAppendProps` and `ContentsFrame` state what the two slice operations
  do. `EnsureGood` and `AppendGood` lift them to `Good`.
  - The key case of `AppendGood` is an in-place append into an array a case shares: the write is
    at `len + 1` of the builder's field. `Behind` puts every sharing case at or below `len`.
- `AddInOutPair` is four single-field operations on intermediate builders: both nil checks, then
  both appends. `EnsureGood` and `AppendGood` apply in turn. `AddSafetyProp` is two of them.
  `BuildGood` adds a case equal to the builder, `Behind` itself by `Disjoint`.
- Before the proof, TLC checked `IInv` on the `mc_builder` instance. That run used bounded
  copies of `Arrays` and `Hdr`, because `Nat` cannot be enumerated.
- The proof does not hold without `Disjoint`. If two fields shared an array, an append through
  one would write into the other's visible slots. `Disjoint` holds because every fresh array is
  `Len(mem) + 1`.

`TestCaseBuilderRefinementProofs` proves **`ImplementsBuilderPromiseCorrect`**,
`Spec => ImplementsBuilderPromise`: the builder, read through Go's memory, implements
`TestCaseBuilderAbstract` for any events, properties and bounds.
- The invariant is `RInv`: `IInv` from `TestCaseBuilderProofs`, and `snap` a sequence of
  three-field records. TLC checked it on the `mc_builder` constants (287,869 distinct states),
  again with bounded copies of `Arrays` and `Nat`.
- `GoAppendRead` is the central operator lemma: a valid header, after `append(s, v)`, reads as
  the old contents with `v` appended, both when the write is in place and when the array grows.
  `ReadSeq` says a valid header reads
  as a sequence.
- `EnsureReads` and `AppendReads` say that one nil check or one append on a field of a builder
  with `BuilderOK` (valid, disjoint headers) changes that field's reading as above and leaves the
  other two fields' readings alone. Their single-conclusion forms (`EnsureReadsOwn`,
  `AppendReadsOther`, ...) are what the action proofs cite.
- `AddInOutPairContents` and `AddSafetyPropContents` chain those lemmas over the intermediate
  builders of each action: `Contents` changes exactly as the abstract action says.
- For the cases, `CasesAreSnaps` shows from `Good` that every built case reads as its snapshot,
  so the mapped `cases` equals `snap` in every reachable state (`CasesBarIsSnap`). `Build`
  appends `Contents(mem, b)` to `snap`, and the add actions leave `snap` alone: that is why the
  mapped `cases` never changes on an add, although the memory under the cases does.
- The step `<1>2` then has one case per action: each is the abstract action of the same name, and
  a stutter maps to a stutter.

`TraceProjectionProofs` proves **`HiddenIsVisibleProjectionCorrect`**,
`Spec => []HiddenIsVisibleProjection`, for every value of the constants.
- The inductive invariant is `ProjInv == ProjOK(visible, vorigin, hidden)`. It has three parts:
  - the number of top-level positions is `Len(hidden)`;
  - for each `k`, some top-level position has rank `k - 1`;
  - `hidden[k]` is the visible entry at that position.
  The middle part is needed because the `CHOOSE` in `TopPos` says nothing unless a witness
  exists. `HiddenIsVisibleProjection` itself cannot serve as the invariant, because it does not
  give that witness.
- `AppendBlocks` is the main step. Appending routed entries tagged non-top-level and then the
  top-level pair keeps `ProjOK`. The old top-level positions keep their ranks (`RankPrefix`),
  because every new position lies past them. The `m`-th new top-level position has rank
  `Len(hidden) + m - 1` (`RankNew`). A rank identifies its position (`ChooseRank`, from
  `RankMono`: ranks grow strictly along a finite set of naturals).
- `TransitionProj` applies `AppendBlocks` to one `transition`: the dispatches are the routed
  block, and `TopPair` is the top-level block, empty after a panic. `ProjEmpty` covers `Init`
  and `resetTrace`. Every other action leaves the traces and `vorigin` alone (`ProjStep`).
- `ProjInvImpliesProjection` turns `ProjInv` into `hidden = VisibleTop` by extensionality.
- The cardinality facts come from `FiniteSetTheorems` (`FS_Interval`, `FS_Union`, `FS_Subset`).
- Before the proof, TLC checked `ProjInv` as an invariant of the `mc_validator` configuration
  (995,691 distinct states).
- Inside `AppendBlocks` the proof-local names of the new traces are hidden. Expanded, the `\o`
  and `Tags` terms keep the SMT backend from proving even the record step
  `vo2[i] = T1[i - nv] /\ T1[i - nv] = [call |-> c, top |-> FALSE] => vo2[i].top = FALSE`.

`EventTypeStringProofs` proves **`StringNeverPanicsCorrect`**, `Spec => []StringNeverPanics`.
- `StringReturns` is the core lemma. It covers every integer, not only the probed range:
  - outside the table, `String` returns through `FormatInt`;
  - inside it, the guard `i >= len(_eventType_index) - 1` leaves `i \in 0..41`, so both table
    reads are in bounds (`IndexLen`);
  - the slice `_eventType_name[a[i]:a[i+1]]` is in bounds because the offsets start at 0 and
    never decrease (`IndexMono`), and none lies past the end of the name (`IndexWithinName`).
- The inductive invariant `StringInv` says that `out` is `String(i)` for the last argument. TLC
  checked it on the `mc_eventtype_string` instance first.
- The one fact about the string is `Len(_eventType_name) = 590`. It comes from
  `NameLengthAssumption`, which TLC evaluates, because tlapm cannot count a string's
  characters. The off-by-one guard (mutant `StringGuardOffByOne`) is what the proof excludes:
  at `i = 42` the read `a[i+1]` is out of bounds.

`CheckVerdict` is written as an IF chain, not a CASE, because the code's early returns are
first-match. A CASE with overlapping guards would leave the verdict unspecified in the proofs.

Model-checked and not proved:
- **The `SelectSeq` form of `VisibleTop`.** tlapm cannot unfold `SelectSeq` at all: it fails on
  `SelectSeq(<<1>>, LAMBDA x : TRUE) = <<1>>`. `SelectSeq` is a recursive function applied to an
  operator argument. Unfolding it needs the recursion theorem of `WellFoundedInduction`, and that
  theorem takes an operator parameter. That is why `VisibleTop` uses ranks. TLC alone shows that
  the rank form equals the `SelectSeq` form.
- **`StringNamesConstant`.** It is about the characters of the strings
  `String` returns. tlapm treats string literals as opaque values: it cannot prove even
  `Len("abc") = 3`, let alone that a slice of the name string spells `votePresent`. TLC evaluates
  `String` on every probed value.
- **Liveness and `ENABLED`**, which are beyond TLAPS.
- **Anything proved by induction over the data.** The library's induction theorems take an
  operator parameter, which the installed provers cannot instantiate.

## Plan for the next sittings

1. A `LoggerSink` module with two tests running in parallel on the process-wide logger. Nothing in
   src/ runs tests in parallel yet.
2. An `MC_IOTrace` run that checks `DirectMatch`, `CountEvent` and `Contains` against reference
   definitions over bounded traces.

## Not modelled

- The agreement listener, router and player themselves. They are outside this directory of the
  source, so a `handle` or a `submitTop` is a nondeterministic choice of its result.
- `String`, `ContainsString` and error wording: formatting only.
- `getTraceVisible` of the player only panics "unsupported", and nothing in src/ calls it.
  `underlying` is a type assertion.
- `eventtype_string.go` lines 65-190: a generated `config.Local` literal of constant values. It has
  no operation or control flow, and no code in src/ reads it, so a model would only copy its data.
