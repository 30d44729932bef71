# Constitutional Agent Testbench in TLA+

A verification project for the Python package `constitutional_agent_testbench`:
TLA+ modules translated from its source, TLC configurations that check them on
small instances, and TLAPS proofs of what holds for every instance.

The package checks structured AI outputs (JSON objects) against a *policy*, an
ordered list of rules such as "field `a.b` is one of these values". It uses
only the standard library, keeps no state between commands and starts no
threads. What makes it hard is elsewhere: a caller's evaluator may do anything
between two calls; several commands may export to one path at once, fail, be
interrupted, or lose power; streams deliver their bytes as they like, close or
break; authors edit policies and suites between commands; and its searches (for
order drift, for a passing response, for contradictions) must not miss what they
look for.

## 1. Inventory

Paths are relative to `src/constitutional_agent_testbench/`.

| Component | State it keeps | Operations | Used by | What makes it correct |
|---|---|---|---|---|
| JSON input (`common.py`) | buffer, bytes used, kind of stream | `load_json`, `load_json_stream`, `parse_json_text` | CLI, playground | never truncates, bounded memory, independent of chunking |
| JSON export (`common.py`) | destination, temporary file, inherited mode | `write_json` | CLI `--output`, playground | atomic, failure leaves the old file, mode kept, nothing else touched |
| JSON values (`common.py`) | the stack of one walk | `canonical_json`, `json_type_name`, `get_field`, `ensure_json_value` | all | identity of values by literal form; limits exact for shared and cyclic values |
| Policy (`policy.py`) | the rules found so far | `validate_policy`, `policy_to_dict` | all | only well-formed rules get through; round trip |
| Evaluator (`evaluator.py`) | none | `evaluate_response`, `_evaluate_rule` | all below | total, closed set of reason codes, compiled = lazy |
| Explanations (`explain.py`) | walk of one path | `explain_response` | CLI | agrees with the verdict it explains |
| Order conformance (`precedence.py`) | observations per order, work charged | `check_order_conformance` | CLI | exhaustive, exact variance, genuine evidence, bounded work |
| Synthetic generation (`synthetic.py`) | response under construction, budget | `generate_synthetic_cases` | CLI, probes | earlier paths survive later ones; gives up only when it must |
| Lint (`authoring.py`) | none | `lint_policy` | CLI, `check-suite` | what it reports is real |
| Probes (`probes.py`) | growing list of cases | `generate_rule_probes` | CLI | each case fails its target, collateral is related, the suite is complete |
| Suites (`suite.py`), coverage (`coverage.py`), comparison (`compare.py`) | a suite | evaluate, count, compare, migrate | CLI | expectations and counts match the evaluator |
| Curation (`curation.py`), inspection (`inspection.py`), triage (`triage.py`) | suite files | merge, select, reduce, shard, capture, deduplicate, import, diff, audit | CLI via `operations.py` | no case or outcome is lost; gates agree |
| Receipts and replay (`receipt.py`, `corpus_receipt.py`, `replay.py`) | receipts and bundles on disk | create, verify, replay | CLI | a pass is earned; a mismatch says which change matters |
| CLI (`cli.py`, `operations.py`, `workflow.py`) | exit status, streams, export | `main` | user | exit status tells the truth; inputs are not overwritten |
| Playground (`playground.py`) | two editors, verdict, result, dialogs | evaluate, export | user | what is shown and exported belongs together |

Interactions are calls, except four: exports meet in the file system;
`check_order_conformance` calls back into a caller's evaluator; commands hand
each other files that authors edit in between; and the playground's callbacks
wait in dialogs.

Left aside: `evals/`, `scripts/`, `release/`, packaging and workflows (they run
the package, they are not part of it).

## 2. Modules

| Module | Models | Notes |
|---|---|---|
| `RuleOrders` | permutations of rule ids in `itertools.permutations` order, adjacent swaps, `_adjacent_swap_path` | operators |
| `OrderConformance` | what an order check promises | abstract |
| `Precedence` | `check_order_conformance` | one action per step of the loop; refines `OrderConformance` |
| `AtomicExport` | what an export promises | abstract |
| `JsonExport` | `write_json` | one action per system call and per failure; refines `AtomicExport` |
| `JsonInput` | `load_json`, `load_json_stream` | one action per `read` |
| `JsonLimits` | `ensure_json_value` | one action per value taken from its stack; on `JsonInput` |
| `JsonValues` | values, `get_field`, `_assign_path`, `_delete_path` | operators |
| `Positions` | what a comprehension with a condition keeps of a list | operators |
| `Evaluator` | rule kinds and reason codes | operators, on `JsonValues` |
| `Explain` | `explain_response` | one action per path segment; on `PolicyAuthoring` |
| `Lint` | `lint_policy` | operators, on `Evaluator` |
| `PolicyAuthoring` | `validate_policy`, `policy_to_dict` | one action per rule; on `Lint` |
| `Synthetic` | `generate_synthetic_cases` | one action per candidate comparison |
| `Suites` | `suite.py`, `coverage.py`, `compare.py`, `inspection.py`, `triage.py`, the functions of `curation.py` | operators, on `Lint` |
| `Curation` | a session of curation commands and policy edits on suite files | one action per command; on `Suites` |
| `Probes` | `generate_rule_probes` | one action per mutation; on `Synthetic` and `Suites` |
| `Receipts` | receipts and bundles made, edited, mixed and checked | one action per operation; on `Suites` |
| `Cli` | `main`, from parsed arguments to the exit status | one action per stage and per write |
| `Playground` | `run_playground` | one action per callback up to its next dialog |
| `MC...` | small instances | values of the constants; `MCPolicies` is a shared pool of rules and responses |
| `...Proofs` | theorems | section 5 |

Each module's header says what it abstracts.

### How the state corresponds to the code

**`Precedence`.** `request` is the call's arguments; `repeats` is
`repeated_results` of the order in progress, `observations` the dictionary of
completed orders, `evaluator_runs` and `observed_result_bytes` the counters.
The loop variable is the first order not in `observations` (`CurrentOrder`).
`Enter` and `Refuse` are the checks before the loop in their order
(`EntryFault`); `RunBuiltin` and `RunEvaluator` are one iteration of the inner
loop, with the contract check, its errors and the charge; `CompareDiffering`
and `CompleteOrder` follow the last repeat; `Classify` builds the report.
A size in bytes is a number carried with the value it measures. Projections are
not stored but computed from the result; the code stores them and a digest.
`trace` is a history variable that only properties read.

**`JsonExport`.** Every writer is a process at one of the steps of `write_json`
(`pc`); `permissions` and `temporary` are its local variables, `temps` its file.
The file system is the environment: a file's content is torn, whole or synced,
a directory entry reaches the disk some time after the rename (`Persist`), and
`PowerLoss` brings back the durable entry, with any content if it was not
synced. `StepFails` is an exception of the kinds that the code catches,
`Interrupt` is a `KeyboardInterrupt`, which only the `finally` clause sees,
`Kill` runs nothing more. The primitive operations of the file system
(`os.replace` is atomic, `NamedTemporaryFile` makes a private new file) are
assumptions about it.

**`JsonInput`.** A source is a sequence of units, each a byte or a character of
one or more bytes. Each `Read` delivers any non-empty prefix of what is left, up
to what was requested, and nothing at the end. `Parse` is abstract: what it
gets either is a JSON document or is not. `JsonLimits` goes on where the outcome
is a value.

**`JsonLimits`.** `heap` is the value that was read, as a graph of Python objects;
`stack` and `nodes` are the function's variables, `walk` is where it is. The walk takes the last element of the
stack, counts it, and refuses it or pushes its items, in the order of the code.

**`PolicyAuthoring`.** `given` is the argument, a document whose rules are
functions from field names to values, or a `Policy` object whose rules have all
fields. `RefuseFields` and `RefusePolicy` are the checks of the whole document,
`AddRule` and `RefuseRule` one iteration of the rule loop, with the index and the
code of the error. `ValidateAgain` hands the result back, as it is or through
`policy_to_dict`; `accepted` remembers what was returned. `Explain` takes the
policy that was returned first and a response: `current_value` and `traversed`
are the variables of the walk along the path of one rule.

**`Evaluator` and its users.** A value is a record tagged with its type, equal to
another exactly when `canonical_json` gives the same text. Numbers count halves,
names are numbers. Compiled and lazy evaluation compare the same markers and are
one operator. In `Synthetic`, `ordered_paths`, `passing_response`,
`constructed_rules` and `compatibility_work` are the variables of the function;
`candidates` and `to_check` are the positions of its two inner loops. The sorted
list of paths is the set of those left, of which `Path` is the first by the sort
key: the loop only ever takes the first. `Probes`
starts with those steps (`Generate`) and goes on from the cases they make;
`to_probe` is what is left of the loop over rules and modes.

**`Suites`, `Curation`, `Receipts`.** A suite is a record with the fields of
`suite.py`. A command reads the files it names and writes one; the commands that
are refused leave everything as it was and are no steps. `authored` is the
history of cases that people wrote. In these modules a policy is its rules. In
`Receipts` it is the whole document, with the `policy_id` that evaluations repeat
and the `schema_version` that only the digest covers; a digest is the value it is of.

**`Cli`.** A path is a name for a file (with its inode), a link or nothing;
another process may change one (`Move`), the reader of a pipe may go away
(`Break`). The stages are `_guard_output`, dispatch, each input, the command,
the export (as `AtomicExport` promises it), standard output, the strict
conditions, standard error, and the interpreter's flush of what is `unflushed`.
`result` is the set of conditions that the command found unmet.

**`Playground`.** A callback runs without serving other events up to its next
dialog, so that it is one action up to there; `phase` is the dialog that is
open, `result` what `export` holds meanwhile.

## 3. Runs

| Run | Instance | Shows |
|---|---|---|
| `precedence_repeats` | 2 rules, 3 repeats, an evaluator that may do any of 15 things at every call; byte bounds in reach | inconclusive reports, work accounting and admission, termination |
| `precedence_orders` | 3 rules, 6 orders, 2 repeats, an evaluator free to answer each order in 6 ways, the same in both repeats | clean reports, exact variance, genuine witnesses, refinement |
| `export_concurrent` | 2 writers, 2 modes with and without special bits; original file, nothing, link or directory at the path | atomicity, outcomes, modes, litter, refinement, termination |
| `export_chmod` | 1 writer, 2 foreign mode changes | the published mode was current |
| `json_input` | sources up to 6 units around a limit of 4 bytes, all chunkings, failures, mixed streams; from one of them, all graphs of 3 objects with up to 2 references each, 2 levels, 4 values | nothing truncated, chunking-independent, bounded; accepts exactly what is within the limits once written out, ends on cycles |
| `explain` | every combination of fields and faults in one rule, as document and object; policies of up to 3 rules; all responses of the pool for those that are explained | what gets through is well formed, nothing is lost, errors name the first fault, lint is right about it; explanations agree with verdicts |
| `probes` | 9,038 policies: all of up to 3 rules from a pool of 20, and others around the limits | the greedy search is sound and gives up only when it must; probes are targeted; their suite is ready and covers every reason code |
| `curation` | 2 commands of every kind and any policy edits, 3 files, 2 pairs of suites to begin with, 4 policies | what a suite says survives curation; gates agree |
| `receipts` | 2 receipts or bundles, 5 policies, 2 suites, 2 responses, any edits and mixtures | a pass is earned, a mismatch says what was edited |
| `command_line` | every kind of command, all strict flags, closed and breaking streams; 6 relations of 2 paths, 1 foreign change | exit status, inputs, flush at exit, termination |
| `help_on_failing_output` | the same instance | expects a violation: see section 4 |
| `playground` | 3 texts in each editor, 2 targets, 4 edits | what is shown and exported belongs together |

Why these bounds are enough to be interesting:

* Orders. With two rules there is one pair of orders, neighbours. With three
  there are six, in a ring of swaps, so a rule can change its meaning between
  orders that are not neighbours, be absent in between, and need an endpoint
  path of three or four orders as its evidence. `MAX_EXHAUSTIVE_RULES` is 7 in
  the code; nothing in it treats more rules differently.
* Repeats. Three, as in the code, when the evaluator may change its mind; two,
  to leave room for all orders, when it may not.
* Exports. Two writers give every order of two renames, chmods and cleanups;
  the writers do not react to each other, so a third adds no new pair.
  `MAX_CHMODS` bounds the foreign process only.
* Input. The limit of four bytes can be met, exceeded by one byte or by a
  multi-byte character across it, with any split around it.
* Graphs. Three objects make chains, shared subtrees whose written size doubles,
  and cycles of each length, with each limit met exactly and exceeded by one.
* Policies. Three rules suffice for two rules at one path and one above or below,
  and for a chain of three paths. `PoolResponses` contains a response for each
  policy of the pool that any response passes, so "no document passes" is
  unsatisfiability; `MAX_COMPATIBILITY_WORK = 9` is exceeded by some policies and
  not by most.
* Curation. Each property compares a suite with what one command makes of it, so
  the first command builds unusual suites (captured under another policy, merged,
  with repeated responses) and the second works on them; the policies differ in a
  bound, in a rule, and in being contradictory.
* Command line. The two paths stand for the output and an input; a third input
  adds nothing that the guard compares. `MAX_MOVES` bounds the foreign process.

Every property has a mutant: a plausible bug in one definition, under which the
run finds that property violated (`Bug...` operators, never used otherwise).

### What some of the properties say

* `VarianceIsExact`: the search compares neighbours only for participation and
  presentation, and uses first-seen tables for outcome and reason; its result is
  nevertheless exactly the variance between *any* two evaluations.
* `WitnessesAreGenuine`: every witness can be checked by its reader. One part,
  `AggregateAloneNeverDecides`, is worth knowing: README lists a changed
  aggregate under identical participation as a cause of drift and the code looks
  for it, but the result contract makes it impossible on its own.
* `WorkIsBounded`: the charge is the work done, of no more evaluations than
  planned; only the last can overrun the budget, and then nothing is reported; and a
  request for the built-in evaluator whose planned work fits is never refused.
* `GreedySearchIsSound`: because paths are taken deepest first, later assignments
  keep what earlier ones built, and the final verification never rejects.
* `FailureIsDeserved`: generation is greedy and README calls it "not a solver"
  that fails closed on some satisfiable policies. Of the reasons README gives,
  only the unpadded object ever occurs: integers are always found through the
  rounded bounds, and an array minimum above the node limit is one that no
  response within the limits meets.
* `GateSplits`: `check-suite` is ready for a suite exactly when it is for each of
  its shards, although two contradicting cases may be in two shards, because a
  contradiction always leaves one of them mismatched.
* `MigrationsAreVisible`: a captured suite regresses under another policy exactly
  where a verdict or a captured reason changes, and `compare-policies` accounts
  for every regression and recovery.
* `EvidenceIsEarned`: also, a receipt that was made honestly mismatches in its
  evaluation exactly when the `policy_id`, the rules' order or a row that
  `compare-policies` would show has changed. The `policy_id` alone is enough,
  because evaluations carry it; a `schema_version` is not.
* `InputsSurvive` holds while no other process changes the paths. The guard looks
  at the paths before the command runs, so that a change in between defeats it;
  the code makes no promise about that, and the property excludes it by name
  (`moves = 0`).

### Fairness

`Precedence!FairSpec` is weakly fair to the function's own steps, not to
`RunEvaluator`: README says the caller's evaluator is not time-limited, so the
liveness properties allow waiting for it for ever. `JsonExport!FairSpec` is
weakly fair to each writer's steps, success or failure: system calls return. It
is not fair to kills, interrupts, power loss or write-back. `Cli!FairSpec` is
weakly fair to the command's own steps except while it reads standard input or
shows the playground's window (`WaitsForUser`): these wait for a person, and
`EndsOrWaitsForUser` allows it. `JsonLimits!LimitsSpec` is weakly fair to the walk
of a value (`Walk`), which nothing can delay, and not to the reading before it:
a stream may never answer. The other specifications check safety only.

`CHECK_DEADLOCK` is on except in `playground` and `curation`, which stop at
their bounds on edits and commands; a finished call stutters explicitly.

## 4. Deviations worth knowing

* `help_on_failing_output` (finding): `docs/OPERATOR.md` says that a closed or
  failing standard output always is `JSON_OUTPUT_ERROR` with exit status 2.
  `--help` and `--version` are printed by `argparse`, outside
  `_write_json_stream`: with a closed output they exit 0, with a failing one the
  interpreter's own flush fails and the status is 120.
* Directory entries are not synced after the rename, so an export that returned
  may be gone after a power failure. The documentation does not promise
  otherwise; `AtomicExport!PowerLoss` says it.
* An interrupt between the creation of the temporary file and the assignment of
  its name, or inside the cleanup, leaves the file behind (`LitterIsAccountedFor`,
  a part of `NothingElseIsTouched`).
* An export that took effect may still end with exit status 2, when writing the
  acknowledgement fails (`StatusTellsTheTruth` says exactly when).

## 5. Proofs

TLAPS checks these for all values of the constants. The type invariants of
`Precedence`, `JsonExport`, `JsonInput` and `Cli` are proved (`TypeCorrect`) and
take no place in the runs.

`JsonInputProofs` assumes only that the limit is a natural number and sources
are well formed. Inductive invariant: the units collected are a prefix of the
source and their bytes add up to what is counted; at the end nothing is left;
before it, the count is within the limit, and all chunks had one type. From it:
`AsksForSomething`, `NothingIsTruncated`, `ReadingEnds`. Without faults of the
stream, `Working` adds that no chunk so far gave a reason to stop: every chunk had
the source's kind, and nothing delivered is without an encoding. So what a run
ends with is a function of the source alone (`ChunksDoNotMatter`), although the
text may be refused at the first bad character or at the limit, whichever comes
first.

The same module goes on with the walk of `ensure_json_value`, of which it assumes that
objects refer to objects and that the limits are natural numbers: there may be any
number of objects, shared, in cycles, with any number of items. `EveryValueIsMeasured`
states the first half of `EveryValueIsDecided`: what is accepted is exactly
what is within the limits when written out, and a refusal gives a true reason. The
property speaks of the root, the walk sees one value at a time; the invariant
(`Accounted`) carries the root's measures over to what waits on the stack:

* the values taken and the sizes of those that wait, each cut off at the nesting limit,
  add up to the root's size. A value has its size counted once for each reference, so
  sharing needs no record of what was seen, and a cycle is cut off by the limit;
* the root nests within the limit exactly if each waiting value nests within the levels
  left to it; and the root is portable exactly if all that waiting values lead to is.

A container's entry has the size of its items' entries and one more
(`ItemsForContainer`), so exchanging it for them keeps the sum (`LoadOfBoth`), and a
refused value is reached from the root. The recursive measures are shown to exist level
by level (`Iterated`), by the least level at which they would not.

`JsonExportProofs` assumes that writers' names differ from the names of what was
there before and that the private mode is a mode. The inductive invariant `IInv`
has four parts, each with a lemma of its own that goes through the actions:

* `TypeOK`;
* `Sound`: what bears the destination's name, in memory and on the disk, is
  synced, and so is a file about to be renamed. Without the second half the
  rename step would not keep the first;
* `Truth`: a writer's document has been at the destination exactly if the writer
  is past the rename, which relates `past` to `pc` and `outcome`;
* `Past`: `past` contains what the destination and the disk hold, so a power
  failure brings back something `AtomicExport` allows.

From it: `NeverTorn`, `TruthfulOutcome`, `TargetUntouched`, and
`ExportIsAtomic`, the refinement: the rename is `Publish`, a writer that ends
without it is `Fail`, a power loss is `PowerLoss`, and every other step stutters
(`QuietStep`). Three more invariants are about modes and litter:

* `Steady`: as long as nobody changes modes, all writers that inherited one
  inherited the same, and the destination, in memory and on the disk, bears it;
* `Current`: with foreign changes, the mode a writer is about to publish is one of
  those the destination had since it started;
* `Accounted`: a temporary file that exists is one that the cleanup will find,
  except between its creation and the assignment of its name.

From them: `ModesArePreserved`, `ModesAreCurrent`, `NothingElseTouched`.

`PrecedenceProofs` assumes what `Precedence` says of its constants: rule ids in a
policy are distinct, the built-in evaluator has a verdict for each rule, what an
evaluator returns is a record with the fields the contract looks at (which may
still break it in every way), and bounds are natural numbers. Its invariant:

* `LoopPosition`: which orders are left, and how many repeats there are, at each
  point of the loop. It needs `FirstOrderExists`: among any orders there is one
  that `permutations()` yields first, whatever the number of rules, proved by
  the least number of leading positions on which no order is ahead;
* `ResultsAccepted`: everything kept has passed the contract, so a rule has at
  most one row in a result;
* `TraceIsKept` and `RunsAreCounted`: every evaluation so far is one of the kept
  results, and each order had as many evaluations as it is due.

From it: `CleanMeansClean`: a report that is clean by its flag
or its status is earned by all evaluations. The argument shows why the code may
skip comparisons. It compares participation between neighbouring orders only, but
a clean report also requires that each order reports every rule
(`InjectiveOrderIsOnto`), so participation cannot vary; and it compares outcomes
and reasons with the first order that reported the rule, which is one order for
each rule, so all orders agree with each other.

`Exact` says the same of reports that are not clean. Its parts are that the repeats
of the order in progress are the end of the trace (`TraceEndsInRepeats`), that
aggregates follow from the rows (`AggregatesAreConsistent`), and the two
properties. `InconclusiveMeansInconclusive`: the search stops at the first order
whose repeats differ, and no earlier order's did. `NoVarianceIsMissed`: neighbours
suffice for participation and presentation because any two permutations are
connected by swaps of neighbours: what no such swap changes is the same for every
order, because of two orders that agree up to m, the rule that belongs at m + 1
can move there one swap at a time. For outcome and reason the first-seen table suffices, because two
rows that differ cannot both equal the first. `CheckKeepsItsPromise` is the
refinement of `OrderConformance`: an order is answered when it is completed, with
what its repeats mean, and the verdict is drawn only when all are.

`WitnessesCanBeChecked` says it of the witnesses. The path between two orders is the
one that `_adjacent_swap_path` bubbles together: each of its swaps exchanges a pair
that the target has the other way round (`BubblingSorts`), so exactly one inversion
goes (`SortingRemovesOne`) and the path is as long as there are inversions
(`SortingPathIsShortest`). What an endpoint witness points at differs because the
first-seen table names an order that really reported the rule; and an aggregate never
differs alone, because the contract lets it follow from the rows
(`AggregateFollowsFromRows`), so that the code's last search is never needed.

`BudgetIsKept` needs that `math.factorial` counts the orders, by induction: taking
the last value out of a permutation of n + 1 numbers leaves one of n
(`SqueezedPermutation`). Its invariant, `WorkInv`, counts the evaluations made by the
orders completed (`WorkIsCounted`). While an order is left, another evaluation is
within the plan (`OneMoreIsPlanned`). The built-in evaluator answers the same whenever
it is asked the same (`BuiltinIsKnown`): its repeats agree, and only the presentation
varies, so its report has at most one witness and is not too large.

`CliProofs` assumes that names differ from the markers `-`, `none` and `invalid`,
and that file systems and invocations are well formed. Its invariant has
`Progress` (what `pc` says about the error, the export and what was shown),
`Buffers` (only a stream that failed and could not be released still holds bytes
that can fail again) and `Guarded` (until another process interferes, the file
system is the first one but for the export, and the guard has compared its name
with every input). From it: `TruthfulStatus`, `StatusSurvives`, and
`InputsAreSafe`, where the work is that the name replaced is neither an input nor
what an input's link leads to.

The module ends with the playground's window, about which nothing is assumed. The
invariant adds to the property that a result held by an open save dialog is the
evaluation of the texts as they are, unedited: the dialog keeps the user from the
editors. From it: `ShownIsOneEvaluation` and `ExportIsCurrent`.

`LintProofs` is about operators: `ConflictsAreReal` and `DuplicatesAgree` hold for
every policy of well-formed rules and every response. `get_field`'s walk is a
function over the path's positions, and `PathsSplit` shows that looking up a path
is looking up its rest in what its beginning leads to, by the least position at
which the two walks would differ.

`ExplainProofs` composes the two: assuming only that what is given has
the types that JSON and the dataclasses allow, its invariant says that the
argument keeps its types, also after `policy_to_dict` (`ArgumentIsTyped`), that
the rules added so far are well formed and distinct (`RulesAreGood`), and that
there will be at least one (`ThereAreRules`). From it `ValidationIsSound`, and
with `LintProofs` `LintCanBeBelieved`: whatever was given, lint reports only what
is so of a policy that validation returned.

`Exact` adds where in the loop validation is: the rules added are the first given
ones with the defaults filled in (`RulesAreThoseGiven`), all of them could be
added (`LoopIsEntered`), an error names the rule that is next (`ErrorIsNext`), and
in the second round nothing is left to refuse (`SecondRound`). From it
`ValidationOnlyDecides`. `ExplainInv` goes on with `WalkIsInStep`, that the second
walk's `current_value` is what the evaluator's walk finds after `traversed`, and
that every explanation so far is genuine. From it `ExplanationsAreGenuine`, which
includes that a bound is named exactly if it is crossed.

`CurationProofs` assumes that the first files hold suites and that policies are
well formed (a sequence of rules that is not empty, with distinct ids and finite
values). Its invariant, `FilesAreSuites` with the property itself, is kept by
each command: those that keep some cases (`KeptCasesAreCases`, by the position of
the k-th number of a finite set), merging, and capturing, whose assertions extend
what the case had because it matched (`CapturedCaseExtends`; extension is
transitive, so that later commands do not lose the origin). From it
`CasesKeepTheirOrigin`; and `MatchingMeansSound` follows from the evaluator and
`LintProofs`. The other properties of a session follow from `Standing`, that
whatever can be read is a suite and the policy is valid, and from what the
operators of `Suites` do on any suite:

* `ShardsGateTheSuite`: the round-robin shards are disjoint and together the suite;
  two assertions that contradict each other cannot both match, so that a
  contradiction hidden by the partition shows as a mismatch in some shard;
* `MigrationsShow`: a case captured under one policy asserts its verdicts, so it
  fails under another exactly if one of these, or a rule, changed;
* `DiffSeesEverything`: case by case, nothing is left out of the comparison;
* `NoEvidenceIsLost`: the greedy search of `reduce_suite` is a function over its
  rounds on any signatures (`Search`). It never drops what is kept, each round
  gains, and it can only end when everything is covered. Run again on what it
  chose, it makes the same choices (`SearchAgainKeepsAll`), since the best of all
  cases is also the best of the chosen ones. Deduplication keeps the first
  of each class and is idempotent.

Sessions with receipts have the invariant that every digest is of a policy or suite
in use (`DigestsAreKnown`). From it, and from `SuiteEvaluationShowsEdits`,
`ReceiptsCanBeBelieved`: mixing and editing may put any digests together, but a
replay passes only for a suite that matches, and a receipt that was made
honestly mismatches in its evaluation exactly on an edit that shows: of the
`policy_id`, of the order of the rules, or in a row (`ShowsEdit`). The lemma behind
it, `RowsShowChanges`, is about the rules alone: the rows of an evaluation agree
exactly if the order does and no row is changed.

`GenerationProofs` assumes that policies are what validation lets through (a
sequence of well-formed rules that is not empty, with distinct ids, JSON values
and at most one number for each bound), that the responses it speaks of are within
the JSON limits, that limits are natural numbers, and that two cases for each of the
`MAX_PROBE_RULES` and a baseline fit a suite, as 129 of 256 do. It starts with what
`_assign_path` and `_delete_path` do to a document, by the least name at which two
walks part: the value is there, what is below it is looked up in it
(`BelowAssigned`), and what is unrelated stays (`UnrelatedIsKept`). The invariant
of the search, `SearchInv`, is:

* `ConstructedAreDone`: the constructed rules are exactly those of the paths done;
* `DeepestFirst`: no path done is shorter than one that is left;
* `Skeleton`: away from the paths done, the response consists of objects only;
* `ConstructedRulesHold`: all constructed rules pass;
* `Comparison`: while candidates are tried, all of them fit the rules of the path,
  and the descendants already compared pass with the first.

The first three give that the next path is never blocked: what could block it is a
value that is no object above it, hence at or below a path that is done, which
would be shorter. The last two give that an assignment keeps what was built: a
rule of an unrelated path does not see it, a rule below was compared with the
candidate, and none is above. From it `GreedySearchIsAlwaysSound` (the verification
at the end and the check of nested paths never raise) and
`FailingCaseIsAlwaysTargeted`.

`GivingUpIsDeserved` says that greed costs nothing: if some response passes the
policy, the search finds one, unless an object would have to be padded. It needs two
more conjuncts. `Tried`: every candidate of the path in progress is still to be
tried or has failed a rule below the path, and those rules did not pass already.
`NoIdleMembers`: an object at a path that is left has no members but those on the
way to paths that are done. Suppose that the search has given up at a path, and let
some response pass. If a rule of the path lists its values, what the response has
there is a candidate and passes all rules below (`FittingIsCandidate`). If none does
and nothing is below, the menu has a value that passes what the response's value
passes: the bound next to it, a shortest string or list (`MenuSuffices`). If rules
are below, every passing response has an object there; by `NoIdleMembers` the members
built are among its own, so that it cannot have been too large and, where no minimum
asks for padding, the path was satisfied before any candidate (`ObjectSuffices`). Each
case contradicts `Tried`. Since the responses are a parameter of the theorem, it
holds of all there are.

For the probes, the invariant adds that mutations are made in the order of the
rules, each with its case and what it fails (`Made`). A wrong value exists for each
kind of rule that can have one (`WrongValuesAreWrong`); for `one_of` the argument is
the pigeonhole: one more string is generated than a list can have values. From it
`ProbesAreAlwaysTargeted`; and, because `validate_suite` accepts what was made and
no case contradicts another, `ProbesAlwaysCoverEverything`.

Only model-checked: liveness and fairness (out of the prover's reach, as is
`ENABLED`), so of `EveryValueIsDecided` the half that says that the walk ends.

## 6. Not modelled

* The argument grammar of `cli.py` (options, their defaults, message texts):
  `argparse` decides, the model starts from its outcomes.
* Byte budgets that only refuse: `bounded_artifact` of `workflow.py`, the byte
  budget that can end `lint_policy`, and the size of a suite. The budgets that
  decide between outcomes (input, exhaustive work, reports, generation, probes) are
  modelled. `bounded_canonical_json_size` is the size it computes.
* Other processes that put something else at the destination while an export
  runs: in `JsonExport` they change its mode only.
* The patterns of identifiers and paths, wording of messages and reports.
* The JSON grammar and float formatting, which are the standard library's;
  SHA-256, taken as injective; copying of arguments, the identity on values.
* `evals/` and `scripts/`: development tools that run the package and external
  programs on fixed inputs and compare or package what comes out.
