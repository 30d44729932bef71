------------------------------ MODULE Curation ------------------------------
(***************************************************************************)
(* A working session on suites: an author runs the commands of curation.py *)
(* one after the other, each reading files and writing its result to a     *)
(* file that is not one of them (see InputsSurvive of Cli), and edits the  *)
(* policy in between.  A command that is refused leaves everything as it   *)
(* is, so that only the others are steps.                                  *)
(***************************************************************************)
EXTENDS Suites

CONSTANTS
    Files,
    Policies,           \* the versions of the policy the author writes
    InitialFiles,       \* what the files may hold at the start
    Imports,            \* response arrays with their expected verdicts
    MAX_COMMANDS        \* bound: how many commands are run

NoSuite == [suite_version |-> "none", cases |-> << >>]

ASSUME PoliciesAssumption == \A policy \in Policies : IsPolicy(policy)

ASSUME FilesAssumption ==
    \A f \in InitialFiles :
        /\ f = [n \in Files |-> f[n]]
        /\ \A n \in Files : f[n] = NoSuite \/ IsSuite(f[n])

VARIABLES
    files,
    policy,
    authored,       \* history: the cases that an author wrote or imported
    commands        \* history: for the bound

vars == <<files, policy, authored, commands>>

Init ==
    /\ files \in InitialFiles
    /\ policy \in Policies
    /\ authored = UNION {Cases(files[n]) : n \in Files}
    /\ commands = 0

EditPolicy ==
    /\ policy' \in Policies \ {policy}
    /\ UNCHANGED <<files, authored, commands>>

\* A command publishes its result; validate_suite refuses an illegal one.
Write(out, suite) ==
    /\ commands < MAX_COMMANDS
    /\ IsSuite(suite)
    /\ files' = [files EXCEPT ![out] = suite]
    /\ commands' = commands + 1
    /\ UNCHANGED policy

Readable(n) == files[n] # NoSuite

MergeSuites(left, right, out) ==
    /\ Readable(left) /\ Readable(right)
    /\ files[left].suite_version = files[right].suite_version
    /\ Write(out, Merged(files[left], files[right]))
    /\ UNCHANGED authored

SelectSuite(in, out) ==
    /\ Readable(in)
    /\ \E ids \in SUBSET CaseIds(files[in]) \ {{}} : Write(out, Selected(files[in], ids))
    /\ UNCHANGED authored

ReduceSuite(in, out) ==
    /\ Readable(in)
    /\ Write(out, Reduced(policy, files[in]))
    /\ UNCHANGED authored

\* Mutant: existing assertions are replaced whatever they said.
BugCaptureVerdicts(in, out) ==
    /\ Readable(in)
    /\ \A case \in Cases(files[in]) : AllPass(policy, case.response) = case.expected_passed
    /\ Write(out, Captured(policy, files[in]))
    /\ UNCHANGED authored

CaptureAssertions(in, out) ==
    /\ Readable(in)
    /\ MatchesExpectations(policy, files[in])
    /\ Write(out, Captured(policy, files[in]))
    /\ UNCHANGED authored

ShardSuite(in, out) ==
    /\ Readable(in)
    /\ \E count \in 1..Len(files[in].cases) : \E index \in 0..(count - 1) :
          Write(out, Shard(files[in], index, count))
    /\ UNCHANGED authored

SelectOutcomes(in, out) ==
    /\ Readable(in)
    /\ \E outcome \in Outcomes : Write(out, OutcomesSelected(policy, files[in], outcome))
    /\ UNCHANGED authored

DeduplicateSuite(in, out) ==
    /\ Readable(in)
    /\ Write(out, Deduplicated(files[in]))
    /\ UNCHANGED authored

ImportResponses(out) ==
    \E pair \in Imports :
        LET suite == Imported(pair[1], pair[2])
        IN Write(out, suite) /\ authored' = authored \cup Cases(suite)

Next ==
    \/ EditPolicy
    \/ \E out \in Files :
          \/ ImportResponses(out)
          \/ \E left, right \in Files \ {out} : MergeSuites(left, right, out)
          \/ \E in \in Files \ {out} :
                \/ SelectSuite(in, out) \/ ReduceSuite(in, out)
                \/ CaptureAssertions(in, out) \/ ShardSuite(in, out)
                \/ SelectOutcomes(in, out) \/ DeduplicateSuite(in, out)

Spec == Init /\ [][Next]_vars

-----------------------------------------------------------------------------
(* Properties.                                                             *)

SuiteFiles == {files[n] : n \in {m \in Files : Readable(m)}}

\* A case with the response and the verdict of another, and all it asserts.
Extends(case, origin) ==
    /\ case.case_id = origin.case_id
    /\ case.response = origin.response
    /\ case.expected_passed = origin.expected_passed
    /\ AssertedRules(origin) \subseteq AssertedRules(case)
    /\ \A id \in AssertedRules(origin) : Assertion(case, id) = Assertion(origin, id)

\* "Explicit corpus edits that preserve response content and assertion intent":
\* through any sequence of commands and policy edits, every case is one that an
\* author wrote, with nothing it expects changed or lost.
EveryCaseHasItsOrigin ==
    \A suite \in SuiteFiles : \A case \in Cases(suite) :
        \E origin \in authored : Extends(case, origin)

\* "Keep a deterministic subset that preserves every observed outcome": what a
\* suite shows of the policy survives reduction and deduplication, both change
\* nothing when repeated, and reduction drops no mismatching case.
SmallerSuitesKeepEvidence ==
    \A suite \in SuiteFiles :
        LET reduced == Reduced(policy, suite)
            unique  == Deduplicated(suite)
        IN /\ Mismatched(policy, reduced) = Mismatched(policy, suite)
           /\ \A smaller \in {reduced, unique} :
                 /\ IsSuite(smaller)
                 /\ \A id \in RuleIds(policy) :
                       UnexercisedReasonCodes(policy, smaller, id)
                           = UnexercisedReasonCodes(policy, suite, id)
                 /\ UnexercisedPasses(policy, smaller) = UnexercisedPasses(policy, suite)
                 /\ UnexercisedFailures(policy, smaller) = UnexercisedFailures(policy, suite)
                 /\ {<<row[2], row[3]>> : row \in FailedRows(policy, smaller)}
                       = {<<row[2], row[3]>> : row \in FailedRows(policy, suite)}
                 /\ Ready(policy, smaller) <=> Ready(policy, suite)
           /\ Reduced(policy, reduced) = reduced
           /\ Deduplicated(unique) = unique

\* The gate of check-suite can be run shard by shard: the shards hold every
\* case once, and the whole suite is ready exactly when all shards are, though
\* a contradiction between two cases may be split over two shards.
GateSplits ==
    \A suite \in SuiteFiles : \A count \in 1..Len(suite.cases) :
        LET shards == [index \in 0..(count - 1) |-> Shard(suite, index, count)]
        IN /\ UNION {Cases(shards[index]) : index \in 0..(count - 1)} = Cases(suite)
           /\ \A one, other \in 0..(count - 1) :
                 one # other => CaseIds(shards[one]) \cap CaseIds(shards[other]) = {}
           /\ Ready(policy, suite)
                 <=> \A index \in 0..(count - 1) : Ready(policy, shards[index])

\* A suite whose cases match says nothing against itself or against the rules
\* it asserts; and if it has a passing case, lint finds no conflict.
MatchingSuitesAreSound ==
    \A suite \in SuiteFiles :
        MatchesExpectations(policy, suite) =>
            /\ ConsistentExpectations(suite)
            /\ AssertionsCompatible(policy, suite)
            /\ (\E case \in Cases(suite) : case.expected_passed) => ~HasConflicts(policy)

\* capture_assertions makes a migration visible: the captured suite matches,
\* and under another policy a case regresses exactly when its verdict changes
\* or a rule it was captured with is gone or gives another reason.
CapturedSuitesSeeEveryChange(suite, candidate) ==
    MatchesExpectations(policy, suite) =>
        LET captured == Captured(policy, suite)
        IN /\ MatchesExpectations(policy, captured)
           /\ FullyAsserted(policy, captured)
           /\ Regressions(policy, candidate, captured) =
                 {case \in Cases(captured) :
                     \/ VerdictChanged(policy, candidate, case)
                     \/ \E id \in RuleIds(policy) :
                           \/ id \notin RuleIds(candidate)
                           \/ Observed(policy, case.response)[id]
                                 # Observed(candidate, case.response)[id]}

\* compare-policies accounts for what migration-expectations finds: a case that
\* regresses or recovers has a changed rule result, only rules that were added,
\* removed or modified have one, and no verdict changes without one.
MigrationIsAccountedFor(suite, candidate) ==
    \A case \in Cases(suite) :
        LET changed == ChangedRuleResults(policy, candidate, case)
        IN /\ changed \subseteq AddedRules(policy, candidate)
                                  \cup RemovedRules(policy, candidate)
                                  \cup ModifiedRules(policy, candidate)
           /\ VerdictChanged(policy, candidate, case) => changed # {}
           /\ case \in Regressions(policy, candidate, suite)
                         \cup Recoveries(policy, candidate, suite) => changed # {}

\* No migration goes unnoticed, whichever suite and candidate it is tried on.
MigrationsAreVisible ==
    \A suite \in SuiteFiles : \A candidate \in Policies :
        /\ CapturedSuitesSeeEveryChange(suite, candidate)
        /\ MigrationIsAccountedFor(suite, candidate)

\* diff-suites calls two suites identical exactly when it reports no difference.
DiffIsComplete ==
    \A left, right \in SuiteFiles :
        left = right <=>
            /\ CaseIds(left) = CaseIds(right)
            /\ ModifiedCases(left, right) = {}
            /\ ~OrderChanged(left, right)
            /\ left.suite_version = right.suite_version
=============================================================================
