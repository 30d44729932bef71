--------------------------- MODULE CurationProofs ---------------------------
(***************************************************************************)
(* Sessions of any length on any number of files and policies.  The        *)
(* invariant is that files are suites whose every case is one that an      *)
(* author wrote, and that the policy is valid; that, and lemmas about the  *)
(* operators of Suites on any suite, give the other properties: a suite    *)
(* whose cases match is sound, shards gate as the whole suite does,        *)
(* migrations and diffs show every change, and reduction and deduplication *)
(* lose no evidence, whatever the greedy search chooses.  Last come        *)
(* sessions with receipts, of which only the digests need an invariant.    *)
(***************************************************************************)
EXTENDS Curation, Receipts, LintProofs, FiniteSetTheorems

FilesAreSuites ==
    /\ files = [n \in Files |-> files[n]]
    /\ \A n \in Files : files[n] = NoSuite \/ IsSuite(files[n])

IInv == FilesAreSuites /\ EveryCaseHasItsOrigin

PolicyIsWritten == policy \in Policies

-----------------------------------------------------------------------------
(* Suites and some of their cases.                                         *)

\* What validate_suite says of a suite, as its proofs use it.
LEMMA SuiteShape ==
    ASSUME NEW suite, IsSuite(suite)
    PROVE  /\ suite = [suite_version |-> suite.suite_version, cases |-> suite.cases]
           /\ suite.cases = [i \in 1..Len(suite.cases) |-> suite.cases[i]]
           /\ Len(suite.cases) \in Nat \ {0} /\ DOMAIN suite.cases = 1..Len(suite.cases)
           /\ \A i, j \in DOMAIN suite.cases :
                 suite.cases[i].case_id = suite.cases[j].case_id => i = j
    BY MaxAssumption DEF IsSuite

\* The cases at the positions that are kept, each once and in source order.
LEMMA KeptCases ==
    ASSUME NEW suite, IsSuite(suite), NEW S \in SUBSET DOMAIN suite.cases
    PROVE  LET kept == Kept(suite, S) IN
           /\ kept.suite_version = suite.suite_version
           /\ kept = [suite_version |-> suite.suite_version, cases |-> kept.cases]
           /\ kept.cases = [k \in 1..Cardinality(S) |-> suite.cases[Nth(S, k)]]
           /\ \A case : case \in Cases(kept) <=> \E i \in S : case = suite.cases[i]
<1> DEFINE positions == {i \in DOMAIN suite.cases : i \in S}
           list == [k \in 1..Cardinality(S) |-> suite.cases[Nth(S, k)]]
<1>1. /\ suite = [suite_version |-> suite.suite_version, cases |-> suite.cases]
      /\ Len(suite.cases) \in Nat /\ DOMAIN suite.cases = 1..Len(suite.cases)
    BY SuiteShape
<1>2. positions = S
    OBVIOUS
<1>3. Kept(suite, S) = [suite EXCEPT !.cases = list]
    BY <1>2 DEF Kept, ElementsAt
<1>4. Kept(suite, S) = [suite_version |-> suite.suite_version, cases |-> list]
    BY <1>1, <1>3
<1>5. Cases(Kept(suite, S)) = {list[k] : k \in DOMAIN list}
    <2>1. Kept(suite, S).cases = list
        BY <1>4
    <2> QED
        BY <2>1 DEF Cases
<1>6. ASSUME NEW k \in 1..Cardinality(S) PROVE list[k] \in {suite.cases[i] : i \in S}
    BY <1>1, NthIsThere
<1>7. ASSUME NEW i \in S PROVE suite.cases[i] \in {list[k] : k \in DOMAIN list}
    <2>1. /\ Cardinality(UpTo(S, i)) \in 1..Cardinality(S)
          /\ Nth(S, Cardinality(UpTo(S, i))) = i
        BY <1>1, EveryPositionCounts
    <2> QED
        BY <2>1
<1>8. \A case : case \in Cases(Kept(suite, S)) <=> \E i \in S : case = suite.cases[i]
    <2> HIDE DEF list
    <2>1. DOMAIN list = 1..Cardinality(S)
        BY DEF list
    <2> QED
        BY <1>5, <1>6, <1>7, <2>1
<1> QED
    BY <1>4, <1>8

\* The same, for the list itself.
LEMMA KeptCaseList ==
    ASSUME NEW suite, IsSuite(suite), NEW S \in SUBSET DOMAIN suite.cases
    PROVE  Kept(suite, S).cases = [k \in 1..Cardinality(S) |-> suite.cases[Nth(S, k)]]
<1> DEFINE list == [k \in 1..Cardinality(S) |-> suite.cases[Nth(S, k)]]
<1>1. {i \in DOMAIN suite.cases : i \in S} = S
    OBVIOUS
<1>2. Kept(suite, S) = [suite EXCEPT !.cases = list]
    BY <1>1 DEF Kept, ElementsAt
<1>3. suite = [suite_version |-> suite.suite_version, cases |-> suite.cases]
    BY SuiteShape
<1> QED
    BY <1>2, <1>3

\* The same, for the set of cases.
LEMMA KeptCaseSet ==
    ASSUME NEW suite, IsSuite(suite), NEW S \in SUBSET DOMAIN suite.cases
    PROVE  Cases(Kept(suite, S)) = {suite.cases[i] : i \in S}
<1>1. \A case : case \in Cases(Kept(suite, S)) <=> \E i \in S : case = suite.cases[i]
    BY KeptCases, Zenon
<1> QED
    BY <1>1

\* Some cases of a suite are a suite, if they are any.
LEMMA KeptIsSuite ==
    ASSUME NEW suite, IsSuite(suite), NEW S \in SUBSET DOMAIN suite.cases, S # {}
    PROVE  IsSuite(Kept(suite, S))
<1> DEFINE kept == Kept(suite, S)
           m == Cardinality(S)
<1>1. /\ kept = [suite_version |-> suite.suite_version, cases |-> kept.cases]
      /\ kept.cases = [k \in 1..m |-> suite.cases[Nth(S, k)]]
      /\ kept.suite_version = suite.suite_version
    BY KeptCases
<1>2. m \in 1..Len(suite.cases) /\ m <= MAX_SUITE_CASES
    <2>0. Len(suite.cases) \in Nat \ {0} /\ S \subseteq 1..Len(suite.cases)
        BY SuiteShape
    <2> DEFINE n == Len(suite.cases)
    <2>1. /\ IsFiniteSet(1..n) /\ S \subseteq 1..n
          /\ Cardinality(1..n) = n /\ n \in Nat
        <3>1. n \in Nat /\ n # 0 /\ S \subseteq 1..n
            BY <2>0
        <3> HIDE DEF n
        <3>2. /\ IsFiniteSet(1..n)
              /\ Cardinality(1..n) = IF 1 > n THEN 0 ELSE n - 1 + 1
            BY <3>1, CountOfAll
        <3> QED
            BY <3>1, <3>2
    <2>2. m \in Nat /\ m <= Len(suite.cases) /\ m # 0
        BY <2>1, FS_Subset, FS_CardinalityType, FS_EmptySet
    <2>3. Len(suite.cases) <= MAX_SUITE_CASES
        BY MaxAssumption DEF IsSuite
    <2> QED
        BY <2>1, <2>2, <2>3, MaxAssumption
<1>3. \A k \in 1..m : Nth(S, k) \in S /\ Cardinality(UpTo(S, Nth(S, k))) = k
    <2>1. Len(suite.cases) \in Nat /\ S \in SUBSET (1..Len(suite.cases))
        BY SuiteShape
    <2> QED
        BY <2>1, NthIsThere
<1>4. \A k \in 1..m : kept.cases[k] = suite.cases[Nth(S, k)] /\ Nth(S, k) \in DOMAIN suite.cases
    BY <1>1, <1>3
<1>5. DOMAIN kept.cases = 1..m /\ Len(kept.cases) = m
    BY <1>1, <1>2
<1>6. ASSUME NEW j \in 1..m, NEW k \in 1..m, kept.cases[j].case_id = kept.cases[k].case_id
      PROVE  j = k
    <2>1. Nth(S, j) = Nth(S, k)
        BY <1>4, <1>6, SuiteShape
    <2> QED
        BY <1>3, <2>1
<1>7. suite.suite_version \in {"1.0", "1.1"}
    BY DEF IsSuite
<1>8. \A k \in 1..m : /\ IsCase(kept.cases[k])
                      /\ suite.suite_version = "1.0" => kept.cases[k].expected_rules = {}
    BY <1>4 DEF IsSuite
<1>9. m \in 1..MAX_SUITE_CASES
    BY <1>2, MaxAssumption
<1>10. kept.cases = [k \in 1..Len(kept.cases) |-> kept.cases[k]]
    BY <1>1, <1>5
<1> HIDE DEF kept, m
<1>11. \A j \in DOMAIN kept.cases :
          /\ IsCase(kept.cases[j])
          /\ kept.suite_version = "1.0" => kept.cases[j].expected_rules = {}
          /\ \A k \in DOMAIN kept.cases :
                kept.cases[j].case_id = kept.cases[k].case_id => j = k
    <2> SUFFICES ASSUME NEW j \in 1..m
                 PROVE  /\ IsCase(kept.cases[j])
                        /\ kept.suite_version = "1.0" => kept.cases[j].expected_rules = {}
                        /\ \A k \in 1..m :
                              kept.cases[j].case_id = kept.cases[k].case_id => j = k
        BY <1>5, Zenon
    <2>2. IsCase(kept.cases[j])
        BY <1>8, Zenon
    <2>3. kept.suite_version = "1.0" => kept.cases[j].expected_rules = {}
        BY <1>1, <1>8, Zenon
    <2>4. \A k \in 1..m : kept.cases[j].case_id = kept.cases[k].case_id => j = k
        BY <1>6, Zenon
    <2> QED
        BY <2>2, <2>3, <2>4, Zenon
<1>12. Len(kept.cases) \in 1..MAX_SUITE_CASES
    BY <1>5, <1>9
<1>13. kept = [suite_version |-> kept.suite_version, cases |-> kept.cases]
    BY <1>1, Zenon
<1>14. kept.suite_version \in {"1.0", "1.1"}
    BY <1>1, <1>7, Zenon
<1>15. IsSuite(kept)
    BY <1>10, <1>11, <1>12, <1>13, <1>14, Zenon DEF IsSuite
<1> QED
    BY <1>15 DEF kept

\* Commands that keep some of the cases add none.
LEMMA KeptCasesAreCases ==
    ASSUME NEW suite, IsSuite(suite), NEW S
    PROVE  Cases(Kept(suite, S)) \subseteq Cases(suite)
<1> DEFINE positions == {i \in DOMAIN suite.cases : i \in S}
<1>1. {i \in DOMAIN suite.cases : i \in positions} = positions
    OBVIOUS
<1>2. Kept(suite, S) = Kept(suite, positions)
    BY <1>1, Zenon DEF Kept
<1>3. Cases(Kept(suite, positions)) = {suite.cases[i] : i \in positions}
    <2>1. positions \in SUBSET DOMAIN suite.cases
        OBVIOUS
    <2> HIDE DEF positions
    <2> QED
        BY <2>1, KeptCaseSet, Zenon
<1> QED
    BY <1>2, <1>3 DEF Cases

\* Merging brings together the cases of both suites and no others.
LEMMA MergedCasesAreCases ==
    ASSUME NEW suite, IsSuite(suite), NEW incoming, IsSuite(incoming)
    PROVE  Cases(Merged(suite, incoming)) \subseteq Cases(suite) \cup Cases(incoming)
<1>1. \A s \in {suite, incoming} :
          /\ s = [suite_version |-> s.suite_version, cases |-> s.cases]
          /\ s.cases \in Seq(Cases(s))
    <2> SUFFICES ASSUME NEW s \in {suite, incoming}
                 PROVE  /\ s = [suite_version |-> s.suite_version, cases |-> s.cases]
                        /\ s.cases \in Seq(Cases(s))
        OBVIOUS
    <2>0. IsSuite(s)
        OBVIOUS
    <2>1. /\ Len(s.cases) \in Nat /\ s.cases = [i \in 1..Len(s.cases) |-> s.cases[i]]
          /\ s = [suite_version |-> s.suite_version, cases |-> s.cases]
        BY <2>0, MaxAssumption DEF IsSuite
    <2>2. \A i \in 1..Len(s.cases) : s.cases[i] \in Cases(s)
        BY <2>1 DEF Cases
    <2> QED
        BY <2>1, <2>2
<1>2. Merged(suite, incoming).cases = suite.cases \o incoming.cases
    BY <1>1 DEF Merged
<1> DEFINE all == suite.cases \o incoming.cases
<1>3. all \in Seq(Cases(suite) \cup Cases(incoming))
    BY <1>1
<1> HIDE DEF all
<1>4. \A i \in DOMAIN all : all[i] \in Cases(suite) \cup Cases(incoming)
    BY <1>3
<1>5. Cases(Merged(suite, incoming)) = {all[i] : i \in DOMAIN all}
    BY <1>2 DEF Cases, all
<1> QED
    BY <1>4, <1>5

\* What a captured case asserts is what the policy gives for it, of each rule.
LEMMA CapturedCaseShape ==
    ASSUME NEW p, NEW case, IsCase(case)
    PROVE  LET captured == CapturedCase(p, case) IN
           /\ captured.case_id = case.case_id
           /\ captured.response = case.response
           /\ captured.expected_passed = case.expected_passed
           /\ AssertedRules(captured) = RuleIds(p)
           /\ \A id : Assertion(captured, id) = Observed(p, case.response)[id]
<1> DEFINE captured == CapturedCase(p, case)
           seen == Observed(p, case.response)
<1>1. /\ captured.case_id = case.case_id
      /\ captured.response = case.response
      /\ captured.expected_passed = case.expected_passed
      /\ captured.expected_rules = {seen}
    BY DEF CapturedCase, IsCase
<1>2. DOMAIN seen = RuleIds(p)
    BY DEF Observed
<1> HIDE DEF seen, captured
<1>3. AssertedRules(captured) = RuleIds(p)
    <2>1. AssertedRules(captured) = UNION {DOMAIN a : a \in {seen}}
        BY <1>1 DEF AssertedRules
    <2> QED
        BY <1>2, <2>1
<1>4. \A id : Assertion(captured, id) = seen[id]
    <2>1. (CHOOSE a \in {seen} : TRUE) = seen
        OBVIOUS
    <2> QED
        BY <1>1, <2>1 DEF Assertion
<1> QED
    BY <1>1, <1>3, <1>4, Zenon DEF captured, seen

\* Capturing keeps the response, the verdict and what the case asserted, if
\* the case matches.
LEMMA CapturedCaseExtends ==
    ASSUME NEW p, NEW case, IsCase(case), AssertionMismatches(p, case) = {}
    PROVE  Extends(CapturedCase(p, case), case)
<1> DEFINE captured == CapturedCase(p, case)
<1>1. /\ captured.case_id = case.case_id /\ captured.response = case.response
      /\ captured.expected_passed = case.expected_passed
      /\ AssertedRules(captured) = RuleIds(p)
      /\ \A id : Assertion(captured, id) = Observed(p, case.response)[id]
    BY CapturedCaseShape
<1>2. \A id \in AssertedRules(case) :
          id \in RuleIds(p) /\ Assertion(case, id) = Observed(p, case.response)[id]
    BY DEF AssertionMismatches
<1> QED
    BY <1>1, <1>2 DEF Extends

\* Later commands do not lose the origin of a case.
LEMMA ExtendsIsTransitive ==
    ASSUME NEW one, NEW two, NEW three, Extends(one, two), Extends(two, three)
    PROVE  Extends(one, three)
    BY DEF Extends

-----------------------------------------------------------------------------
(* Every case has its origin.                                              *)

HasOrigin(case) == \E origin \in authored : Extends(case, origin)

\* What a command reads is a suite, and its cases have origins.
LEMMA ReadSuitesHaveOrigins ==
    ASSUME IInv, NEW n \in Files, Readable(n)
    PROVE  IsSuite(files[n]) /\ \A case \in Cases(files[n]) : HasOrigin(case)
    BY DEF IInv, FilesAreSuites, Readable, EveryCaseHasItsOrigin, SuiteFiles, HasOrigin

\* A command keeps the invariant if the cases that it writes have origins.
LEMMA WritingOrigins ==
    ASSUME IInv, NEW out \in Files, NEW suite, Write(out, suite),
           authored \subseteq authored',
           \A case \in Cases(suite) : HasOrigin(case)'
    PROVE  IInv'
<1>1. /\ files' = [n \in Files |-> IF n = out THEN suite ELSE files[n]]
      /\ IsSuite(suite)
    BY DEF Write, IInv, FilesAreSuites
<1>2. FilesAreSuites'
    BY <1>1 DEF IInv, FilesAreSuites
<1>3. ASSUME NEW n \in Files, files'[n] # NoSuite, NEW case \in Cases(files'[n])
      PROVE  HasOrigin(case)'
    <2>1. CASE n = out
        BY <1>1, <1>3, <2>1
    <2>2. CASE n # out
        <3>1. HasOrigin(case)
            BY <1>1, <1>3, <2>2, ReadSuitesHaveOrigins DEF Readable
        <3> QED
            BY <3>1 DEF HasOrigin
    <2> QED
        BY <2>1, <2>2
<1> QED
    BY <1>2, <1>3 DEF IInv, EveryCaseHasItsOrigin, SuiteFiles, Readable, HasOrigin

\* The commands that keep some of the cases of a file.
LEMMA WritingKept ==
    ASSUME IInv, NEW in \in Files, Readable(in), NEW out \in Files, NEW S,
           Write(out, Kept(files[in], S)), UNCHANGED authored
    PROVE  IInv'
<1>1. \A case \in Cases(Kept(files[in], S)) : HasOrigin(case)
    BY ReadSuitesHaveOrigins, KeptCasesAreCases
<1> QED
    BY <1>1, WritingOrigins DEF HasOrigin

\* The first files hold what authors wrote.
LEMMA OriginsAtFirst == Init => IInv
<1> SUFFICES ASSUME Init PROVE IInv
    OBVIOUS
<1>1. FilesAreSuites
    BY FilesAssumption DEF Init, FilesAreSuites
<1>2. \A n \in Files : \A case \in Cases(files[n]) : case \in authored
    BY DEF Init
<1>3. \A case : Extends(case, case)
    BY DEF Extends
<1> QED
    BY <1>1, <1>2, <1>3 DEF IInv, EveryCaseHasItsOrigin, SuiteFiles

\* Each command writes what it read, or some of it, or the cases it imports.
LEMMA OriginsAreKept == IInv /\ [Next]_vars => IInv'
<1> SUFFICES ASSUME IInv, [Next]_vars PROVE IInv'
    OBVIOUS
<1>1. CASE EditPolicy
    BY <1>1 DEF EditPolicy, IInv, FilesAreSuites, EveryCaseHasItsOrigin, SuiteFiles, Readable
<1>2. ASSUME NEW out \in Files, ImportResponses(out)
      PROVE  IInv'
    <2>1. PICK pair \in Imports :
              /\ Write(out, Imported(pair[1], pair[2]))
              /\ authored' = authored \cup Cases(Imported(pair[1], pair[2]))
        BY <1>2 DEF ImportResponses
    <2>2. \A case \in Cases(Imported(pair[1], pair[2])) : HasOrigin(case)'
        BY <2>1 DEF HasOrigin, Extends
    <2> QED
        BY <2>1, <2>2, WritingOrigins
<1>3. ASSUME NEW out \in Files, NEW left \in Files, NEW right \in Files,
             MergeSuites(left, right, out)
      PROVE  IInv'
    <2>1. \A case \in Cases(Merged(files[left], files[right])) : HasOrigin(case)
        BY <1>3, ReadSuitesHaveOrigins, MergedCasesAreCases DEF MergeSuites
    <2> QED
        BY <1>3, <2>1, WritingOrigins DEF MergeSuites, HasOrigin
<1>4. ASSUME NEW out \in Files, NEW in \in Files, SelectSuite(in, out)
      PROVE  IInv'
    BY <1>4, WritingKept DEF SelectSuite, Selected
<1>5. ASSUME NEW out \in Files, NEW in \in Files, ReduceSuite(in, out)
      PROVE  IInv'
    BY <1>5, WritingKept DEF ReduceSuite, Reduced
<1>6. ASSUME NEW out \in Files, NEW in \in Files, CaptureAssertions(in, out)
      PROVE  IInv'
    <2>1. /\ Readable(in) /\ UNCHANGED authored
          /\ MatchesExpectations(policy, files[in])
          /\ Write(out, Captured(policy, files[in]))
        BY <1>6 DEF CaptureAssertions
    <2>2. IsSuite(files[in])
        BY <2>1, ReadSuitesHaveOrigins
    <2>3. ASSUME NEW case \in Cases(Captured(policy, files[in]))
          PROVE  HasOrigin(case)
        <3>1. PICK i \in DOMAIN files[in].cases :
                  case = CapturedCase(policy, files[in].cases[i])
            BY DEF Cases, Captured
        <3> DEFINE source == files[in].cases[i]
        <3>2. source \in Cases(files[in]) /\ IsCase(source)
            BY <2>2 DEF Cases, IsSuite
        <3>3. AssertionMismatches(policy, source) = {}
            BY <2>1, <3>2 DEF MatchesExpectations, MatchesExpectation
        <3>4. Extends(case, source)
            BY <3>1, <3>2, <3>3, CapturedCaseExtends
        <3>5. PICK origin \in authored : Extends(source, origin)
            BY <2>1, <3>2, ReadSuitesHaveOrigins DEF HasOrigin
        <3> QED
            BY <3>4, <3>5, ExtendsIsTransitive DEF HasOrigin
    <2> QED
        BY <2>1, <2>3, WritingOrigins DEF HasOrigin
<1>7. ASSUME NEW out \in Files, NEW in \in Files, ShardSuite(in, out)
      PROVE  IInv'
    BY <1>7, WritingKept DEF ShardSuite, Shard
<1>8. ASSUME NEW out \in Files, NEW in \in Files, SelectOutcomes(in, out)
      PROVE  IInv'
    BY <1>8, WritingKept DEF SelectOutcomes, OutcomesSelected
<1>9. ASSUME NEW out \in Files, NEW in \in Files, DeduplicateSuite(in, out)
      PROVE  IInv'
    BY <1>9, WritingKept DEF DeduplicateSuite, Deduplicated
<1>10. CASE UNCHANGED vars
    BY <1>10 DEF vars, IInv, FilesAreSuites, EveryCaseHasItsOrigin, SuiteFiles, Readable
<1> QED
    BY <1>1, <1>2, <1>3, <1>4, <1>5, <1>6, <1>7, <1>8, <1>9, <1>10 DEF Next

\* However many commands an author runs, in whatever order and whatever the
\* policies meanwhile, every case of every suite is an authored one with
\* nothing that it expects changed or lost.
THEOREM CasesKeepTheirOrigin == Spec => []EveryCaseHasItsOrigin
<1>1. IInv => EveryCaseHasItsOrigin
    BY DEF IInv
<1> QED
    BY <1>1, OriginsAtFirst, OriginsAreKept, PTL DEF Spec

-----------------------------------------------------------------------------
(* Matching suites are sound.                                              *)

\* A rule gives only codes that its kind can give.
LEMMA ReasonIsReachable ==
    ASSUME NEW rule, rule.kind \in Kinds, NEW response
    PROVE  ReasonCode(rule, response) \in ReachableReasonCodes(rule.kind)
<1>1. rule.kind # "required_field" => rule.kind \in DOMAIN FAILURE_REASON_BY_KIND
    BY DEF Kinds, FAILURE_REASON_BY_KIND
<1>2. rule.kind = "required_field" => \A value : Satisfies(rule, value)
    BY DEF Satisfies
<1> QED
    BY <1>1, <1>2 DEF ReasonCode, ReachableReasonCodes

\* The rule of an identifier that a policy declares is one of its rules.
LEMMA RuleOfId ==
    ASSUME NEW p, IsPolicy(p)
    PROVE  /\ \A i \in DOMAIN p : RuleOf(p, p[i].rule_id) = p[i]
           /\ \A id \in RuleIds(p) : \E i \in DOMAIN p : id = p[i].rule_id
           /\ \A i \in DOMAIN p : IsRule(p[i])
    BY DEF IsPolicy, RuleOf, RuleIds

\* A case that matches asserts only what the policy can give.
LEMMA MatchingCaseIsCompatible ==
    ASSUME NEW p, IsPolicy(p), NEW case, MatchesExpectation(p, case)
    PROVE  CompatibleCase(p, case)
<1>1. /\ AllPass(p, case.response) = case.expected_passed
      /\ AssertedRules(case) \subseteq RuleIds(p)
      /\ \A id \in AssertedRules(case) :
            Assertion(case, id) = ReasonCode(RuleOf(p, id), case.response)
    BY DEF MatchesExpectation, AssertionMismatches, Observed
<1>2. \A id \in AssertedRules(case) :
          Assertion(case, id) \in ReachableReasonCodes(RuleOf(p, id).kind)
    BY <1>1, RuleOfId, ReasonIsReachable DEF IsRule
<1>3. case.expected_passed =>
          \A id \in AssertedRules(case) : Assertion(case, id) = "RULE_SATISFIED"
    BY <1>1, RuleOfId DEF AllPass, Passes
<1>4. ASSUME ~case.expected_passed, RuleIds(p) \subseteq AssertedRules(case)
      PROVE  \E id \in AssertedRules(case) : Assertion(case, id) # "RULE_SATISFIED"
    <2>1. PICK i \in DOMAIN p : ~Passes(p[i], case.response)
        BY <1>1, <1>4 DEF AllPass
    <2>2. p[i].rule_id \in AssertedRules(case)
        BY <1>4 DEF RuleIds
    <2>3. Assertion(case, p[i].rule_id) # "RULE_SATISFIED"
        BY <1>1, <2>1, <2>2, RuleOfId DEF Passes
    <2> QED
        BY <2>2, <2>3
<1> QED
    BY <1>1, <1>2, <1>3, <1>4 DEF CompatibleCase

\* A suite that matches contradicts neither itself nor the policy.
LEMMA MatchingIsConsistent ==
    ASSUME NEW p, IsPolicy(p), NEW suite, MatchesExpectations(p, suite)
    PROVE  ConsistentExpectations(suite) /\ AssertionsCompatible(p, suite)
<1>1. \A case \in Cases(suite) :
          /\ MatchesExpectation(p, case)
          /\ AllPass(p, case.response) = case.expected_passed
          /\ \A id \in AssertedRules(case) :
                Assertion(case, id) = Observed(p, case.response)[id]
    BY DEF MatchesExpectations, MatchesExpectation, AssertionMismatches
<1>2. ConsistentExpectations(suite)
    BY <1>1 DEF ConsistentExpectations
<1>3. AssertionsCompatible(p, suite)
    BY <1>1, MatchingCaseIsCompatible DEF AssertionsCompatible
<1> QED
    BY <1>2, <1>3

\* And a passing case refutes what lint could report.
LEMMA MatchingSuiteIsSound ==
    ASSUME PolicyIsWritten
    PROVE  MatchingSuitesAreSound
<1>1. IsPolicy(policy)
    BY PoliciesAssumption DEF PolicyIsWritten
<1>2. ASSUME NEW suite, MatchesExpectations(policy, suite),
             NEW case \in Cases(suite), case.expected_passed
      PROVE  ~HasConflicts(policy)
    <2>1. AllPass(policy, case.response)
        BY <1>2 DEF MatchesExpectations, MatchesExpectation
    <2> QED
        BY <1>1, <2>1, ConflictsAreReal DEF IsPolicy
<1> QED
    BY <1>1, <1>2, MatchingIsConsistent, Zenon DEF MatchingSuitesAreSound

\* The policy is one of those that the author writes.
LEMMA PolicyStaysWritten == PolicyIsWritten /\ [Next]_vars => PolicyIsWritten'
    BY DEF PolicyIsWritten, Next, vars, EditPolicy, ImportResponses, MergeSuites, SelectSuite,
           ReduceSuite, CaptureAssertions, ShardSuite, SelectOutcomes, DeduplicateSuite, Write

\* In any session, a suite whose cases match under the policy of the moment
\* contradicts neither itself nor the policy, and a passing case in it refutes
\* every conflict that lint could report.
THEOREM MatchingMeansSound == Spec => []MatchingSuitesAreSound
<1>1. Init => PolicyIsWritten
    BY DEF Init, PolicyIsWritten
<1>2. PolicyIsWritten => MatchingSuitesAreSound
    BY MatchingSuiteIsSound
<1> QED
    BY <1>1, <1>2, PolicyStaysWritten, PTL DEF Spec

-----------------------------------------------------------------------------
(* The gate of a suite and of its shards.                                  *)

\* The round-robin classes of the positions: one for each position, which is
\* why no shard of at most as many as there are cases is empty.
LEMMA RoundRobin ==
    ASSUME NEW n \in Nat, NEW count \in 1..n
    PROVE  /\ \A i \in 1..n : (i - 1) % count \in 0..(count - 1)
           /\ \A index \in 0..(count - 1) :
                 index + 1 \in 1..n /\ ((index + 1) - 1) % count = index
<1>1. ASSUME NEW i \in 1..n PROVE (i - 1) % count \in 0..(count - 1)
    <2>1. i - 1 \in Int /\ count \in Nat \ {0}
        OBVIOUS
    <2> QED
        BY <2>1
<1>2. ASSUME NEW index \in 0..(count - 1)
      PROVE  index + 1 \in 1..n /\ ((index + 1) - 1) % count = index
    <2>1. (index + 1) - 1 = index /\ index + 1 \in 1..n
        OBVIOUS
    <2>2. count \in Nat /\ index \in Nat /\ index < count
        OBVIOUS
    <2>3. index % count = index
        BY <2>2
    <2> QED
        BY <2>1, <2>3
<1> QED
    BY <1>1, <1>2

\* The positions of a shard.
Turns(suite, index, count) == {i \in DOMAIN suite.cases : (i - 1) % count = index}

\* The cases of a shard.
LEMMA ShardCases ==
    ASSUME NEW suite, IsSuite(suite), NEW count \in 1..Len(suite.cases),
           NEW index \in 0..(count - 1)
    PROVE  /\ Cases(Shard(suite, index, count))
                  = {suite.cases[i] : i \in Turns(suite, index, count)}
           /\ Turns(suite, index, count) # {}
<1>1. Shard(suite, index, count) = Kept(suite, Turns(suite, index, count))
    BY DEF Shard, Turns
<1>2. Turns(suite, index, count) \in SUBSET DOMAIN suite.cases
    BY DEF Turns
<1>3. index + 1 \in Turns(suite, index, count)
    BY SuiteShape, RoundRobin DEF Turns
<1>4. Cases(Kept(suite, Turns(suite, index, count)))
          = {suite.cases[i] : i \in Turns(suite, index, count)}
    <2> DEFINE turns == Turns(suite, index, count)
    <2>1. turns \in SUBSET DOMAIN suite.cases
        BY <1>2
    <2> HIDE DEF turns
    <2>2. Cases(Kept(suite, turns)) = {suite.cases[i] : i \in turns}
        BY <2>1, KeptCaseSet
    <2> QED
        BY <2>2 DEF turns
<1> QED
    BY <1>1, <1>3, <1>4, Zenon

\* Every case is in the shard of its turn.
LEMMA ShardsHoldAll ==
    ASSUME NEW suite, IsSuite(suite), NEW count \in 1..Len(suite.cases)
    PROVE  UNION {Cases(Shard(suite, index, count)) : index \in 0..(count - 1)}
               = Cases(suite)
<1>1. ASSUME NEW index \in 0..(count - 1)
      PROVE  Cases(Shard(suite, index, count)) \subseteq Cases(suite)
    <2>1. Turns(suite, index, count) \subseteq DOMAIN suite.cases
        BY DEF Turns
    <2>2. Cases(Shard(suite, index, count))
              = {suite.cases[i] : i \in Turns(suite, index, count)}
        BY ShardCases
    <2> QED
        BY <2>1, <2>2, Zenon DEF Cases
<1>2. ASSUME NEW case \in Cases(suite)
      PROVE  \E index \in 0..(count - 1) : case \in Cases(Shard(suite, index, count))
    <2>1. PICK i \in DOMAIN suite.cases : case = suite.cases[i]
        BY DEF Cases
    <2>2. (i - 1) % count \in 0..(count - 1)
        BY SuiteShape, RoundRobin
    <2>3. i \in Turns(suite, (i - 1) % count, count)
        BY DEF Turns
    <2> QED
        BY <2>1, <2>2, <2>3, ShardCases
<1> QED
    BY <1>1, <1>2, Zenon

\* No case is in two shards, nor any identifier.
LEMMA ShardsAreDisjoint ==
    ASSUME NEW suite, IsSuite(suite), NEW count \in 1..Len(suite.cases),
           NEW one \in 0..(count - 1), NEW other \in 0..(count - 1), one # other
    PROVE  CaseIds(Shard(suite, one, count)) \cap CaseIds(Shard(suite, other, count)) = {}
<1> SUFFICES ASSUME NEW id \in CaseIds(Shard(suite, one, count)),
                    id \in CaseIds(Shard(suite, other, count))
             PROVE  FALSE
    OBVIOUS
<1>1. PICK i \in Turns(suite, one, count) : id = suite.cases[i].case_id
    BY ShardCases DEF CaseIds
<1>2. PICK j \in Turns(suite, other, count) : id = suite.cases[j].case_id
    BY ShardCases DEF CaseIds
<1>3. i \in DOMAIN suite.cases /\ j \in DOMAIN suite.cases
    BY <1>1, <1>2 DEF Turns
<1>4. i = j
    BY <1>1, <1>2, <1>3, SuiteShape
<1> QED
    BY <1>1, <1>2, <1>4 DEF Turns

\* What check_suite asks of a suite comes down to what it asks of each case.
LEMMA ReadyMeansMatching ==
    ASSUME NEW p, IsPolicy(p), NEW suite
    PROVE  Ready(p, suite) <=> ~HasConflicts(p) /\ MatchesExpectations(p, suite)
    BY MatchingIsConsistent DEF Ready

\* A suite passes the gate exactly if all its shards do.
LEMMA GateOfAnySuiteSplits ==
    ASSUME NEW p, IsPolicy(p), NEW suite, IsSuite(suite), NEW count \in 1..Len(suite.cases)
    PROVE  Ready(p, suite)
               <=> \A index \in 0..(count - 1) : Ready(p, Shard(suite, index, count))
<1>1. Cases(suite) = UNION {Cases(Shard(suite, index, count)) : index \in 0..(count - 1)}
    BY ShardsHoldAll
<1>2. MatchesExpectations(p, suite)
          <=> \A index \in 0..(count - 1) : MatchesExpectations(p, Shard(suite, index, count))
    BY <1>1, Zenon DEF MatchesExpectations
<1>3. 0 \in 0..(count - 1)
    BY SuiteShape
<1> QED
    BY <1>2, <1>3, ReadyMeansMatching, Zenon

\* The suites that the files hold, and the policy of the moment.
Standing == IInv /\ PolicyIsWritten

\* What all properties of a session rest on.
LEMMA AlwaysStanding == Spec => []Standing
<1>1. Init => PolicyIsWritten
    BY DEF Init, PolicyIsWritten
<1> QED
    BY <1>1, PolicyStaysWritten, OriginsAtFirst, OriginsAreKept, PTL DEF Spec, Standing

\* In a session the policy is valid and whatever can be read is a suite.
LEMMA WhatStands ==
    ASSUME Standing
    PROVE  IsPolicy(policy) /\ \A suite \in SuiteFiles : IsSuite(suite)
    BY PoliciesAssumption DEF Standing, IInv, FilesAreSuites, PolicyIsWritten, SuiteFiles, Readable

\* Whatever an author does in a session, each suite can be gated shard by
\* shard, into as many shards as it has cases.
THEOREM ShardsGateTheSuite == Spec => []GateSplits
<1>1. Standing => GateSplits
    <2> SUFFICES ASSUME Standing, NEW suite \in SuiteFiles, NEW count \in 1..Len(suite.cases)
                 PROVE  LET shards == [index \in 0..(count - 1) |-> Shard(suite, index, count)]
                        IN /\ UNION {Cases(shards[index]) : index \in 0..(count - 1)}
                                 = Cases(suite)
                           /\ \A one, other \in 0..(count - 1) :
                                 one # other =>
                                    CaseIds(shards[one]) \cap CaseIds(shards[other]) = {}
                           /\ Ready(policy, suite)
                                 <=> \A index \in 0..(count - 1) :
                                        Ready(policy, shards[index])
        BY Zenon DEF GateSplits
    <2>1. IsPolicy(policy) /\ IsSuite(suite)
        BY WhatStands
    <2> DEFINE shards == [index \in 0..(count - 1) |-> Shard(suite, index, count)]
    <2>2. \A index \in 0..(count - 1) : shards[index] = Shard(suite, index, count)
        OBVIOUS
    <2> HIDE DEF shards
    <2>3. {Cases(shards[index]) : index \in 0..(count - 1)}
              = {Cases(Shard(suite, index, count)) : index \in 0..(count - 1)}
        BY <2>2
    <2>4. UNION {Cases(shards[index]) : index \in 0..(count - 1)} = Cases(suite)
        BY <2>1, <2>3, ShardsHoldAll
    <2>5. \A one, other \in 0..(count - 1) :
              one # other => CaseIds(shards[one]) \cap CaseIds(shards[other]) = {}
        BY <2>1, <2>2, ShardsAreDisjoint
    <2>6. Ready(policy, suite) <=> \A index \in 0..(count - 1) : Ready(policy, shards[index])
        BY <2>1, <2>2, GateOfAnySuiteSplits
    <2> QED
        BY <2>4, <2>5, <2>6, Zenon DEF shards
<1> QED
    BY <1>1, AlwaysStanding, PTL

-----------------------------------------------------------------------------
(* Migrations between two policies.                                        *)

\* The cases of a captured suite.
LEMMA CapturedCases ==
    ASSUME NEW p, NEW suite, IsSuite(suite), NEW captured \in Cases(Captured(p, suite))
    PROVE  \E case \in Cases(suite) : IsCase(case) /\ captured = CapturedCase(p, case)
<1>1. PICK i \in DOMAIN suite.cases : captured = CapturedCase(p, suite.cases[i])
    BY DEF Cases, Captured
<1>2. suite.cases[i] \in Cases(suite) /\ IsCase(suite.cases[i])
    BY DEF Cases, IsSuite
<1> QED
    BY <1>1, <1>2

\* A captured case regresses under a policy exactly for one of the reasons.
LEMMA CapturedCaseSeesEveryChange ==
    ASSUME NEW p, NEW candidate, NEW case, IsCase(case), MatchesExpectation(p, case)
    PROVE  LET captured == CapturedCase(p, case) IN
           /\ MatchesExpectation(p, captured)
           /\ RuleIds(p) \subseteq AssertedRules(captured)
           /\ ~MatchesExpectation(candidate, captured) <=>
                 \/ VerdictChanged(p, candidate, captured)
                 \/ \E id \in RuleIds(p) :
                       \/ id \notin RuleIds(candidate)
                       \/ Observed(p, captured.response)[id]
                             # Observed(candidate, captured.response)[id]
<1> DEFINE captured == CapturedCase(p, case)
<1>1. /\ captured.response = case.response
      /\ captured.expected_passed = AllPass(p, captured.response)
      /\ AssertedRules(captured) = RuleIds(p)
      /\ \A id : Assertion(captured, id) = Observed(p, captured.response)[id]
    <2>1. case.expected_passed = AllPass(p, case.response)
        BY DEF MatchesExpectation
    <2> QED
        BY <2>1, CapturedCaseShape
<1> HIDE DEF captured
<1>2. MatchesExpectation(p, captured)
    BY <1>1 DEF MatchesExpectation, AssertionMismatches
<1>3. AssertionMismatches(candidate, captured) # {} <=>
          \E id \in RuleIds(p) :
             \/ id \notin RuleIds(candidate)
             \/ Observed(p, captured.response)[id]
                   # Observed(candidate, captured.response)[id]
    BY <1>1 DEF AssertionMismatches
<1>4. AllPass(candidate, captured.response) # captured.expected_passed
          <=> VerdictChanged(p, candidate, captured)
    BY <1>1, Zenon DEF VerdictChanged
<1>5. RuleIds(p) \subseteq AssertedRules(captured)
    BY <1>1
<1> QED
    BY <1>2, <1>3, <1>4, <1>5, Zenon DEF MatchesExpectation, captured

\* The same of the whole captured suite.
LEMMA CapturedSuiteSeesEveryChange ==
    ASSUME NEW suite, IsSuite(suite), NEW candidate
    PROVE  CapturedSuitesSeeEveryChange(suite, candidate)
<1> SUFFICES ASSUME MatchesExpectations(policy, suite)
             PROVE  LET captured == Captured(policy, suite)
                    IN /\ MatchesExpectations(policy, captured)
                       /\ FullyAsserted(policy, captured)
                       /\ Regressions(policy, candidate, captured) =
                             {case \in Cases(captured) :
                                 \/ VerdictChanged(policy, candidate, case)
                                 \/ \E id \in RuleIds(policy) :
                                       \/ id \notin RuleIds(candidate)
                                       \/ Observed(policy, case.response)[id]
                                             # Observed(candidate, case.response)[id]}
    BY Zenon DEF CapturedSuitesSeeEveryChange
<1> DEFINE captured == Captured(policy, suite)
           Changed(case) == \/ VerdictChanged(policy, candidate, case)
                            \/ \E id \in RuleIds(policy) :
                                  \/ id \notin RuleIds(candidate)
                                  \/ Observed(policy, case.response)[id]
                                        # Observed(candidate, case.response)[id]
<1>1. ASSUME NEW case \in Cases(captured)
      PROVE  /\ MatchesExpectation(policy, case)
             /\ RuleIds(policy) \subseteq AssertedRules(case)
             /\ ~MatchesExpectation(candidate, case) <=> Changed(case)
    <2>1. PICK source \in Cases(suite) :
              IsCase(source) /\ case = CapturedCase(policy, source)
        BY CapturedCases
    <2>2. MatchesExpectation(policy, source)
        BY DEF MatchesExpectations
    <2> QED
        BY <2>1, <2>2, CapturedCaseSeesEveryChange
<1> HIDE DEF Changed, captured
<1>2. MatchesExpectations(policy, captured) /\ FullyAsserted(policy, captured)
    BY <1>1, Zenon DEF MatchesExpectations, FullyAsserted
<1>3. Regressions(policy, candidate, captured) = {case \in Cases(captured) : Changed(case)}
    BY <1>1, Zenon DEF Regressions
<1> QED
    BY <1>2, <1>3, Zenon DEF captured, Changed

\* A verdict is what the codes of the rules say.
LEMMA VerdictOfCodes ==
    ASSUME NEW p, IsPolicy(p), NEW response
    PROVE  AllPass(p, response) <=>
               \A id \in RuleIds(p) : Observed(p, response)[id] = "RULE_SATISFIED"
<1>1. \A i \in DOMAIN p :
          /\ p[i].rule_id \in RuleIds(p)
          /\ Observed(p, response)[p[i].rule_id] = ReasonCode(p[i], response)
    BY RuleOfId DEF Observed, RuleIds
<1>2. \A id \in RuleIds(p) : \E i \in DOMAIN p : id = p[i].rule_id
    BY DEF RuleIds
<1> QED
    BY <1>1, <1>2, Zenon DEF AllPass, Passes

\* Where no rule result changes, nothing that is judged by them does.
LEMMA SameRowsSameJudgement ==
    ASSUME NEW old, IsPolicy(old), NEW new, IsPolicy(new), NEW case,
           ChangedRuleResults(old, new, case) = {}
    PROVE  /\ AllPass(old, case.response) = AllPass(new, case.response)
           /\ AssertionMismatches(old, case) = AssertionMismatches(new, case)
           /\ MatchesExpectation(old, case) <=> MatchesExpectation(new, case)
<1>1. \A id \in RuleIds(old) \cup RuleIds(new) :
          Row(old, id, case.response) = Row(new, id, case.response)
    BY DEF ChangedRuleResults
<1>2. ASSUME NEW id \in RuleIds(old) \cup RuleIds(new)
      PROVE  /\ id \in RuleIds(old) /\ id \in RuleIds(new)
             /\ Observed(old, case.response)[id] = Observed(new, case.response)[id]
    <2> DEFINE of(p) == <<RuleOf(p, id).path, RuleOf(p, id).kind,
                          Observed(p, case.response)[id]>>
    <2>1. \A p : of(p) # << >> /\ of(p)[3] = Observed(p, case.response)[id]
        OBVIOUS
    <2>2. \A p : Row(p, id, case.response) = IF id \in RuleIds(p) THEN of(p) ELSE << >>
        BY DEF Row
    <2> HIDE DEF of
    <2> QED
        BY <1>1, <2>1, <2>2
<1>3. RuleIds(old) = RuleIds(new)
    BY <1>2
<1>4. \A id \in RuleIds(old) :
          Observed(old, case.response)[id] = Observed(new, case.response)[id]
    BY <1>2
<1>5. AllPass(old, case.response) <=> AllPass(new, case.response)
    BY <1>3, <1>4, VerdictOfCodes
<1>6. AssertionMismatches(old, case) = AssertionMismatches(new, case)
    BY <1>3, <1>4 DEF AssertionMismatches
<1>7. AllPass(old, case.response) = AllPass(new, case.response)
    BY <1>5 DEF AllPass
<1> QED
    BY <1>6, <1>7, Zenon DEF MatchesExpectation

\* A rule with the same signature gives the same result.
LEMMA SameSignatureSameRow ==
    ASSUME NEW old, IsPolicy(old), NEW new, IsPolicy(new), NEW response,
           NEW id \in RuleIds(old) \cap RuleIds(new),
           RuleSignature(RuleOf(old, id)) = RuleSignature(RuleOf(new, id))
    PROVE  Row(old, id, response) = Row(new, id, response)
<1> DEFINE before == RuleOf(old, id)
           after == RuleOf(new, id)
<1>1. IsRule(before) /\ IsRule(after)
    BY RuleOfId
<1>2. before.path = after.path /\ ConstraintMarker(before) = ConstraintMarker(after)
    BY DEF RuleSignature
<1>3. /\ Observed(old, response)[id] = ReasonCode(before, response)
      /\ Observed(new, response)[id] = ReasonCode(after, response)
    BY DEF Observed
<1> HIDE DEF before, after
<1>4. before.kind = after.kind /\ ReasonCode(before, response) = ReasonCode(after, response)
    BY <1>1, <1>2, MarkersDecide DEF ReasonCode
<1> QED
    BY <1>2, <1>3, <1>4 DEF Row, before, after

\* What regresses or recovers has a changed rule, and is judged otherwise.
LEMMA MigrationOfAnySuite ==
    ASSUME IsPolicy(policy), NEW candidate, IsPolicy(candidate), NEW suite
    PROVE  MigrationIsAccountedFor(suite, candidate)
<1> SUFFICES ASSUME NEW case \in Cases(suite)
             PROVE  LET changed == ChangedRuleResults(policy, candidate, case)
                    IN /\ changed \subseteq AddedRules(policy, candidate)
                                              \cup RemovedRules(policy, candidate)
                                              \cup ModifiedRules(policy, candidate)
                       /\ VerdictChanged(policy, candidate, case) => changed # {}
                       /\ case \in Regressions(policy, candidate, suite)
                                     \cup Recoveries(policy, candidate, suite) => changed # {}
    BY Zenon DEF MigrationIsAccountedFor
<1> DEFINE changed == ChangedRuleResults(policy, candidate, case)
<1>1. ASSUME NEW id \in changed
      PROVE  id \in AddedRules(policy, candidate) \cup RemovedRules(policy, candidate)
                      \cup ModifiedRules(policy, candidate)
    <2>1. /\ id \in RuleIds(policy) \cup RuleIds(candidate)
          /\ Row(policy, id, case.response) # Row(candidate, id, case.response)
        BY DEF ChangedRuleResults
    <2> QED
        BY <2>1, SameSignatureSameRow DEF AddedRules, RemovedRules, ModifiedRules
<1>2. VerdictChanged(policy, candidate, case) => changed # {}
    BY SameRowsSameJudgement DEF VerdictChanged
<1>3. case \in Regressions(policy, candidate, suite) \cup Recoveries(policy, candidate, suite)
          => changed # {}
    BY SameRowsSameJudgement, Zenon DEF Regressions, Recoveries
<1> QED
    BY <1>1, <1>2, <1>3

\* In any session, a captured suite under any other version of the policy shows
\* each change and nothing else, and what regresses or recovers is explained by
\* the rules that were added, removed or modified.
THEOREM MigrationsShow == Spec => []MigrationsAreVisible
<1>1. Standing => MigrationsAreVisible
    BY WhatStands, PoliciesAssumption, CapturedSuiteSeesEveryChange, MigrationOfAnySuite,
       Zenon DEF MigrationsAreVisible
<1> QED
    BY <1>1, AlwaysStanding, PTL

-----------------------------------------------------------------------------
(* Differences between two suites.                                         *)

\* All identifiers of a suite, in its order.
LEMMA AllIdsInOrder ==
    ASSUME NEW suite, IsSuite(suite)
    PROVE  IdsInOrder(suite, CaseIds(suite))
               = [k \in 1..Len(suite.cases) |-> suite.cases[k].case_id]
<1> DEFINE n == Len(suite.cases)
           kept == Kept(suite, 1..n)
<1>1. n \in Nat /\ DOMAIN suite.cases = 1..n
    BY SuiteShape
<1>2. {i \in DOMAIN suite.cases : suite.cases[i].case_id \in CaseIds(suite)} = 1..n
    BY <1>1 DEF CaseIds, Cases
<1>3. Selected(suite, CaseIds(suite)) = kept
    BY <1>2, Zenon DEF Selected
<1>4. kept.cases = [k \in 1..Cardinality(1..n) |-> suite.cases[Nth(1..n, k)]]
    <2>1. 1..n \in SUBSET DOMAIN suite.cases
        BY <1>1
    <2> HIDE DEF n
    <2> QED
        BY <2>1, KeptCaseList
<1> HIDE DEF n, kept
<1>5. Cardinality(1..n) = n
    BY <1>1, CountOfAll
<1>6. kept.cases = [k \in 1..n |-> suite.cases[k]]
    BY <1>1, <1>4, <1>5, NthOfAll
<1>7. [k \in DOMAIN kept.cases |-> kept.cases[k].case_id] = [k \in 1..n |-> suite.cases[k].case_id]
    BY <1>6
<1> QED
    BY <1>3, <1>7 DEF IdsInOrder, n

\* An identifier leads to its case.
LEMMA CaseOfItsId ==
    ASSUME NEW suite, IsSuite(suite), NEW i \in DOMAIN suite.cases
    PROVE  /\ suite.cases[i].case_id \in CaseIds(suite)
           /\ CaseOf(suite, suite.cases[i].case_id) = suite.cases[i]
<1> DEFINE id == suite.cases[i].case_id
<1>1. suite.cases[i] \in Cases(suite)
    BY DEF Cases
<1>2. \A case \in Cases(suite) : case.case_id = id => case = suite.cases[i]
    BY SuiteShape DEF Cases
<1>3. CaseOf(suite, id) = suite.cases[i]
    BY <1>1, <1>2, Zenon DEF CaseOf
<1> QED
    BY <1>1, <1>3 DEF CaseIds

\* Where the diff reports nothing, the suites have the same cases in the same order.
LEMMA SameDiffSameSuite ==
    ASSUME NEW left, IsSuite(left), NEW right, IsSuite(right),
           CaseIds(left) = CaseIds(right), ModifiedCases(left, right) = {},
           ~OrderChanged(left, right), left.suite_version = right.suite_version
    PROVE  left = right
<1> DEFINE n == Len(left.cases)
           m == Len(right.cases)
<1>1. /\ n \in Nat /\ DOMAIN left.cases = 1..n /\ left.cases = [i \in 1..n |-> left.cases[i]]
      /\ left = [suite_version |-> left.suite_version, cases |-> left.cases]
    BY SuiteShape
<1>2. /\ m \in Nat /\ DOMAIN right.cases = 1..m /\ right.cases = [i \in 1..m |-> right.cases[i]]
      /\ right = [suite_version |-> right.suite_version, cases |-> right.cases]
    BY SuiteShape
<1>3. [k \in 1..n |-> left.cases[k].case_id] = [k \in 1..m |-> right.cases[k].case_id]
    <2>1. /\ SharedIds(left, right) = CaseIds(left)
          /\ SharedIds(left, right) = CaseIds(right)
        BY DEF SharedIds
    <2>2. IdsInOrder(left, CaseIds(left)) = IdsInOrder(right, CaseIds(right))
        BY <2>1, Zenon DEF OrderChanged
    <2> QED
        BY <2>2, AllIdsInOrder
<1> HIDE DEF n, m
<1>4. n = m
    <2>1. 1..n = 1..m
        BY <1>3
    <2>2. Cardinality(1..n) = n /\ Cardinality(1..m) = m
        BY <1>1, <1>2, CountOfAll
    <2> QED
        BY <2>1, <2>2
<1>5. ASSUME NEW i \in 1..n PROVE left.cases[i] = right.cases[i]
    <2> DEFINE id == left.cases[i].case_id
    <2>1. id = right.cases[i].case_id
        BY <1>3, <1>4
    <2>2. /\ id \in CaseIds(left) /\ CaseOf(left, id) = left.cases[i]
          /\ id \in CaseIds(right) /\ CaseOf(right, id) = right.cases[i]
        BY <1>1, <1>2, <1>4, <2>1, CaseOfItsId
    <2>3. CaseOf(left, id) = CaseOf(right, id)
        BY <2>2, Zenon DEF ModifiedCases, SharedIds
    <2> QED
        BY <2>2, <2>3
<1>6. left.cases = right.cases
    BY <1>1, <1>2, <1>4, <1>5
<1> QED
    BY <1>1, <1>2, <1>6

\* In any session, two suites for which the diff has nothing to report are one.
THEOREM DiffSeesEverything == Spec => []DiffIsComplete
<1>1. \A suite : /\ ModifiedCases(suite, suite) = {} /\ ~OrderChanged(suite, suite)
    BY Zenon DEF ModifiedCases, OrderChanged
<1>2. Standing => DiffIsComplete
    BY <1>1, WhatStands, SameDiffSameSuite, Zenon DEF DiffIsComplete
<1> QED
    BY <1>2, AlwaysStanding, PTL

-----------------------------------------------------------------------------
(* The greedy search of reduce_suite, on any signatures.                   *)

\* Induction, for a set of rounds.
LEMMA EveryRound ==
    ASSUME NEW m \in Nat, NEW G, 0 \in G, \A r \in 1..m : r - 1 \in G => r \in G
    PROVE  \A r \in 0..m : r \in G
<1> DEFINE Bad == {r \in 0..m : r \notin G}
<1> SUFFICES ASSUME Bad # {} PROVE FALSE
    OBVIOUS
<1>1. Bad \in SUBSET Nat
    OBVIOUS
<1>2. PICK r \in Bad : \A q \in Bad : r <= q
    BY <1>1, LeastNumber
<1>3. r \in 1..m /\ r - 1 \in 0..m /\ ~(r <= r - 1)
    BY <1>2
<1>4. r - 1 \in G
    BY <1>2, <1>3
<1> QED
    BY <1>2, <1>3, <1>4

\* Signatures of n cases.
AreSignatures(signatures, n) ==
    /\ n \in Nat \ {0}
    /\ signatures = [i \in 1..n |-> signatures[i]]
    /\ \A i \in 1..n : IsFiniteSet(signatures[i]) /\ signatures[i] # {}

IsSearch(signatures, first, m, f) ==
    f = [round \in 0..m |-> IF round = 0 THEN first ELSE Round(signatures, f[round - 1])]

Search(signatures, first, m) == CHOOSE f : IsSearch(signatures, first, m, f)

\* The search exists for every number of rounds.
LEMMA SearchExists ==
    ASSUME NEW signatures, NEW first, NEW m \in Nat
    PROVE  \E f : IsSearch(signatures, first, m, f)
<1> DEFINE G == {k \in Nat : \E f : IsSearch(signatures, first, k, f)}
<1>1. 0 \in G
    <2>1. IsSearch(signatures, first, 0, [round \in 0..0 |-> first])
        BY DEF IsSearch
    <2> QED
        BY <2>1
<1>2. ASSUME NEW k \in 1..m, k - 1 \in G PROVE k \in G
    <2>1. PICK f : IsSearch(signatures, first, k - 1, f)
        BY <1>2
    <2> DEFINE g == [round \in 0..k |-> IF round = k THEN Round(signatures, f[k - 1])
                                        ELSE f[round]]
    <2>2. ASSUME NEW round \in 0..k
          PROVE  g[round] = IF round = 0 THEN first ELSE Round(signatures, g[round - 1])
        <3>0. k # 0 /\ k - 1 \in 0..k /\ k - 1 # k
            OBVIOUS
        <3>1. CASE round = k
            BY <3>0, <3>1
        <3>2. CASE round # k
            <4>1. round \in 0..(k - 1) /\ (round # 0 => round - 1 \in 0..k /\ round - 1 # k)
                BY <2>2, <3>2
            <4>2. f[round] = IF round = 0 THEN first ELSE Round(signatures, f[round - 1])
                BY <2>1, <4>1 DEF IsSearch
            <4> QED
                BY <3>2, <4>1, <4>2
        <3> QED
            BY <3>1, <3>2
    <2>3. IsSearch(signatures, first, k, g)
        BY <2>2 DEF IsSearch
    <2> QED
        BY <2>3
<1> HIDE DEF G
<1>3. m \in G
    BY <1>1, <1>2, EveryRound
<1> QED
    BY <1>3 DEF G

\* Its first round and each later one.
LEMMA SearchRounds ==
    ASSUME NEW signatures, NEW first, NEW m \in Nat
    PROVE  LET f == Search(signatures, first, m) IN
           f[0] = first /\ \A r \in 1..m : f[r] = Round(signatures, f[r - 1])
<1> DEFINE f == Search(signatures, first, m)
<1>0. IsSearch(signatures, first, m, f)
    BY SearchExists, Zenon DEF Search
<1>1. f = [round \in 0..m |-> IF round = 0 THEN first ELSE Round(signatures, f[round - 1])]
    BY <1>0, Zenon DEF IsSearch
<1> HIDE DEF f
<1>2. f[0] = first /\ \A r \in 1..m : f[r] = Round(signatures, f[r - 1])
    BY <1>1
<1> QED
    BY <1>2 DEF f

\* Of finitely many numbers there is a greatest, and it has a first place.
LEMMA FirstGreatest ==
    ASSUME NEW n \in Nat \ {0}, NEW gain, \A i \in 1..n : gain[i] \in Nat
    PROVE  \E i \in 1..n : \A j \in 1..n : gain[i] > gain[j] \/ (gain[i] = gain[j] /\ i <= j)
<1> DEFINE Best(i, m) == \A j \in 1..m : gain[i] > gain[j] \/ (gain[i] = gain[j] /\ i <= j)
           G == {m \in 0..n : m = 0 \/ \E i \in 1..m : Best(i, m)}
<1>1. ASSUME NEW m \in 1..n, m - 1 \in G PROVE m \in G
    <2>1. CASE m = 1
        BY <2>1
    <2>2. CASE m # 1
        <3>1. PICK i \in 1..(m - 1) : Best(i, m - 1)
            BY <1>1, <2>2
        <3>2. \A j \in 1..m : gain[j] \in Nat /\ (j = m \/ j \in 1..(m - 1))
            OBVIOUS
        <3>3. i \in 1..m /\ i <= m
            OBVIOUS
        <3>4. CASE gain[m] > gain[i]
            <4>1. \A j \in 1..(m - 1) : gain[m] > gain[j]
                BY <3>1, <3>2, <3>3, <3>4
            <4>2. m \in 1..m /\ m <= m
                OBVIOUS
            <4>3. ASSUME NEW j \in 1..m
                  PROVE  gain[m] > gain[j] \/ (gain[m] = gain[j] /\ m <= j)
                <5>1. CASE j = m
                    BY <4>2, <4>3, <5>1
                <5>2. CASE j # m
                    <6>1. j \in 1..(m - 1)
                        BY <4>3, <5>2
                    <6> QED
                        BY <4>1, <6>1, Zenon
                <5> QED
                    BY <5>1, <5>2
            <4> QED
                BY <4>2, <4>3
        <3>5. CASE ~(gain[m] > gain[i])
            <4>1. gain[i] > gain[m] \/ gain[i] = gain[m]
                BY <3>2, <3>3, <3>5
            <4>2. Best(i, m)
                BY <3>1, <3>2, <3>3, <4>1
            <4> QED
                BY <3>3, <4>2
        <3> QED
            BY <3>4, <3>5
    <2> QED
        BY <2>1, <2>2
<1>2. 0 \in G
    OBVIOUS
<1> HIDE DEF G
<1>3. n \in G
    BY <1>1, <1>2, EveryRound
<1> QED
    BY <1>3 DEF G

\* A round while something is uncovered adds a case, and one that covers most.
LEMMA RoundAddsACase ==
    ASSUME NEW signatures, NEW n, AreSignatures(signatures, n), NEW S \in SUBSET (1..n)
    PROVE  LET i == Chosen(signatures, S) IN
           /\ \A j \in 1..n : Gain(signatures, S, j) \in Nat
           /\ i \in 1..n
           /\ \A j \in 1..n : \/ Gain(signatures, S, i) > Gain(signatures, S, j)
                              \/ Gain(signatures, S, i) = Gain(signatures, S, j) /\ i <= j
           /\ Covered(signatures, S) # Covered(signatures, 1..n) => i \notin S
<1> DEFINE i == Chosen(signatures, S)
           gain == [j \in 1..n |-> Gain(signatures, S, j)]
<1>1. DOMAIN signatures = 1..n /\ n \in Nat \ {0}
    BY DEF AreSignatures
<1>2. ASSUME NEW j \in 1..n
      PROVE  /\ IsFiniteSet(signatures[j] \ Covered(signatures, S))
             /\ Gain(signatures, S, j) \in Nat
    BY FS_Subset, FS_CardinalityType DEF AreSignatures, Gain
<1>3. \A j \in 1..n : gain[j] = Gain(signatures, S, j) /\ gain[j] \in Nat
    BY <1>2
<1> HIDE DEF gain
<1>4. \E b \in 1..n : \A j \in 1..n : gain[b] > gain[j] \/ (gain[b] = gain[j] /\ b <= j)
    BY <1>1, <1>3, FirstGreatest, Zenon
<1>5. \E b \in 1..n : \A j \in 1..n :
          \/ Gain(signatures, S, b) > Gain(signatures, S, j)
          \/ Gain(signatures, S, b) = Gain(signatures, S, j) /\ b <= j
    BY <1>3, <1>4
<1>6. /\ i \in 1..n
      /\ \A j \in 1..n : \/ Gain(signatures, S, i) > Gain(signatures, S, j)
                         \/ Gain(signatures, S, i) = Gain(signatures, S, j) /\ i <= j
    BY <1>1, <1>5, Zenon DEF Chosen
<1> HIDE DEF i
<1>7. ASSUME Covered(signatures, S) # Covered(signatures, 1..n), i \in S PROVE FALSE
    <2>1. PICK j \in 1..n : signatures[j] \ Covered(signatures, S) # {}
        BY <1>7 DEF Covered
    <2>2. Gain(signatures, S, j) # 0
        BY <1>2, <2>1, FS_EmptySet DEF Gain
    <2>3. signatures[i] \ Covered(signatures, S) = {}
        BY <1>7 DEF Covered
    <2>4. Gain(signatures, S, i) = 0
        BY <2>3, FS_EmptySet DEF Gain
    <2>5. \/ Gain(signatures, S, i) > Gain(signatures, S, j)
          \/ Gain(signatures, S, i) = Gain(signatures, S, j)
        BY <1>6, <2>1, Zenon
    <2>6. Gain(signatures, S, j) \in Nat
        BY <1>2, <2>1, Zenon
    <2> QED
        BY <2>2, <2>4, <2>5, <2>6
<1> QED
    BY <1>2, <1>6, <1>7, Zenon DEF i

\* What the search keeps only grows, covers no more than there is, and after
\* each round either covers everything or holds a case more.
LEMMA SearchBounds ==
    ASSUME NEW signatures, NEW n, AreSignatures(signatures, n),
           NEW first \in SUBSET (1..n), NEW m \in Nat
    PROVE  LET f == Search(signatures, first, m) IN
           \A r \in 0..m :
              /\ first \subseteq f[r] /\ f[r] \subseteq 1..n
              /\ \/ Covered(signatures, f[r]) = Covered(signatures, 1..n)
                 \/ Cardinality(f[r]) >= r
<1> DEFINE f == Search(signatures, first, m)
           Holds(r) == /\ first \subseteq f[r] /\ f[r] \subseteq 1..n
                       /\ \/ Covered(signatures, f[r]) = Covered(signatures, 1..n)
                          \/ Cardinality(f[r]) >= r
           G == {r \in 0..m : Holds(r)}
<1>1. f[0] = first /\ \A r \in 1..m : f[r] = Round(signatures, f[r - 1])
    BY SearchRounds
<1> HIDE DEF f
<1>2. DOMAIN signatures = 1..n /\ n \in Nat \ {0} /\ IsFiniteSet(1..n)
    <2>1. DOMAIN signatures = 1..n /\ n \in Nat \ {0}
        BY DEF AreSignatures
    <2> QED
        BY <2>1, CountOfAll
<1>3. 0 \in G
    <2>1. Cardinality(first) \in Nat
        BY <1>2, FS_Subset, FS_CardinalityType
    <2>2. Holds(0)
        BY <1>1, <2>1
    <2>3. 0 \in 0..m
        OBVIOUS
    <2> QED
        BY <2>2, <2>3, Zenon
<1>4. ASSUME NEW r \in 1..m, r - 1 \in G PROVE r \in G
    <2> DEFINE S == f[r - 1]
    <2>1. /\ first \subseteq S /\ S \in SUBSET (1..n) /\ r - 1 \in Nat
          /\ \/ Covered(signatures, S) = Covered(signatures, 1..n)
             \/ Cardinality(S) >= r - 1
        BY <1>4
    <2>2. f[r] = Round(signatures, S)
        BY <1>1
    <2> HIDE DEF S
    <2>3. ASSUME Covered(signatures, S) = Covered(signatures, 1..n)
          PROVE  Holds(r)
        <3>1. f[r] = S
            BY <1>2, <2>2, <2>3 DEF Round
        <3> QED
            BY <2>1, <2>3, <3>1, Zenon
    <2>4. ASSUME Covered(signatures, S) # Covered(signatures, 1..n)
          PROVE  Holds(r)
        <3> DEFINE i == Chosen(signatures, S)
        <3>1. f[r] = S \cup {i}
            BY <1>2, <2>2, <2>4 DEF Round
        <3>2. i \in 1..n /\ i \notin S
            BY <2>1, <2>4, RoundAddsACase
        <3> HIDE DEF i
        <3>3. IsFiniteSet(S) /\ Cardinality(S) \in Nat
            BY <1>2, <2>1, FS_Subset, FS_CardinalityType
        <3>4. Cardinality(f[r]) = Cardinality(S) + 1
            BY <3>1, <3>2, <3>3, FS_AddElement
        <3>5. Cardinality(f[r]) >= r
            BY <2>1, <2>4, <3>3, <3>4
        <3>6. first \subseteq f[r] /\ f[r] \subseteq 1..n
            BY <2>1, <3>1, <3>2
        <3> QED
            BY <3>5, <3>6
    <2>5. r \in 0..m
        OBVIOUS
    <2> QED
        BY <2>3, <2>4, <2>5, Zenon
<1> HIDE DEF G
<1>5. \A r \in 0..m : r \in G
    BY <1>3, <1>4, EveryRound
<1> QED
    BY <1>5 DEF G, f

\* It stays among the positions.
LEMMA SearchStays ==
    ASSUME NEW signatures, NEW n, AreSignatures(signatures, n),
           NEW first \in SUBSET (1..n), NEW m \in Nat, NEW r \in 0..m
    PROVE  Search(signatures, first, m)[r] \subseteq 1..n
    BY SearchBounds, Zenon

\* What is kept stays, and once everything is covered nothing is added.
LEMMA SearchGrows ==
    ASSUME NEW signatures, NEW n, AreSignatures(signatures, n),
           NEW first, NEW m \in Nat, NEW r \in 0..m
    PROVE  LET f == Search(signatures, first, m) IN
           /\ f[r] \subseteq f[m]
           /\ Covered(signatures, f[r]) = Covered(signatures, 1..n) => f[m] = f[r]
<1> DEFINE f == Search(signatures, first, m)
           last == m - r
           Holds(d) == /\ f[r] \subseteq f[r + d]
                       /\ Covered(signatures, f[r]) = Covered(signatures, 1..n)
                             => f[r + d] = f[r]
           G == {d \in 0..last : Holds(d)}
<1>1. \A q \in 1..m : f[q] = Round(signatures, f[q - 1])
    BY SearchRounds
<1> HIDE DEF f
<1>2. DOMAIN signatures = 1..n /\ last \in Nat /\ last \in 0..last /\ r + last = m
    BY DEF AreSignatures
<1> HIDE DEF last
<1>3. 0 \in G
    <2>1. r + 0 = r /\ 0 \in 0..last
        BY <1>2
    <2> QED
        BY <2>1
<1>4. ASSUME NEW d \in 1..last, d - 1 \in G PROVE d \in G
    <2>1. r + d \in 1..m /\ (r + d) - 1 = r + (d - 1)
        BY <1>2
    <2> DEFINE S == f[r + (d - 1)]
    <2>2. f[r + d] = Round(signatures, S)
        BY <1>1, <2>1
    <2>3. f[r] \subseteq S /\ (Covered(signatures, f[r]) = Covered(signatures, 1..n) => S = f[r])
        BY <1>4
    <2> HIDE DEF S
    <2>4. /\ S \subseteq f[r + d]
          /\ Covered(signatures, S) = Covered(signatures, 1..n) => f[r + d] = S
        BY <1>2, <2>2 DEF Round
    <2>5. Holds(d)
        BY <2>3, <2>4
    <2> QED
        BY <2>5
<1> HIDE DEF G
<1>5. last \in G
    BY <1>2, <1>3, <1>4, EveryRound
<1> QED
    BY <1>2, <1>5 DEF G, f

\* The search ends with everything covered.
LEMMA SearchCoversEverything ==
    ASSUME NEW signatures, NEW n, AreSignatures(signatures, n), NEW first \in SUBSET (1..n)
    PROVE  LET R == Search(signatures, first, n)[n] IN
           /\ first \subseteq R /\ R \subseteq 1..n /\ R # {}
           /\ Covered(signatures, R) = Covered(signatures, 1..n)
<1> DEFINE R == Search(signatures, first, n)[n]
<1>1. n \in Nat \ {0} /\ n \in 0..n /\ 1 \in 1..n
    BY DEF AreSignatures
<1>2. /\ first \subseteq R /\ R \subseteq 1..n
      /\ Covered(signatures, R) = Covered(signatures, 1..n) \/ Cardinality(R) >= n
    BY <1>1, SearchBounds, Zenon
<1> HIDE DEF R
<1>3. Covered(signatures, R) = Covered(signatures, 1..n)
    <2> SUFFICES ASSUME Cardinality(R) >= n PROVE R = 1..n
        BY <1>2
    <2>1. IsFiniteSet(1..n) /\ Cardinality(1..n) = n
        BY <1>1, CountOfAll
    <2>2. Cardinality(R) \in Nat /\ Cardinality(R) <= n /\ (Cardinality(R) = n => R = 1..n)
        <3>1. IsFiniteSet(R) /\ Cardinality(R) <= n /\ (n = Cardinality(R) => 1..n = R)
            BY <1>2, <2>1, FS_Subset
        <3>2. Cardinality(R) \in Nat
            BY <3>1, FS_CardinalityType
        <3> QED
            BY <3>1, <3>2
    <2> QED
        BY <1>1, <2>2
<1>4. R # {}
    <2>1. signatures[1] # {} /\ signatures[1] \subseteq Covered(signatures, 1..n)
        BY <1>1 DEF AreSignatures, Covered
    <2>2. Covered(signatures, {}) = {}
        BY DEF Covered
    <2> QED
        BY <1>3, <2>1, <2>2
<1> QED
    BY <1>2, <1>3, <1>4 DEF R

\* The best of some cases, if the best of all is one of them.
LEMMA ChosenOfKept ==
    ASSUME NEW signatures, NEW n, AreSignatures(signatures, n),
           NEW R \in SUBSET (1..n), NEW sub,
           sub = [k \in 1..Cardinality(R) |-> signatures[Nth(R, k)]],
           NEW T \in SUBSET (1..Cardinality(R)), NEW S \in SUBSET (1..n),
           Covered(sub, T) = Covered(signatures, S), Chosen(signatures, S) \in R
    PROVE  /\ Chosen(sub, T) \in 1..Cardinality(R)
           /\ Nth(R, Chosen(sub, T)) = Chosen(signatures, S)
<1> DEFINE m == Cardinality(R)
           best == Chosen(signatures, S)
           Better(k, j) == \/ Gain(sub, T, k) > Gain(sub, T, j)
                           \/ Gain(sub, T, k) = Gain(sub, T, j) /\ k <= j
<1>0. n \in Nat
    BY DEF AreSignatures
<1>1. n \in Nat /\ DOMAIN sub = 1..m
    BY <1>0
<1>2. PICK k \in 1..m : Nth(R, k) = best
    BY <1>1, EveryPositionCounts
<1>3. ASSUME NEW j \in 1..m
      PROVE  /\ Nth(R, j) \in 1..n
             /\ Gain(sub, T, j) = Gain(signatures, S, Nth(R, j))
             /\ Gain(sub, T, j) \in Nat /\ j \in Nat
    <2>1. Nth(R, j) \in R /\ Nth(R, j) \in 1..n
        BY <1>1, NthIsThere
    <2>2. sub[j] = signatures[Nth(R, j)]
        BY <1>1
    <2>3. Gain(sub, T, j) = Gain(signatures, S, Nth(R, j))
        BY <2>2, Zenon DEF Gain
    <2>4. Gain(signatures, S, Nth(R, j)) \in Nat
        BY <2>1, RoundAddsACase
    <2>5. IsFiniteSet(1..n)
        BY <1>0, CountOfAll
    <2>6. m \in Nat
        BY <2>5, FS_Subset, FS_CardinalityType
    <2> QED
        BY <2>1, <2>3, <2>4, <2>6
<1>4. \A j \in 1..n : \/ Gain(signatures, S, best) > Gain(signatures, S, j)
                      \/ Gain(signatures, S, best) = Gain(signatures, S, j) /\ best <= j
    BY RoundAddsACase, Zenon
<1>5. ASSUME NEW j \in 1..m PROVE Better(k, j)
    <2>1. Nth(R, k) <= Nth(R, j) => k <= j
        BY <1>1, NthGrows
    <2>2. \/ Gain(signatures, S, Nth(R, k)) > Gain(signatures, S, Nth(R, j))
          \/ /\ Gain(signatures, S, Nth(R, k)) = Gain(signatures, S, Nth(R, j))
             /\ Nth(R, k) <= Nth(R, j)
        BY <1>2, <1>3, <1>4
    <2>3. /\ Gain(sub, T, j) = Gain(signatures, S, Nth(R, j))
          /\ Gain(sub, T, k) = Gain(signatures, S, Nth(R, k))
        BY <1>3
    <2> QED
        BY <2>1, <2>2, <2>3
<1>6. ASSUME NEW c \in 1..m, \A j \in 1..m : Better(c, j) PROVE c = k
    <2>1. Better(c, k) /\ Better(k, c)
        BY <1>5, <1>6
    <2>2. /\ Gain(sub, T, c) \in Nat /\ Gain(sub, T, k) \in Nat
          /\ c \in Nat /\ k \in Nat
        BY <1>3
    <2> QED
        BY <2>1, <2>2
<1>7. Chosen(sub, T) = CHOOSE c \in 1..m : \A j \in 1..m : Better(c, j)
    BY <1>1, Zenon DEF Chosen
<1> HIDE DEF Better
<1>8. Chosen(sub, T) = k
    BY <1>5, <1>6, <1>7, Zenon
<1> QED
    BY <1>2, <1>8

IsResultOf(R, signatures, first, n) == R = Search(signatures, first, n)[n]

\* The signatures of the positions R alone, and where a search among them starts.
IsRestOf(sub, signatures, R) == sub = [k \in 1..Cardinality(R) |-> signatures[Nth(R, k)]]
IsStartOf(start, first, R) == start = {k \in 1..Cardinality(R) : Nth(R, k) \in first}

\* A search among the cases that a search kept keeps them all.
LEMMA SearchAgainKeepsAll ==
    ASSUME NEW signatures, NEW n, AreSignatures(signatures, n), NEW first \in SUBSET (1..n),
           NEW R, IsResultOf(R, signatures, first, n),
           NEW sub, IsRestOf(sub, signatures, R), NEW start, IsStartOf(start, first, R)
    PROVE  IsResultOf(1..Cardinality(R), sub, start, Cardinality(R))
<1> DEFINE m == Cardinality(R)
           f == Search(signatures, first, n)
           g == Search(sub, start, m)
           Image(T) == {Nth(R, k) : k \in T}
<1>rest. /\ sub = [k \in 1..m |-> signatures[Nth(R, k)]]
       /\ start = {k \in 1..m : Nth(R, k) \in first}
    BY DEF IsRestOf, IsStartOf
<1>result. R = f[n]
    BY DEF IsResultOf
<1>0. n \in Nat /\ n \in 0..n
    BY DEF AreSignatures
<1>1. /\ first \subseteq R /\ R \in SUBSET (1..n) /\ R # {}
      /\ Covered(signatures, R) = Covered(signatures, 1..n)
    BY <1>result, SearchCoversEverything
<1>2. m \in Nat \ {0} /\ m <= n /\ IsFiniteSet(R)
    <2>1. IsFiniteSet(1..n) /\ Cardinality(1..n) = n
        BY <1>0, CountOfAll
    <2>2. IsFiniteSet(R) /\ m \in Nat /\ m <= n
        <3>1. R \subseteq 1..n
            BY <1>1
        <3>2. IsFiniteSet(R) /\ m <= Cardinality(1..n)
            BY <2>1, <3>1, FS_Subset
        <3>3. m \in Nat
            BY <3>2, FS_CardinalityType
        <3> QED
            BY <2>1, <3>2, <3>3
    <2>3. m # 0
        BY <1>1, <2>2, FS_EmptySet
    <2> QED
        BY <2>2, <2>3
<1>3. /\ \A k \in 1..m : Nth(R, k) \in R /\ Nth(R, k) \in 1..n
      /\ \A k, l \in 1..m : Nth(R, k) = Nth(R, l) => k = l
      /\ \A i \in R : \E k \in 1..m : Nth(R, k) = i
    <2>1. \A k \in 1..m : Nth(R, k) \in R /\ Cardinality(UpTo(R, Nth(R, k))) = k
        BY <1>0, <1>1, NthIsThere
    <2>2. \A i \in R : /\ Cardinality(UpTo(R, i)) \in 1..m
                       /\ Nth(R, Cardinality(UpTo(R, i))) = i
        BY <1>0, <1>1, EveryPositionCounts
    <2> QED
        BY <1>1, <2>1, <2>2, Zenon
<1>4. AreSignatures(sub, m)
    <2>1. sub = [k \in 1..m |-> sub[k]]
        BY <1>rest
    <2>2. \A k \in 1..m : sub[k] = signatures[Nth(R, k)]
        BY <1>rest
    <2>3. \A k \in 1..m : IsFiniteSet(sub[k]) /\ sub[k] # {}
        <3>1. \A i \in 1..n : IsFiniteSet(signatures[i]) /\ signatures[i] # {}
            BY DEF AreSignatures
        <3> QED
            BY <1>3, <2>2, <3>1
    <2> QED
        BY <1>2, <2>1, <2>3, Zenon DEF AreSignatures
<1>5. start \in SUBSET (1..m) /\ Image(start) = first
    <2>1. start \in SUBSET (1..m)
        BY <1>rest
    <2>2. \A i \in first : \E k \in 1..m : Nth(R, k) = i
        BY <1>1, <1>3, Zenon
    <2>3. \A i \in first : \E k \in start : Nth(R, k) = i
        BY <1>rest, <2>2
    <2>4. \A k \in start : Nth(R, k) \in first
        BY <1>rest
    <2> QED
        BY <2>1, <2>3, <2>4
<1>6. Image(1..m) = R
    BY <1>3
<1>7. ASSUME NEW T \in SUBSET (1..m)
      PROVE  Covered(sub, T) = Covered(signatures, Image(T))
    <2>1. \A k \in T : sub[k] = signatures[Nth(R, k)]
        BY <1>rest
    <2>2. {sub[k] : k \in T} = {signatures[i] : i \in Image(T)}
        BY <2>1
    <2> QED
        BY <2>2, Zenon DEF Covered
<1>search. f = Search(signatures, first, n) /\ g = Search(sub, start, m) /\ R = f[n]
    BY <1>result
<1> HIDE DEF f, g
<1>8. /\ f[0] = first /\ \A r \in 1..m : f[r] = Round(signatures, f[r - 1])
      /\ \A r \in 0..m : f[r] \subseteq R
      /\ \A r \in 0..m : Covered(signatures, f[r]) = Covered(signatures, 1..n) => R = f[r]
      /\ \A r \in 0..m : \/ Covered(signatures, f[r]) = Covered(signatures, 1..n)
                         \/ Cardinality(f[r]) >= r
    <2>1. \A r \in 0..m : r \in 0..n
        BY <1>0, <1>2
    <2>2. \A r \in 1..m : r \in 1..n
        BY <1>0, <1>2
    <2>3. f[0] = first /\ \A r \in 1..n : f[r] = Round(signatures, f[r - 1])
        BY <1>0, <1>search, SearchRounds
    <2>4. \A r \in 0..n : /\ f[r] \subseteq R
                          /\ Covered(signatures, f[r]) = Covered(signatures, 1..n) => R = f[r]
        BY <1>0, <1>1, <1>search, SearchGrows
    <2>5. \A r \in 0..n : \/ Covered(signatures, f[r]) = Covered(signatures, 1..n)
                          \/ Cardinality(f[r]) >= r
        BY <1>0, <1>search, SearchBounds
    <2> QED
        BY <2>1, <2>2, <2>3, <2>4, <2>5, Zenon
<1>9. /\ g[0] = start /\ \A r \in 1..m : g[r] = Round(sub, g[r - 1])
      /\ \A r \in 0..m : g[r] \in SUBSET (1..m)
    <2>1. m \in Nat
        BY <1>2
    <2>2. g[0] = start /\ \A r \in 1..m : g[r] = Round(sub, g[r - 1])
        BY <2>1, <1>search, SearchRounds
    <2>3. \A r \in 0..m : g[r] \subseteq 1..m
        <3>1. start \in SUBSET (1..m)
            BY <1>5
        <3> HIDE DEF m
        <3>2. \A r \in 0..m : Search(sub, start, m)[r] \subseteq 1..m
            BY <2>1, <1>4, <3>1, SearchStays
        <3> QED
            BY <3>2, <1>search
    <2> QED
        BY <2>2, <2>3, Zenon
<1> DEFINE G == {r \in 0..m : Image(g[r]) = f[r]}
<1>10. 0 \in G
    BY <1>2, <1>5, <1>8, <1>9
<1>11. ASSUME NEW r \in 1..m, r - 1 \in G PROVE r \in G
    <2> DEFINE S == f[r - 1]
               T == g[r - 1]
    <2>1. r - 1 \in 0..m /\ r \in 0..m
        BY <1>2
    <2>2. Image(T) = S /\ S \subseteq R /\ T \in SUBSET (1..m) /\ S \in SUBSET (1..n)
        BY <1>1, <1>8, <1>9, <1>11, <2>1
    <2>3. f[r] = Round(signatures, S) /\ g[r] = Round(sub, T) /\ f[r] \subseteq R
        BY <1>8, <1>9, <2>1, Zenon
    <2> HIDE DEF S, T
    <2>4. Covered(sub, T) = Covered(signatures, S)
        BY <1>7, <2>2, Zenon
    <2>5. Covered(sub, 1..m) = Covered(signatures, 1..n)
        BY <1>1, <1>6, <1>7
    <2>6. DOMAIN sub = 1..m /\ DOMAIN signatures = 1..n
        BY <1>4 DEF AreSignatures
    <2>7. CASE Covered(signatures, S) = Covered(signatures, 1..n)
        <3>1. f[r] = S /\ g[r] = T
            BY <2>3, <2>4, <2>5, <2>6, <2>7, Zenon DEF Round
        <3> QED
            BY <2>1, <2>2, <3>1, Zenon
    <2>8. CASE Covered(signatures, S) # Covered(signatures, 1..n)
        <3>1. /\ f[r] = S \cup {Chosen(signatures, S)}
              /\ g[r] = T \cup {Chosen(sub, T)}
            BY <2>3, <2>4, <2>5, <2>6, <2>8, Zenon DEF Round
        <3>2. Chosen(signatures, S) \in R
            BY <2>3, <3>1
        <3>3. Nth(R, Chosen(sub, T)) = Chosen(signatures, S)
            BY <1>1, <1>rest, <2>2, <2>4, <3>2, ChosenOfKept
        <3>4. Image(g[r]) = Image(T) \cup {Nth(R, Chosen(sub, T))}
            BY <3>1
        <3> QED
            BY <2>1, <2>2, <3>1, <3>3, <3>4
    <2> QED
        BY <2>7, <2>8
<1>12. Image(g[m]) = f[m]
    <2>1. m \in Nat /\ m \in 0..m
        BY <1>2
    <2> HIDE DEF G
    <2>2. m \in G
        BY <1>10, <1>11, <2>1, EveryRound, Zenon
    <2> QED
        BY <2>2 DEF G
<1>13. f[m] = R
    <2>1. m \in 0..m /\ m \in Nat
        BY <1>2
    <2>2. f[m] \subseteq R /\ (R = f[m] \/ Cardinality(f[m]) >= m)
        BY <1>8, <2>1
    <2>3. Cardinality(f[m]) \in Nat /\ Cardinality(f[m]) <= m /\ (Cardinality(f[m]) = m => f[m] = R)
        BY <1>2, <2>2, FS_Subset, FS_CardinalityType
    <2> QED
        BY <2>1, <2>2, <2>3
<1>14. g[m] = 1..m
    <2>1. m \in 0..m
        BY <1>2
    <2>2. g[m] \subseteq 1..m
        BY <1>9, <2>1
    <2>3. ASSUME NEW k \in 1..m PROVE k \in g[m]
        <3>1. Nth(R, k) \in Image(g[m])
            BY <1>3, <1>12, <1>13
        <3>2. PICK l \in g[m] : Nth(R, k) = Nth(R, l)
            BY <3>1
        <3> QED
            BY <1>3, <2>2, <3>2
    <2> QED
        BY <2>2, <2>3
<1> QED
    BY <1>14 DEF g, IsResultOf

-----------------------------------------------------------------------------
(* Reduction.                                                              *)

Signatures(p, suite) == [i \in DOMAIN suite.cases |-> Signature(p, suite.cases[i])]

\* The images of the members of a finite set are a finite set.
LEMMA FiniteImage ==
    ASSUME NEW S, IsFiniteSet(S), NEW f
    PROVE  IsFiniteSet({f[x] : x \in S})
<1> DEFINE T == {f[x] : x \in S}
           onto == [x \in S |-> f[x]]
<1>1. onto \in Surjection(S, T)
    BY DEF Surjection
<1> HIDE DEF T, onto
<1>2. IsFiniteSet(T)
    BY <1>1, FS_Surjection
<1> QED
    BY <1>2 DEF T

\* What a case gives evidence of is finite, and is something.
LEMMA SignaturesAreFinite ==
    ASSUME NEW p, IsPolicy(p), NEW suite, IsSuite(suite)
    PROVE  AreSignatures(Signatures(p, suite), Len(suite.cases))
<1>1. IsFiniteSet(RuleIds(p))
    <2>1. Len(p) \in Nat /\ DOMAIN p = 1..Len(p)
        BY DEF IsPolicy
    <2>2. IsFiniteSet(DOMAIN p)
        BY <2>1, CountOfAll
    <2> DEFINE f == [i \in DOMAIN p |-> p[i].rule_id]
    <2>3. RuleIds(p) = {f[i] : i \in DOMAIN p}
        BY DEF RuleIds
    <2> HIDE DEF f
    <2> QED
        BY <2>2, <2>3, FiniteImage
<1>2. ASSUME NEW case, IsCase(case) PROVE IsFiniteSet(AssertedRules(case))
    <2>1. CASE case.expected_rules = {}
        BY <2>1, FS_EmptySet DEF AssertedRules
    <2>2. CASE case.expected_rules # {}
        <3>1. PICK a : a \in case.expected_rules
            BY <2>2
        <3>2. case.expected_rules = {a} /\ IsFiniteSet(DOMAIN a)
            BY <1>2, <3>1 DEF IsCase
        <3>3. AssertedRules(case) = DOMAIN a
            BY <3>2 DEF AssertedRules
        <3> QED
            BY <3>2, <3>3
    <2> QED
        BY <2>1, <2>2
<1>3. ASSUME NEW case, IsCase(case)
      PROVE  IsFiniteSet(Signature(p, case)) /\ Signature(p, case) # {}
    <2> DEFINE rules == [id \in RuleIds(p) |->
                            <<"rule", id, Observed(p, case.response)[id]>>]
               asserted == [id \in AssertedRules(case) |->
                               <<"assertion", id, Assertion(case, id)>>]
               verdict == <<"verdict", AllPass(p, case.response), case.expected_passed>>
    <2>1. Signature(p, case) = {rules[id] : id \in RuleIds(p)} \cup {verdict}
                                   \cup {asserted[id] : id \in AssertedRules(case)}
        BY DEF Signature
    <2> HIDE DEF rules, asserted, verdict
    <2>2. /\ IsFiniteSet({rules[id] : id \in RuleIds(p)})
          /\ IsFiniteSet({asserted[id] : id \in AssertedRules(case)})
        BY <1>1, <1>2, <1>3, FiniteImage
    <2> QED
        <3> DEFINE given == {rules[id] : id \in RuleIds(p)}
                   claimed == {asserted[id] : id \in AssertedRules(case)}
        <3>1. IsFiniteSet(given) /\ IsFiniteSet(claimed) /\ IsFiniteSet({verdict})
            BY <2>2, FS_Singleton
        <3>2. Signature(p, case) = (given \cup {verdict}) \cup claimed
            BY <2>1
        <3> HIDE DEF given, claimed
        <3>3. IsFiniteSet(given \cup {verdict})
            BY <3>1, FS_Union
        <3>4. IsFiniteSet((given \cup {verdict}) \cup claimed)
            BY <3>1, <3>3, FS_Union
        <3> QED
            BY <3>2, <3>4
<1>4. \A i \in 1..Len(suite.cases) : IsCase(suite.cases[i])
    BY SuiteShape DEF IsSuite
<1>5. /\ Len(suite.cases) \in Nat \ {0} /\ DOMAIN suite.cases = 1..Len(suite.cases)
    BY SuiteShape
<1>6. \A i \in 1..Len(suite.cases) :
          Signatures(p, suite)[i] = Signature(p, suite.cases[i])
    BY <1>5 DEF Signatures
<1>7. Signatures(p, suite) = [i \in 1..Len(suite.cases) |-> Signatures(p, suite)[i]]
    BY <1>5 DEF Signatures
<1> QED
    BY <1>3, <1>4, <1>5, <1>6, <1>7, Zenon DEF AreSignatures

\* RetainedPositions is the outcome of the search.
LEMMA RetainedIsSearch ==
    ASSUME NEW p, NEW suite
    PROVE  RetainedPositions(p, suite)
               = Search(Signatures(p, suite), RetainedFirst(p, suite),
                        Len(suite.cases))[Len(suite.cases)]
    BY Zenon DEF RetainedPositions, Search, IsSearch, Signatures

\* The positions that a reduction keeps: all that mismatch, and evidence of
\* everything that the suite is evidence of.
LEMMA RetainedIsEnough ==
    ASSUME NEW p, IsPolicy(p), NEW suite, IsSuite(suite)
    PROVE  LET R == RetainedPositions(p, suite) IN
           /\ R \in SUBSET DOMAIN suite.cases /\ R # {}
           /\ RetainedFirst(p, suite) \subseteq R
           /\ \A i \in DOMAIN suite.cases : \A evidence \in Signature(p, suite.cases[i]) :
                 \E k \in R : evidence \in Signature(p, suite.cases[k])
<1> DEFINE R == RetainedPositions(p, suite)
           n == Len(suite.cases)
           signatures == Signatures(p, suite)
           first == RetainedFirst(p, suite)
<1>1. DOMAIN suite.cases = 1..n /\ first \in SUBSET (1..n)
    BY SuiteShape DEF RetainedFirst
<1>2. AreSignatures(signatures, n)
    BY SignaturesAreFinite
<1>3. R = Search(signatures, first, n)[n]
    BY RetainedIsSearch
<1>4. \A i \in 1..n : signatures[i] = Signature(p, suite.cases[i])
    BY <1>1 DEF Signatures
<1> HIDE DEF R, n, signatures, first
<1>5. /\ first \subseteq R /\ R \subseteq 1..n /\ R # {}
      /\ Covered(signatures, R) = Covered(signatures, 1..n)
    BY <1>1, <1>2, <1>3, SearchCoversEverything
<1>6. ASSUME NEW i \in 1..n, NEW evidence \in Signature(p, suite.cases[i])
      PROVE  \E k \in R : evidence \in Signature(p, suite.cases[k])
    <2>1. evidence \in Covered(signatures, 1..n)
        BY <1>4, <1>6 DEF Covered
    <2>2. evidence \in Covered(signatures, R)
        BY <1>5, <2>1
    <2>3. \E k \in R : evidence \in signatures[k]
        BY <2>2 DEF Covered
    <2> QED
        BY <1>4, <1>5, <2>3
<1> QED
    BY <1>1, <1>5, <1>6, Zenon DEF R, first

\* Keeping every case changes nothing.
LEMMA KeptAll ==
    ASSUME NEW suite, IsSuite(suite)
    PROVE  Kept(suite, DOMAIN suite.cases) = suite
<1> DEFINE n == Len(suite.cases)
           all == DOMAIN suite.cases
           kept == Kept(suite, all)
<1>1. /\ n \in Nat /\ all = 1..n
      /\ suite = [suite_version |-> suite.suite_version, cases |-> suite.cases]
      /\ suite.cases = [i \in 1..n |-> suite.cases[i]]
    BY SuiteShape
<1>2. /\ kept = [suite_version |-> suite.suite_version, cases |-> kept.cases]
      /\ kept.cases = [k \in 1..Cardinality(all) |-> suite.cases[Nth(all, k)]]
    <2>1. all \in SUBSET DOMAIN suite.cases
        OBVIOUS
    <2> HIDE DEF all
    <2> QED
        BY <2>1, KeptCases
<1> HIDE DEF n, all, kept
<1>3. Cardinality(all) = n /\ \A k \in 1..n : Nth(all, k) = k
    BY <1>1, CountOfAll, NthOfAll
<1>4. kept.cases = suite.cases
    BY <1>1, <1>2, <1>3
<1>5. kept = suite
    BY <1>1, <1>2, <1>4
<1> QED
    BY <1>5 DEF kept, all

\* The signatures of what is kept are those of where it came from.
LEMMA SignaturesOfKept ==
    ASSUME NEW p, NEW suite, IsSuite(suite), NEW R \in SUBSET DOMAIN suite.cases
    PROVE  /\ IsRestOf(Signatures(p, Kept(suite, R)), Signatures(p, suite), R)
           /\ IsStartOf(RetainedFirst(p, Kept(suite, R)), RetainedFirst(p, suite), R)
<1> DEFINE m == Cardinality(R)
           kept == Kept(suite, R)
<1>1. kept.cases = [k \in 1..m |-> suite.cases[Nth(R, k)]]
    BY KeptCaseList
<1>2. \A k \in 1..m : Nth(R, k) \in DOMAIN suite.cases
    <2>1. Len(suite.cases) \in Nat /\ R \in SUBSET (1..Len(suite.cases))
        BY SuiteShape
    <2> QED
        BY <2>1, NthIsThere, SuiteShape
<1>3. DOMAIN kept.cases = 1..m /\ \A k \in 1..m : kept.cases[k] = suite.cases[Nth(R, k)]
    BY <1>1
<1> HIDE DEF kept, m
<1>4. \A k \in 1..m : Signatures(p, suite)[Nth(R, k)] = Signature(p, kept.cases[k])
    BY <1>2, <1>3 DEF Signatures
<1>5. Signatures(p, kept) = [k \in 1..m |-> Signatures(p, suite)[Nth(R, k)]]
    BY <1>3, <1>4 DEF Signatures
<1>6. RetainedFirst(p, kept) = {k \in 1..m : Nth(R, k) \in RetainedFirst(p, suite)}
    BY <1>2, <1>3 DEF RetainedFirst
<1> QED
    BY <1>5, <1>6 DEF kept, m, IsRestOf, IsStartOf

\* Reducing twice is reducing once.
LEMMA ReducedTwice ==
    ASSUME NEW p, IsPolicy(p), NEW suite, IsSuite(suite)
    PROVE  Reduced(p, Reduced(p, suite)) = Reduced(p, suite) /\ IsSuite(Reduced(p, suite))
<1> DEFINE R == RetainedPositions(p, suite)
           n == Len(suite.cases)
           m == Cardinality(R)
           kept == Kept(suite, R)
           signatures == Signatures(p, suite)
           first == RetainedFirst(p, suite)
           sub == Signatures(p, kept)
           start == RetainedFirst(p, kept)
<1>1. R \in SUBSET DOMAIN suite.cases /\ R # {} /\ Reduced(p, suite) = kept
    BY RetainedIsEnough DEF Reduced
<1>2. IsSuite(kept)
    <2> HIDE DEF R
    <2> QED
        BY <1>1, KeptIsSuite
<1>3. DOMAIN suite.cases = 1..n /\ first \in SUBSET (1..n)
    BY SuiteShape DEF RetainedFirst
<1>4. AreSignatures(signatures, n) /\ R = Search(signatures, first, n)[n]
    BY SignaturesAreFinite, RetainedIsSearch
<1>5. IsRestOf(sub, signatures, R) /\ IsStartOf(start, first, R)
    <2> HIDE DEF R
    <2> QED
        BY <1>1, SignaturesOfKept
<1>6. DOMAIN kept.cases = 1..m /\ m = Len(kept.cases)
    <2> HIDE DEF R
    <2>1. kept.cases = [k \in 1..m |-> suite.cases[Nth(R, k)]]
        BY <1>1, KeptCaseList
    <2>2. DOMAIN kept.cases = 1..Len(kept.cases) /\ Len(kept.cases) \in Nat
        BY <1>2, SuiteShape
    <2>3. m \in Nat
        <3>1. IsFiniteSet(1..n) /\ R \subseteq 1..n
            BY <1>1, <1>3, SuiteShape, CountOfAll
        <3> QED
            BY <3>1, FS_Subset, FS_CardinalityType
    <2>4. 1..m = 1..Len(kept.cases)
        BY <2>1, <2>2
    <2>5. Cardinality(1..m) = m /\ Cardinality(1..Len(kept.cases)) = Len(kept.cases)
        BY <2>2, <2>3, CountOfAll
    <2> QED
        BY <2>2, <2>4, <2>5
<1>7. RetainedPositions(p, kept) = Search(sub, start, m)[m]
    BY <1>6, RetainedIsSearch
<1> HIDE DEF R, n, m, kept, signatures, first, sub, start
<1>8. Search(sub, start, m)[m] = 1..m
    <2>1. IsResultOf(1..Cardinality(R), sub, start, Cardinality(R))
        <3>1. first \in SUBSET (1..n)
            BY <1>3
        <3>2. AreSignatures(signatures, n)
            BY <1>4
        <3>3. IsResultOf(R, signatures, first, n)
            BY <1>4 DEF IsResultOf
        <3>4. IsRestOf(sub, signatures, R)
            BY <1>5
        <3>5. IsStartOf(start, first, R)
            BY <1>5
        <3> QED
            BY <3>1, <3>2, <3>3, <3>4, <3>5, SearchAgainKeepsAll
    <2> QED
        BY <2>1 DEF m, IsResultOf
<1>9. Kept(kept, RetainedPositions(p, kept)) = kept
    BY <1>2, <1>6, <1>7, <1>8, KeptAll
<1> QED
    BY <1>1, <1>2, <1>9, Zenon DEF Reduced

-----------------------------------------------------------------------------
(* Deduplication, and what smaller suites keep.                            *)

\* The positions that deduplication keeps.
Firsts(suite) ==
    {i \in DOMAIN suite.cases :
        \A j \in 1..(i - 1) : Identity(suite.cases[j]) # Identity(suite.cases[i])}

\* Of cases that say the same, one is the first.
LEMMA EveryIdentityHasAFirst ==
    ASSUME NEW suite, IsSuite(suite)
    PROVE  /\ Firsts(suite) \in SUBSET DOMAIN suite.cases /\ Firsts(suite) # {}
           /\ \A i \in DOMAIN suite.cases :
                 \E j \in Firsts(suite) : Identity(suite.cases[j]) = Identity(suite.cases[i])
<1>1. Len(suite.cases) \in Nat \ {0} /\ DOMAIN suite.cases = 1..Len(suite.cases)
    BY SuiteShape
<1>2. ASSUME NEW i \in DOMAIN suite.cases
      PROVE  \E j \in Firsts(suite) : Identity(suite.cases[j]) = Identity(suite.cases[i])
    <2> DEFINE Alike == {j \in DOMAIN suite.cases :
                            Identity(suite.cases[j]) = Identity(suite.cases[i])}
    <2>1. Alike \in SUBSET Nat /\ i \in Alike
        BY <1>1
    <2>2. PICK j \in Alike : \A k \in Alike : j <= k
        BY <2>1, LeastNumber
    <2>3. \A k \in 1..(j - 1) : k \in DOMAIN suite.cases /\ ~(j <= k)
        BY <1>1, <2>2
    <2>4. \A k \in 1..(j - 1) : Identity(suite.cases[k]) # Identity(suite.cases[j])
        BY <2>2, <2>3, Zenon
    <2>5. j \in Firsts(suite)
        BY <2>2, <2>4, Zenon DEF Firsts
    <2> QED
        BY <2>2, <2>5
<1>3. Firsts(suite) \in SUBSET DOMAIN suite.cases
    BY DEF Firsts
<1>4. 1 \in DOMAIN suite.cases
    BY <1>1
<1> QED
    BY <1>2, <1>3, <1>4

\* Nothing is left to remove from what has been deduplicated.
LEMMA DeduplicatedTwice ==
    ASSUME NEW suite, IsSuite(suite)
    PROVE  /\ IsSuite(Deduplicated(suite))
           /\ Deduplicated(Deduplicated(suite)) = Deduplicated(suite)
<1> DEFINE F == Firsts(suite)
           n == Len(suite.cases)
           m == Cardinality(F)
           unique == Kept(suite, F)
<1>1. \A s : Deduplicated(s) = Kept(s, Firsts(s))
    BY Zenon DEF Deduplicated, Firsts
<1>2. F \in SUBSET DOMAIN suite.cases /\ F # {}
    BY EveryIdentityHasAFirst
<1>3. n \in Nat /\ DOMAIN suite.cases = 1..n
    BY SuiteShape
<1>4. \A i \in F : \A j \in 1..(i - 1) : Identity(suite.cases[j]) # Identity(suite.cases[i])
    BY DEF Firsts
<1> HIDE DEF F
<1>5. IsSuite(unique)
    BY <1>2, KeptIsSuite
<1>6. unique.cases = [k \in 1..m |-> suite.cases[Nth(F, k)]]
    BY <1>2, KeptCaseList
<1> HIDE DEF n, unique
<1>7. F \in SUBSET (1..n)
    BY <1>2, <1>3
<1>8. ASSUME NEW k \in 1..m, NEW j \in 1..(k - 1)
      PROVE  Identity(unique.cases[j]) # Identity(unique.cases[k])
    <2>1. IsFiniteSet(F) /\ m \in Nat
        BY <1>3, <1>7, CountOfAll, FS_Subset, FS_CardinalityType
    <2>2. j \in 1..m /\ ~(k <= j)
        BY <2>1
    <2>3. ~(Nth(F, k) <= Nth(F, j))
        BY <1>3, <1>7, <2>2, NthGrows
    <2>4. Nth(F, k) \in F /\ Nth(F, j) \in F
        BY <1>3, <1>7, <2>2, NthIsThere
    <2>5. Nth(F, j) \in 1..(Nth(F, k) - 1)
        <3> DEFINE a == Nth(F, k)
                   b == Nth(F, j)
        <3>1. a \in 1..n /\ b \in 1..n /\ ~(a <= b)
            BY <1>7, <2>3, <2>4
        <3> HIDE DEF a, b
        <3>2. b \in 1..(a - 1)
            BY <1>3, <3>1
        <3> QED
            BY <3>2 DEF a, b
    <2>6. Identity(suite.cases[Nth(F, j)]) # Identity(suite.cases[Nth(F, k)])
        BY <1>4, <2>4, <2>5
    <2> QED
        BY <1>6, <2>2, <2>6
<1>9. Firsts(unique) = DOMAIN unique.cases
    <2>1. DOMAIN unique.cases = 1..m
        BY <1>6
    <2> QED
        BY <1>8, <2>1 DEF Firsts
<1>10. Kept(unique, Firsts(unique)) = unique
    BY <1>5, <1>9, KeptAll
<1> QED
    BY <1>1, <1>5, <1>10, Zenon DEF unique, F

\* What is seen of a policy by fewer cases, if they show each code that is seen.
LEMMA SameCodesSeen ==
    ASSUME NEW p, NEW suite, NEW smaller, Cases(smaller) \subseteq Cases(suite),
           \A case \in Cases(suite) : \A id \in RuleIds(p) :
              \E other \in Cases(smaller) :
                 Observed(p, other.response)[id] = Observed(p, case.response)[id]
    PROVE  /\ \A id \in RuleIds(p) :
                 UnexercisedReasonCodes(p, smaller, id) = UnexercisedReasonCodes(p, suite, id)
           /\ UnexercisedPasses(p, smaller) = UnexercisedPasses(p, suite)
           /\ UnexercisedFailures(p, smaller) = UnexercisedFailures(p, suite)
<1>1. \A id \in RuleIds(p) : CodesSeen(p, smaller, id) = CodesSeen(p, suite, id)
    BY DEF CodesSeen
<1>2. UnexercisedPasses(p, smaller) = UnexercisedPasses(p, suite)
    BY <1>1 DEF UnexercisedPasses
<1>3. UnexercisedFailures(p, smaller) = UnexercisedFailures(p, suite)
    BY <1>1 DEF UnexercisedFailures
<1> QED
    BY <1>1, <1>2, <1>3, Zenon DEF UnexercisedReasonCodes

\* What deduplication compares decides everything but the identifier.
LEMMA IdentityDecides ==
    ASSUME NEW p, NEW one, NEW other, Identity(one) = Identity(other)
    PROVE  /\ one.response = other.response
           /\ MatchesExpectation(p, one) <=> MatchesExpectation(p, other)
<1>1. /\ one.response = other.response /\ one.expected_passed = other.expected_passed
      /\ one.expected_rules = other.expected_rules
    BY DEF Identity
<1>2. /\ AssertedRules(one) = AssertedRules(other)
      /\ \A id : Assertion(one, id) = Assertion(other, id)
    BY <1>1, Zenon DEF AssertedRules, Assertion
<1>3. AssertionMismatches(p, one) = AssertionMismatches(p, other)
    BY <1>1, <1>2 DEF AssertionMismatches
<1> QED
    BY <1>1, <1>3, Zenon DEF MatchesExpectation

\* The rows of failure groups, without their cases.
RowsOf(p, suite) == {<<row[2], row[3]>> : row \in FailedRows(p, suite)}

\* A suite in which every mismatching response still mismatches has the same failed rows.
LEMMA RowsOfMismatches ==
    ASSUME NEW p, NEW suite, NEW other,
           \A case \in Mismatched(p, suite) :
              \E same \in Mismatched(p, other) : same.response = case.response
    PROVE  RowsOf(p, suite) \subseteq RowsOf(p, other)
<1> SUFFICES ASSUME NEW row \in FailedRows(p, suite)
             PROVE  <<row[2], row[3]>> \in RowsOf(p, other)
    BY DEF RowsOf
<1>1. PICK case \in Mismatched(p, suite), id \in RuleIds(p) :
          row = <<case.case_id, id, Observed(p, case.response)[id]>>
    BY DEF FailedRows
<1>2. Observed(p, case.response)[id] # "RULE_SATISFIED"
    BY <1>1 DEF FailedRows
<1>3. PICK same \in Mismatched(p, other) : same.response = case.response
    OBVIOUS
<1> DEFINE there == <<same.case_id, id, Observed(p, same.response)[id]>>
<1>4. there \in FailedRows(p, other)
    BY <1>2, <1>3 DEF FailedRows
<1>5. <<row[2], row[3]>> = <<there[2], there[3]>>
    BY <1>1, <1>3
<1> HIDE DEF there
<1> QED
    BY <1>4, <1>5 DEF RowsOf

\* A reduced suite keeps every mismatch and every observation of a rule.
LEMMA ReductionKeepsEvidence ==
    ASSUME NEW p, IsPolicy(p), NEW suite, IsSuite(suite)
    PROVE  LET reduced == Reduced(p, suite) IN
           /\ Cases(reduced) \subseteq Cases(suite)
           /\ Mismatched(p, reduced) = Mismatched(p, suite)
           /\ \A case \in Cases(suite) : \A id \in RuleIds(p) :
                 \E other \in Cases(reduced) :
                    Observed(p, other.response)[id] = Observed(p, case.response)[id]
<1> DEFINE R == RetainedPositions(p, suite)
           reduced == Reduced(p, suite)
<1>1. /\ R \in SUBSET DOMAIN suite.cases /\ RetainedFirst(p, suite) \subseteq R
      /\ \A i \in DOMAIN suite.cases : \A evidence \in Signature(p, suite.cases[i]) :
            \E k \in R : evidence \in Signature(p, suite.cases[k])
    BY RetainedIsEnough
<1>2. reduced = Kept(suite, R)
    BY DEF Reduced
<1> HIDE DEF R, reduced
<1>3. Cases(reduced) = {suite.cases[i] : i \in R}
    BY <1>1, <1>2, KeptCaseSet
<1>4. Cases(reduced) \subseteq Cases(suite)
    BY <1>1, <1>3 DEF Cases
<1>5. ASSUME NEW case \in Cases(suite), ~MatchesExpectation(p, case)
      PROVE  case \in Cases(reduced)
    <2>1. PICK i \in DOMAIN suite.cases : case = suite.cases[i]
        BY DEF Cases
    <2>2. i \in RetainedFirst(p, suite)
        BY <1>5, <2>1 DEF RetainedFirst
    <2> QED
        BY <1>1, <1>3, <2>1, <2>2
<1>6. ASSUME NEW case \in Cases(suite), NEW id \in RuleIds(p)
      PROVE  \E other \in Cases(reduced) :
                Observed(p, other.response)[id] = Observed(p, case.response)[id]
    <2> DEFINE evidence == <<"rule", id, Observed(p, case.response)[id]>>
    <2>1. PICK i \in DOMAIN suite.cases : case = suite.cases[i]
        BY DEF Cases
    <2>2. evidence \in Signature(p, case)
        BY DEF Signature
    <2>3. PICK k \in R : evidence \in Signature(p, suite.cases[k])
        <3> HIDE DEF evidence
        <3> QED
            BY <1>1, <2>1, <2>2
    <2>4. Observed(p, suite.cases[k].response)[id] = Observed(p, case.response)[id]
        BY <2>3 DEF Signature
    <2> QED
        BY <1>3, <2>4
<1>7. Mismatched(p, reduced) = Mismatched(p, suite)
    BY <1>4, <1>5 DEF Mismatched
<1> QED
    BY <1>4, <1>6, <1>7, Zenon DEF reduced

\* A deduplicated suite keeps a case of everything that was said.
LEMMA DeduplicationKeepsEvidence ==
    ASSUME NEW p, NEW suite, IsSuite(suite)
    PROVE  LET unique == Deduplicated(suite) IN
           /\ Cases(unique) \subseteq Cases(suite)
           /\ \A case \in Cases(suite) :
                 \E other \in Cases(unique) : Identity(other) = Identity(case)
<1> DEFINE F == Firsts(suite)
           unique == Deduplicated(suite)
<1>1. /\ F \in SUBSET DOMAIN suite.cases
      /\ \A i \in DOMAIN suite.cases :
            \E j \in F : Identity(suite.cases[j]) = Identity(suite.cases[i])
    BY EveryIdentityHasAFirst
<1>2. unique = Kept(suite, F)
    BY Zenon DEF Deduplicated, Firsts
<1> HIDE DEF F, unique
<1>3. Cases(unique) = {suite.cases[i] : i \in F}
    BY <1>1, <1>2, KeptCaseSet
<1>4. Cases(unique) \subseteq Cases(suite)
    BY <1>1, <1>3 DEF Cases
<1>5. ASSUME NEW case \in Cases(suite)
      PROVE  \E other \in Cases(unique) : Identity(other) = Identity(case)
    <2>1. PICK i \in DOMAIN suite.cases : case = suite.cases[i]
        BY DEF Cases
    <2>2. PICK j \in F : Identity(suite.cases[j]) = Identity(suite.cases[i])
        BY <1>1
    <2> QED
        BY <1>3, <2>1, <2>2
<1> QED
    BY <1>4, <1>5, Zenon DEF unique

\* A suite and fewer of its cases that are evidence of as much.
LEMMA SmallerSuiteKeepsEvidence ==
    ASSUME NEW p, IsPolicy(p), NEW suite, NEW smaller,
           Cases(smaller) \subseteq Cases(suite),
           \A case \in Cases(suite) : \A id \in RuleIds(p) :
              \E other \in Cases(smaller) :
                 Observed(p, other.response)[id] = Observed(p, case.response)[id],
           \A case \in Mismatched(p, suite) :
              \E other \in Mismatched(p, smaller) : other.response = case.response
    PROVE  /\ \A id \in RuleIds(p) :
                 UnexercisedReasonCodes(p, smaller, id) = UnexercisedReasonCodes(p, suite, id)
           /\ UnexercisedPasses(p, smaller) = UnexercisedPasses(p, suite)
           /\ UnexercisedFailures(p, smaller) = UnexercisedFailures(p, suite)
           /\ RowsOf(p, smaller) = RowsOf(p, suite)
           /\ Ready(p, smaller) <=> Ready(p, suite)
<1>1. RowsOf(p, suite) \subseteq RowsOf(p, smaller)
    BY RowsOfMismatches
<1>2. Mismatched(p, smaller) \subseteq Mismatched(p, suite)
    BY DEF Mismatched
<1>3. RowsOf(p, smaller) \subseteq RowsOf(p, suite)
    BY <1>2, RowsOfMismatches
<1>4. \A s : MatchesExpectations(p, s) <=> Mismatched(p, s) = {}
    BY DEF MatchesExpectations, Mismatched
<1>5. Mismatched(p, smaller) = {} <=> Mismatched(p, suite) = {}
    BY <1>2
<1>6. Ready(p, smaller) <=> Ready(p, suite)
    BY <1>4, <1>5, ReadyMeansMatching, Zenon
<1> QED
    BY <1>1, <1>3, <1>6, SameCodesSeen

\* Reduction and deduplication of any suite under any policy.
LEMMA EvidenceOfAnySuite ==
    ASSUME NEW p, IsPolicy(p), NEW suite, IsSuite(suite),
           NEW smaller \in {Reduced(p, suite), Deduplicated(suite)}
    PROVE  /\ IsSuite(smaller)
           /\ \A id \in RuleIds(p) :
                 UnexercisedReasonCodes(p, smaller, id) = UnexercisedReasonCodes(p, suite, id)
           /\ UnexercisedPasses(p, smaller) = UnexercisedPasses(p, suite)
           /\ UnexercisedFailures(p, smaller) = UnexercisedFailures(p, suite)
           /\ RowsOf(p, smaller) = RowsOf(p, suite)
           /\ Ready(p, smaller) <=> Ready(p, suite)
<1>1. IsSuite(smaller)
    BY ReducedTwice, DeduplicatedTwice
<1>2. ASSUME smaller = Reduced(p, suite)
      PROVE  /\ Cases(smaller) \subseteq Cases(suite)
             /\ \A case \in Cases(suite) : \A id \in RuleIds(p) :
                   \E other \in Cases(smaller) :
                      Observed(p, other.response)[id] = Observed(p, case.response)[id]
             /\ \A case \in Mismatched(p, suite) :
                   \E other \in Mismatched(p, smaller) : other.response = case.response
    <2>1. /\ Cases(Reduced(p, suite)) \subseteq Cases(suite)
          /\ Mismatched(p, Reduced(p, suite)) = Mismatched(p, suite)
          /\ \A case \in Cases(suite) : \A id \in RuleIds(p) :
                \E other \in Cases(Reduced(p, suite)) :
                   Observed(p, other.response)[id] = Observed(p, case.response)[id]
        BY ReductionKeepsEvidence
    <2> QED
        BY <1>2, <2>1
<1>3. ASSUME smaller = Deduplicated(suite)
      PROVE  /\ Cases(smaller) \subseteq Cases(suite)
             /\ \A case \in Cases(suite) : \A id \in RuleIds(p) :
                   \E other \in Cases(smaller) :
                      Observed(p, other.response)[id] = Observed(p, case.response)[id]
             /\ \A case \in Mismatched(p, suite) :
                   \E other \in Mismatched(p, smaller) : other.response = case.response
    <2>1. /\ Cases(smaller) \subseteq Cases(suite)
          /\ \A case \in Cases(suite) :
                \E other \in Cases(smaller) : Identity(other) = Identity(case)
        BY <1>3, DeduplicationKeepsEvidence, Zenon
    <2>2. \A case \in Cases(suite) :
              \E other \in Cases(smaller) :
                 /\ other.response = case.response
                 /\ MatchesExpectation(p, other) <=> MatchesExpectation(p, case)
        BY <2>1, IdentityDecides, Zenon
    <2>3. \A case \in Cases(suite) : \A id \in RuleIds(p) :
              \E other \in Cases(smaller) :
                 Observed(p, other.response)[id] = Observed(p, case.response)[id]
        BY <2>2
    <2>4. \A case \in Mismatched(p, suite) :
              \E other \in Mismatched(p, smaller) : other.response = case.response
        BY <2>2 DEF Mismatched
    <2> QED
        BY <2>1, <2>3, <2>4
<1>4. /\ Cases(smaller) \subseteq Cases(suite)
      /\ \A case \in Cases(suite) : \A id \in RuleIds(p) :
            \E other \in Cases(smaller) :
               Observed(p, other.response)[id] = Observed(p, case.response)[id]
      /\ \A case \in Mismatched(p, suite) :
            \E other \in Mismatched(p, smaller) : other.response = case.response
    BY <1>2, <1>3, Zenon
<1> QED
    BY <1>1, <1>4, SmallerSuiteKeepsEvidence

\* In any session, reducing or deduplicating a suite loses nothing that it
\* shows of the policy, and doing it again changes nothing.
THEOREM NoEvidenceIsLost == Spec => []SmallerSuitesKeepEvidence
<1>1. Standing => SmallerSuitesKeepEvidence
    <2> SUFFICES ASSUME Standing, NEW suite \in SuiteFiles
                 PROVE  LET reduced == Reduced(policy, suite)
                            unique  == Deduplicated(suite)
                        IN /\ Mismatched(policy, reduced) = Mismatched(policy, suite)
                           /\ \A smaller \in {reduced, unique} :
                                 /\ IsSuite(smaller)
                                 /\ \A id \in RuleIds(policy) :
                                       UnexercisedReasonCodes(policy, smaller, id)
                                           = UnexercisedReasonCodes(policy, suite, id)
                                 /\ UnexercisedPasses(policy, smaller)
                                       = UnexercisedPasses(policy, suite)
                                 /\ UnexercisedFailures(policy, smaller)
                                       = UnexercisedFailures(policy, suite)
                                 /\ {<<row[2], row[3]>> : row \in FailedRows(policy, smaller)}
                                       = {<<row[2], row[3]>> : row \in FailedRows(policy, suite)}
                                 /\ Ready(policy, smaller) <=> Ready(policy, suite)
                           /\ Reduced(policy, reduced) = reduced
                           /\ Deduplicated(unique) = unique
        BY Zenon DEF SmallerSuitesKeepEvidence
    <2>1. IsPolicy(policy) /\ IsSuite(suite)
        BY WhatStands
    <2>2. Mismatched(policy, Reduced(policy, suite)) = Mismatched(policy, suite)
        BY <2>1, ReductionKeepsEvidence, Zenon
    <2>3. /\ Reduced(policy, Reduced(policy, suite)) = Reduced(policy, suite)
          /\ Deduplicated(Deduplicated(suite)) = Deduplicated(suite)
        BY <2>1, ReducedTwice, DeduplicatedTwice, Zenon
    <2> QED
        BY <2>1, <2>2, <2>3, EvidenceOfAnySuite, Zenon DEF RowsOf
<1> QED
    BY <1>1, AlwaysStanding, PTL
-----------------------------------------------------------------------------
(* Receipts: evidence that is made at one time and checked at another.     *)

\* Two policies give a response the same rows exactly if they have their rules
\* in the same order and no row changes.
LEMMA RowsShowChanges ==
    ASSUME NEW old, IsPolicy(old), NEW new, IsPolicy(new), NEW r
    PROVE  RuleResults(old, r) = RuleResults(new, r)
              <=> /\ RuleOrder(old) = RuleOrder(new)
                  /\ ChangedRuleResults(old, new, [response |-> r]) = {}
<1> DEFINE row(p, i) == <<p[i].rule_id, p[i].path, p[i].kind, ReasonCode(p[i], r)>>
           rows(p) == [i \in DOMAIN p |-> row(p, i)]
           case == [response |-> r]
<1>1. \A p : RuleResults(p, r) = rows(p)
    BY DEF RuleResults
<1>2. case.response = r
    OBVIOUS
<1>3. ASSUME NEW p \in {old, new}, NEW i \in DOMAIN p
      PROVE  /\ p[i].rule_id \in RuleIds(p)
             /\ Row(p, p[i].rule_id, r) = <<p[i].path, p[i].kind, ReasonCode(p[i], r)>>
    <2>1. IsPolicy(p)
        BY <1>3
    <2>2. RuleOf(p, p[i].rule_id) = p[i] /\ p[i].rule_id \in RuleIds(p)
        BY <1>3, <2>1, RuleOfId DEF RuleIds
    <2> QED
        BY <2>2 DEF Row, Observed
<1>4. ASSUME rows(old) = rows(new)
      PROVE  /\ RuleOrder(old) = RuleOrder(new)
             /\ ChangedRuleResults(old, new, case) = {}
    <2>1. DOMAIN old = DOMAIN new
        BY <1>4
    <2>2. \A i \in DOMAIN old : row(old, i) = row(new, i)
        BY <1>4, <2>1
    <2>3. \A i \in DOMAIN old :
              /\ old[i].rule_id = new[i].rule_id /\ old[i].path = new[i].path
              /\ old[i].kind = new[i].kind /\ ReasonCode(old[i], r) = ReasonCode(new[i], r)
        BY <2>2
    <2>4. RuleIds(old) = RuleIds(new)
        BY <2>1, <2>3 DEF RuleIds
    <2>5. ASSUME NEW id \in RuleIds(old) PROVE Row(old, id, r) = Row(new, id, r)
        <3>1. PICK i \in DOMAIN old : id = old[i].rule_id
            BY DEF RuleIds
        <3> QED
            BY <1>3, <2>1, <2>3, <3>1
    <2> QED
        BY <1>2, <2>1, <2>3, <2>4, <2>5, Zenon DEF RuleOrder, ChangedRuleResults
<1>5. ASSUME RuleOrder(old) = RuleOrder(new), ChangedRuleResults(old, new, case) = {}
      PROVE  rows(old) = rows(new)
    <2>1. DOMAIN old = DOMAIN new /\ \A i \in DOMAIN old : old[i].rule_id = new[i].rule_id
        BY <1>5 DEF RuleOrder
    <2>2. \A id \in RuleIds(old) : Row(old, id, r) = Row(new, id, r)
        BY <1>2, <1>5 DEF ChangedRuleResults
    <2>3. ASSUME NEW i \in DOMAIN old PROVE row(old, i) = row(new, i)
        <3>1. <<old[i].path, old[i].kind, ReasonCode(old[i], r)>>
                  = <<new[i].path, new[i].kind, ReasonCode(new[i], r)>>
            BY <1>3, <2>1, <2>2, <2>3
        <3> QED
            BY <2>1, <3>1
    <2> QED
        BY <2>1, <2>3
<1> QED
    BY <1>1, <1>4, <1>5 DEF case

\* So two documents evaluate a response alike exactly if no edit shows: the
\* verdict follows from the rows.
LEMMA EvaluationShowsEdits ==
    ASSUME NEW old, IsDocument(old), NEW new, IsDocument(new), NEW r
    PROVE  ResponseEvaluation(old, r) = ResponseEvaluation(new, r) <=> ~ShowsEdit(old, new, r)
<1> DEFINE case == [response |-> r]
<1>1. IsPolicy(old.rules) /\ IsPolicy(new.rules)
    BY DEF IsDocument
<1>2. RuleResults(old.rules, r) = RuleResults(new.rules, r)
         <=> /\ RuleOrder(old.rules) = RuleOrder(new.rules)
             /\ ChangedRuleResults(old.rules, new.rules, case) = {}
    BY <1>1, RowsShowChanges
<1>3. ASSUME ChangedRuleResults(old.rules, new.rules, case) = {}
      PROVE  AllPass(old.rules, r) = AllPass(new.rules, r)
    <2>1. AllPass(old.rules, case.response) = AllPass(new.rules, case.response)
        BY <1>1, <1>3, SameRowsSameJudgement
    <2> QED
        BY <2>1
<1>4. ASSUME ResponseEvaluation(old, r) = ResponseEvaluation(new, r)
      PROVE  /\ old.policy_id = new.policy_id
             /\ RuleResults(old.rules, r) = RuleResults(new.rules, r)
    <2>1. \A p : /\ ResponseEvaluation(p, r).policy_id = p.policy_id
                 /\ ResponseEvaluation(p, r).rule_results = RuleResults(p.rules, r)
        BY DEF ResponseEvaluation
    <2> QED
        BY <1>4, <2>1
<1>5. ASSUME old.policy_id = new.policy_id,
             RuleResults(old.rules, r) = RuleResults(new.rules, r)
      PROVE  ResponseEvaluation(old, r) = ResponseEvaluation(new, r)
    BY <1>2, <1>3, <1>5 DEF ResponseEvaluation
<1> QED
    BY <1>2, <1>4, <1>5 DEF ShowsEdit, case

\* And they evaluate a suite alike exactly if they do so for each response.
LEMMA SuiteEvaluationShowsEdits ==
    ASSUME NEW old, IsDocument(old), NEW new, IsDocument(new), NEW s, IsSuite(s)
    PROVE  SuiteEvaluation(old, s) = SuiteEvaluation(new, s)
              <=> \A case \in Cases(s) : ~ShowsEdit(old, new, case.response)
<1> DEFINE row(p, i) ==
               [case_id |-> s.cases[i].case_id, expected_passed |-> s.cases[i].expected_passed,
                matches_expectation |-> MatchesExpectation(p.rules, s.cases[i]),
                evaluation |-> ResponseEvaluation(p, s.cases[i].response),
                rule_assertion_mismatches |-> AssertionMismatches(p.rules, s.cases[i])]
           rows(p) == [i \in DOMAIN s.cases |-> row(p, i)]
<1>0. IsPolicy(old.rules) /\ IsPolicy(new.rules)
    BY DEF IsDocument
<1>1. \A p : SuiteEvaluation(p, s)
                 = [suite_version |-> s.suite_version, policy_id |-> p.policy_id,
                    matches_expectations |-> MatchesExpectations(p.rules, s),
                    cases |-> rows(p)]
    BY DEF SuiteEvaluation
<1>2. 1 \in DOMAIN s.cases
    <2>1. Len(s.cases) \in Nat \ {0} /\ DOMAIN s.cases = 1..Len(s.cases)
        BY SuiteShape, Zenon
    <2> QED
        BY <2>1
<1>3. ASSUME SuiteEvaluation(old, s) = SuiteEvaluation(new, s), NEW case \in Cases(s)
      PROVE  ~ShowsEdit(old, new, case.response)
    <2>1. rows(old) = rows(new)
        <3> HIDE DEF rows
        <3>1. SuiteEvaluation(old, s).cases = SuiteEvaluation(new, s).cases
            BY <1>3
        <3> QED
            BY <1>1, <3>1
    <2>2. PICK i \in DOMAIN s.cases : case = s.cases[i]
        BY DEF Cases
    <2>3. ResponseEvaluation(old, case.response) = ResponseEvaluation(new, case.response)
        <3>1. rows(old)[i] = row(old, i) /\ rows(new)[i] = row(new, i)
            BY <2>2
        <3>2. row(old, i).evaluation = row(new, i).evaluation
            BY <2>1, <3>1
        <3> QED
            BY <2>2, <3>2
    <2> QED
        BY <2>3, EvaluationShowsEdits
<1>4. ASSUME \A case \in Cases(s) : ~ShowsEdit(old, new, case.response)
      PROVE  SuiteEvaluation(old, s) = SuiteEvaluation(new, s)
    <2>1. \A case : ChangedRuleResults(old.rules, new.rules, [response |-> case.response])
                        = ChangedRuleResults(old.rules, new.rules, case)
        BY DEF ChangedRuleResults
    <2>2. ASSUME NEW i \in DOMAIN s.cases
          PROVE  /\ MatchesExpectation(old.rules, s.cases[i])
                        = MatchesExpectation(new.rules, s.cases[i])
                 /\ ResponseEvaluation(old, s.cases[i].response)
                        = ResponseEvaluation(new, s.cases[i].response)
                 /\ AssertionMismatches(old.rules, s.cases[i])
                        = AssertionMismatches(new.rules, s.cases[i])
        <3>1. ~ShowsEdit(old, new, s.cases[i].response)
            BY <1>4 DEF Cases
        <3>2. ChangedRuleResults(old.rules, new.rules, s.cases[i]) = {}
            BY <2>1, <3>1 DEF ShowsEdit
        <3>3. /\ AssertionMismatches(old.rules, s.cases[i])
                     = AssertionMismatches(new.rules, s.cases[i])
              /\ MatchesExpectation(old.rules, s.cases[i])
                     <=> MatchesExpectation(new.rules, s.cases[i])
            BY <1>0, <3>2, SameRowsSameJudgement
        <3>4. ResponseEvaluation(old, s.cases[i].response)
                  = ResponseEvaluation(new, s.cases[i].response)
            BY <3>1, EvaluationShowsEdits
        <3>5. MatchesExpectation(old.rules, s.cases[i])
                  = MatchesExpectation(new.rules, s.cases[i])
            BY <3>3, Zenon DEF MatchesExpectation
        <3> QED
            BY <3>3, <3>4, <3>5
    <2>3. rows(old) = rows(new)
        <3>1. \A i \in DOMAIN s.cases : row(old, i) = row(new, i)
            BY <2>2
        <3> HIDE DEF row
        <3> QED
            BY <3>1
    <2>4. MatchesExpectations(old.rules, s) = MatchesExpectations(new.rules, s)
        <3>1. \A case \in Cases(s) :
                  MatchesExpectation(old.rules, case) = MatchesExpectation(new.rules, case)
            BY <2>2, Zenon DEF Cases
        <3> QED
            BY <3>1, Zenon DEF MatchesExpectations
    <2>5. old.policy_id = new.policy_id
        <3>1. s.cases[1] \in Cases(s)
            BY <1>2 DEF Cases
        <3> QED
            BY <1>4, <3>1 DEF ShowsEdit
    <2> HIDE DEF rows
    <2> QED
        BY <1>1, <2>3, <2>4, <2>5
<1> QED
    BY <1>3, <1>4

\* What receipts say they were made from is something that was in use, however
\* their fields are mixed.
DigestsAreKnown ==
    \A receipt \in receipts :
        /\ "policy_digest" \in DOMAIN receipt /\ receipt.policy_digest \in UsedPolicies
        /\ "suite_digest" \in DOMAIN receipt => receipt.suite_digest \in UsedSuites

FilesAreInUse == policy_file \in UsedPolicies /\ suite_file \in UsedSuites

ReceiptsInv == DigestsAreKnown /\ FilesAreInUse

\* A receipt says what it was made from.
LEMMA NewReceipts ==
    ASSUME NEW p \in UsedPolicies, NEW s \in UsedSuites, NEW r,
           NEW receipt \in {SuiteReceipt(p, s), Receipt(p, r)}
    PROVE  /\ "policy_digest" \in DOMAIN receipt /\ receipt.policy_digest \in UsedPolicies
           /\ "suite_digest" \in DOMAIN receipt => receipt.suite_digest \in UsedSuites
<1>1. CASE receipt = SuiteReceipt(p, s)
    BY <1>1 DEF SuiteReceipt
<1>2. CASE receipt = Receipt(p, r)
    BY <1>2 DEF Receipt
<1> QED
    BY <1>1, <1>2

\* Mixing takes digests only from where they were.
LEMMA ReceiptsAreKept == ReceiptsInv /\ [ReceiptsNext]_receipt_vars => ReceiptsInv'
<1> SUFFICES ASSUME ReceiptsInv, [ReceiptsNext]_receipt_vars PROVE ReceiptsInv'
    OBVIOUS
<1> USE DEF ReceiptsInv, DigestsAreKnown, FilesAreInUse
<1>1. CASE Edit
    BY <1>1 DEF Edit
<1>2. CASE CreateReceipt
    <2>1. PICK receipt \in {SuiteReceipt(policy_file, suite_file),
                            Receipt(policy_file, response_file)} :
              receipts' = receipts \cup {receipt}
        BY <1>2 DEF CreateReceipt
    <2>2. /\ "policy_digest" \in DOMAIN receipt /\ receipt.policy_digest \in UsedPolicies
          /\ "suite_digest" \in DOMAIN receipt => receipt.suite_digest \in UsedSuites
        BY <2>1, NewReceipts
    <2> QED
        BY <1>2, <2>1, <2>2 DEF CreateReceipt
<1>3. CASE CreateBundle
    BY <1>3 DEF CreateBundle
<1>4. CASE MixReceipts
    <2>0. PICK one \in receipts, other \in receipts :
              \E key \in DOMAIN one :
                 /\ DOMAIN one = DOMAIN other
                 /\ receipts' = (receipts \ {one}) \cup {[one EXCEPT ![key] = other[key]]}
        BY <1>4 DEF MixReceipts
    <2>1. PICK key \in DOMAIN one :
              /\ DOMAIN one = DOMAIN other
              /\ receipts' = (receipts \ {one}) \cup {[one EXCEPT ![key] = other[key]]}
        BY <2>0
    <2> DEFINE mixed == [one EXCEPT ![key] = other[key]]
    <2>2. /\ DOMAIN mixed = DOMAIN one
          /\ \A k \in DOMAIN one : mixed[k] \in {one[k], other[k]}
        OBVIOUS
    <2>3. /\ "policy_digest" \in DOMAIN mixed /\ mixed.policy_digest \in UsedPolicies
          /\ "suite_digest" \in DOMAIN mixed => mixed.suite_digest \in UsedSuites
        BY <2>1, <2>2
    <2> HIDE DEF mixed
    <2> QED
        BY <1>4, <2>1, <2>3 DEF MixReceipts, mixed
<1>5. CASE MixBundles
    BY <1>5 DEF MixBundles
<1>6. CASE UNCHANGED receipt_vars
    BY <1>6 DEF receipt_vars
<1> QED
    BY <1>1, <1>2, <1>3, <1>4, <1>5, <1>6 DEF ReceiptsNext

\* A replay that passes has been earned: the evaluation it believes is one that
\* it has made itself.
LEMMA ReplaysAreEarned ==
    ASSUME NEW bundle, ReplayPassed(bundle)
    PROVE  MatchesExpectations(bundle.policy.rules, bundle.suite)
<1> DEFINE expected == SuiteReceipt(bundle.policy, bundle.suite)
<1>1. /\ "evaluation" \in DOMAIN expected
      /\ expected.evaluation = SuiteEvaluation(bundle.policy, bundle.suite)
    BY DEF SuiteReceipt
<1>2. bundle.receipt.evaluation = SuiteEvaluation(bundle.policy, bundle.suite)
    BY <1>1 DEF ReplayPassed, Verified, MismatchedFields
<1>3. bundle.receipt.evaluation.matches_expectations
    BY DEF ReplayPassed
<1>4. SuiteEvaluation(bundle.policy, bundle.suite).matches_expectations
          = MatchesExpectations(bundle.policy.rules, bundle.suite)
    BY DEF SuiteEvaluation
<1> QED
    BY <1>2, <1>3, <1>4

\* A receipt as it was made differs from today's in its evaluation only along
\* with what it was made from, and then exactly if the edit shows.
LEMMA MadeReceiptsTellEdits ==
    ASSUME ReceiptsInv, NEW receipt \in receipts,
           receipt = Anew(receipt, receipt.policy_digest, Subject(receipt))
    PROVE  LET differs == MismatchedFields(Anew(receipt, policy_file, Now(receipt)), receipt)
           IN /\ "evaluation" \in differs => differs # {"evaluation"}
              /\ Subject(receipt) = Now(receipt) =>
                    ("evaluation" \in differs <=>
                        \E r \in ResponsesOf(receipt) :
                           ShowsEdit(receipt.policy_digest, policy_file, r))
<1> DEFINE then == receipt.policy_digest
           differs == MismatchedFields(Anew(receipt, policy_file, Now(receipt)), receipt)
           shows == \E r \in ResponsesOf(receipt) : ShowsEdit(then, policy_file, r)
<1>1. then \in UsedPolicies /\ IsDocument(then) /\ IsDocument(policy_file)
    BY InputsAssumption DEF ReceiptsInv, DigestsAreKnown, FilesAreInUse
<1>2. CASE "suite_digest" \in DOMAIN receipt
    <2> DEFINE of == receipt.suite_digest
               today == SuiteReceipt(policy_file, suite_file)
    <2>1. /\ Subject(receipt) = of /\ Now(receipt) = suite_file
          /\ receipt = SuiteReceipt(then, of)
          /\ differs = {key \in DOMAIN today : receipt[key] # today[key]}
        BY <1>2 DEF Subject, Now, Anew, MismatchedFields
    <2>2. /\ DOMAIN today = {"policy_digest", "suite_digest", "evaluation"}
          /\ today.policy_digest = policy_file /\ today.suite_digest = suite_file
          /\ today.evaluation = SuiteEvaluation(policy_file, suite_file)
          /\ receipt.evaluation = SuiteEvaluation(then, of)
        BY <2>1 DEF SuiteReceipt
    <2>3. /\ "evaluation" \in differs
                 <=> SuiteEvaluation(then, of) # SuiteEvaluation(policy_file, suite_file)
          /\ "policy_digest" \in differs <=> then # policy_file
          /\ "suite_digest" \in differs <=> of # suite_file
        BY <2>1, <2>2
    <2>4. IsSuite(of)
        BY <1>2, InputsAssumption DEF ReceiptsInv, DigestsAreKnown
    <2>5. shows <=> \E case \in Cases(of) : ShowsEdit(then, policy_file, case.response)
        BY <1>2 DEF ResponsesOf
    <2>6. SuiteEvaluation(then, of) = SuiteEvaluation(policy_file, of) <=> ~shows
        BY <1>1, <2>4, <2>5, SuiteEvaluationShowsEdits
    <2> HIDE DEF differs, shows, then
    <2> QED
        BY <2>1, <2>3, <2>6 DEF differs, shows, then
<1>3. CASE "suite_digest" \notin DOMAIN receipt
    <2> DEFINE of == receipt.response_digest
               today == Receipt(policy_file, response_file)
    <2>1. /\ Subject(receipt) = of /\ Now(receipt) = response_file
          /\ receipt = Receipt(then, of)
          /\ differs = {key \in DOMAIN today : receipt[key] # today[key]}
        BY <1>3 DEF Subject, Now, Anew, MismatchedFields
    <2>2. /\ DOMAIN today = {"policy_digest", "response_digest", "evaluation"}
          /\ today.policy_digest = policy_file /\ today.response_digest = response_file
          /\ today.evaluation = ResponseEvaluation(policy_file, response_file)
          /\ receipt.evaluation = ResponseEvaluation(then, of)
        BY <2>1 DEF Receipt
    <2>3. /\ "evaluation" \in differs
                 <=> ResponseEvaluation(then, of) # ResponseEvaluation(policy_file, response_file)
          /\ "policy_digest" \in differs <=> then # policy_file
          /\ "response_digest" \in differs <=> of # response_file
        BY <2>1, <2>2
    <2>4. shows <=> ShowsEdit(then, policy_file, of)
        BY <1>3 DEF ResponsesOf
    <2>5. ResponseEvaluation(then, of) = ResponseEvaluation(policy_file, of) <=> ~shows
        BY <1>1, <2>4, EvaluationShowsEdits
    <2> HIDE DEF differs, shows, then
    <2> QED
        BY <2>1, <2>3, <2>5 DEF differs, shows, then
<1> QED
    BY <1>2, <1>3

\* However receipts and bundles are kept, mixed and checked again, a replay that
\* passes is one of a suite that matches its policy; and when only the policy
\* was edited since a receipt was made, its evaluation mismatches exactly if the
\* policy_id, the order of the rules or a row of some response differs.
THEOREM ReceiptsCanBeBelieved == ReceiptsSpec => []EvidenceIsEarned
<1>1. ReceiptsInit => ReceiptsInv
    BY DEF ReceiptsInit, ReceiptsInv, DigestsAreKnown, FilesAreInUse
<1>2. ReceiptsInv => EvidenceIsEarned
    BY ReplaysAreEarned, MadeReceiptsTellEdits, Zenon DEF EvidenceIsEarned
<1> QED
    BY <1>1, <1>2, ReceiptsAreKept, PTL DEF ReceiptsSpec
=============================================================================
