------------------------------ MODULE Receipts ------------------------------
(***************************************************************************)
(* receipt.py, corpus_receipt.py and replay.py: evidence that is made at   *)
(* one time and checked at another, while the author edits the policy, the *)
(* suite and the response in between and pieces of evidence get mixed up.  *)
(*                                                                         *)
(* A policy here is the document that digests cover: its rules with the    *)
(* policy_id, which every evaluation repeats, and the schema_version,      *)
(* which none does.                                                        *)
(*                                                                         *)
(* A digest is the value it is of: SHA-256 of the canonical JSON is taken  *)
(* to be injective.  Versions and algorithms are constants; a receipt or a *)
(* bundle with other fields is refused before anything is compared.        *)
(***************************************************************************)
EXTENDS Suites

CONSTANTS
    UsedPolicies, UsedSuites, Responses,
    MAX_RECORDS         \* bound: how many receipts and bundles are kept

\* A document that validate_policy lets through and policy_to_dict returns.
IsDocument(p) ==
    /\ p = [policy_id |-> p.policy_id, schema_version |-> p.schema_version,
            rules |-> p.rules]
    /\ p.schema_version \in {"1.0", "1.1"}
    /\ IsPolicy(p.rules)
    /\ p.schema_version = "1.0" =>
          \A i \in DOMAIN p.rules : p.rules[i].kind \notin {"type", "range", "length"}

ASSUME InputsAssumption ==
    /\ \A p \in UsedPolicies : IsDocument(p)
    /\ \A s \in UsedSuites : IsSuite(s)

VARIABLES
    policy_file,        \* the files being edited
    suite_file,
    response_file,
    receipts,           \* the receipts on disk, of suites and of responses
    bundles             \* the replay bundles on disk

receipt_vars == <<policy_file, suite_file, response_file, receipts, bundles>>

-----------------------------------------------------------------------------
(* The operations.                                                         *)

\* The rows are in the order of the rules.
RuleResults(rules, r) ==
    [i \in DOMAIN rules |->
        <<rules[i].rule_id, rules[i].path, rules[i].kind, ReasonCode(rules[i], r)>>]

\* Mutant: an evaluation does not say of which policy it is.
BugAnonymousEvaluation(p, r) ==
    [passed |-> AllPass(p.rules, r), rule_results |-> RuleResults(p.rules, r)]

\* evaluate_response
ResponseEvaluation(p, r) ==
    [passed |-> AllPass(p.rules, r), policy_id |-> p.policy_id,
     rule_results |-> RuleResults(p.rules, r)]

\* evaluate_suite: case_count and mismatch_count follow from the cases, and the
\* mismatches that a suite of 1.0 does not report are none.
SuiteEvaluation(p, s) ==
    [suite_version |-> s.suite_version, policy_id |-> p.policy_id,
     matches_expectations |-> MatchesExpectations(p.rules, s),
     cases |-> [i \in DOMAIN s.cases |->
        [case_id |-> s.cases[i].case_id, expected_passed |-> s.cases[i].expected_passed,
         matches_expectation |-> MatchesExpectation(p.rules, s.cases[i]),
         evaluation |-> ResponseEvaluation(p, s.cases[i].response),
         rule_assertion_mismatches |-> AssertionMismatches(p.rules, s.cases[i])]]]

\* create_suite_receipt
SuiteReceipt(p, s) ==
    [policy_digest |-> p, suite_digest |-> s, evaluation |-> SuiteEvaluation(p, s)]

\* create_receipt
Receipt(p, r) ==
    [policy_digest |-> p, response_digest |-> r, evaluation |-> ResponseEvaluation(p, r)]

\* Mutant: only what the receipt was made from is compared.
BugInputsCompared(expected, receipt) ==
    {key \in DOMAIN expected \ {"evaluation"} : receipt[key] # expected[key]}

\* verify_suite_receipt and verify_receipt: what a receipt made anew differs in.
MismatchedFields(expected, receipt) ==
    {key \in DOMAIN expected : receipt[key] # expected[key]}

Verified(p, s, receipt) == MismatchedFields(SuiteReceipt(p, s), receipt) = {}

\* create_replay_bundle
Bundle(p, s) == [policy |-> p, suite |-> s, receipt |-> SuiteReceipt(p, s)]

\* Mutant: the receipt is believed.
BugUnverifiedReplay(bundle) == bundle.receipt.evaluation.matches_expectations

\* replay_bundle
ReplayPassed(bundle) ==
    /\ Verified(bundle.policy, bundle.suite, bundle.receipt)
    /\ bundle.receipt.evaluation.matches_expectations

-----------------------------------------------------------------------------
(* The session.                                                            *)

ReceiptsInit ==
    /\ policy_file \in UsedPolicies
    /\ suite_file \in UsedSuites
    /\ response_file \in Responses
    /\ receipts = {}
    /\ bundles = {}

Edit ==
    /\ \/ /\ policy_file' \in UsedPolicies \ {policy_file}
          /\ UNCHANGED <<suite_file, response_file>>
       \/ /\ suite_file' \in UsedSuites \ {suite_file}
          /\ UNCHANGED <<policy_file, response_file>>
       \/ /\ response_file' \in Responses \ {response_file}
          /\ UNCHANGED <<policy_file, suite_file>>
    /\ UNCHANGED <<receipts, bundles>>

Room == Cardinality(receipts) + Cardinality(bundles) < MAX_RECORDS

CreateReceipt ==
    /\ Room
    /\ \/ receipts' = receipts \cup {SuiteReceipt(policy_file, suite_file)}
       \/ receipts' = receipts \cup {Receipt(policy_file, response_file)}
    /\ UNCHANGED <<policy_file, suite_file, response_file, bundles>>

CreateBundle ==
    /\ Room
    /\ bundles' = bundles \cup {Bundle(policy_file, suite_file)}
    /\ UNCHANGED <<policy_file, suite_file, response_file, receipts>>

\* A receipt gets a field of another of its kind.
MixReceipts ==
    /\ \E one, other \in receipts : \E key \in DOMAIN one :
          /\ DOMAIN one = DOMAIN other
          /\ receipts' = (receipts \ {one}) \cup {[one EXCEPT ![key] = other[key]]}
    /\ UNCHANGED <<policy_file, suite_file, response_file, bundles>>

\* A bundle gets the receipt, the policy or the suite of the day.
MixBundles ==
    /\ \E bundle \in bundles :
          \/ \E receipt \in receipts :
                /\ "suite_digest" \in DOMAIN receipt
                /\ bundles' = (bundles \ {bundle}) \cup {[bundle EXCEPT !.receipt = receipt]}
          \/ bundles' = (bundles \ {bundle}) \cup {[bundle EXCEPT !.policy = policy_file]}
          \/ bundles' = (bundles \ {bundle}) \cup {[bundle EXCEPT !.suite = suite_file]}
    /\ UNCHANGED <<policy_file, suite_file, response_file, receipts>>

ReceiptsNext == Edit \/ CreateReceipt \/ CreateBundle \/ MixReceipts \/ MixBundles

ReceiptsSpec == ReceiptsInit /\ [][ReceiptsNext]_receipt_vars

-----------------------------------------------------------------------------
(* Properties.                                                             *)

RuleOrder(rules) == [i \in DOMAIN rules |-> rules[i].rule_id]

\* What a receipt was made of, and what it is checked against now.
Subject(receipt) ==
    IF "suite_digest" \in DOMAIN receipt THEN receipt.suite_digest ELSE receipt.response_digest
Now(receipt) == IF "suite_digest" \in DOMAIN receipt THEN suite_file ELSE response_file
Anew(receipt, p, subject) ==
    IF "suite_digest" \in DOMAIN receipt THEN SuiteReceipt(p, subject) ELSE Receipt(p, subject)
ResponsesOf(receipt) ==
    IF "suite_digest" \in DOMAIN receipt
    THEN {case.response : case \in Cases(receipt.suite_digest)} ELSE {receipt.response_digest}

\* What an evaluation of the response shows of an edit of the policy: another
\* policy_id, another order of the rules, or a row that compare-policies would
\* report as changed.
ShowsEdit(old, new, r) ==
    \/ old.policy_id # new.policy_id
    \/ RuleOrder(old.rules) # RuleOrder(new.rules)
    \/ ChangedRuleResults(old.rules, new.rules, [response |-> r]) # {}

\* A bundle that passes its replay has a suite that matches its policy today,
\* however it was put together.  And a receipt as it was made tells a change
\* that shows from one that does not: when only the policy was edited, the
\* evaluation is among the mismatched fields exactly when the policy_id, the
\* order of the rules or a row of some response differs; a schema_version, or a
\* constraint that no response meets, changes the digest alone.
EvidenceIsEarned ==
    /\ \A bundle \in bundles :
          ReplayPassed(bundle) => MatchesExpectations(bundle.policy.rules, bundle.suite)
    /\ \A receipt \in receipts :
          LET made    == receipt = Anew(receipt, receipt.policy_digest, Subject(receipt))
              differs == MismatchedFields(Anew(receipt, policy_file, Now(receipt)), receipt)
          IN made =>
                /\ "evaluation" \in differs => differs # {"evaluation"}
                /\ Subject(receipt) = Now(receipt) =>
                      ("evaluation" \in differs <=>
                          \E r \in ResponsesOf(receipt) :
                             ShowsEdit(receipt.policy_digest, policy_file, r))
=============================================================================
