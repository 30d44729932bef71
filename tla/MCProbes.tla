------------------------------ MODULE MCProbes ------------------------------
(***************************************************************************)
(* Every policy of up to three rules from a pool in which rules of one     *)
(* path, and rules on the way to a deeper path, agree and contradict each  *)
(* other; and policies of up to four rules with values that look like      *)
(* probes and with bounds on both sides of MAX_LENGTH_PROBE.               *)
(***************************************************************************)
EXTENDS Probes, MCPolicies

PoolRules == FiniteRules \cup FilterRules

SyntheticPolicies ==
    {<<Named("r1", one)>> : one \in PoolRules}
      \cup {<<Named("r1", one), Named("r2", two)>> : one, two \in PoolRules}
      \cup {<<Named("r1", one), Named("r2", two), Named("r3", three)>> :
               one, two, three \in PoolRules}

ProbedRules ==
    PoolRules \cup
    {Equals(B, ProbeString(0)), OneOf(B, <<ProbeString(0), ProbeString(1), ProbeString(2)>>),
     HasLength(B, {}, {2}), HasLength(B, {0}, {5}), HasLength(AB, {2}, {2}),
     InRange(B, {}, {1}), InRange(B, {2}, {}), HasType(B, {"null", "boolean", "integer"}),
     HasType(B, {"null", "boolean", "number", "string", "array"}), IsFalse(B)}

ThirdRules == {Required(ABC), Required(AC), HasLength(A, {}, {1}), Equals(AC, Null)}

ProbedPolicies ==
    {<<Named("r1", one)>> : one \in ProbedRules}
      \cup {<<Named("r1", one), Named("r2", two)>> : one, two \in ProbedRules}
      \cup {<<Named("r1", one), Named("r2", two), Named("r3", three)>> :
               one \in FilterRules, two \in FiniteRules, three \in ThirdRules}
      \cup {<<Named("r1", one), Named("r2", one), Named("r3", one), Named("r4", one)>> :
               one \in FiniteRules}

AllPolicies == SyntheticPolicies \cup ProbedPolicies
=============================================================================
