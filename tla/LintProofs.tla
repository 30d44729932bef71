------------------------------ MODULE LintProofs ------------------------------
(***************************************************************************)
(* What lint_policy's findings mean, for every policy and response: a      *)
(* conflict has no passing response, and duplicates are equivalent.  Both  *)
(* rest on how a path splits: looking up a path is looking up its tail in  *)
(* what its head leads to.  Facts about positions in lists, which several  *)
(* components filter, come first.                                          *)
(***************************************************************************)
EXTENDS Lint, Positions, FiniteSetTheorems, WellFoundedInduction, TLAPS

\* A set of natural numbers that is not empty has a least element.
LEMMA LeastNumber ==
    ASSUME NEW T \in SUBSET Nat, T # {}
    PROVE  \E m \in T : \A k \in T : m <= k
<1>1. PICK m \in T : \A k \in T : ~ (<<k, m>> \in OpToRel(<, Nat))
    BY NatLessThanWellFounded, WFMin
<1>2. \A k \in T : ~ (k < m)
    BY <1>1 DEF OpToRel
<1> QED
    BY <1>2

-----------------------------------------------------------------------------
(* Positions in a list.                                                    *)

UpTo(S, i) == {j \in S : j <= i}

\* There are n numbers from 1 to n.
LEMMA CountOfAll ==
    ASSUME NEW n \in Nat
    PROVE  IsFiniteSet(1..n) /\ Cardinality(1..n) = n
<1>1. /\ IsFiniteSet(1..n)
      /\ Cardinality(1..n) = IF 1 > n THEN 0 ELSE n - 1 + 1
    BY FS_Interval
<1> QED
    BY <1>1

\* None of the positions come before the first, and all up to the last.
LEMMA UpToBounds ==
    ASSUME NEW n \in Nat, NEW S \in SUBSET (1..n)
    PROVE  UpTo(S, 0) = {} /\ UpTo(S, n) = S /\ \A i : UpTo(S, i) \subseteq 1..n
<1>1. \A j \in S : j \in 1..n
    OBVIOUS
<1>2. \A j \in S : ~(j <= 0) /\ j <= n
    BY <1>1
<1> QED
    BY <1>1, <1>2, Zenon DEF UpTo

\* A position further there is one more, or none.
LEMMA UpToGrows ==
    ASSUME NEW S \in SUBSET Nat, NEW i \in Nat, NEW before \in Nat, i = before + 1
    PROVE  /\ i \in S => UpTo(S, i) = UpTo(S, before) \cup {i} /\ i \notin UpTo(S, before)
           /\ i \notin S => UpTo(S, i) = UpTo(S, before)
<1>1. \A j \in S : (j <= i <=> j <= before \/ j = i) /\ ~(i <= before)
    OBVIOUS
<1> QED
    BY <1>1, Zenon DEF UpTo

\* There is a k-th of a set of positions, and it is one of them.
LEMMA NthIsThere ==
    ASSUME NEW n \in Nat, NEW S \in SUBSET (1..n), NEW k \in 1..Cardinality(S)
    PROVE  Nth(S, k) \in S /\ Cardinality(UpTo(S, Nth(S, k))) = k
<1> DEFINE Count(i) == Cardinality(UpTo(S, i))
           Reached == {i \in 0..n : Count(i) >= k}
<1>1. \A i : IsFiniteSet(UpTo(S, i)) /\ Count(i) \in Nat
    <2>1. IsFiniteSet(1..n)
        BY CountOfAll
    <2> QED
        BY <2>1, UpToBounds, FS_Subset, FS_CardinalityType
<1>2. k \in Nat /\ k > 0 /\ Count(n) = Cardinality(S) /\ Count(0) = 0
    <2>1. Count(n) = Cardinality(S) /\ Count(0) = 0
        BY UpToBounds, FS_EmptySet
    <2> QED
        BY <2>1, <1>1
<1>3. Count(n) >= k
    BY <1>1, <1>2
<1> HIDE DEF Count
<1>4. PICK i \in Reached : \A j \in Reached : i <= j
    <2>1. Reached \in SUBSET Nat /\ Reached # {}
        BY <1>3
    <2> HIDE DEF Reached
    <2> QED
        BY <2>1, LeastNumber
<1>5. i \in Nat /\ i # 0 /\ Count(i) >= k
    BY <1>1, <1>2, <1>4
<1> DEFINE before == i - 1
<1>6. before \in Nat /\ i = before + 1 /\ before \in 0..n /\ before \notin Reached
    BY <1>4, <1>5
<1>7. Count(before) < k
    BY <1>1, <1>2, <1>6
<1> HIDE DEF before, Reached
<1>8. S \in SUBSET Nat
    OBVIOUS
<1>9. i \in S
    <2>1. i \notin S => Count(i) = Count(before)
        BY <1>5, <1>6, <1>8, UpToGrows DEF Count
    <2> QED
        BY <2>1, <1>1, <1>2, <1>5, <1>7
<1>10. Count(i) = Count(before) + 1
    <2>1. UpTo(S, i) = UpTo(S, before) \cup {i} /\ i \notin UpTo(S, before)
        BY <1>5, <1>6, <1>8, <1>9, UpToGrows
    <2> QED
        BY <2>1, <1>1, FS_AddElement DEF Count
<1>11. Count(i) = k
    BY <1>1, <1>2, <1>5, <1>7, <1>10
<1>12. Nth(S, k) = CHOOSE j \in S : Cardinality(UpTo(S, j)) = k
    BY DEF Nth, UpTo
<1>13. \E j \in S : Cardinality(UpTo(S, j)) = k
    BY <1>9, <1>11 DEF Count
<1> QED
    BY <1>12, <1>13, Zenon

\* Every position is the k-th for one k.
LEMMA EveryPositionCounts ==
    ASSUME NEW n \in Nat, NEW S \in SUBSET (1..n), NEW i \in S
    PROVE  /\ Cardinality(UpTo(S, i)) \in 1..Cardinality(S)
           /\ Nth(S, Cardinality(UpTo(S, i))) = i
<1>1. IsFiniteSet(S) /\ \A j \in S : j \in Nat
    <2>1. IsFiniteSet(1..n)
        BY CountOfAll
    <2>2. \A j \in S : j \in Nat
        OBVIOUS
    <2> QED
        BY <2>1, <2>2, FS_Subset
<1>2. ASSUME NEW j \in S
      PROVE  /\ IsFiniteSet(UpTo(S, j)) /\ j \in UpTo(S, j)
             /\ Cardinality(UpTo(S, j)) \in 1..Cardinality(S)
    <2>1. UpTo(S, j) \subseteq S /\ j \in UpTo(S, j)
        BY <1>1 DEF UpTo
    <2>2. /\ IsFiniteSet(UpTo(S, j)) /\ Cardinality(UpTo(S, j)) \in Nat
          /\ Cardinality(S) \in Nat /\ Cardinality(UpTo(S, j)) <= Cardinality(S)
        BY <1>1, <2>1, FS_Subset, FS_CardinalityType
    <2>3. Cardinality(UpTo(S, j)) # 0
        BY <2>1, <2>2, FS_EmptySet
    <2> QED
        BY <2>1, <2>2, <2>3
<1>3. ASSUME NEW j \in S, NEW k \in S, j < k
      PROVE  Cardinality(UpTo(S, j)) # Cardinality(UpTo(S, k))
    <2>0. \A earlier \in S : earlier <= j => earlier <= k
        BY <1>1, <1>3
    <2>1. UpTo(S, j) \subseteq UpTo(S, k)
        BY <2>0, Zenon DEF UpTo
    <2>2. k <= k /\ ~(k <= j)
        BY <1>1, <1>3
    <2>3. k \in UpTo(S, k) /\ k \notin UpTo(S, j)
        BY <2>2, Zenon DEF UpTo
    <2> QED
        BY <1>2, <2>1, <2>3, FS_Subset
<1>4. \A j \in S : Cardinality(UpTo(S, j)) = Cardinality(UpTo(S, i)) => j = i
    BY <1>1, <1>3
<1> QED
    BY <1>2, <1>4 DEF Nth, UpTo

\* Of all positions, the k-th is k.
LEMMA NthOfAll ==
    ASSUME NEW n \in Nat, NEW k \in 1..n
    PROVE  Nth(1..n, k) = k
<1>1. \A m \in Nat : Cardinality(1..m) = m
    BY CountOfAll
<1> DEFINE i == Nth(1..n, k)
<1>2. 1..n \in SUBSET (1..n) /\ k \in 1..Cardinality(1..n)
    BY <1>1
<1>3. i \in 1..n /\ Cardinality(UpTo(1..n, i)) = k
    BY <1>2, NthIsThere, Zenon
<1> HIDE DEF i
<1>4. UpTo(1..n, i) = 1..i
    BY <1>3 DEF UpTo
<1> QED
    BY <1>1, <1>3, <1>4 DEF i

\* Later positions count for more.
LEMMA NthGrows ==
    ASSUME NEW n \in Nat, NEW S \in SUBSET (1..n),
           NEW k \in 1..Cardinality(S), NEW l \in 1..Cardinality(S)
    PROVE  Nth(S, k) <= Nth(S, l) <=> k <= l
<1> DEFINE a == Nth(S, k)
           b == Nth(S, l)
<1>1. a \in S /\ b \in S /\ Cardinality(UpTo(S, a)) = k /\ Cardinality(UpTo(S, b)) = l
    BY NthIsThere
<1> HIDE DEF a, b
<1>2. a \in Nat /\ b \in Nat /\ k \in Nat /\ l \in Nat
    <2>1. IsFiniteSet(1..n)
        BY CountOfAll
    <2>2. Cardinality(S) \in Nat
        BY <2>1, FS_Subset, FS_CardinalityType
    <2> QED
        BY <1>1, <2>2
<1>3. ASSUME NEW c \in S, NEW d \in S, c <= d
      PROVE  Cardinality(UpTo(S, c)) <= Cardinality(UpTo(S, d))
    <2>1. \A i \in S : i \in Nat
        OBVIOUS
    <2>2. \A i \in S : i <= c => i <= d
        BY <1>3, <2>1
    <2>3. UpTo(S, c) \subseteq UpTo(S, d) /\ UpTo(S, d) \subseteq 1..n
        BY <2>2, Zenon DEF UpTo
    <2>4. IsFiniteSet(1..n)
        BY CountOfAll
    <2> QED
        BY <2>3, <2>4, FS_Subset
<1>4. a <= b => k <= l
    BY <1>1, <1>3
<1>5. b <= a => l <= k
    BY <1>1, <1>3
<1>6. l = k => a = b
    BY DEF a, b
<1> QED
    BY <1>2, <1>4, <1>5, <1>6 DEF a, b

\* What is kept of a list: the elements at the positions, each once.
LEMMA ElementsKept ==
    ASSUME NEW list, NEW n \in Nat, NEW S \in SUBSET (1..n)
    PROVE  /\ Cardinality(S) \in Nat /\ IsFiniteSet(S)
           /\ DOMAIN ElementsAt(list, S) = 1..Cardinality(S)
           /\ Len(ElementsAt(list, S)) = Cardinality(S)
           /\ ElementsAt(list, S) = [k \in 1..Cardinality(S) |-> ElementsAt(list, S)[k]]
           /\ \A k \in 1..Cardinality(S) :
                 Nth(S, k) \in S /\ ElementsAt(list, S)[k] = list[Nth(S, k)]
           /\ \A i \in S : \E k \in 1..Cardinality(S) : ElementsAt(list, S)[k] = list[i]
<1>1. Cardinality(S) \in Nat /\ IsFiniteSet(S)
    BY CountOfAll, FS_Subset, FS_CardinalityType
<1>2. \A k \in 1..Cardinality(S) : Nth(S, k) \in S
    BY NthIsThere
<1>3. \A i \in S : \E k \in 1..Cardinality(S) : Nth(S, k) = i
    BY EveryPositionCounts
<1> DEFINE kept == [k \in 1..Cardinality(S) |-> list[Nth(S, k)]]
<1>4. /\ DOMAIN kept = 1..Cardinality(S) /\ Len(kept) = Cardinality(S)
      /\ \A k \in 1..Cardinality(S) : kept[k] = list[Nth(S, k)]
    BY <1>1
<1>5. kept = [k \in 1..Cardinality(S) |-> kept[k]]
    BY <1>4
<1>6. ElementsAt(list, S) = kept
    BY DEF ElementsAt
<1> HIDE DEF kept
<1> QED
    BY <1>1, <1>2, <1>3, <1>4, <1>5, <1>6

-----------------------------------------------------------------------------
(* Paths.                                                                  *)

IsWalk(document, path, m, f) ==
    f = [n \in 0..m |-> IF n = 0 THEN document ELSE Member(f[n - 1], path[n])]

\* get_field's walk as a function; ValueAt is its last value.
Walk(document, path) == CHOOSE f : IsWalk(document, path, Len(path), f)

LEMMA ValueAtIsWalk ==
    ASSUME NEW document, NEW path
    PROVE  ValueAt(document, path) = Walk(document, path)[Len(path)]
    BY DEF ValueAt, Walk, IsWalk

\* The walk exists for every number of steps, by the least that has none.
LEMMA WalkExists ==
    ASSUME NEW document, NEW path, NEW m \in Nat
    PROVE  \E f : IsWalk(document, path, m, f)
<1> DEFINE Bad == {k \in Nat : ~ \E f : IsWalk(document, path, k, f)}
<1> SUFFICES ASSUME Bad # {} PROVE FALSE
    OBVIOUS
<1>1. PICK k \in Bad : \A j \in Bad : k <= j
    BY LeastNumber
<1>2. k # 0
    <2>1. IsWalk(document, path, 0, [n \in 0..0 |-> document])
        BY DEF IsWalk
    <2> QED
        BY <2>1
<1>3. k - 1 \in Nat /\ k - 1 \notin Bad
    BY <1>1, <1>2
<1>4. PICK f : IsWalk(document, path, k - 1, f)
    BY <1>3
<1> DEFINE g == [n \in 0..k |-> IF n = k THEN Member(f[k - 1], path[k]) ELSE f[n]]
<1>5. ASSUME NEW n \in 0..k
      PROVE  g[n] = IF n = 0 THEN document ELSE Member(g[n - 1], path[n])
    <2>1. CASE n = k
        BY <1>2, <1>3, <2>1
    <2>2. CASE n # k
        <3>1. n \in 0..(k - 1) /\ (n # 0 => n - 1 \in 0..k /\ n - 1 # k)
            BY <1>5, <2>2, <1>3
        <3>2. f[n] = IF n = 0 THEN document ELSE Member(f[n - 1], path[n])
            BY <1>4, <3>1 DEF IsWalk
        <3> QED
            BY <2>2, <3>1, <3>2
    <2> QED
        BY <2>1, <2>2
<1>6. IsWalk(document, path, k, g)
    BY <1>5 DEF IsWalk
<1> QED
    BY <1>6

LEMMA WalkSteps ==
    ASSUME NEW document, NEW path, Len(path) \in Nat
    PROVE  /\ Walk(document, path)[0] = document
           /\ \A n \in 1..Len(path) :
                 Walk(document, path)[n] = Member(Walk(document, path)[n - 1], path[n])
<1>1. IsWalk(document, path, Len(path), Walk(document, path))
    BY WalkExists DEF Walk
<1>2. \A n \in 0..Len(path) : Walk(document, path)[n] =
          IF n = 0 THEN document ELSE Member(Walk(document, path)[n - 1], path[n])
    <2> DEFINE f == Walk(document, path)
    <2>1. f = [n \in 0..Len(path) |-> IF n = 0 THEN document ELSE Member(f[n - 1], path[n])]
        BY <1>1 DEF IsWalk
    <2> HIDE DEF f
    <2>2. \A n \in 0..Len(path) : f[n] = IF n = 0 THEN document ELSE Member(f[n - 1], path[n])
        BY <2>1
    <2> QED
        BY <2>2 DEF f
<1> QED
    BY <1>2

\* The same steps give the same values.
LEMMA WalksAgree ==
    ASSUME NEW document, NEW path, Len(path) \in Nat,
           NEW value, NEW rest, Len(rest) \in Nat,
           NEW n \in 0..Len(path), NEW m \in 0..Len(rest), n + m <= Len(path),
           value = Walk(document, path)[n],
           \A j \in 1..m : rest[j] = path[n + j]
    PROVE  Walk(value, rest)[m] = Walk(document, path)[n + m]
<1> DEFINE Bad == {k \in 0..m : Walk(value, rest)[k] # Walk(document, path)[n + k]}
<1> SUFFICES ASSUME Bad # {} PROVE FALSE
    BY m \in Nat
<1>0. Bad \in SUBSET Nat
    OBVIOUS
<1>1. PICK k \in Bad : \A j \in Bad : k <= j
    BY <1>0, LeastNumber
<1>2. k # 0
    <2>1. Walk(value, rest)[0] = value
        BY WalkSteps
    <2>2. n + 0 = n
        OBVIOUS
    <2> QED
        BY <1>1, <2>1, <2>2
<1>3. k - 1 \in 0..m /\ k - 1 \notin Bad /\ k \in 1..m
    BY <1>1, <1>2
<1>4. Walk(value, rest)[k] = Member(Walk(value, rest)[k - 1], rest[k])
    BY <1>3, WalkSteps
<1>5. Walk(document, path)[n + k] = Member(Walk(document, path)[n + k - 1], path[n + k])
    <2>1. n + k \in 1..Len(path)
        BY <1>3
    <2> QED
        BY <2>1, WalkSteps
<1>6. Walk(value, rest)[k - 1] = Walk(document, path)[n + (k - 1)]
    BY <1>3
<1> QED
    BY <1>1, <1>3, <1>4, <1>5, <1>6

\* Looking up a path below another is looking up the rest of it in the value
\* of the other.
LEMMA PathsSplit ==
    ASSUME NEW document, NEW path \in Seq(Nat), NEW ancestor \in Seq(Nat),
           IsBelow(path, ancestor)
    PROVE  ValueAt(document, path) =
               ValueAt(ValueAt(document, ancestor),
                       SubSeq(path, Len(ancestor) + 1, Len(path)))
<1> DEFINE n == Len(ancestor)
           rest == SubSeq(path, n + 1, Len(path))
           value == Walk(document, path)[n]
<1>1. /\ n \in Nat /\ Len(path) \in Nat /\ n < Len(path)
      /\ \A j \in 1..n : ancestor[j] = path[j]
    BY DEF IsBelow, Prefix
<1>2. /\ Len(rest) = Len(path) - n
      /\ \A j \in 1..(Len(path) - n) : rest[j] = path[n + j]
    BY <1>1
<1>3. Walk(document, ancestor)[n] = Walk(document, path)[n]
    <2>1. document = Walk(document, path)[0]
        BY <1>1, WalkSteps
    <2>2. Walk(document, ancestor)[n] = Walk(document, path)[0 + n]
        BY <1>1, <2>1, WalksAgree
    <2> QED
        BY <1>1, <2>2
<1>4. Walk(value, rest)[Len(path) - n] = Walk(document, path)[n + (Len(path) - n)]
    <2> DEFINE k == Len(path) - n
    <2>1. /\ n \in 0..Len(path) /\ k \in Nat /\ n + k = Len(path)
          /\ Len(rest) \in Nat /\ k \in 0..Len(rest) /\ n + k <= Len(path)
        BY <1>1, <1>2
    <2>2. \A j \in 1..k : rest[j] = path[n + j]
        BY <1>2
    <2> HIDE DEF k, n, rest, value
    <2>3. Walk(value, rest)[k] = Walk(document, path)[n + k]
        <3>1. value = Walk(document, path)[n]
            BY DEF value
        <3> QED
            BY <1>1, <2>1, <2>2, <3>1, WalksAgree
    <2> QED
        BY <2>3 DEF k
<1>5. n + (Len(path) - n) = Len(path)
    BY <1>1
<1>6. /\ ValueAt(document, path) = Walk(document, path)[Len(path)]
      /\ ValueAt(document, ancestor) = Walk(document, ancestor)[n]
      /\ ValueAt(value, rest) = Walk(value, rest)[Len(rest)]
    BY ValueAtIsWalk
<1> QED
    BY <1>2, <1>3, <1>4, <1>5, <1>6

LEMMA RestOfPath ==
    ASSUME NEW path \in Seq(Nat), NEW ancestor \in Seq(Nat), Len(path) > Len(ancestor)
    PROVE  /\ SubSeq(path, Len(ancestor) + 1, Len(path)) \in Seq(Nat)
           /\ Len(SubSeq(path, Len(ancestor) + 1, Len(path))) > 0
<1>1. /\ Len(ancestor) \in Nat /\ Len(path) \in Nat
      /\ \A k \in 1..Len(path) : path[k] \in Nat
    OBVIOUS
<1>2. \A k \in (Len(ancestor) + 1)..Len(path) : path[k] \in Nat
    BY <1>1
<1> QED
    BY <1>1, <1>2

\* There is nothing below a value that is no object.
LEMMA NothingBelow ==
    ASSUME NEW value, value.type # "object", NEW path \in Seq(Nat), Len(path) > 0
    PROVE  ValueAt(value, path) = Absent
<1> DEFINE Bad == {k \in 1..Len(path) : Walk(value, path)[k] # Absent}
<1>0. Len(path) \in 1..Len(path) /\ Bad \in SUBSET Nat
    OBVIOUS
<1> SUFFICES ASSUME Bad # {} PROVE FALSE
    BY <1>0, ValueAtIsWalk
<1>1. PICK k \in Bad : \A j \in Bad : k <= j
    BY <1>0, LeastNumber
<1>2. Walk(value, path)[k - 1].type # "object"
    <2>1. CASE k = 1
        BY <2>1, WalkSteps
    <2>2. CASE k # 1
        <3>1. k - 1 \in 1..Len(path) /\ k - 1 \notin Bad
            BY <1>1, <2>2
        <3> QED
            BY <3>1 DEF Absent
    <2> QED
        BY <2>1, <2>2
<1>3. Walk(value, path)[k] = Member(Walk(value, path)[k - 1], path[k])
    BY <1>1, WalkSteps
<1> QED
    BY <1>1, <1>2, <1>3 DEF Member

-----------------------------------------------------------------------------
(* Conflicts.                                                              *)

\* A rule with a domain passes the values of its domain and no others.
LEMMA DomainIsExact ==
    ASSUME NEW rule, HasDomain(rule), NEW value
    PROVE  Satisfies(rule, value) <=> value \in Domain(rule)
<1>1. CASE rule.kind = "equals"
    BY <1>1 DEF Satisfies, Domain
<1>2. CASE rule.kind = "one_of"
    BY <1>2 DEF Satisfies, Domain
<1>3. CASE rule.kind = "false"
    BY <1>3 DEF Satisfies, Domain
<1>4. CASE rule.kind = "empty_list"
    BY <1>4 DEF Satisfies, Domain
<1> QED
    BY <1>1, <1>2, <1>3, <1>4 DEF HasDomain

LEMMA FailuresHaveReasons ==
    ASSUME NEW kind \in Kinds \ {"required_field"}
    PROVE  FAILURE_REASON_BY_KIND[kind] \notin {"RULE_SATISFIED", "FIELD_MISSING"}
    BY DEF Kinds, FAILURE_REASON_BY_KIND

LEMMA PassingRule ==
    ASSUME NEW rule, NEW response, rule.kind \in Kinds
    PROVE  Passes(rule, response) <=>
              /\ ValueAt(response, rule.path) # Absent
              /\ Satisfies(rule, ValueAt(response, rule.path))
<1>1. rule.kind = "required_field" => Satisfies(rule, ValueAt(response, rule.path))
    BY DEF Satisfies
<1> QED
    BY <1>1, FailuresHaveReasons DEF Passes, ReasonCode

\* DISJOINT_CONSTRAINTS: the value at the path would have to be one of those
\* that each is refused by some rule.
LEMMA DisjointIsReal ==
    ASSUME NEW policy, \A i \in DOMAIN policy : IsRule(policy[i]),
           NEW response, AllPass(policy, response)
    PROVE  DisjointPaths(policy) = {}
<1> SUFFICES ASSUME NEW path \in DisjointPaths(policy) PROVE FALSE
    OBVIOUS
<1> DEFINE value == ValueAt(response, path)
<1>1. \A i \in At(policy, path) : Satisfies(policy[i], value)
    BY PassingRule DEF At, AllPass, IsRule
<1>2. PICK i \in Finite(policy, path) : TRUE
    BY DEF DisjointPaths
<1>3. \A j \in Finite(policy, path) : value \in Domain(policy[j])
    BY <1>1, DomainIsExact DEF Finite
<1>4. value \in Shared(policy, path)
    BY <1>2, <1>3 DEF Shared
<1>5. PICK k \in Filters(policy, path) : ~Satisfies(policy[k], value)
    BY <1>4 DEF DisjointPaths, Disjoint
<1> QED
    BY <1>1, <1>5 DEF Filters

\* INCOMPATIBLE_DESCENDANTS: the value of the rule at the upper path would
\* have to pass the rules below.
LEMMA IncompatibleIsReal ==
    ASSUME NEW policy, \A i \in DOMAIN policy : IsRule(policy[i]),
           NEW response, AllPass(policy, response)
    PROVE  IncompatibleRules(policy) = {}
<1> SUFFICES ASSUME NEW i \in IncompatibleRules(policy) PROVE FALSE
    OBVIOUS
<1> DEFINE path == policy[i].path
           value == ValueAt(response, path)
<1>1. /\ i \in DOMAIN policy /\ HasDomain(policy[i])
      /\ Descendants(policy, path) # {}
    BY DEF IncompatibleRules
<1>2. value \in Domain(policy[i])
    BY <1>1, PassingRule, DomainIsExact DEF AllPass, IsRule
<1>3. ASSUME NEW j \in Descendants(policy, path)
      PROVE  Passes(Below(policy[j], path), value)
    <2>1. j \in DOMAIN policy /\ IsBelow(policy[j].path, path) /\ IsRule(policy[j])
        BY <1>3 DEF Descendants
    <2>2. ValueAt(response, policy[j].path) =
              ValueAt(value, SubSeq(policy[j].path, Len(path) + 1, Len(policy[j].path)))
        BY <1>1, <2>1, PathsSplit DEF IsRule
    <2> DEFINE child == Below(policy[j], path)
               rest == SubSeq(policy[j].path, Len(path) + 1, Len(policy[j].path))
    <2>3. /\ child.path = rest /\ child.kind = policy[j].kind
          /\ child.value = policy[j].value /\ child.values = policy[j].values
          /\ child.types = policy[j].types
          /\ child.minimum = policy[j].minimum /\ child.maximum = policy[j].maximum
        BY <2>1 DEF IsRule, RuleFields, Below
    <2>4. \A v : Satisfies(child, v) <=> Satisfies(policy[j], v)
        BY <2>3 DEF Satisfies, Within
    <2>5. child.kind \in Kinds /\ policy[j].kind \in Kinds
        BY <2>1, <2>3 DEF IsRule
    <2>6. Passes(policy[j], response)
        BY <2>1 DEF AllPass
    <2> HIDE DEF child, rest, value
    <2>7. ValueAt(response, policy[j].path) = ValueAt(value, child.path)
        BY <2>2, <2>3 DEF rest, value
    <2>8. Passes(child, value)
        BY <2>4, <2>5, <2>6, <2>7, PassingRule
    <2> QED
        BY <2>8 DEF child, value
<1>4. value.type = "object"
    <2>1. PICK j \in Descendants(policy, path) : TRUE
        BY <1>1
    <2>2. /\ policy[j].path \in Seq(Nat) /\ Len(policy[j].path) > Len(path)
          /\ path \in Seq(Nat) /\ policy[j].kind \in Kinds
          /\ IsBelow(policy[j].path, path)
        BY <1>1, <2>1 DEF Descendants, IsBelow, IsRule
    <2>3. ValueAt(response, policy[j].path) # Absent
        BY <2>1, <2>2, PassingRule DEF AllPass, Descendants
    <2> DEFINE rest == SubSeq(policy[j].path, Len(path) + 1, Len(policy[j].path))
    <2>4. rest \in Seq(Nat) /\ Len(rest) > 0
        BY <2>2, RestOfPath
    <2>5. ValueAt(response, policy[j].path) = ValueAt(value, rest)
        BY <2>2, PathsSplit
    <2> HIDE DEF rest, value
    <2> QED
        BY <2>3, <2>4, <2>5, NothingBelow
<1> QED
    BY <1>2, <1>3, <1>4 DEF IncompatibleRules

-----------------------------------------------------------------------------
(* What lint_policy reports.                                               *)

\* No response passes a policy in which lint_policy finds a conflict.
THEOREM ConflictsAreReal ==
    ASSUME NEW policy, \A i \in DOMAIN policy : IsRule(policy[i]),
           NEW response, AllPass(policy, response)
    PROVE  ~HasConflicts(policy)
    BY DisjointIsReal, IncompatibleIsReal DEF HasConflicts

\* Two rules with the same marker allow the same values.
LEMMA MarkersDecide ==
    ASSUME NEW one, IsRule(one), NEW other, IsRule(other),
           ConstraintMarker(one) = ConstraintMarker(other), NEW value
    PROVE  one.kind = other.kind /\ (Satisfies(one, value) <=> Satisfies(other, value))
<1>1. /\ one.kind = other.kind /\ one.types = other.types
      /\ one.minimum = other.minimum /\ one.maximum = other.maximum
      /\ (IF HasDomain(one) THEN Domain(one) ELSE {})
            = (IF HasDomain(other) THEN Domain(other) ELSE {})
    BY DEF ConstraintMarker
<1>2. HasDomain(one) <=> HasDomain(other)
    BY <1>1 DEF HasDomain
<1>3. CASE HasDomain(one)
    BY <1>1, <1>2, <1>3, DomainIsExact
<1>4. CASE ~HasDomain(one)
    <2>1. one.kind \in {"required_field", "type", "range", "length"}
        BY <1>4 DEF HasDomain, IsRule, Kinds
    <2> QED
        BY <1>1, <2>1 DEF Satisfies, Within
<1> QED
    BY <1>1, <1>3, <1>4

\* Rules that lint_policy reports as duplicates give every response the same
\* reason code.
THEOREM DuplicatesAgree ==
    ASSUME NEW policy, \A i \in DOMAIN policy : IsRule(policy[i]),
           NEW pair \in Duplicates(policy), NEW response
    PROVE  ReasonCode(policy[pair[1]], response) = ReasonCode(policy[pair[2]], response)
    BY MarkersDecide DEF Duplicates, ReasonCode
=============================================================================
