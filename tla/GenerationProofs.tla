--------------------------- MODULE GenerationProofs ---------------------------
(***************************************************************************)
(* For every policy: the greedy search of generate_synthetic_cases never   *)
(* undoes what it has built, and gives up only when it has to; the failing *)
(* case fails what it is made for; and so does each rule probe, of which   *)
(* there are enough for every reason code.                                 *)
(***************************************************************************)
EXTENDS Probes, LintProofs

-----------------------------------------------------------------------------
(* What _assign_path does to a document.                                   *)

\* The last m + 1 values that _assign_path puts along a path.
IsBuild(document, path, value, m, f) ==
    f = [n \in (Len(path) - m)..Len(path) |->
            IF n = Len(path) THEN value
            ELSE Put(ValueAt(document, Prefix(path, n)), path[n + 1], f[n + 1])]

\* All of them, by the number of names from the top.
IsBuilt(document, path, value, f) ==
    f = [n \in 0..Len(path) |->
            IF n = Len(path) THEN value
            ELSE Put(ValueAt(document, Prefix(path, n)), path[n + 1], f[n + 1])]

Built(document, path, value) == CHOOSE f : IsBuilt(document, path, value, f)

\* _assign_path as one CHOOSE, whose function the next lemma provides.
LEMMA AssignPathIsBuilt ==
    ASSUME NEW document, NEW path, NEW value
    PROVE  AssignPath(document, path, value) = Built(document, path, value)[0]
    BY DEF AssignPath, Built, IsBuilt

\* The values exist for every number of names, from the end of the path.
LEMMA BuildExists ==
    ASSUME NEW document, NEW path, Len(path) \in Nat, NEW value, NEW m \in 0..Len(path)
    PROVE  \E f : IsBuild(document, path, value, m, f)
<1> DEFINE Bad == {k \in 0..Len(path) : ~ \E f : IsBuild(document, path, value, k, f)}
<1> SUFFICES ASSUME Bad # {} PROVE FALSE
    OBVIOUS
<1>0. Bad \in SUBSET Nat
    OBVIOUS
<1>1. PICK k \in Bad : \A j \in Bad : k <= j
    BY <1>0, LeastNumber
<1>2. k # 0
    <2>1. IsBuild(document, path, value, 0, [n \in Len(path)..Len(path) |-> value])
        BY DEF IsBuild
    <2> QED
        BY <2>1
<1>3. k - 1 \in 0..Len(path) /\ k - 1 \notin Bad
    BY <1>1, <1>2
<1>4. PICK f : IsBuild(document, path, value, k - 1, f)
    BY <1>3
<1> DEFINE first == Len(path) - k
           Made(g, n) == IF n = Len(path) THEN value
                         ELSE Put(ValueAt(document, Prefix(path, n)), path[n + 1], g[n + 1])
           g == [n \in first..Len(path) |->
                    IF n = first
                    THEN Put(ValueAt(document, Prefix(path, n)), path[n + 1], f[n + 1]) ELSE f[n]]
<1>5. ASSUME NEW n \in first..Len(path)
      PROVE  g[n] = Made(g, n)
    <2>1. CASE n = first
        <3>1. n # Len(path) /\ n + 1 \in first..Len(path) /\ n + 1 # first
            BY <1>1, <1>2, <2>1
        <3> QED
            BY <2>1, <3>1
    <2>2. CASE n # first
        <3>1. n \in (Len(path) - (k - 1))..Len(path)
            BY <1>1, <1>5, <2>2
        <3>2. f[n] = Made(f, n)
            BY <1>4, <3>1 DEF IsBuild
        <3>3. n # Len(path) => n + 1 \in first..Len(path) /\ n + 1 # first
            BY <1>1, <1>5
        <3> QED
            BY <2>2, <3>2, <3>3
    <2> QED
        BY <2>1, <2>2
<1>6. IsBuild(document, path, value, k, g)
    BY <1>5 DEF IsBuild
<1> QED
    BY <1>1, <1>6

\* The last value is the new one, and each one above is put into an object.
LEMMA BuiltSteps ==
    ASSUME NEW document, NEW path, Len(path) \in Nat, NEW value
    PROVE  /\ Built(document, path, value)[Len(path)] = value
           /\ \A n \in 0..(Len(path) - 1) :
                 Built(document, path, value)[n] =
                     Put(ValueAt(document, Prefix(path, n)), path[n + 1],
                         Built(document, path, value)[n + 1])
<1> DEFINE b == Built(document, path, value)
<1>1. \E f : IsBuild(document, path, value, Len(path), f)
    <2>1. Len(path) \in 0..Len(path)
        OBVIOUS
    <2> QED
        BY <2>1, BuildExists
<1>2. Len(path) - Len(path) = 0
    OBVIOUS
<1>3. \E f : IsBuilt(document, path, value, f)
    BY <1>1, <1>2 DEF IsBuild, IsBuilt
<1>4. IsBuilt(document, path, value, b)
    BY <1>3 DEF Built
<1> HIDE DEF b
<1>5. \A n \in 0..Len(path) : b[n] =
          IF n = Len(path) THEN value
          ELSE Put(ValueAt(document, Prefix(path, n)), path[n + 1], b[n + 1])
    BY <1>4 DEF IsBuilt
<1> QED
    BY <1>5 DEF b

\* `current[name] = child` gives an object that differs in that member only.
LEMMA PutFacts ==
    ASSUME NEW value, NEW name, NEW child
    PROVE  /\ Put(value, name, child).type = "object"
           /\ Member(Put(value, name, child), name) = child
           /\ \A other : other # name =>
                 Member(Put(value, name, child), other) = Member(value, other)
<1> DEFINE members == IF value.type = "object" THEN value.members ELSE << >>
           after == [m \in DOMAIN members \cup {name} |-> IF m = name THEN child ELSE members[m]]
<1>1. Put(value, name, child) = [type |-> "object", members |-> after]
    BY DEF Put, Object
<1>2. /\ DOMAIN after = DOMAIN members \cup {name} /\ after[name] = child
      /\ \A other \in DOMAIN members : other # name => after[other] = members[other]
    OBVIOUS
<1>3. /\ value.type = "object" => members = value.members
      /\ value.type # "object" => DOMAIN members = {}
    OBVIOUS
<1> HIDE DEF members, after
<1>4. /\ Put(value, name, child).type = "object"
      /\ Put(value, name, child).members = after
    BY <1>1
<1> QED
    BY <1>2, <1>3, <1>4 DEF Member

\* `current[name] = child` adds one member.
LEMMA PutAdds ==
    ASSUME NEW value, NEW new, NEW child, NEW name \in DOMAIN Put(value, new, child).members
    PROVE  name = new \/ (value.type = "object" /\ name \in DOMAIN value.members)
<1> DEFINE members == IF value.type = "object" THEN value.members ELSE << >>
           after == [m \in DOMAIN members \cup {new} |-> IF m = new THEN child ELSE members[m]]
<1>1. Put(value, new, child).members = after
    BY DEF Put, Object
<1>2. name \in DOMAIN members \cup {new}
    BY <1>1
<1>3. value.type # "object" => DOMAIN members = {}
    OBVIOUS
<1> QED
    BY <1>2, <1>3

\* The walk along an assigned path meets the values that were put there.
LEMMA AssignedWalk ==
    ASSUME NEW document, NEW path \in Seq(Nat), NEW value, NEW n \in 0..Len(path)
    PROVE  Walk(AssignPath(document, path, value), path)[n] = Built(document, path, value)[n]
<1> DEFINE b == Built(document, path, value)
           after == AssignPath(document, path, value)
           Bad == {k \in 0..Len(path) : Walk(after, path)[k] # b[k]}
<1> SUFFICES ASSUME Bad # {} PROVE FALSE
    OBVIOUS
<1>0. Bad \in SUBSET Nat /\ Len(path) \in Nat
    OBVIOUS
<1>1. PICK k \in Bad : \A j \in Bad : k <= j
    BY <1>0, LeastNumber
<1>2. k # 0
    <2>1. Walk(after, path)[0] = after
        BY <1>0, WalkSteps
    <2>2. after = b[0]
        BY AssignPathIsBuilt
    <2> QED
        BY <1>1, <2>1, <2>2
<1>3. k - 1 \in 0..(Len(path) - 1) /\ k - 1 \notin Bad /\ k \in 1..Len(path) /\ (k - 1) + 1 = k
    BY <1>1, <1>2
<1>4. Walk(after, path)[k] = Member(Walk(after, path)[k - 1], path[k])
    BY <1>0, <1>3, WalkSteps
<1>5. Walk(after, path)[k - 1] = b[k - 1]
    BY <1>3
<1>6. b[k - 1] = Put(ValueAt(document, Prefix(path, k - 1)), path[k], b[k])
    <2> DEFINE m == k - 1
    <2>1. m \in 0..(Len(path) - 1) /\ m + 1 = k
        BY <1>3
    <2> HIDE DEF m, b
    <2>2. b[m] = Put(ValueAt(document, Prefix(path, m)), path[m + 1], b[m + 1])
        BY <1>0, <2>1, BuiltSteps DEF b
    <2> QED
        BY <2>1, <2>2 DEF m
<1>7. Member(b[k - 1], path[k]) = b[k]
    BY <1>6, PutFacts
<1> QED
    BY <1>1, <1>4, <1>5, <1>7

\* What is assigned is there, whatever was there before.
LEMMA AssignedIsThere ==
    ASSUME NEW document, NEW path \in Seq(Nat), NEW value
    PROVE  ValueAt(AssignPath(document, path, value), path) = value
<1>1. Len(path) \in 0..Len(path) /\ Len(path) \in Nat
    OBVIOUS
<1> QED
    BY <1>1, AssignedWalk, BuiltSteps, ValueAtIsWalk

\* So what is found below the path is found in the value.
LEMMA BelowAssigned ==
    ASSUME NEW document, NEW path \in Seq(Nat), NEW value,
           NEW other \in Seq(Nat), IsBelow(other, path)
    PROVE  ValueAt(AssignPath(document, path, value), other) =
               ValueAt(value, SubSeq(other, Len(path) + 1, Len(other)))
    BY AssignedIsThere, PathsSplit

\* The beginning of a walk is the walk along the beginning of the path.
LEMMA PrefixWalk ==
    ASSUME NEW document, NEW path \in Seq(Nat), NEW n \in 0..Len(path)
    PROVE  /\ Prefix(path, n) \in Seq(Nat) /\ Len(Prefix(path, n)) = n
           /\ \A j \in 1..n : Prefix(path, n)[j] = path[j]
           /\ ValueAt(document, Prefix(path, n)) = Walk(document, path)[n]
<1> DEFINE start == Prefix(path, n)
<1>1. start \in Seq(Nat) /\ Len(start) = n /\ \A j \in 1..n : start[j] = path[j]
    BY DEF Prefix
<1> HIDE DEF start
<1>2. Len(path) \in Nat /\ Walk(document, path)[0] = document
    BY WalkSteps
<1>3. Walk(document, start)[n] = Walk(document, path)[0 + n]
    <2>1. 0 \in 0..Len(path) /\ n \in 0..Len(start) /\ 0 + n <= Len(path) /\ n \in Nat
        BY <1>1
    <2>2. \A j \in 1..n : start[j] = path[0 + j]
        BY <1>1
    <2>3. Len(start) \in Nat /\ document = Walk(document, path)[0]
        BY <1>1, <1>2
    <2> QED
        BY <1>2, <2>1, <2>2, <2>3, WalksAgree
<1>4. 0 + n = n
    OBVIOUS
<1>5. ValueAt(document, start) = Walk(document, start)[n]
    BY <1>1, ValueAtIsWalk
<1> QED
    BY <1>1, <1>3, <1>4, <1>5 DEF start

\* The path to what was assigned leads through objects.
LEMMA AboveAssigned ==
    ASSUME NEW document, NEW path \in Seq(Nat), NEW value,
           NEW other \in Seq(Nat), IsBelow(path, other)
    PROVE  ValueAt(AssignPath(document, path, value), other).type = "object"
<1> DEFINE n == Len(other)
           after == AssignPath(document, path, value)
           b == Built(document, path, value)
<1>1. n \in 0..(Len(path) - 1) /\ n \in 0..Len(path) /\ other = Prefix(path, n) /\ Len(path) \in Nat
    BY DEF IsBelow
<1>2. ValueAt(after, other) = Walk(after, path)[n]
    BY <1>1, PrefixWalk
<1>3. Walk(after, path)[n] = b[n]
    BY <1>1, AssignedWalk
<1>4. b[n] = Put(ValueAt(document, Prefix(path, n)), path[n + 1], b[n + 1])
    BY <1>1, BuiltSteps
<1> QED
    BY <1>2, <1>3, <1>4, PutFacts

\* Of unrelated paths, none is the beginning of the other.
LEMMA UnrelatedPathsPart ==
    ASSUME NEW path \in Seq(Nat), NEW other \in Seq(Nat), ~Related(path, other)
    PROVE  \E k \in Nat : /\ k + 1 \in 1..Len(path) /\ k + 1 \in 1..Len(other)
                          /\ path[k + 1] # other[k + 1]
                          /\ \A j \in 1..k : path[j] = other[j]
<1> DEFINE Bad == {k \in Nat : /\ k + 1 \in 1..Len(path) /\ k + 1 \in 1..Len(other)
                               /\ path[k + 1] # other[k + 1]}
<1>1. Len(path) \in Nat /\ Len(other) \in Nat
    OBVIOUS
<1>2. Bad # {}
    <2> SUFFICES ASSUME Bad = {} PROVE FALSE
        OBVIOUS
    <2>1. \A j \in 1..Len(path) : j \in 1..Len(other) => path[j] = other[j]
        <3> SUFFICES ASSUME NEW j \in 1..Len(path), j \in 1..Len(other), path[j] # other[j]
                     PROVE  FALSE
            OBVIOUS
        <3>1. j - 1 \in Nat /\ (j - 1) + 1 = j
            OBVIOUS
        <3> QED
            BY <3>1
    <2>2. CASE Len(path) = Len(other)
        <3>1. path = other
            BY <2>1, <2>2
        <3> QED
            BY <3>1 DEF Related
    <2>3. CASE Len(path) > Len(other)
        <3>1. Prefix(path, Len(other)) = other
            BY <1>1, <2>1, <2>3 DEF Prefix
        <3> QED
            BY <2>3, <3>1 DEF Related, IsBelow
    <2>4. CASE Len(path) < Len(other)
        <3>1. Prefix(other, Len(path)) = path
            BY <1>1, <2>1, <2>4 DEF Prefix
        <3> QED
            BY <1>1, <2>4, <3>1 DEF Related, IsBelow
    <2> QED
        BY <1>1, <2>2, <2>3, <2>4
<1>3. PICK k \in Bad : \A j \in Bad : k <= j
    <2>1. Bad \in SUBSET Nat
        OBVIOUS
    <2> HIDE DEF Bad
    <2> QED
        BY <1>2, <2>1, LeastNumber
<1>4. ASSUME NEW j \in 1..k PROVE path[j] = other[j]
    <2>1. j - 1 \in Nat /\ (j - 1) + 1 = j /\ ~(k <= j - 1) /\ j \in 1..Len(path) /\ j \in 1..Len(other)
        BY <1>1, <1>3
    <2>2. j - 1 \notin Bad
        BY <1>3, <2>1
    <2> QED
        BY <2>1, <2>2
<1> QED
    BY <1>3, <1>4

\* Walks from two documents that meet stay together.
LEMMA WalksMeet ==
    ASSUME NEW one, NEW two, NEW path \in Seq(Nat), NEW k \in 0..Len(path),
           Walk(one, path)[k] = Walk(two, path)[k]
    PROVE  ValueAt(one, path) = ValueAt(two, path)
<1> DEFINE value == Walk(one, path)[k]
           rest == SubSeq(path, k + 1, Len(path))
           m == Len(path) - k
<1>1. /\ k \in Nat /\ Len(path) \in Nat /\ m \in Nat /\ k + m = Len(path) /\ k + m <= Len(path)
      /\ Len(rest) = m /\ \A j \in 1..m : rest[j] = path[k + j]
    OBVIOUS
<1>2. value = Walk(one, path)[k] /\ value = Walk(two, path)[k]
    OBVIOUS
<1> HIDE DEF rest, m, value
<1>3. m \in 0..Len(rest) /\ Len(rest) \in Nat
    BY <1>1
<1>4. /\ k \in 0..Len(path) /\ k + m <= Len(path) /\ Len(path) \in Nat
      /\ \A j \in 1..m : rest[j] = path[k + j]
    BY <1>1
<1>5. \A document : value = Walk(document, path)[k] =>
          Walk(value, rest)[m] = Walk(document, path)[k + m]
    BY <1>3, <1>4, WalksAgree
<1> QED
    BY <1>1, <1>2, <1>5, ValueAtIsWalk

\* What is not on the way to the assigned path, at it or below it, stays.
LEMMA UnrelatedIsKept ==
    ASSUME NEW document, NEW path \in Seq(Nat), NEW value,
           NEW other \in Seq(Nat), ~Related(path, other)
    PROVE  ValueAt(AssignPath(document, path, value), other) = ValueAt(document, other)
<1> DEFINE after == AssignPath(document, path, value)
           b == Built(document, path, value)
<1>1. PICK k \in Nat : /\ k + 1 \in 1..Len(path) /\ k + 1 \in 1..Len(other)
                       /\ path[k + 1] # other[k + 1]
                       /\ \A j \in 1..k : path[j] = other[j]
    BY UnrelatedPathsPart
<1> DEFINE before == Walk(document, path)[k]
<1>2. /\ k \in 0..Len(path) /\ k \in 0..Len(other) /\ k \in 0..(Len(path) - 1)
      /\ (k + 1) - 1 = k /\ k + 1 \in 0..Len(other)
      /\ Len(path) \in Nat /\ Len(other) \in Nat
    BY <1>1
<1>3. \A d : Walk(d, other)[k] = Walk(d, path)[k]
    <2>1. Prefix(path, k) = Prefix(other, k)
        BY <1>1, <1>2 DEF Prefix
    <2>2. \A d : ValueAt(d, Prefix(path, k)) = Walk(d, path)[k]
        BY <1>2, PrefixWalk
    <2>3. \A d : ValueAt(d, Prefix(other, k)) = Walk(d, other)[k]
        BY <1>2, PrefixWalk
    <2> QED
        BY <2>1, <2>2, <2>3
<1>4. \A d : Walk(d, other)[k + 1] = Member(Walk(d, other)[k], other[k + 1])
    BY <1>1, <1>2, WalkSteps
<1>5. Walk(after, path)[k] = Put(before, path[k + 1], b[k + 1])
    <2>1. Walk(after, path)[k] = b[k]
        BY <1>2, AssignedWalk
    <2>2. b[k] = Put(ValueAt(document, Prefix(path, k)), path[k + 1], b[k + 1])
        BY <1>2, BuiltSteps
    <2>3. ValueAt(document, Prefix(path, k)) = before
        BY <1>2, PrefixWalk
    <2> QED
        BY <2>1, <2>2, <2>3
<1> HIDE DEF after, b, before
<1>6. Member(Walk(after, path)[k], other[k + 1]) = Member(before, other[k + 1])
    BY <1>1, <1>5, PutFacts
<1>7. Walk(after, other)[k + 1] = Walk(document, other)[k + 1]
    BY <1>3, <1>4, <1>6 DEF before
<1>8. ValueAt(after, other) = ValueAt(document, other)
    BY <1>2, <1>7, WalksMeet
<1> QED
    BY <1>8 DEF after

\* There is nothing at a path into an empty object.
LEMMA NothingInEmptyObject ==
    ASSUME NEW path \in Seq(Nat), path # << >>
    PROVE  ValueAt(EmptyObject, path) = Absent
<1> DEFINE n == Len(path)
<1>1. n \in Nat /\ n # 0
    OBVIOUS
<1>2. n > 0 /\ 1 \in 0..n /\ 1 \in 1..n /\ 1 - 1 = 0
    <2> HIDE DEF n
    <2> QED
        BY <1>1
<1>3. \A document : Walk(document, path)[1] = Member(document, path[1])
    BY <1>1, <1>2, WalkSteps
<1>4. \A name : Member(EmptyObject, name) = Absent
    BY DEF Member, EmptyObject, Object
<1>5. Absent.type # "object" /\ Member(Absent, path[1]) = Absent
    BY DEF Absent, Member
<1>6. ValueAt(EmptyObject, path) = ValueAt(Absent, path)
    BY <1>2, <1>3, <1>4, <1>5, WalksMeet
<1> QED
    BY <1>2, <1>5, <1>6, NothingBelow

\* What has a value below a path has an object at it, with the member next on
\* the way.
LEMMA ObjectsAbove ==
    ASSUME NEW document, NEW path \in Seq(Nat), NEW ancestor \in Seq(Nat),
           IsBelow(path, ancestor), ValueAt(document, path) # Absent
    PROVE  /\ ValueAt(document, ancestor).type = "object"
           /\ path[Len(ancestor) + 1] \in DOMAIN ValueAt(document, ancestor).members
<1> DEFINE n == Len(ancestor)
           rest == SubSeq(path, n + 1, Len(path))
           value == ValueAt(document, ancestor)
<1>1. n \in Nat /\ Len(path) \in Nat /\ n < Len(path)
    BY DEF IsBelow
<1>2. rest \in Seq(Nat) /\ Len(rest) = Len(path) - n /\ rest[1] = path[n + 1] /\ rest # << >>
    <2>1. n + 1 \in 1..Len(path) /\ Len(path) \in Nat /\ Len(path) - n \in Nat \ {0}
        BY <1>1
    <2> HIDE DEF n
    <2>2. rest \in Seq(Nat) /\ Len(rest) = Len(path) - n
        BY <1>1, <2>1
    <2>3. 1 \in 1..Len(rest)
        BY <2>1, <2>2
    <2>4. ASSUME NEW j \in 1..(Len(path) - n) PROVE rest[j] = path[n + j]
        <3>1. /\ n + 1 \in Nat /\ Len(path) \in Nat /\ j \in 1..(Len(path) - (n + 1) + 1)
              /\ n + j = (n + 1) + j - 1
            BY <1>1, <2>1
        <3> QED
            BY ONLY <3>1, path \in Seq(Nat)
    <2>5. rest # << >>
        BY <2>1, <2>2
    <2> QED
        BY <2>1, <2>2, <2>3, <2>4, <2>5
<1>3. ValueAt(value, rest) # Absent
    BY PathsSplit
<1> HIDE DEF n, rest, value
<1>4. value.type = "object"
    <2>1. Len(rest) > 0
        BY <1>1, <1>2
    <2> QED
        BY <1>2, <1>3, <2>1, NothingBelow
<1>5. Member(value, rest[1]) # Absent
    <2> SUFFICES ASSUME Member(value, rest[1]) = Absent PROVE FALSE
        OBVIOUS
    <2>1. 1 \in 0..Len(rest) /\ 1 \in 1..Len(rest) /\ 1 - 1 = 0 /\ Len(rest) \in Nat
        BY <1>1, <1>2
    <2>2. \A d : Walk(d, rest)[1] = Member(d, rest[1])
        BY <2>1, WalkSteps
    <2>3. \A name : Member(EmptyObject, name) = Absent
        BY DEF Member, EmptyObject, Object
    <2>4. ValueAt(value, rest) = ValueAt(EmptyObject, rest)
        BY <1>2, <2>1, <2>2, <2>3, WalksMeet
    <2> QED
        BY <1>2, <1>3, <2>4, NothingInEmptyObject
<1> QED
    BY <1>2, <1>4, <1>5 DEF Member, n, value

\* Paths with different names at one place are unrelated.
LEMMA PathsThatPart ==
    ASSUME NEW path \in Seq(Nat), NEW other \in Seq(Nat), NEW k \in 1..Len(path),
           k \in 1..Len(other), path[k] # other[k]
    PROVE  ~Related(path, other)
<1>1. ASSUME NEW one \in Seq(Nat), NEW two \in Seq(Nat), IsBelow(one, two), k \in 1..Len(two)
      PROVE  one[k] = two[k]
    <2>1. two = Prefix(one, Len(two)) /\ Len(two) \in 0..Len(one)
        BY <1>1 DEF IsBelow
    <2> QED
        <3>1. /\ Len(two) \in Nat
              /\ \A j \in 1..Len(two) : Prefix(one, Len(two))[j] = one[j]
            BY <2>1 DEF Prefix
        <3> QED
            BY <1>1, <2>1, <3>1
<1> QED
    BY <1>1 DEF Related

\* What _delete_path does to the object that holds the member.
Without(value, name) ==
    Object([m \in DOMAIN value.members \ {name} |-> value.members[m]])

\* Deleting a name leaves the other names.
LEMMA WithoutFacts ==
    ASSUME NEW value, value.type = "object", NEW name
    PROVE  /\ Member(Without(value, name), name) = Absent
           /\ \A other : other # name =>
                 Member(Without(value, name), other) = Member(value, other)
<1> DEFINE left == [m \in DOMAIN value.members \ {name} |-> value.members[m]]
<1>1. Without(value, name) = [type |-> "object", members |-> left]
    BY DEF Without, Object
<1>2. /\ DOMAIN left = DOMAIN value.members \ {name}
      /\ \A other \in DOMAIN left : left[other] = value.members[other]
    OBVIOUS
<1> HIDE DEF left
<1>3. Without(value, name).type = "object" /\ Without(value, name).members = left
    BY <1>1
<1> QED
    BY <1>2, <1>3 DEF Member

\* Where _delete_path finds the member to delete.
LEMMA DeletedFrom ==
    ASSUME NEW document, NEW path \in Seq(Nat), path # << >>, ValueAt(document, path) # Absent
    PROVE  LET n == Len(path) - 1
               parent == Prefix(path, n) IN
           /\ n \in 0..Len(path) /\ n \in Nat /\ parent \in Seq(Nat) /\ Len(parent) = n
           /\ Walk(document, path)[n].type = "object"
           /\ DeletePath(document, path) =
                  AssignPath(document, parent, Without(Walk(document, path)[n], path[n + 1]))
           /\ Walk(DeletePath(document, path), path)[n] =
                  Without(Walk(document, path)[n], path[n + 1])
<1> DEFINE n == Len(path) - 1
           parent == Prefix(path, n)
           object == Walk(document, path)[n]
           after == DeletePath(document, path)
<1>1. /\ n \in 0..Len(path) /\ n \in Nat /\ n + 1 = Len(path) /\ Len(path) \in Nat
      /\ Len(path) \in 1..Len(path)
    OBVIOUS
<1>2. parent \in Seq(Nat) /\ Len(parent) = n /\ ValueAt(document, parent) = object
    BY <1>1, PrefixWalk
<1>3. ValueAt(document, path) = Member(object, path[Len(path)])
    <2>1. Walk(document, path)[Len(path)]
              = Member(Walk(document, path)[Len(path) - 1], path[Len(path)])
        BY <1>1, WalkSteps
    <2> QED
        BY <2>1, ValueAtIsWalk
<1>4. object.type = "object"
    BY <1>3 DEF Member
<1>5. after = AssignPath(document, parent, Without(object, path[n + 1]))
    BY <1>1, <1>2 DEF DeletePath, Without
<1> HIDE DEF object, after
<1>6. ValueAt(after, parent) = Without(object, path[n + 1])
    BY <1>2, <1>5, AssignedIsThere
<1>7. ValueAt(after, parent) = Walk(after, path)[n]
    BY <1>1, PrefixWalk
<1> QED
    BY <1>1, <1>2, <1>4, <1>5, <1>6, <1>7 DEF object, after

\* What is deleted is gone.
LEMMA DeletedIsGone ==
    ASSUME NEW document, NEW path \in Seq(Nat), path # << >>
    PROVE  ValueAt(DeletePath(document, path), path) = Absent
<1>1. CASE ValueAt(document, path) = Absent
    BY <1>1 DEF DeletePath
<1>2. CASE ValueAt(document, path) # Absent
    <2> DEFINE n == Len(path) - 1
               after == DeletePath(document, path)
               object == Walk(document, path)[n]
    <2>1. object.type = "object" /\ Walk(after, path)[n] = Without(object, path[n + 1])
        BY <1>2, DeletedFrom
    <2>2. n + 1 = Len(path) /\ Len(path) \in 1..Len(path) /\ Len(path) \in Nat
        OBVIOUS
    <2>3. ValueAt(after, path) = Member(Walk(after, path)[n], path[n + 1])
        BY <2>2, WalkSteps, ValueAtIsWalk
    <2> HIDE DEF n, after, object
    <2>4. ValueAt(after, path) = Absent
        BY <2>1, <2>3, WithoutFacts
    <2> QED
        BY <2>4 DEF after
<1> QED
    BY <1>1, <1>2

\* Nothing else goes, but for what was below it and what it was part of.
LEMMA UnrelatedIsNotDeleted ==
    ASSUME NEW document, NEW path \in Seq(Nat), path # << >>,
           NEW other \in Seq(Nat), ~Related(path, other)
    PROVE  ValueAt(DeletePath(document, path), other) = ValueAt(document, other)
<1>1. CASE ValueAt(document, path) = Absent
    BY <1>1 DEF DeletePath
<1>2. CASE ValueAt(document, path) # Absent
    <2> DEFINE n == Len(path) - 1
               parent == Prefix(path, n)
               after == DeletePath(document, path)
               object == Walk(document, path)[n]
               left == Without(object, path[n + 1])
    <2>1. /\ n \in 0..Len(path) /\ n \in Nat /\ parent \in Seq(Nat) /\ Len(parent) = n
          /\ object.type = "object"
          /\ after = AssignPath(document, parent, left) /\ Walk(after, path)[n] = left
        BY <1>2, DeletedFrom
    <2>2. PICK k \in Nat : /\ k + 1 \in 1..Len(path) /\ k + 1 \in 1..Len(other)
                           /\ path[k + 1] # other[k + 1]
                           /\ \A j \in 1..k : path[j] = other[j]
        BY UnrelatedPathsPart
    <2>3. k \in 0..n /\ Len(path) \in Nat /\ Len(other) \in Nat
        BY <2>2
    <2>4. CASE k < n
        <3>1. k + 1 \in 1..Len(parent) /\ parent[k + 1] = path[k + 1]
            BY <2>1, <2>3, <2>4 DEF Prefix
        <3> HIDE DEF parent, left, after
        <3>2. ~Related(parent, other)
            BY <2>1, <2>2, <3>1, PathsThatPart
        <3>3. ValueAt(after, other) = ValueAt(document, other)
            BY <2>1, <3>2, UnrelatedIsKept
        <3> QED
            BY <3>3 DEF after
    <2>5. CASE k = n
        <3>1. \A d : Walk(d, other)[n] = Walk(d, path)[n]
            <4>1. n \in 0..Len(other)
                BY <2>2, <2>5
            <4>2. Prefix(path, n) = Prefix(other, n)
                BY <2>1, <2>2, <2>5, <4>1 DEF Prefix
            <4>3. \A d : ValueAt(d, Prefix(path, n)) = Walk(d, path)[n]
                BY <2>1, PrefixWalk
            <4>4. \A d : ValueAt(d, Prefix(other, n)) = Walk(d, other)[n]
                BY <4>1, PrefixWalk
            <4> QED
                BY <4>2, <4>3, <4>4
        <3>2. n + 1 \in 1..Len(other) /\ (n + 1) - 1 = n /\ n + 1 \in 0..Len(other)
            BY <2>1, <2>2, <2>5
        <3>3. \A d : Walk(d, other)[n + 1] = Member(Walk(d, other)[n], other[n + 1])
            BY <2>3, <3>2, WalkSteps
        <3>4. other[n + 1] # path[n + 1]
            BY <2>2, <2>5
        <3> HIDE DEF n, after
        <3>5. Member(left, other[n + 1]) = Member(object, other[n + 1])
            BY <2>1, <3>4, WithoutFacts
        <3>6. Walk(after, other)[n + 1] = Walk(document, other)[n + 1]
            BY <2>1, <3>1, <3>3, <3>5
        <3>7. ValueAt(after, other) = ValueAt(document, other)
            BY <3>2, <3>6, WalksMeet
        <3> QED
            BY <3>7 DEF after
    <2> QED
        BY <2>1, <2>3, <2>4, <2>5
<1> QED
    BY <1>1, <1>2

-----------------------------------------------------------------------------
(* The order of the paths.                                                 *)

\* Before is a strict order, so that a set of paths has a first one.
LEMMA BeforeIsAnOrder ==
    ASSUME NEW a \in Seq(Nat), NEW b \in Seq(Nat), NEW c \in Seq(Nat)
    PROVE  ~Before(a, a) /\ (Before(a, b) /\ Before(b, c) => Before(a, c))
<1>0. /\ Len(a) \in Nat /\ Len(b) \in Nat /\ Len(c) \in Nat
      /\ DOMAIN a = 1..Len(a) /\ DOMAIN b = 1..Len(b) /\ DOMAIN c = 1..Len(c)
      /\ \A s \in {a, b, c} : \A n \in 1..Len(s) : s[n] \in Nat
    OBVIOUS
<1>1. ~Before(a, a)
    BY <1>0 DEF Before, NameBefore
<1>2. ASSUME Before(a, b), Before(b, c) PROVE Before(a, c)
    <2>0. Len(a) >= Len(b) /\ Len(b) >= Len(c)
        BY <1>2 DEF Before
    <2>1. CASE Len(a) > Len(b) \/ Len(b) > Len(c)
        <3>1. Len(a) > Len(c)
            BY <2>0, <2>1
        <3> QED
            BY <3>1 DEF Before
    <2>2. CASE Len(a) = Len(b) /\ Len(b) = Len(c) /\ NameBefore(a, b) /\ NameBefore(b, c)
        <3>1. PICK m \in 1..Len(a) : (\A j \in 1..(m - 1) : a[j] = b[j]) /\ a[m] < b[m]
            BY <1>0, <2>2 DEF NameBefore
        <3>2. PICK n \in 1..Len(a) : (\A j \in 1..(n - 1) : b[j] = c[j]) /\ b[n] < c[n]
            BY <1>0, <2>2 DEF NameBefore
        <3> DEFINE k == IF m <= n THEN m ELSE n
        <3>3. k \in 1..Len(a) /\ (\A j \in 1..(k - 1) : j \in 1..(m - 1) /\ j \in 1..(n - 1))
            BY <1>0
        <3>4. \A j \in 1..(k - 1) : a[j] = c[j]
            BY <3>1, <3>2, <3>3
        <3>5. a[k] < c[k]
            <4>1. a[k] \in Nat /\ b[k] \in Nat /\ c[k] \in Nat
                BY <1>0, <2>2, <3>3
            <4>2. CASE m < n
                BY <1>0, <3>1, <3>2, <4>1, <4>2
            <4>3. CASE m = n
                BY <1>0, <3>1, <3>2, <4>1, <4>3
            <4>4. CASE n < m
                BY <1>0, <3>1, <3>2, <4>1, <4>4
            <4> QED
                BY <1>0, <4>2, <4>3, <4>4
        <3> HIDE DEF k
        <3> QED
            BY <1>0, <2>2, <3>3, <3>4, <3>5 DEF Before, NameBefore
    <2> QED
        BY <1>2, <2>0, <2>1, <2>2 DEF Before
<1> QED
    BY <1>1, <1>2

\* Of some paths of a policy, one comes first: the one with the fewest before it.
LEMMA FirstPathExists ==
    ASSUME NEW p, NEW n \in Nat, DOMAIN p = 1..n, \A i \in 1..n : p[i].path \in Seq(Nat),
           NEW S \in SUBSET PathsOf(p), S # {}
    PROVE  \E path \in S : \A other \in S : ~Before(other, path)
<1> DEFINE I == {i \in 1..n : p[i].path \in S}
           Earlier(i) == {j \in I : Before(p[j].path, p[i].path)}
           Counts == {Cardinality(Earlier(i)) : i \in I}
<1>1. \A path \in S : \E i \in I : p[i].path = path
    BY DEF PathsOf
<1>2. \A T : T \subseteq I => IsFiniteSet(T) /\ Cardinality(T) \in Nat
    <2>1. IsFiniteSet(1..n) /\ I \subseteq 1..n
        BY CountOfAll
    <2> QED
        BY <2>1, FS_Subset, FS_CardinalityType
<1>3. \A i \in I : Earlier(i) \subseteq I
    OBVIOUS
<1>4. Counts \in SUBSET Nat /\ Counts # {}
    <2>1. \A i \in I : Cardinality(Earlier(i)) \in Nat
        BY <1>2, <1>3
    <2>2. I # {}
        BY <1>1
    <2> HIDE DEF I, Earlier
    <2> QED
        BY <2>1, <2>2
<1>5. PICK least \in Counts : \A count \in Counts : least <= count
    <2> HIDE DEF Counts
    <2> QED
        BY <1>4, LeastNumber
<1>6. PICK i \in I : least = Cardinality(Earlier(i))
    BY <1>5
<1>7. ASSUME NEW other \in S, Before(other, p[i].path) PROVE FALSE
    <2>1. PICK j \in I : p[j].path = other
        BY <1>1
    <2>2. j \in Earlier(i) /\ j \notin Earlier(j)
        BY <1>7, <2>1, BeforeIsAnOrder
    <2>3. Earlier(j) \subseteq Earlier(i)
        BY <1>7, <2>1, BeforeIsAnOrder
    <2>4. Cardinality(Earlier(j)) < Cardinality(Earlier(i))
        <3>1. IsFiniteSet(Earlier(i)) /\ IsFiniteSet(Earlier(j))
            BY <1>2, <1>3
        <3> HIDE DEF Earlier, I
        <3> QED
            BY <2>2, <2>3, <3>1, FS_Subset, FS_CardinalityType
    <2>5. Cardinality(Earlier(i)) <= Cardinality(Earlier(j))
        BY <1>5, <1>6
    <2>6. Cardinality(Earlier(i)) \in Nat /\ Cardinality(Earlier(j)) \in Nat
        BY <1>2, <1>3
    <2> QED
        BY <2>4, <2>5, <2>6
<1> QED
    BY <1>6, <1>7

-----------------------------------------------------------------------------
(* Lists, of whose elements nothing need be known.                         *)

IsList(s) == s = [k \in 1..Len(s) |-> s[k]] /\ Len(s) \in Nat

\* A list is a sequence of its own elements.
LEMMA ListFacts ==
    ASSUME NEW s, IsList(s)
    PROVE  DOMAIN s = 1..Len(s) /\ s \in Seq(Range(s)) /\ (s = << >> <=> Len(s) = 0)
<1>1. DOMAIN s = 1..Len(s) /\ \A k \in 1..Len(s) : s[k] \in Range(s)
    BY DEF IsList, Range
<1>2. s \in [1..Len(s) -> Range(s)]
    BY <1>1 DEF IsList
<1>3. s \in Seq(Range(s))
    BY <1>2 DEF IsList
<1> QED
    BY <1>1, <1>3

\* A sequence is a list.
LEMMA SequencesAreLists ==
    ASSUME NEW S, NEW s \in Seq(S)
    PROVE  IsList(s) /\ Range(s) \subseteq S /\ DOMAIN s = 1..Len(s)
<1>1. DOMAIN s = 1..Len(s) /\ Len(s) \in Nat /\ \A k \in 1..Len(s) : s[k] \in S
    OBVIOUS
<1>2. s = [k \in 1..Len(s) |-> s[k]]
    OBVIOUS
<1> QED
    BY <1>1, <1>2 DEF IsList, Range

\* A function on 1..n is a list.
LEMMA FunctionsAreLists ==
    ASSUME NEW n \in Nat, NEW s, s = [k \in 1..n |-> s[k]]
    PROVE  IsList(s) /\ Len(s) = n
<1>1. Len(s) = n
    OBVIOUS
<1> QED
    BY <1>1 DEF IsList

\* A list of one element.
LEMMA OneElement ==
    ASSUME NEW value
    PROVE  IsList(<<value>>) /\ Range(<<value>>) = {value}
<1>1. DOMAIN <<value>> = 1..1 /\ <<value>>[1] = value
    OBVIOUS
<1>2. IsList(<<value>>)
    BY DEF IsList
<1> QED
    BY <1>1, <1>2 DEF Range

\* One element for each of a list.
LEMMA MadeList ==
    ASSUME NEW s, IsList(s), NEW t, t = [i \in DOMAIN s |-> t[i]]
    PROVE  IsList(t) /\ DOMAIN t = DOMAIN s /\ \A i \in DOMAIN s : t[i] \in Range(t)
<1>1. DOMAIN s = 1..Len(s) /\ Len(s) \in Nat
    BY ListFacts DEF IsList
<1>2. t = [i \in 1..Len(s) |-> t[i]]
    BY <1>1
<1>3. IsList(t)
    BY <1>1, <1>2, FunctionsAreLists
<1>4. DOMAIN t = DOMAIN s
    OBVIOUS
<1> QED
    BY <1>3, <1>4 DEF Range

\* Concatenation joins the elements.
LEMMA JoinedLists ==
    ASSUME NEW s, IsList(s), NEW t, IsList(t)
    PROVE  IsList(s \o t) /\ Range(s \o t) = Range(s) \cup Range(t)
<1> DEFINE S == Range(s) \cup Range(t)
           m == Len(s)
           n == Len(t)
<1>1. s \in Seq(S) /\ t \in Seq(S) /\ m \in Nat /\ n \in Nat
    <2>1. s \in Seq(Range(s)) /\ t \in Seq(Range(t))
        BY ListFacts
    <2> HIDE DEF S
    <2>2. Range(s) \subseteq S /\ Range(t) \subseteq S
        BY DEF S
    <2> QED
        BY <2>1, <2>2
<1>2. s \o t \in Seq(S) /\ Len(s \o t) = m + n
    <2> HIDE DEF S
    <2> QED
        BY <1>1
<1>3. IsList(s \o t) /\ DOMAIN (s \o t) = 1..(m + n) /\ Range(s \o t) \subseteq S
    BY <1>2, SequencesAreLists
<1>4. DOMAIN s = 1..m /\ DOMAIN t = 1..n
    BY ListFacts
<1>5. ASSUME NEW k \in 1..m PROVE s[k] \in Range(s \o t)
    <2>1. k \in 1..(m + n) /\ (s \o t)[k] = s[k]
        BY <1>1, <1>5
    <2> QED
        BY <1>3, <2>1 DEF Range
<1>6. ASSUME NEW k \in 1..n PROVE t[k] \in Range(s \o t)
    <2>1. m + k \in 1..(m + n) /\ (s \o t)[m + k] = t[k]
        BY <1>1, <1>6
    <2> QED
        BY <1>3, <2>1 DEF Range
<1>7. S \subseteq Range(s \o t)
    <2> HIDE DEF m, n
    <2> QED
        BY <1>4, <1>5, <1>6 DEF Range
<1> QED
    BY <1>3, <1>7

\* A list is its head and its tail.
LEMMA HeadAndTail ==
    ASSUME NEW s, IsList(s), s # << >>
    PROVE  /\ IsList(Tail(s)) /\ Len(Tail(s)) = Len(s) - 1
           /\ Len(s) \in Nat \ {0}
           /\ Head(s) = s[1] /\ 1 \in DOMAIN s
           /\ Range(s) = {Head(s)} \cup Range(Tail(s))
<1> DEFINE S == Range(s)
           n == Len(s)
<1>1. s \in Seq(S) /\ n \in Nat /\ n # 0 /\ DOMAIN s = 1..n
    BY ListFacts DEF IsList
<1>2. Tail(s) \in Seq(S) /\ Len(Tail(s)) = n - 1 /\ Head(s) = s[1] /\ 1 \in 1..n
    <2> HIDE DEF S
    <2> QED
        BY <1>1
<1>3. IsList(Tail(s)) /\ DOMAIN Tail(s) = 1..(n - 1) /\ Range(Tail(s)) \subseteq S
    BY <1>2, SequencesAreLists
<1>4. ASSUME NEW k \in 1..n, k # 1 PROVE s[k] \in Range(Tail(s))
    <2>1. k - 1 \in 1..(n - 1) /\ (k - 1) + 1 = k
        BY <1>1, <1>4
    <2>2. Tail(s)[k - 1] = s[(k - 1) + 1]
        <3> HIDE DEF S
        <3> QED
            BY <1>1, <2>1
    <2> QED
        BY <1>3, <2>1, <2>2 DEF Range
<1>5. s[1] \in S
    BY <1>1, <1>2 DEF Range
<1>6. S \subseteq {s[1]} \cup Range(Tail(s))
    <2> HIDE DEF n
    <2> QED
        BY <1>1, <1>4 DEF Range
<1> QED
    BY <1>1, <1>2, <1>3, <1>5, <1>6

\* A comprehension with a condition has the elements at the positions kept.
LEMMA ListAtPositions ==
    ASSUME NEW s, IsList(s), NEW S \in SUBSET DOMAIN s
    PROVE  /\ IsList(ElementsAt(s, S)) /\ Range(ElementsAt(s, S)) = {s[i] : i \in S}
           /\ Len(ElementsAt(s, S)) = Cardinality(S)
<1> DEFINE kept == ElementsAt(s, S)
           m == Cardinality(S)
<1>1. Len(s) \in Nat /\ S \in SUBSET (1..Len(s))
    BY ListFacts DEF IsList
<1>2. /\ m \in Nat /\ DOMAIN kept = 1..m /\ Len(kept) = m /\ kept = [k \in 1..m |-> kept[k]]
      /\ \A k \in 1..m : Nth(S, k) \in S /\ kept[k] = s[Nth(S, k)]
      /\ \A i \in S : \E k \in 1..m : kept[k] = s[i]
    BY <1>1, ElementsKept
<1> HIDE DEF kept, m
<1>3. IsList(kept)
    BY <1>2, FunctionsAreLists
<1>4. Range(kept) = {s[i] : i \in S}
    BY <1>2 DEF Range
<1> QED
    BY <1>2, <1>3, <1>4 DEF kept, m

\* FlattenSeq joins one list after the other.
IsJoined(lists, m, f) ==
    f = [i \in 1..m |-> IF i = 1 THEN lists[i] ELSE f[i - 1] \o lists[i]]

\* Any number of lists can be joined.
LEMMA JoinedExists ==
    ASSUME NEW lists, NEW m \in Nat
    PROVE  \E f : IsJoined(lists, m, f)
<1> DEFINE Bad == {k \in Nat : ~ \E f : IsJoined(lists, k, f)}
<1> SUFFICES ASSUME Bad # {} PROVE FALSE
    OBVIOUS
<1>1. PICK k \in Bad : \A j \in Bad : k <= j
    BY LeastNumber
<1>2. k # 0
    <2>1. IsJoined(lists, 0, [i \in 1..0 |-> lists[i]])
        BY DEF IsJoined
    <2> QED
        BY <2>1
<1>3. k - 1 \in Nat /\ k - 1 \notin Bad
    BY <1>1, <1>2
<1>4. PICK f : IsJoined(lists, k - 1, f)
    BY <1>3
<1> DEFINE Step(i, before) == IF i = 1 THEN lists[i] ELSE before \o lists[i]
           g == [i \in 1..k |-> IF i = k THEN Step(k, f[k - 1]) ELSE f[i]]
<1>5. ASSUME NEW i \in 1..k
      PROVE  g[i] = Step(i, g[i - 1])
    <2>1. i # 1 => i - 1 \in 1..k /\ i - 1 # k
        BY <1>1
    <2>2. CASE i = k
        BY <2>1, <2>2
    <2>3. CASE i # k
        <3>1. i \in 1..(k - 1)
            BY <1>1, <2>3
        <3>2. f[i] = Step(i, f[i - 1])
            BY <1>4, <3>1 DEF IsJoined
        <3> QED
            BY <2>1, <2>3, <3>2
    <2> QED
        BY <2>2, <2>3
<1>6. IsJoined(lists, k, g)
    BY <1>5 DEF IsJoined
<1> QED
    BY <1>1, <1>6

\* Joined lists have the elements of all of them.
LEMMA FlattenedLists ==
    ASSUME NEW lists, IsList(lists), \A i \in DOMAIN lists : IsList(lists[i])
    PROVE  /\ IsList(FlattenSeq(lists))
           /\ Range(FlattenSeq(lists)) = UNION {Range(lists[i]) : i \in DOMAIN lists}
<1> DEFINE n == Len(lists)
           f == CHOOSE f : IsJoined(lists, n, f)
           UpToNow(m) == UNION {Range(lists[i]) : i \in 1..m}
           Bad == {m \in 1..n : ~(IsList(f[m]) /\ Range(f[m]) = UpToNow(m))}
<1>1. n \in Nat /\ DOMAIN lists = 1..n /\ (lists = << >> <=> n = 0)
    BY ListFacts DEF IsList
<1>2. IsJoined(lists, n, f)
    BY <1>1, JoinedExists
<1>3. FlattenSeq(lists) = IF n = 0 THEN lists ELSE f[n]
    BY DEF FlattenSeq, IsJoined
<1> HIDE DEF f
<1>4. \A m \in 1..n : f[m] = IF m = 1 THEN lists[m] ELSE f[m - 1] \o lists[m]
    BY <1>2 DEF IsJoined
<1>5. Bad = {}
    <2> SUFFICES ASSUME Bad # {} PROVE FALSE
        OBVIOUS
    <2>1. PICK m \in Bad : \A j \in Bad : m <= j
        <3>1. Bad \in SUBSET Nat
            OBVIOUS
        <3> HIDE DEF Bad
        <3> QED
            BY <3>1, LeastNumber
    <2>2. m \in 1..n /\ IsList(lists[m])
        BY <1>1, <2>1
    <2>3. CASE m = 1
        <3>1. UpToNow(m) = Range(lists[m])
            BY <2>3
        <3> QED
            BY <1>4, <2>1, <2>2, <2>3, <3>1
    <2>4. CASE m # 1
        <3>1. m - 1 \in 1..n /\ m - 1 \notin Bad
            BY <1>1, <2>1, <2>2, <2>4
        <3>2. IsList(f[m - 1]) /\ Range(f[m - 1]) = UpToNow(m - 1)
            BY <3>1
        <3>3. f[m] = f[m - 1] \o lists[m]
            BY <1>4, <2>2, <2>4
        <3>4. IsList(f[m]) /\ Range(f[m]) = UpToNow(m - 1) \cup Range(lists[m])
            BY <2>2, <3>2, <3>3, JoinedLists
        <3>5. 1..m = 1..(m - 1) \cup {m}
            BY <2>2
        <3>6. UpToNow(m) = UpToNow(m - 1) \cup Range(lists[m])
            BY <3>5, Zenon
        <3> QED
            BY <2>1, <3>4, <3>6
    <2> QED
        BY <2>3, <2>4
<1>6. CASE n = 0
    <2>1. DOMAIN lists = {}
        BY <1>1, <1>6
    <2>2. Range(lists) = {} /\ UNION {Range(lists[i]) : i \in DOMAIN lists} = {}
        BY <2>1 DEF Range
    <2> QED
        BY <1>3, <1>6, <2>2
<1>7. CASE n # 0
    <2>1. n \in 1..n
        <3> HIDE DEF n
        <3> QED
            BY <1>1, <1>7
    <2>3. n \notin Bad
        BY <1>5
    <2>2. IsList(f[n]) /\ Range(f[n]) = UpToNow(n)
        BY <2>1, <2>3
    <2> QED
        BY <1>1, <1>3, <1>7, <2>2
<1> QED
    BY <1>6, <1>7

-----------------------------------------------------------------------------
(* Candidates.                                                             *)

\* The rules of a policy, as the proofs below use them.
AreRules(rules) ==
    IsList(rules) /\ \A rule \in Range(rules) : IsRule(rule) /\ AllowsJson(rule)

\* Some rules of a policy are rules.
LEMMA SomeRules ==
    ASSUME NEW rules, AreRules(rules), NEW S \in SUBSET DOMAIN rules
    PROVE  AreRules(ElementsAt(rules, S)) /\ Range(ElementsAt(rules, S)) = {rules[i] : i \in S}
<1>1. IsList(rules) /\ \A i \in DOMAIN rules : IsRule(rules[i]) /\ AllowsJson(rules[i])
    BY DEF AreRules, Range
<1> QED
    BY <1>1, ListAtPositions DEF AreRules

\* The first position kept is one of those kept.
LEMMA FirstOfSome ==
    ASSUME NEW s, IsList(s), NEW S \in SUBSET DOMAIN s, S # {}
    PROVE  Nth(S, 1) \in S
<1>1. Len(s) \in Nat /\ S \in SUBSET (1..Len(s))
    BY ListFacts DEF IsList
<1>2. Cardinality(S) \in Nat /\ IsFiniteSet(S)
    BY <1>1, ElementsKept
<1>3. Cardinality(S) # 0
    BY <1>2, FS_EmptySet
<1>4. 1 \in 1..Cardinality(S)
    BY <1>2, <1>3
<1> QED
    BY <1>1, <1>4, NthIsThere

\* Each rule with a domain allows each finite candidate.
LEMMA FiniteCandidatesFit ==
    ASSUME NEW rules, AreRules(rules)
    PROVE  /\ IsList(FiniteCandidates(rules))
           /\ \A value \in Range(FiniteCandidates(rules)) :
                 /\ value # Absent
                 /\ \A rule \in Range(rules) : Allows(rule, value)
<1> DEFINE fixed  == {i \in DOMAIN rules : IsFixed(rules[i])}
           groups == {i \in DOMAIN rules : rules[i].kind = "one_of"}
           first  == IF fixed # {} THEN <<FixedValue(rules[Nth(fixed, 1)])>>
                     ELSE IF groups # {} THEN rules[Nth(groups, 1)].values
                     ELSE <<Null>>
           kept   == {k \in DOMAIN first : \A i \in DOMAIN rules : Allows(rules[i], first[k])}
<1>1. FiniteCandidates(rules) = ElementsAt(first, kept)
    BY DEF FiniteCandidates
<1>2. \A i \in DOMAIN rules : IsRule(rules[i]) /\ AllowsJson(rules[i])
    BY DEF AreRules, Range
<1>3. IsList(first)
    <2>1. \A value : IsList(<<value>>)
        BY OneElement
    <2>2. CASE fixed = {} /\ groups # {}
        <3>1. Nth(groups, 1) \in groups
            BY <2>2, FirstOfSome DEF AreRules
        <3>2. AllowsJson(rules[Nth(groups, 1)])
            BY <1>2, <3>1
        <3> QED
            BY <2>2, <3>2 DEF AllowsJson, IsList
    <2> QED
        BY <2>1, <2>2
<1>4. ASSUME NEW value \in Range(first), \A i \in DOMAIN rules : Allows(rules[i], value)
      PROVE  value # Absent
    <2>1. CASE \E i \in DOMAIN rules : HasDomain(rules[i])
        BY <1>2, <1>4, <2>1 DEF AllowsJson, Allows
    <2>2. CASE \A i \in DOMAIN rules : ~HasDomain(rules[i])
        <3>1. fixed = {} /\ groups = {}
            BY <2>2 DEF HasDomain, IsFixed
        <3>3. first = <<Null>>
            BY <3>1
        <3> HIDE DEF first
        <3>2. value = Null
            BY <1>4, <3>3, OneElement
        <3> QED
            BY <3>2 DEF Null, Absent
    <2> QED
        BY <2>1, <2>2
<1> HIDE DEF first, fixed, groups
<1>5. IsList(ElementsAt(first, kept)) /\ Range(ElementsAt(first, kept)) = {first[k] : k \in kept}
    <2>1. kept \in SUBSET DOMAIN first
        OBVIOUS
    <2> HIDE DEF kept
    <2> QED
        BY <1>3, <2>1, ListAtPositions
<1>6. ASSUME NEW k \in kept
      PROVE  first[k] # Absent /\ \A rule \in Range(rules) : Allows(rule, first[k])
    <2>1. first[k] \in Range(first) /\ \A i \in DOMAIN rules : Allows(rules[i], first[k])
        BY <1>6 DEF Range
    <2> QED
        BY <1>4, <2>1 DEF Range
<1> QED
    BY <1>1, <1>5, <1>6
\* Values to choose from: none of them is missing.
IsMenu(s) == IsList(s) /\ Absent \notin Range(s)

\* A menu is a list of values, none of which is absent.
LEMMA JoinedMenus ==
    ASSUME NEW s, IsMenu(s), NEW t, IsMenu(t)
    PROVE  IsMenu(s \o t)
    BY JoinedLists DEF IsMenu

\* One value is a menu.
LEMMA OneOnMenu ==
    ASSUME NEW value, value # Absent
    PROVE  IsMenu(<<value>>)
    BY OneElement DEF IsMenu

\* One value for each element of a list.
LEMMA MadeMenu ==
    ASSUME NEW s, IsList(s), NEW t, t = [i \in DOMAIN s |-> t[i]],
           \A i \in DOMAIN s : t[i] # Absent
    PROVE  IsMenu(t)
<1>1. IsList(t) /\ DOMAIN t = DOMAIN s
    BY MadeList
<1> QED
    BY <1>1 DEF IsMenu, Range

\* A bound that a rule leaves out gives no value.
LEMMA GivenBound ==
    ASSUME NEW bounds
    PROVE  IsList(Given(bounds)) /\ Range(Given(bounds)) \subseteq bounds
<1>1. CASE bounds = {}
    <2>1. IsList(<< >>) /\ Range(<< >>) = {}
        BY DEF IsList, Range
    <2> QED
        BY <1>1, <2>1 DEF Given
<1>2. CASE bounds # {}
    BY <1>2, OneElement DEF Given
<1> QED
    BY <1>1, <1>2

\* No value that the generator writes is absent.
LEMMA ValuesAreThere ==
    /\ Null # Absent /\ Boolean("false") # Absent /\ EmptyObject # Absent
    /\ \A n : Integer(n) # Absent /\ String(n) # Absent /\ Array(n) # Absent
    /\ \A n : Ceiling(n) # Absent /\ Floor(n) # Absent /\ AsWritten(n) # Absent
<1>1. Absent.type = "absent"
    BY DEF Absent
<1>2. \A n : /\ Integer(n).type = "integer" /\ String(n).type = "string" /\ Array(n).type = "array"
             /\ \A literal : Number(n, literal).type = "number"
    BY DEF Integer, String, Array, Number
<1>3. Null.type = "null" /\ Boolean("false").type = "boolean" /\ EmptyObject.type = "object"
    BY DEF Null, Boolean, EmptyObject, Object
<1>4. \A n : Ceiling(n).type = "integer" /\ Floor(n).type = "integer"
    BY <1>2 DEF Ceiling, Floor
<1>5. \A n : AsWritten(n).type \in {"integer", "number"}
    BY <1>2, Zenon DEF AsWritten
<1> QED
    BY <1>1, <1>2, <1>3, <1>4, <1>5

\* The integers around the bounds of a range are a menu.
LEMMA RangeMenuIsMenu ==
    ASSUME NEW rule
    PROVE  IsMenu(RangeMenu(rule))
<1> DEFINE low  == Given(rule.minimum)
           high == Given(rule.maximum)
           a == [i \in DOMAIN low |-> Ceiling(low[i])]
           b == [i \in DOMAIN high |-> Floor(high[i])]
           c == [i \in DOMAIN low |-> AsWritten(low[i])]
           d == [i \in DOMAIN high |-> AsWritten(high[i])]
<1>1. IsList(low) /\ IsList(high)
    BY GivenBound
<1> HIDE DEF low, high
<1>2. /\ a = [i \in DOMAIN low |-> a[i]] /\ \A i \in DOMAIN low : a[i] # Absent
      /\ b = [i \in DOMAIN high |-> b[i]] /\ \A i \in DOMAIN high : b[i] # Absent
      /\ c = [i \in DOMAIN low |-> c[i]] /\ \A i \in DOMAIN low : c[i] # Absent
      /\ d = [i \in DOMAIN high |-> d[i]] /\ \A i \in DOMAIN high : d[i] # Absent
    BY ValuesAreThere
<1>3. RangeMenu(rule) = a \o b \o c \o d
    BY DEF RangeMenu, low, high
<1> HIDE DEF a, b, c, d
<1>4. IsMenu(a) /\ IsMenu(b) /\ IsMenu(c) /\ IsMenu(d)
    BY <1>1, <1>2, MadeMenu
<1> QED
    BY <1>3, <1>4, JoinedMenus

\* So are the values that filters without a domain choose from.
LEMMA FilterMenuIsMenu ==
    ASSUME NEW filters, IsList(filters)
    PROVE  IsMenu(FilterMenu(filters))
<1> DEFINE at      == {i \in DOMAIN filters : filters[i].kind = "range"}
           ranges  == ElementsAt(filters, at)
           least   == {i \in DOMAIN filters :
                        filters[i].kind = "length" /\ \E n \in filters[i].minimum : n > 0}
           minimal == ElementsAt(filters, least)
           lengths == [i \in DOMAIN minimal |-> CHOOSE n \in minimal[i].minimum : TRUE]
           short   == {i \in DOMAIN lengths : lengths[i] < MAX_JSON_NODES}
           arrays  == ElementsAt(lengths, short)
           menus   == [i \in DOMAIN ranges |-> RangeMenu(ranges[i])]
           a == <<Null, Boolean("false"), Integer(0)>>
           b == [i \in DOMAIN lengths |-> String(lengths[i])]
           c == [i \in DOMAIN arrays |-> Array([k \in 1..arrays[i] |-> Null])]
<1>1. IsList(ranges) /\ IsList(minimal)
    <2>1. at \in SUBSET DOMAIN filters /\ least \in SUBSET DOMAIN filters
        OBVIOUS
    <2> HIDE DEF at, least
    <2> QED
        BY <2>1, ListAtPositions
<1>2. IsList(lengths)
    <2> HIDE DEF minimal
    <2>1. lengths = [i \in 1..Len(minimal) |-> lengths[i]] /\ Len(minimal) \in Nat
        BY <1>1, ListFacts DEF IsList
    <2> HIDE DEF lengths
    <2> QED
        BY <2>1, FunctionsAreLists
<1>3. IsList(arrays)
    <2> HIDE DEF lengths
    <2>1. short \in SUBSET DOMAIN lengths
        OBVIOUS
    <2> HIDE DEF short
    <2> QED
        BY <1>2, <2>1, ListAtPositions
<1> HIDE DEF ranges, lengths, arrays
<1>4. IsMenu(FlattenSeq(menus))
    <2>1. /\ menus = [i \in 1..Len(ranges) |-> menus[i]] /\ Len(ranges) \in Nat
          /\ DOMAIN menus = 1..Len(ranges)
          /\ \A i \in DOMAIN menus : menus[i] = RangeMenu(ranges[i])
        BY <1>1, ListFacts DEF IsList
    <2> HIDE DEF menus
    <2>2. IsList(menus)
        BY <2>1, FunctionsAreLists
    <2>3. \A i \in DOMAIN menus : IsList(menus[i]) /\ Absent \notin Range(menus[i])
        BY <2>1, RangeMenuIsMenu DEF IsMenu
    <2>4. /\ IsList(FlattenSeq(menus))
          /\ Range(FlattenSeq(menus)) = UNION {Range(menus[i]) : i \in DOMAIN menus}
        BY <2>2, <2>3, FlattenedLists
    <2> QED
        BY <2>3, <2>4 DEF IsMenu
<1>5. IsMenu(a)
    <2>1. a = <<Null>> \o (<<Boolean("false")>> \o <<Integer(0)>>)
        OBVIOUS
    <2> HIDE DEF a
    <2>2. IsMenu(<<Null>>) /\ IsMenu(<<Boolean("false")>>) /\ IsMenu(<<Integer(0)>>)
        BY OneOnMenu, ValuesAreThere
    <2> QED
        BY <2>1, <2>2, JoinedMenus
<1>6. IsMenu(b) /\ IsMenu(c)
    <2>1. /\ b = [i \in DOMAIN lengths |-> b[i]] /\ \A i \in DOMAIN lengths : b[i] # Absent
          /\ c = [i \in DOMAIN arrays |-> c[i]] /\ \A i \in DOMAIN arrays : c[i] # Absent
        BY ValuesAreThere
    <2> HIDE DEF b, c
    <2> QED
        BY <1>2, <1>3, <2>1, MadeMenu
<1>7. IsMenu(<<String(0)>>) /\ IsMenu(<<Array(<< >>)>>) /\ IsMenu(<<EmptyObject>>)
    BY OneOnMenu, ValuesAreThere
<1>8. FilterMenu(filters) = a \o FlattenSeq(menus) \o <<String(0)>> \o b \o <<Array(<< >>)>>
                              \o c \o <<EmptyObject>>
    BY DEF FilterMenu, ranges, lengths, arrays
<1> HIDE DEF a, b, c, menus
<1> QED
    BY <1>4, <1>5, <1>6, <1>7, <1>8, JoinedMenus

\* A candidate is a value that all rules of the path accept.
LEMMA CandidatesFit ==
    ASSUME NEW rules, AreRules(rules)
    PROVE  /\ IsMenu(CandidateValues(rules))
           /\ \A value \in Range(CandidateValues(rules)), rule \in Range(rules) :
                 Satisfies(rule, value)
<1> DEFINE narrow  == {i \in DOMAIN rules : IsFilter(rules[i])}
           others  == {i \in DOMAIN rules : ~IsFilter(rules[i])}
           filters == ElementsAt(rules, narrow)
           finite  == ElementsAt(rules, others)
           open    == filters # << >> /\ \A i \in DOMAIN finite : finite[i].kind = "required_field"
           source  == IF open THEN FilterMenu(filters) ELSE FiniteCandidates(finite)
           kept    == {k \in DOMAIN source :
                        \A i \in DOMAIN filters :
                            Passes(filters[i], CandidateView(filters[i].path, source[k]))}
<1>1. /\ AreRules(filters) /\ Range(filters) = {rules[i] : i \in narrow}
      /\ AreRules(finite) /\ Range(finite) = {rules[i] : i \in others}
    <2>1. narrow \in SUBSET DOMAIN rules /\ others \in SUBSET DOMAIN rules
        OBVIOUS
    <2> HIDE DEF narrow, others
    <2> QED
        BY <2>1, SomeRules
<1>2. CandidateValues(rules) = ElementsAt(source, kept)
    BY DEF CandidateValues
<1>3. Range(rules) \subseteq Range(filters) \cup Range(finite)
    BY <1>1 DEF Range
<1>4. /\ \A rule \in Range(filters) : IsFilter(rule) /\ rule.kind \in Kinds /\ rule.path \in Seq(Nat)
      /\ \A rule \in Range(finite) : ~IsFilter(rule) /\ rule.kind \in Kinds
    BY <1>1 DEF AreRules, IsRule
<1> HIDE DEF filters, finite
<1>5. IsMenu(source)
    <2>1. IsMenu(FilterMenu(filters))
        BY <1>1, FilterMenuIsMenu DEF AreRules
    <2>2. IsMenu(FiniteCandidates(finite))
        BY <1>1, FiniteCandidatesFit DEF IsMenu
    <2> QED
        BY <2>1, <2>2
<1>6. ASSUME NEW value \in Range(source), NEW rule \in Range(finite)
      PROVE  Satisfies(rule, value)
    <2>1. CASE rule.kind = "required_field"
        BY <2>1 DEF Satisfies
    <2>2. CASE rule.kind # "required_field"
        <3>1. HasDomain(rule)
            BY <1>4, <2>2 DEF HasDomain, IsFilter, Kinds
        <3>2. ~open
            BY <2>2 DEF Range
        <3>3. Allows(rule, value)
            BY <1>1, <3>2, FiniteCandidatesFit
        <3> QED
            BY <3>1, <3>3, DomainIsExact DEF Allows
    <2> QED
        BY <2>1, <2>2
<1> HIDE DEF source
<1>7. IsList(ElementsAt(source, kept)) /\ Range(ElementsAt(source, kept)) = {source[k] : k \in kept}
    <2>1. kept \in SUBSET DOMAIN source
        OBVIOUS
    <2> HIDE DEF kept
    <2> QED
        BY <1>5, <2>1, ListAtPositions DEF IsMenu
<1>8. ASSUME NEW k \in kept
      PROVE  source[k] \in Range(source) /\ source[k] # Absent
    BY <1>5 DEF IsMenu, Range
<1>9. ASSUME NEW k \in kept, NEW rule \in Range(filters)
      PROVE  Satisfies(rule, source[k])
    <2>1. Passes(rule, CandidateView(rule.path, source[k]))
        BY DEF Range
    <2>2. ValueAt(CandidateView(rule.path, source[k]), rule.path) = source[k]
        BY <1>4, AssignedIsThere DEF CandidateView
    <2> QED
        BY <1>4, <2>1, <2>2, PassingRule
<1>10. ASSUME NEW k \in kept, NEW rule \in Range(rules)
       PROVE  Satisfies(rule, source[k])
    BY <1>3, <1>6, <1>8, <1>9
<1> HIDE DEF kept
<1> QED
    BY <1>2, <1>7, <1>8, <1>10 DEF IsMenu

-----------------------------------------------------------------------------
(* The inductive invariant of the search.                                  *)

Done == PathsOf(policy) \ ordered_paths

\* The rules of the paths done, and no others, are constructed.
ConstructedAreDone ==
    /\ IsList(constructed_rules)
    /\ Range(constructed_rules) = {policy[i] : i \in {j \in DOMAIN policy : policy[j].path \in Done}}

\* No path done is shorter than one that is left.
DeepestFirst == \A done \in Done, left \in ordered_paths : Len(left) <= Len(done)

\* Away from the paths done, the response consists of objects only.
Skeleton ==
    \A path \in Seq(Nat) :
        ValueAt(passing_response, path).type \notin {"absent", "object"} =>
            \E done \in Done : path = done \/ IsBelow(path, done)

\* While a path is in progress: all candidates fit its rules, and each rule
\* below it that is no longer to check passes with the first of them.
Comparison ==
    pc = "compare" =>
        /\ ordered_paths # {}
        /\ IsMenu(candidates) /\ candidates # << >>
        /\ \A value \in Range(candidates), rule \in Range(PathRules) : Satisfies(rule, value)
        /\ IsList(to_check)
        /\ \A rule \in Range(DescendantRules) :
              rule \in Range(to_check) \/ Passes(rule, CandidateView(Path, Candidate))

Outcome ==
    /\ pc \in {"construct", "compare", "done", "failed"}
    /\ pc # "failed" => error = "none"
    /\ error \notin Defensive
    /\ pc = "done" =>
          AllPass(policy, passing_response) /\ failing_response = FirstFieldDeleted

\* Each part needs others: no path is blocked because the shape of the response
\* follows from the paths done and these are no shorter than the next one; what
\* is below it keeps passing because it was compared with the candidate.
SearchInv ==
    /\ policy \in Policies
    /\ ordered_paths \subseteq PathsOf(policy)
    /\ ConstructedAreDone
    /\ DeepestFirst
    /\ Skeleton
    /\ ConstructedRulesHold
    /\ Comparison
    /\ Outcome

\* What the assumption about policies says of one of them.
LEMMA PolicyFacts ==
    ASSUME NEW p \in Policies
    PROVE  /\ AreRules(p) /\ Len(p) \in Nat \ {0} /\ DOMAIN p = 1..Len(p)
           /\ \A i \in DOMAIN p : p[i].path \in Seq(Nat) /\ p[i].path # << >> /\ p[i].kind \in Kinds
           /\ \A path \in PathsOf(p) : path \in Seq(Nat) /\ path # << >>
<1>1. /\ p = [i \in 1..Len(p) |-> p[i]] /\ Len(p) \in Nat \ {0}
      /\ \A i \in DOMAIN p : IsRule(p[i]) /\ AllowsJson(p[i])
    BY PoliciesAssumption
<1>2. AreRules(p)
    BY <1>1 DEF AreRules, IsList, Range
<1>3. DOMAIN p = 1..Len(p)
    BY <1>2, ListFacts DEF AreRules
<1>4. \A i \in DOMAIN p : p[i].path \in Seq(Nat) /\ p[i].path # << >> /\ p[i].kind \in Kinds
    BY <1>1 DEF IsRule
<1> QED
    BY <1>1, <1>2, <1>3, <1>4 DEF PathsOf

\* The path in progress is one of those left, and none of them is longer.
LEMMA PathFacts ==
    ASSUME policy \in Policies, ordered_paths \subseteq PathsOf(policy), ordered_paths # {}
    PROVE  /\ Path \in ordered_paths /\ Path \in Seq(Nat) /\ Path # << >>
           /\ \A left \in ordered_paths : Len(left) <= Len(Path)
<1>1. /\ Len(policy) \in Nat /\ DOMAIN policy = 1..Len(policy)
      /\ \A i \in 1..Len(policy) : policy[i].path \in Seq(Nat)
      /\ \A path \in PathsOf(policy) : path \in Seq(Nat) /\ path # << >>
    BY PolicyFacts
<1>2. \E path \in ordered_paths : \A other \in ordered_paths : ~Before(other, path)
    <2> DEFINE n == Len(policy)
    <2>1. n \in Nat /\ DOMAIN policy = 1..n /\ \A i \in 1..n : policy[i].path \in Seq(Nat)
        BY <1>1
    <2> HIDE DEF n
    <2> QED
        BY <2>1, FirstPathExists
<1>3. Path \in ordered_paths /\ \A other \in ordered_paths : ~Before(other, Path)
    BY <1>2 DEF Path
<1>4. ASSUME NEW left \in ordered_paths PROVE Len(left) <= Len(Path)
    <2>1. Len(left) \in Nat /\ Len(Path) \in Nat
        BY <1>1, <1>3
    <2>2. ~(Len(left) > Len(Path))
        BY <1>3 DEF Before
    <2> QED
        BY <2>1, <2>2
<1> QED
    BY <1>1, <1>3, <1>4

\* AllPass of a list is about the rules in it.
LEMMA AllInRange ==
    ASSUME NEW rules, NEW response
    PROVE  AllPass(rules, response) <=> \A rule \in Range(rules) : Passes(rule, response)
    BY DEF AllPass, Range

\* The rules of the path in progress are those of the policy at it.
LEMMA PathRulesFacts ==
    ASSUME policy \in Policies
    PROVE  /\ AreRules(PathRules)
           /\ Range(PathRules) = {policy[i] : i \in {j \in DOMAIN policy : policy[j].path = Path}}
<1>1. At(policy, Path) \in SUBSET DOMAIN policy /\ AreRules(policy)
    BY PolicyFacts DEF At
<1>2. PathRules = ElementsAt(policy, At(policy, Path))
    BY DEF PathRules, RulesAt
<1>3. At(policy, Path) = {j \in DOMAIN policy : policy[j].path = Path}
    BY DEF At
<1> QED
    BY <1>1, <1>2, <1>3, SomeRules

\* Its descendants are the constructed rules below it.
LEMMA DescendantFacts ==
    ASSUME IsList(constructed_rules)
    PROVE  /\ IsList(DescendantRules)
           /\ \A rule : rule \in Range(DescendantRules) <=>
                  rule \in Range(constructed_rules) /\ IsBelow(rule.path, Path)
<1> DEFINE below == {i \in DOMAIN constructed_rules : IsBelow(constructed_rules[i].path, Path)}
<1>1. below \in SUBSET DOMAIN constructed_rules
    OBVIOUS
<1>2. DescendantRules = ElementsAt(constructed_rules, below)
    BY DEF DescendantRules
<1>3. IsList(DescendantRules) /\ Range(DescendantRules) = {constructed_rules[i] : i \in below}
    <2> HIDE DEF below
    <2> QED
        BY <1>1, <1>2, ListAtPositions
<1> QED
    BY <1>3 DEF Range

\* Nothing is done at first.
LEMMA SearchInit ==
    ASSUME Init
    PROVE  SearchInv
<1>1. Done = {}
    BY DEF Init, Done
<1>2. IsList(<< >>) /\ Range(<< >>) = {} /\ \A response : AllPass(<< >>, response)
    BY DEF IsList, Range, AllPass
<1>3. ConstructedAreDone
    BY <1>1, <1>2 DEF Init, ConstructedAreDone
<1>4. Skeleton
    <2> SUFFICES ASSUME NEW path \in Seq(Nat)
                 PROVE  ValueAt(EmptyObject, path).type \in {"absent", "object"}
        BY DEF Skeleton, Init
    <2>1. CASE path = << >>
        <3>1. Len(path) = 0
            BY <2>1
        <3>2. ValueAt(EmptyObject, path) = EmptyObject
            BY <3>1, ValueAtIsWalk, WalkSteps
        <3> QED
            BY <3>2 DEF EmptyObject, Object
    <2>2. CASE path # << >>
        <3>1. ValueAt(EmptyObject, path) = Absent
            BY <2>2, NothingInEmptyObject
        <3> QED
            BY <3>1 DEF Absent
    <2> QED
        BY <2>1, <2>2
<1>5. ConstructedRulesHold
    BY <1>2 DEF Init, ConstructedRulesHold
<1> QED
    BY <1>1, <1>3, <1>4, <1>5 DEF Init, SearchInv, DeepestFirst, Comparison, Outcome, Defensive

\* A path becomes done, and its rules constructed.
LEMMA PathDone ==
    ASSUME SearchInv, ordered_paths # {}, UNCHANGED policy,
           constructed_rules' = constructed_rules \o PathRules,
           ordered_paths' = ordered_paths \ {Path}
    PROVE  /\ Done' = Done \cup {Path}
           /\ ordered_paths' \subseteq PathsOf(policy)'
           /\ ConstructedAreDone' /\ DeepestFirst'
           /\ Range(constructed_rules') = Range(constructed_rules) \cup Range(PathRules)
<1>0. policy \in Policies /\ ordered_paths \subseteq PathsOf(policy)
    BY DEF SearchInv
<1>1. Path \in ordered_paths /\ \A left \in ordered_paths : Len(left) <= Len(Path)
    BY <1>0, PathFacts
<1>2. PathsOf(policy)' = PathsOf(policy)
    BY DEF PathsOf
<1>3. Done' = Done \cup {Path}
    BY <1>0, <1>1, <1>2 DEF Done
<1>4. /\ IsList(constructed_rules')
      /\ Range(constructed_rules') = Range(constructed_rules) \cup Range(PathRules)
    BY <1>0, PathRulesFacts, JoinedLists DEF SearchInv, ConstructedAreDone, AreRules
<1>5. Range(constructed_rules') =
          {policy[i] : i \in {j \in DOMAIN policy : policy[j].path \in Done \cup {Path}}}
    <2> DEFINE old == {j \in DOMAIN policy : policy[j].path \in Done}
               new == {j \in DOMAIN policy : policy[j].path = Path}
               all == {j \in DOMAIN policy : policy[j].path \in Done \cup {Path}}
    <2>1. all = old \cup new
        OBVIOUS
    <2>2. Range(constructed_rules) = {policy[i] : i \in old}
        BY DEF SearchInv, ConstructedAreDone
    <2>3. Range(PathRules) = {policy[i] : i \in new}
        BY <1>0, PathRulesFacts
    <2> HIDE DEF old, new, all
    <2>4. {policy[i] : i \in all} = {policy[i] : i \in old} \cup {policy[i] : i \in new}
        BY <2>1
    <2>5. Range(constructed_rules') = {policy[i] : i \in all}
        BY <1>4, <2>2, <2>3, <2>4, Zenon
    <2> QED
        BY <2>5 DEF all
<1>6. ConstructedAreDone'
    BY <1>3, <1>4, <1>5 DEF ConstructedAreDone
<1>7. DeepestFirst'
    BY <1>1, <1>3 DEF SearchInv, DeepestFirst
<1> QED
    BY <1>0, <1>2, <1>3, <1>4, <1>6, <1>7

\* A path whose rules already pass is done without an assignment.
LEMMA SkipKeeps ==
    ASSUME SearchInv, SkipPath
    PROVE  SearchInv'
<1>1. /\ Done' = Done \cup {Path} /\ ordered_paths' \subseteq PathsOf(policy)'
      /\ ConstructedAreDone' /\ DeepestFirst'
      /\ Range(constructed_rules') = Range(constructed_rules) \cup Range(PathRules)
    BY PathDone DEF SkipPath
<1>2. Skeleton'
    BY <1>1 DEF Skeleton, SearchInv, SkipPath
<1>3. ConstructedRulesHold'
    <2>1. \A rule \in Range(constructed_rules) : Passes(rule, passing_response)
        BY AllInRange DEF SearchInv, ConstructedRulesHold
    <2>2. \A rule \in Range(PathRules) : Passes(rule, passing_response)
        BY AllInRange DEF SkipPath, AlreadySatisfied
    <2>3. AllPass(constructed_rules', passing_response)
        BY <1>1, <2>1, <2>2, AllInRange
    <2> QED
        BY <2>3 DEF ConstructedRulesHold, SkipPath
<1>4. pc = "construct" /\ pc' = "construct" /\ error' = error /\ policy' = policy
    BY DEF SkipPath
<1>5. Comparison' /\ Outcome'
    BY <1>4 DEF Comparison, Outcome, SearchInv
<1> QED
    BY <1>1, <1>2, <1>3, <1>4, <1>5 DEF SearchInv

\* What is constructed does not change while a path is in progress.
LEMMA NothingDone ==
    ASSUME SearchInv,
           UNCHANGED <<policy, ordered_paths, passing_response, constructed_rules>>
    PROVE  /\ policy' \in Policies /\ ordered_paths' \subseteq PathsOf(policy)'
           /\ ConstructedAreDone' /\ DeepestFirst' /\ Skeleton' /\ ConstructedRulesHold'
           /\ Path' = Path /\ PathRules' = PathRules /\ DescendantRules' = DescendantRules
<1>1. Done' = Done /\ PathsOf(policy)' = PathsOf(policy)
    BY DEF Done, PathsOf
<1>2. Path' = Path
    BY DEF Path
<1>3. PathRules' = PathRules
    BY <1>2 DEF PathRules
<1>4. DescendantRules' = DescendantRules
    BY <1>2 DEF DescendantRules
<1>5. ConstructedAreDone'
    BY <1>1 DEF SearchInv, ConstructedAreDone
<1>6. DeepestFirst' /\ Skeleton'
    BY <1>1 DEF SearchInv, DeepestFirst, Skeleton
<1>7. ConstructedRulesHold'
    BY DEF SearchInv, ConstructedRulesHold
<1> QED
    BY <1>1, <1>2, <1>3, <1>4, <1>5, <1>6, <1>7 DEF SearchInv

\* All candidates of a path fit its rules; nothing is compared yet.
LEMMA BeginKeeps ==
    ASSUME SearchInv, BeginPath
    PROVE  SearchInv'
<1>1. UNCHANGED <<policy, ordered_paths, passing_response, constructed_rules>>
    BY DEF BeginPath
<1>2. /\ policy' \in Policies /\ ordered_paths' \subseteq PathsOf(policy)'
      /\ ConstructedAreDone' /\ DeepestFirst' /\ Skeleton' /\ ConstructedRulesHold'
      /\ Path' = Path /\ PathRules' = PathRules /\ DescendantRules' = DescendantRules
    BY <1>1, NothingDone
<1>3. /\ IsMenu(candidates')
      /\ \A value \in Range(candidates'), rule \in Range(PathRules) : Satisfies(rule, value)
    BY PathRulesFacts, CandidatesFit DEF SearchInv, BeginPath
<1>4. IsList(to_check') /\ to_check' = DescendantRules
    BY DescendantFacts DEF SearchInv, ConstructedAreDone, BeginPath
<1>5. /\ \/ pc' = "compare" /\ error' = error /\ candidates' # << >>
         \/ pc' = "failed" /\ error' = "conflict"
      /\ pc = "construct" /\ ordered_paths' # {}
    BY DEF BeginPath, Raise
<1>6. Comparison'
    BY <1>2, <1>3, <1>4, <1>5 DEF Comparison
<1>7. Outcome'
    BY <1>5 DEF Outcome, SearchInv, Defensive
<1> QED
    BY <1>2, <1>6, <1>7 DEF SearchInv

\* Running out of work is no defensive error.
LEMMA TooMuchWorkKeeps ==
    ASSUME SearchInv, TooMuchWork
    PROVE  SearchInv'
<1>1. UNCHANGED <<policy, ordered_paths, passing_response, constructed_rules>>
    BY DEF TooMuchWork
<1>2. pc' = "failed" /\ error' = "too_much_work"
    BY DEF TooMuchWork, Raise
<1>3. Comparison' /\ Outcome'
    BY <1>2 DEF Comparison, Outcome, Defensive
<1> QED
    BY <1>1, <1>3, NothingDone DEF SearchInv

\* The rule compared with the candidate passes, if there is one.
LEMMA HeadPasses ==
    ASSUME SearchInv, pc = "compare", Compatible, NEW rule \in Range(to_check)
    PROVE  rule \in Range(Tail(to_check)) \/ Passes(rule, CandidateView(Path, Candidate))
<1>1. IsList(to_check) /\ to_check # << >>
    <2>1. IsList(to_check)
        BY DEF SearchInv, Comparison
    <2>2. Range(<< >>) = {}
        BY DEF Range
    <2> QED
        BY <2>1, <2>2
<1>2. Passes(Head(to_check), CandidateView(Path, Candidate))
    BY <1>1 DEF Compatible
<1> QED
    BY <1>1, <1>2, HeadAndTail

\* A descendant that passes is checked off for this candidate.
LEMMA NextRuleKeeps ==
    ASSUME SearchInv, NextRule
    PROVE  SearchInv'
<1>1. UNCHANGED <<policy, ordered_paths, passing_response, constructed_rules>>
    BY DEF NextRule
<1>2. /\ policy' \in Policies /\ ordered_paths' \subseteq PathsOf(policy)'
      /\ ConstructedAreDone' /\ DeepestFirst' /\ Skeleton' /\ ConstructedRulesHold'
      /\ Path' = Path /\ PathRules' = PathRules /\ DescendantRules' = DescendantRules
    BY <1>1, NothingDone
<1>3. /\ pc = "compare" /\ pc' = pc /\ error' = error /\ Compatible
      /\ to_check' = Tail(to_check) /\ candidates' = candidates /\ Len(to_check) > 1
    BY DEF NextRule
<1>4. Candidate' = Candidate
    BY <1>3 DEF Candidate
<1>5. IsList(to_check')
    <2>1. IsList(to_check) /\ to_check # << >>
        <3>1. IsList(to_check)
            BY <1>3 DEF SearchInv, Comparison
        <3>2. Len(to_check) # 0
            BY <1>3, <3>1 DEF IsList
        <3> QED
            BY <3>1, <3>2, ListFacts
    <2> QED
        BY <1>3, <2>1, HeadAndTail
<1>6. \A rule \in Range(DescendantRules) :
          rule \in Range(to_check') \/ Passes(rule, CandidateView(Path, Candidate))
    BY <1>3, HeadPasses DEF SearchInv, Comparison
<1>7. Comparison'
    <2>1. /\ ordered_paths' # {} /\ IsMenu(candidates') /\ candidates' # << >>
          /\ \A value \in Range(candidates'), rule \in Range(PathRules) : Satisfies(rule, value)
        BY <1>1, <1>3 DEF SearchInv, Comparison
    <2> QED
        BY <1>2, <1>4, <1>5, <1>6, <2>1 DEF Comparison
<1>8. Outcome'
    BY <1>3 DEF Outcome, SearchInv
<1> QED
    BY <1>2, <1>7, <1>8 DEF SearchInv

\* The next candidate starts over with all descendants.
LEMMA RejectKeeps ==
    ASSUME SearchInv, RejectCandidate
    PROVE  SearchInv'
<1>1. UNCHANGED <<policy, ordered_paths, passing_response, constructed_rules>>
    BY DEF RejectCandidate
<1>2. /\ policy' \in Policies /\ ordered_paths' \subseteq PathsOf(policy)'
      /\ ConstructedAreDone' /\ DeepestFirst' /\ Skeleton' /\ ConstructedRulesHold'
      /\ Path' = Path /\ PathRules' = PathRules /\ DescendantRules' = DescendantRules
    BY <1>1, NothingDone
<1>3. /\ pc = "compare" /\ to_check' = DescendantRules /\ candidates' = Tail(candidates)
      /\ \/ pc' = "compare" /\ error' = error /\ candidates' # << >>
         \/ pc' = "failed" /\ error' = "no_candidate"
    BY DEF RejectCandidate, Raise
<1>4. /\ ordered_paths # {} /\ IsMenu(candidates) /\ candidates # << >>
      /\ \A value \in Range(candidates), rule \in Range(PathRules) : Satisfies(rule, value)
    BY <1>3 DEF SearchInv, Comparison
<1>5. IsMenu(candidates') /\ Range(candidates') \subseteq Range(candidates)
    BY <1>3, <1>4, HeadAndTail DEF IsMenu
<1>6. IsList(to_check')
    BY <1>3, DescendantFacts DEF SearchInv, ConstructedAreDone
<1>7. Comparison'
    BY <1>1, <1>2, <1>3, <1>4, <1>5, <1>6 DEF Comparison
<1>8. Outcome'
    BY <1>3 DEF Outcome, SearchInv, Defensive
<1> QED
    BY <1>2, <1>7, <1>8 DEF SearchInv

\* No value on the way to the path in progress can block it.
LEMMA PathIsFree ==
    ASSUME SearchInv, ordered_paths # {}
    PROVE  ~AssignRaises(passing_response, Path)
<1> SUFFICES ASSUME NEW n \in 1..(Len(Path) - 1),
                    ValueAt(passing_response, Prefix(Path, n)).type
                        \notin {"absent", "null", "object"}
             PROVE  FALSE
    BY DEF AssignRaises
<1>1. Path \in ordered_paths /\ Path \in Seq(Nat)
    BY PathFacts DEF SearchInv
<1> DEFINE start == Prefix(Path, n)
<1>2. start \in Seq(Nat) /\ Len(start) = n /\ n < Len(Path) /\ n \in Nat /\ Len(Path) \in Nat
    <2>1. Len(Path) \in Nat
        BY <1>1
    <2>2. n \in 0..Len(Path) /\ n < Len(Path) /\ n \in Nat
        BY <2>1
    <2> QED
        BY <1>1, <2>1, <2>2, PrefixWalk
<1>3. PICK done \in Done : start = done \/ IsBelow(start, done)
    BY <1>2 DEF SearchInv, Skeleton
<1>4. done \in Seq(Nat)
    BY PolicyFacts DEF Done, SearchInv
<1>5. Len(done) <= n
    <2>1. Len(done) \in Nat
        BY <1>4
    <2> HIDE DEF start
    <2> QED
        BY <1>2, <1>3, <2>1 DEF IsBelow
<1>6. Len(Path) <= Len(done)
    BY <1>1, <1>3 DEF SearchInv, DeepestFirst
<1>7. Len(done) \in Nat
    BY <1>4
<1> QED
    BY <1>2, <1>5, <1>6, <1>7

\* Whether a rule passes is decided by the value at its path.
LEMMA SameVerdict ==
    ASSUME NEW rule, NEW one, NEW two, ValueAt(one, rule.path) = ValueAt(two, rule.path)
    PROVE  Passes(rule, one) <=> Passes(rule, two)
    BY DEF Passes, ReasonCode

\* An accepted candidate passes the rules of its path, and the rules of the
\* paths done pass as before.
LEMMA AcceptedPasses ==
    ASSUME SearchInv, pc = "compare", Compatible, Len(to_check) <= 1
    PROVE  /\ \A rule \in Range(PathRules) : Passes(rule, Assigned(Candidate))
           /\ \A rule \in Range(constructed_rules) : Passes(rule, Assigned(Candidate))
<1>1. /\ ordered_paths # {} /\ policy \in Policies
      /\ Path \in ordered_paths /\ Path \in Seq(Nat)
      /\ \A left \in ordered_paths : Len(left) <= Len(Path)
    BY PathFacts DEF SearchInv, Comparison
<1>2. Candidate # Absent /\ \A rule \in Range(PathRules) : Satisfies(rule, Candidate)
    <2>1. /\ IsMenu(candidates) /\ candidates # << >>
          /\ \A value \in Range(candidates), rule \in Range(PathRules) : Satisfies(rule, value)
        BY DEF SearchInv, Comparison
    <2>2. Candidate \in Range(candidates)
        BY <2>1, HeadAndTail DEF IsMenu, Candidate
    <2> QED
        BY <2>1, <2>2 DEF IsMenu
<1>3. \A rule \in Range(DescendantRules) : Passes(rule, CandidateView(Path, Candidate))
    <2>1. IsList(to_check)
        BY DEF SearchInv, Comparison
    <2>2. Range(Tail(to_check)) = {} \/ to_check = << >>
        <3> SUFFICES ASSUME to_check # << >> PROVE Range(Tail(to_check)) = {}
            OBVIOUS
        <3>1. IsList(Tail(to_check)) /\ Len(Tail(to_check)) = Len(to_check) - 1 /\ Len(to_check) \in Nat \ {0}
            BY <2>1, HeadAndTail
        <3>2. Len(Tail(to_check)) = 0
            BY <3>1
        <3>3. Tail(to_check) = << >>
            BY <3>1, <3>2, ListFacts
        <3> QED
            BY <3>3 DEF Range
    <2>3. \A rule \in Range(to_check) : Passes(rule, CandidateView(Path, Candidate))
        <3>1. Range(<< >>) = {}
            BY DEF Range
        <3> QED
            BY <2>2, <3>1, HeadPasses
    <2> QED
        BY <2>3 DEF SearchInv, Comparison
<1>4. ASSUME NEW rule \in Range(PathRules) PROVE Passes(rule, Assigned(Candidate))
    <2>1. rule.path = Path /\ rule.kind \in Kinds
        BY <1>1, PathRulesFacts, PolicyFacts
    <2>2. ValueAt(Assigned(Candidate), Path) = Candidate
        BY <1>1, AssignedIsThere DEF Assigned
    <2> QED
        BY <1>2, <2>1, <2>2, PassingRule
<1>5. ASSUME NEW rule \in Range(constructed_rules) PROVE Passes(rule, Assigned(Candidate))
    <2>1. rule.path \in Done /\ rule.path \in Seq(Nat)
        <3>1. PICK j \in DOMAIN policy : policy[j] = rule /\ policy[j].path \in Done
            BY DEF SearchInv, ConstructedAreDone
        <3> QED
            BY <1>1, <3>1, PolicyFacts
    <2>2. Len(Path) <= Len(rule.path) /\ rule.path # Path
        BY <1>1, <2>1 DEF SearchInv, DeepestFirst, Done
    <2>3. Len(Path) \in Nat /\ Len(rule.path) \in Nat
        BY <1>1, <2>1
    <2>4. CASE IsBelow(rule.path, Path)
        <3>1. rule \in Range(DescendantRules)
            BY <2>4, DescendantFacts DEF SearchInv, ConstructedAreDone
        <3>2. ValueAt(CandidateView(Path, Candidate), rule.path)
                  = ValueAt(Assigned(Candidate), rule.path)
            BY <1>1, <2>1, <2>4, BelowAssigned DEF CandidateView, Assigned
        <3> QED
            BY <1>3, <3>1, <3>2, SameVerdict
    <2>5. CASE ~IsBelow(rule.path, Path)
        <3>1. ~Related(Path, rule.path)
            BY <2>2, <2>3, <2>5 DEF Related, IsBelow
        <3>2. ValueAt(Assigned(Candidate), rule.path) = ValueAt(passing_response, rule.path)
            BY <1>1, <2>1, <3>1, UnrelatedIsKept DEF Assigned
        <3>3. Passes(rule, passing_response)
            BY AllInRange DEF SearchInv, ConstructedRulesHold
        <3> QED
            BY <3>2, <3>3, SameVerdict
    <2> QED
        BY <2>4, <2>5
<1> QED
    BY <1>4, <1>5

\* A candidate is assigned: nothing built before fails because of it.
LEMMA AcceptKeeps ==
    ASSUME SearchInv, AcceptCandidate
    PROVE  SearchInv'
<1>1. /\ pc = "compare" /\ Compatible /\ Len(to_check) <= 1 /\ ordered_paths # {}
      /\ policy \in Policies /\ Path \in Seq(Nat)
    BY PathFacts DEF AcceptCandidate, SearchInv, Comparison
<1>2. /\ passing_response' = Assigned(Candidate) /\ policy' = policy
      /\ constructed_rules' = constructed_rules \o PathRules
      /\ ordered_paths' = ordered_paths \ {Path}
      /\ pc' = "construct" /\ error' = error
    BY <1>1, PathIsFree DEF AcceptCandidate
<1>3. /\ Done' = Done \cup {Path} /\ ordered_paths' \subseteq PathsOf(policy)'
      /\ ConstructedAreDone' /\ DeepestFirst'
      /\ Range(constructed_rules') = Range(constructed_rules) \cup Range(PathRules)
    BY <1>1, <1>2, PathDone
<1>4. Skeleton'
    <2> SUFFICES ASSUME NEW path \in Seq(Nat),
                        ValueAt(Assigned(Candidate), path).type \notin {"absent", "object"}
                 PROVE  \E done \in Done \cup {Path} : path = done \/ IsBelow(path, done)
        BY <1>2, <1>3 DEF Skeleton
    <2>1. CASE ~Related(Path, path)
        <3>1. ValueAt(Assigned(Candidate), path) = ValueAt(passing_response, path)
            BY <1>1, <2>1, UnrelatedIsKept DEF Assigned
        <3> QED
            BY <3>1 DEF SearchInv, Skeleton
    <2>2. CASE IsBelow(Path, path)
        BY <1>1, <2>2, AboveAssigned DEF Assigned
    <2>3. CASE path = Path \/ IsBelow(path, Path)
        BY <2>3
    <2> QED
        BY <2>1, <2>2, <2>3 DEF Related
<1>5. ConstructedRulesHold'
    <2>1. AllPass(constructed_rules', Assigned(Candidate))
        BY <1>1, <1>3, AcceptedPasses, AllInRange
    <2> QED
        BY <1>2, <2>1 DEF ConstructedRulesHold
<1>6. Comparison' /\ Outcome'
    BY <1>1, <1>2 DEF Comparison, Outcome, SearchInv
<1> QED
    BY <1>1, <1>2, <1>3, <1>4, <1>5, <1>6 DEF SearchInv

\* At the end all rules are constructed, and without the first one's field it
\* fails: the verification rejects nothing.
LEMMA VerifyKeeps ==
    ASSUME SearchInv, Verify
    PROVE  SearchInv'
<1>1. UNCHANGED <<policy, ordered_paths, passing_response, constructed_rules>>
    BY DEF Verify
<1>2. policy \in Policies /\ pc = "construct" /\ ordered_paths = {} /\ error = "none"
    BY DEF SearchInv, Outcome, Verify
<1>3. AllPass(policy, passing_response)
    <2>1. ASSUME NEW i \in DOMAIN policy PROVE policy[i] \in Range(constructed_rules)
        <3>1. policy[i].path \in Done
            BY <1>2 DEF Done, PathsOf
        <3> QED
            BY <3>1 DEF SearchInv, ConstructedAreDone
    <2>2. \A rule \in Range(constructed_rules) : Passes(rule, passing_response)
        BY AllInRange DEF SearchInv, ConstructedRulesHold
    <2> QED
        BY <2>1, <2>2 DEF AllPass
<1>4. FirstFieldDeleted # passing_response /\ ~AllPass(policy, FirstFieldDeleted)
    <2>1. 1 \in DOMAIN policy /\ policy[1].path \in Seq(Nat) /\ policy[1].path # << >>
          /\ policy[1].kind \in Kinds
        BY <1>2, PolicyFacts
    <2>2. ValueAt(FirstFieldDeleted, policy[1].path) = Absent
        BY <2>1, DeletedIsGone DEF FirstFieldDeleted
    <2>3. ~Passes(policy[1], FirstFieldDeleted) /\ Passes(policy[1], passing_response)
        BY <1>3, <2>1, <2>2, PassingRule DEF AllPass
    <2> QED
        BY <2>1, <2>3 DEF AllPass
<1>5. \/ pc' = "failed" /\ error' = "structural"
      \/ pc' = "done" /\ error' = error /\ failing_response' = FirstFieldDeleted
    BY <1>3, <1>4 DEF Verify, Raise
<1>6. FirstFieldDeleted' = FirstFieldDeleted
    BY <1>1 DEF FirstFieldDeleted
<1>7. Outcome'
    BY <1>1, <1>2, <1>3, <1>5, <1>6 DEF Outcome, Defensive
<1>8. Comparison'
    BY <1>5 DEF Comparison
<1> QED
    BY <1>1, <1>7, <1>8, NothingDone DEF SearchInv

\* Nothing happens.
LEMMA StutterKeeps ==
    ASSUME SearchInv, UNCHANGED vars
    PROVE  SearchInv'
<1>1. UNCHANGED <<policy, ordered_paths, passing_response, constructed_rules>>
      /\ UNCHANGED <<candidates, to_check, failing_response, pc, error>>
    BY DEF vars
<1>2. /\ policy' \in Policies /\ ordered_paths' \subseteq PathsOf(policy)'
      /\ ConstructedAreDone' /\ DeepestFirst' /\ Skeleton' /\ ConstructedRulesHold'
      /\ Path' = Path /\ PathRules' = PathRules /\ DescendantRules' = DescendantRules
    BY <1>1, NothingDone
<1>3. Candidate' = Candidate /\ FirstFieldDeleted' = FirstFieldDeleted
    BY <1>1 DEF Candidate, FirstFieldDeleted
<1>4. Comparison'
    BY <1>1, <1>2, <1>3 DEF Comparison, SearchInv
<1>5. Outcome'
    BY <1>1, <1>3 DEF Outcome, SearchInv
<1> QED
    BY <1>2, <1>4, <1>5 DEF SearchInv

\* The invariant is inductive.
LEMMA SearchStep ==
    ASSUME SearchInv, [Next]_vars
    PROVE  SearchInv'
<1>1. CASE SkipPath
    BY <1>1, SkipKeeps
<1>2. CASE BeginPath
    BY <1>2, BeginKeeps
<1>3. CASE TooMuchWork
    BY <1>3, TooMuchWorkKeeps
<1>4. CASE NextRule
    BY <1>4, NextRuleKeeps
<1>5. CASE RejectCandidate
    BY <1>5, RejectKeeps
<1>6. CASE AcceptCandidate
    BY <1>6, AcceptKeeps
<1>7. CASE Verify
    BY <1>7, VerifyKeeps
<1>8. CASE Ended \/ UNCHANGED vars
    BY <1>8, StutterKeeps DEF Ended
<1> QED
    BY <1>1, <1>2, <1>3, <1>4, <1>5, <1>6, <1>7, <1>8 DEF Next

\* generate_synthetic_cases, for every policy, limit and order of rules: what
\* was assigned for a path keeps passing while the paths above it are filled
\* in, no path is ever blocked, and the verification at the end never rejects
\* what was built.
THEOREM GreedySearchIsAlwaysSound == Spec => []GreedySearchIsSound
<1>1. Init => SearchInv
    BY SearchInit
<1>2. SearchInv /\ [Next]_vars => SearchInv'
    BY SearchStep
<1>3. SearchInv => GreedySearchIsSound
    BY DEF SearchInv, Outcome, GreedySearchIsSound
<1> QED
    BY <1>1, <1>2, <1>3, PTL DEF Spec

\* A rule that fails without the field has a path related to it.
LEMMA TargetedFailure ==
    ASSUME SearchInv
    PROVE  FailingCaseIsTargeted
<1> SUFFICES ASSUME pc = "done" PROVE FailingCaseIsTargeted
    BY DEF FailingCaseIsTargeted
<1>1. /\ policy \in Policies
      /\ AllPass(policy, passing_response) /\ failing_response = FirstFieldDeleted
    BY DEF SearchInv, Outcome
<1>2. policy[1].path \in Seq(Nat) /\ policy[1].path # << >>
    BY <1>1, PolicyFacts
<1>3. ReasonCode(policy[1], failing_response) = "FIELD_MISSING"
    BY <1>1, <1>2, DeletedIsGone DEF FirstFieldDeleted, ReasonCode
<1>4. ASSUME NEW i \in DOMAIN policy, ~Passes(policy[i], failing_response)
      PROVE  Related(policy[1].path, policy[i].path)
    <2> SUFFICES ASSUME ~Related(policy[1].path, policy[i].path) PROVE FALSE
        OBVIOUS
    <2>1. policy[i].path \in Seq(Nat)
        BY <1>1, PolicyFacts
    <2>2. ValueAt(failing_response, policy[i].path) = ValueAt(passing_response, policy[i].path)
        BY <1>1, <1>2, <2>1, UnrelatedIsNotDeleted DEF FirstFieldDeleted
    <2>3. Passes(policy[i], passing_response)
        BY <1>1 DEF AllPass
    <2> QED
        BY <1>4, <2>2, <2>3, SameVerdict
<1> QED
    BY <1>3, <1>4 DEF FailingCaseIsTargeted, Related

\* The failing case is the passing one without the first rule's field, and
\* fails no rule whose path is neither on the way to it nor below it.
THEOREM FailingCaseIsAlwaysTargeted == Spec => []FailingCaseIsTargeted
<1>1. Init => SearchInv
    BY SearchInit
<1>2. SearchInv /\ [Next]_vars => SearchInv'
    BY SearchStep
<1>3. SearchInv => FailingCaseIsTargeted
    BY TargetedFailure
<1> QED
    BY <1>1, <1>2, <1>3, PTL DEF Spec

-----------------------------------------------------------------------------
(* Whether giving up is deserved: what the menus have to offer.             *)

\* Of integers that are bounded above, one is the largest.
LEMMA LargestNumber ==
    ASSUME NEW S \in SUBSET Int, S # {}, NEW top \in Int, \A n \in S : n <= top
    PROVE  \E m \in S : \A n \in S : n <= m
<1> DEFINE gaps == {top - n : n \in S}
<1>1. gaps \in SUBSET Nat /\ gaps # {}
    <2>1. \A n \in S : top - n \in Nat /\ top - n \in gaps
        OBVIOUS
    <2> QED
        BY <2>1
<1>2. PICK gap \in gaps : \A other \in gaps : gap <= other
    <2> HIDE DEF gaps
    <2> QED
        BY <1>1, LeastNumber
<1>3. PICK m \in S : gap = top - m
    BY <1>2
<1>4. ASSUME NEW n \in S
      PROVE  n <= m
    <2>1. top - m <= top - n
        BY <1>2, <1>3
    <2>2. m \in Int /\ n \in Int
        OBVIOUS
    <2> HIDE DEF gaps
    <2> QED
        BY <2>1, <2>2
<1> QED
    BY <1>4

\* And of those bounded below, one is the smallest.
LEMMA SmallestNumber ==
    ASSUME NEW S \in SUBSET Int, S # {}, NEW bottom \in Int, \A n \in S : bottom <= n
    PROVE  \E m \in S : \A n \in S : m <= n
<1> DEFINE gaps == {n - bottom : n \in S}
<1>1. gaps \in SUBSET Nat /\ gaps # {}
    <2>1. \A n \in S : n - bottom \in Nat /\ n - bottom \in gaps
        OBVIOUS
    <2> QED
        BY <2>1
<1>2. PICK gap \in gaps : \A other \in gaps : gap <= other
    <2> HIDE DEF gaps
    <2> QED
        BY <1>1, LeastNumber
<1>3. PICK m \in S : gap = m - bottom
    BY <1>2
<1>4. ASSUME NEW n \in S
      PROVE  m <= n
    <2>1. m - bottom <= n - bottom
        BY <1>2, <1>3
    <2>2. m \in Int /\ n \in Int
        OBVIOUS
    <2> HIDE DEF gaps
    <2> QED
        BY <2>1, <2>2
<1> QED
    BY <1>4

\* A bound that a rule has is the given one.
LEMMA BoundIsGiven ==
    ASSUME NEW bounds, \A a, b \in bounds : a = b, NEW n \in bounds
    PROVE  1 \in DOMAIN Given(bounds) /\ Given(bounds)[1] = n
<1>1. Given(bounds) = <<CHOOSE m \in bounds : TRUE>>
    BY DEF Given
<1>2. (CHOOSE m \in bounds : TRUE) = n
    OBVIOUS
<1> QED
    BY <1>1, <1>2

\* The numbers that the menu of a range has.
RangeHas(rule, values) ==
    /\ \A n \in rule.minimum : Ceiling(n) \in values /\ AsWritten(n) \in values
    /\ \A n \in rule.maximum : Floor(n) \in values /\ AsWritten(n) \in values

\* A range with bounds gives all of these.
LEMMA RangeMenuHas ==
    ASSUME NEW rule, HasBounds(rule)
    PROVE  RangeHas(rule, Range(RangeMenu(rule)))
<1> DEFINE low  == Given(rule.minimum)
           high == Given(rule.maximum)
           a == [i \in DOMAIN low |-> Ceiling(low[i])]
           b == [i \in DOMAIN high |-> Floor(high[i])]
           c == [i \in DOMAIN low |-> AsWritten(low[i])]
           d == [i \in DOMAIN high |-> AsWritten(high[i])]
           menu == Range(RangeMenu(rule))
<1>1. IsList(low) /\ IsList(high)
    BY GivenBound
<1>2. /\ \A n \in rule.minimum : 1 \in DOMAIN low /\ low[1] = n
      /\ \A n \in rule.maximum : 1 \in DOMAIN high /\ high[1] = n
    BY BoundIsGiven DEF HasBounds
<1> HIDE DEF low, high
<1>3. /\ a = [i \in DOMAIN low |-> a[i]] /\ \A i \in DOMAIN low : a[i] = Ceiling(low[i])
      /\ b = [i \in DOMAIN high |-> b[i]] /\ \A i \in DOMAIN high : b[i] = Floor(high[i])
      /\ c = [i \in DOMAIN low |-> c[i]] /\ \A i \in DOMAIN low : c[i] = AsWritten(low[i])
      /\ d = [i \in DOMAIN high |-> d[i]] /\ \A i \in DOMAIN high : d[i] = AsWritten(high[i])
    OBVIOUS
<1>4. RangeMenu(rule) = a \o b \o c \o d
    BY DEF RangeMenu, low, high
<1> HIDE DEF a, b, c, d
<1>5. IsList(a) /\ \A i \in DOMAIN low : a[i] \in Range(a)
    BY <1>1, <1>3, MadeList
<1>6. IsList(b) /\ \A i \in DOMAIN high : b[i] \in Range(b)
    BY <1>1, <1>3, MadeList
<1>7. IsList(c) /\ \A i \in DOMAIN low : c[i] \in Range(c)
    BY <1>1, <1>3, MadeList
<1>8. IsList(d) /\ \A i \in DOMAIN high : d[i] \in Range(d)
    BY <1>1, <1>3, MadeList
<1>9. Range(RangeMenu(rule)) = Range(a) \cup Range(b) \cup Range(c) \cup Range(d)
    <2>1. IsList(a \o b) /\ Range(a \o b) = Range(a) \cup Range(b)
        BY <1>5, <1>6, JoinedLists
    <2>2. IsList(a \o b \o c) /\ Range(a \o b \o c) = Range(a \o b) \cup Range(c)
        BY <1>7, <2>1, JoinedLists
    <2>3. Range(a \o b \o c \o d) = Range(a \o b \o c) \cup Range(d)
        BY <1>8, <2>2, JoinedLists
    <2> QED
        BY <1>4, <2>1, <2>2, <2>3
<1>10. ASSUME NEW n \in rule.minimum
       PROVE  Ceiling(n) \in Range(RangeMenu(rule)) /\ AsWritten(n) \in Range(RangeMenu(rule))
    <2>1. a[1] = Ceiling(n) /\ c[1] = AsWritten(n) /\ a[1] \in Range(a) /\ c[1] \in Range(c)
        BY <1>2, <1>3, <1>5, <1>7
    <2> QED
        BY <1>9, <2>1
<1>11. ASSUME NEW n \in rule.maximum
       PROVE  Floor(n) \in Range(RangeMenu(rule)) /\ AsWritten(n) \in Range(RangeMenu(rule))
    <2>1. b[1] = Floor(n) /\ d[1] = AsWritten(n) /\ b[1] \in Range(b) /\ d[1] \in Range(d)
        BY <1>2, <1>3, <1>6, <1>8
    <2> QED
        BY <1>9, <2>1
<1> QED
    BY <1>10, <1>11 DEF RangeHas

\* More values have them, too.
LEMMA MoreRangeHas ==
    ASSUME NEW rule, NEW few, RangeHas(rule, few), NEW many, few \subseteq many
    PROVE  RangeHas(rule, many)
    BY DEF RangeHas

\* The values that filters without a domain choose from.
MenuHas(filters, values) ==
    /\ {Null, Boolean("false"), Integer(0), String(0), Array(<< >>), EmptyObject} \subseteq values
    /\ \A i \in DOMAIN filters : filters[i].kind = "range" => RangeHas(filters[i], values)
    /\ \A i \in DOMAIN filters : filters[i].kind = "length" =>
          \A n \in filters[i].minimum : n > 0 =>
              /\ String(n) \in values
              /\ n < MAX_JSON_NODES => Array([k \in 1..n |-> Null]) \in values

\* _filter_menu gives all of these.
LEMMA FilterMenuHas ==
    ASSUME NEW filters, IsList(filters), \A i \in DOMAIN filters : HasBounds(filters[i])
    PROVE  MenuHas(filters, Range(FilterMenu(filters)))
<1> DEFINE at      == {i \in DOMAIN filters : filters[i].kind = "range"}
           ranges  == ElementsAt(filters, at)
           least   == {i \in DOMAIN filters :
                        filters[i].kind = "length" /\ \E n \in filters[i].minimum : n > 0}
           minimal == ElementsAt(filters, least)
           lengths == [i \in DOMAIN minimal |-> CHOOSE n \in minimal[i].minimum : TRUE]
           short   == {i \in DOMAIN lengths : lengths[i] < MAX_JSON_NODES}
           arrays  == ElementsAt(lengths, short)
           menus   == [i \in DOMAIN ranges |-> RangeMenu(ranges[i])]
           a == <<Null, Boolean("false"), Integer(0)>>
           b == [i \in DOMAIN lengths |-> String(lengths[i])]
           c == [i \in DOMAIN arrays |-> Array([k \in 1..arrays[i] |-> Null])]
           menu == FilterMenu(filters)
<1>1. /\ IsList(ranges) /\ Range(ranges) = {filters[i] : i \in at}
      /\ IsList(minimal) /\ Range(minimal) = {filters[i] : i \in least}
    <2>1. at \in SUBSET DOMAIN filters /\ least \in SUBSET DOMAIN filters
        OBVIOUS
    <2> HIDE DEF at, least
    <2> QED
        BY <2>1, ListAtPositions
<1>2. /\ IsList(lengths) /\ DOMAIN lengths = DOMAIN minimal
      /\ \A i \in DOMAIN minimal : lengths[i] = CHOOSE n \in minimal[i].minimum : TRUE
    <2> HIDE DEF minimal
    <2>1. lengths = [i \in DOMAIN minimal |-> lengths[i]]
          /\ \A i \in DOMAIN minimal : lengths[i] = CHOOSE n \in minimal[i].minimum : TRUE
        OBVIOUS
    <2> HIDE DEF lengths
    <2> QED
        BY <1>1, <2>1, MadeList
<1>3. IsList(arrays) /\ Range(arrays) = {lengths[i] : i \in short}
    <2> HIDE DEF lengths
    <2>1. short \in SUBSET DOMAIN lengths
        OBVIOUS
    <2> HIDE DEF short
    <2> QED
        BY <1>2, <2>1, ListAtPositions
<1>4. menu = a \o FlattenSeq(menus) \o <<String(0)>> \o b \o <<Array(<< >>)>>
                    \o c \o <<EmptyObject>>
    BY DEF FilterMenu
<1> HIDE DEF ranges, minimal, lengths, arrays, menu
<1>5. /\ IsList(FlattenSeq(menus))
      /\ \A i \in DOMAIN ranges : Range(RangeMenu(ranges[i])) \subseteq Range(FlattenSeq(menus))
    <2>1. menus = [i \in DOMAIN ranges |-> menus[i]]
          /\ \A i \in DOMAIN ranges : menus[i] = RangeMenu(ranges[i])
        OBVIOUS
    <2> HIDE DEF menus
    <2>2. IsList(menus) /\ DOMAIN menus = DOMAIN ranges
        BY <1>1, <2>1, MadeList
    <2>3. \A i \in DOMAIN menus : IsList(menus[i])
        BY <2>1, <2>2, RangeMenuIsMenu DEF IsMenu
    <2> QED
        BY <2>1, <2>2, <2>3, FlattenedLists
<1>6. IsList(a) /\ Range(a) = {Null, Boolean("false"), Integer(0)}
    <2>1. a = <<Null>> \o (<<Boolean("false")>> \o <<Integer(0)>>)
        OBVIOUS
    <2> HIDE DEF a
    <2>2. /\ IsList(<<Boolean("false")>> \o <<Integer(0)>>)
          /\ Range(<<Boolean("false")>> \o <<Integer(0)>>) = {Boolean("false"), Integer(0)}
        BY OneElement, JoinedLists
    <2> QED
        BY <2>1, <2>2, OneElement, JoinedLists
<1>7. IsList(b) /\ \A i \in DOMAIN lengths : String(lengths[i]) \in Range(b)
    <2>1. b = [i \in DOMAIN lengths |-> b[i]] /\ \A i \in DOMAIN lengths : b[i] = String(lengths[i])
        OBVIOUS
    <2> HIDE DEF b
    <2> QED
        BY <1>2, <2>1, MadeList
<1>8. IsList(c) /\ \A i \in DOMAIN arrays : Array([k \in 1..arrays[i] |-> Null]) \in Range(c)
    <2>1. /\ c = [i \in DOMAIN arrays |-> c[i]]
          /\ \A i \in DOMAIN arrays : c[i] = Array([k \in 1..arrays[i] |-> Null])
        OBVIOUS
    <2> HIDE DEF c
    <2>2. IsList(c) /\ \A i \in DOMAIN arrays : c[i] \in Range(c)
        BY <1>3, <2>1, MadeList
    <2>3. ASSUME NEW i \in DOMAIN arrays
          PROVE  Array([k \in 1..arrays[i] |-> Null]) \in Range(c)
        <3>1. c[i] = Array([k \in 1..arrays[i] |-> Null])
            BY <2>1
        <3> QED
            BY <2>2, <3>1
    <2> QED
        BY <2>2, <2>3
<1> HIDE DEF a, b, c, menus
<1>9. Range(menu) = Range(a) \cup Range(FlattenSeq(menus)) \cup {String(0)} \cup Range(b)
                        \cup {Array(<< >>)} \cup Range(c) \cup {EmptyObject}
    <2> DEFINE s1 == a \o FlattenSeq(menus)
               s2 == s1 \o <<String(0)>>
               s3 == s2 \o b
               s4 == s3 \o <<Array(<< >>)>>
               s5 == s4 \o c
    <2>1. IsList(s1) /\ Range(s1) = Range(a) \cup Range(FlattenSeq(menus))
        BY <1>5, <1>6, JoinedLists
    <2>2. IsList(s2) /\ Range(s2) = Range(s1) \cup {String(0)}
        BY <2>1, OneElement, JoinedLists
    <2>3. IsList(s3) /\ Range(s3) = Range(s2) \cup Range(b)
        BY <1>7, <2>2, JoinedLists
    <2>4. IsList(s4) /\ Range(s4) = Range(s3) \cup {Array(<< >>)}
        BY <2>3, OneElement, JoinedLists
    <2>5. IsList(s5) /\ Range(s5) = Range(s4) \cup Range(c)
        BY <1>8, <2>4, JoinedLists
    <2>6. Range(menu) = Range(s5) \cup {EmptyObject}
        BY <1>4, <2>5, OneElement, JoinedLists
    <2> QED
        BY <2>1, <2>2, <2>3, <2>4, <2>5, <2>6
<1>10. ASSUME NEW i \in DOMAIN filters, filters[i].kind = "range"
       PROVE  RangeHas(filters[i], Range(menu))
    <2>1. PICK j \in DOMAIN ranges : ranges[j] = filters[i]
        BY <1>1, <1>10 DEF Range
    <2>2. RangeHas(filters[i], Range(RangeMenu(ranges[j])))
        BY <2>1, RangeMenuHas
    <2>3. Range(RangeMenu(ranges[j])) \subseteq Range(menu)
        BY <1>5, <1>9, <2>1
    <2> QED
        BY <2>2, <2>3, MoreRangeHas
<1>11. ASSUME NEW i \in DOMAIN filters, filters[i].kind = "length",
              NEW n \in filters[i].minimum, n > 0
       PROVE  /\ String(n) \in Range(menu)
              /\ n < MAX_JSON_NODES => Array([k \in 1..n |-> Null]) \in Range(menu)
    <2>1. i \in least
        BY <1>11
    <2>2. PICK j \in DOMAIN minimal : minimal[j] = filters[i]
        BY <1>1, <2>1 DEF Range
    <2>3. lengths[j] = n /\ j \in DOMAIN lengths
        BY <1>2, <1>11, <2>2 DEF HasBounds
    <2>4. String(n) \in Range(b)
        BY <1>7, <2>3
    <2>5. ASSUME n < MAX_JSON_NODES PROVE Array([k \in 1..n |-> Null]) \in Range(c)
        <3>1. j \in short
            BY <2>3, <2>5
        <3>2. n \in Range(arrays)
            BY <1>3, <2>3, <3>1
        <3>3. PICK l \in DOMAIN arrays : arrays[l] = n
            BY <3>2 DEF Range
        <3>4. Array([k \in 1..arrays[l] |-> Null]) \in Range(c)
            BY <1>8, <3>3
        <3> QED
            BY <3>3, <3>4
    <2> QED
        BY <1>9, <2>4, <2>5
<1>12. {Null, Boolean("false"), Integer(0), String(0), Array(<< >>), EmptyObject} \subseteq Range(menu)
    BY <1>6, <1>9
<1> QED
    BY <1>10, <1>11, <1>12 DEF MenuHas, menu

\* What all rules allow is a finite candidate.
LEMMA FiniteCandidatesAreAll ==
    ASSUME NEW rules, AreRules(rules), NEW value,
           \A rule \in Range(rules) : Allows(rule, value),
           (\E rule \in Range(rules) : HasDomain(rule)) \/ value = Null
    PROVE  value \in Range(FiniteCandidates(rules))
<1> DEFINE fixed  == {i \in DOMAIN rules : IsFixed(rules[i])}
           groups == {i \in DOMAIN rules : rules[i].kind = "one_of"}
           first  == IF fixed # {} THEN <<FixedValue(rules[Nth(fixed, 1)])>>
                     ELSE IF groups # {} THEN rules[Nth(groups, 1)].values
                     ELSE <<Null>>
           kept   == {k \in DOMAIN first : \A i \in DOMAIN rules : Allows(rules[i], first[k])}
<1>1. FiniteCandidates(rules) = ElementsAt(first, kept)
    BY DEF FiniteCandidates
<1>2. IsList(rules) /\ \A i \in DOMAIN rules : AllowsJson(rules[i]) /\ Allows(rules[i], value)
    BY DEF AreRules, Range
<1>3. IsList(first) /\ value \in Range(first)
    <2>1. CASE fixed # {}
        <3>1. Nth(fixed, 1) \in fixed
            BY <1>2, <2>1, FirstOfSome
        <3>2. value \in Domain(rules[Nth(fixed, 1)])
            BY <1>2, <3>1 DEF Allows, IsFixed, HasDomain
        <3>3. FixedValue(rules[Nth(fixed, 1)]) = value
            BY <3>1, <3>2 DEF FixedValue, Domain, IsFixed
        <3> QED
            BY <2>1, <3>3, OneElement
    <2>2. CASE fixed = {} /\ groups # {}
        <3>1. Nth(groups, 1) \in groups
            BY <1>2, <2>2, FirstOfSome
        <3>2. value \in Domain(rules[Nth(groups, 1)])
            BY <1>2, <3>1 DEF Allows, HasDomain
        <3>3. value \in Range(rules[Nth(groups, 1)].values)
            BY <3>1, <3>2 DEF Domain, Range
        <3> QED
            BY <1>2, <2>2, <3>1, <3>3 DEF AllowsJson, IsList
    <2>3. CASE fixed = {} /\ groups = {}
        <3>1. \A rule \in Range(rules) : ~HasDomain(rule)
            BY <2>3 DEF HasDomain, IsFixed, Range
        <3> QED
            BY <2>3, <3>1, OneElement
    <2> QED
        BY <2>1, <2>2, <2>3
<1> HIDE DEF first, fixed, groups
<1>4. Range(ElementsAt(first, kept)) = {first[k] : k \in kept}
    <2>1. kept \in SUBSET DOMAIN first
        OBVIOUS
    <2> HIDE DEF kept
    <2> QED
        BY <1>3, <2>1, ListAtPositions
<1>5. PICK k \in DOMAIN first : first[k] = value
    BY <1>3 DEF Range
<1>6. k \in kept
    BY <1>2, <1>5
<1> QED
    BY <1>1, <1>4, <1>5, <1>6

\* The filters of the rules of a path.
FiltersOf(rules) == ElementsAt(rules, {i \in DOMAIN rules : IsFilter(rules[i])})

\* What passes all rules of a path is a candidate, if it is on the menu where
\* there is one.
LEMMA FittingIsCandidate ==
    ASSUME NEW rules, AreRules(rules), NEW value, value # Absent,
           \A rule \in Range(rules) : Satisfies(rule, value),
           \/ \E rule \in Range(rules) : HasDomain(rule)
           \/ FiltersOf(rules) # << >> /\ value \in Range(FilterMenu(FiltersOf(rules)))
           \/ FiltersOf(rules) = << >> /\ value = Null
    PROVE  value \in Range(CandidateValues(rules))
<1> DEFINE narrow  == {i \in DOMAIN rules : IsFilter(rules[i])}
           others  == {i \in DOMAIN rules : ~IsFilter(rules[i])}
           filters == ElementsAt(rules, narrow)
           finite  == ElementsAt(rules, others)
           open    == filters # << >> /\ \A i \in DOMAIN finite : finite[i].kind = "required_field"
           source  == IF open THEN FilterMenu(filters) ELSE FiniteCandidates(finite)
           kept    == {k \in DOMAIN source :
                        \A i \in DOMAIN filters :
                            Passes(filters[i], CandidateView(filters[i].path, source[k]))}
<1>1. /\ AreRules(filters) /\ Range(filters) = {rules[i] : i \in narrow}
      /\ AreRules(finite) /\ Range(finite) = {rules[i] : i \in others}
    <2>1. narrow \in SUBSET DOMAIN rules /\ others \in SUBSET DOMAIN rules
        OBVIOUS
    <2> HIDE DEF narrow, others
    <2> QED
        BY <2>1, SomeRules
<1>2. CandidateValues(rules) = ElementsAt(source, kept)
    BY DEF CandidateValues
<1>3. Range(finite) = {rule \in Range(rules) : ~IsFilter(rule)}
      /\ Range(filters) = {rule \in Range(rules) : IsFilter(rule)}
    BY <1>1 DEF Range
<1>4. /\ \A rule \in Range(filters) : rule.kind \in Kinds /\ rule.path \in Seq(Nat)
      /\ \A rule \in Range(finite) : ~IsFilter(rule) /\ rule.kind \in Kinds
    BY <1>1 DEF AreRules, IsRule
<1>5. FiltersOf(rules) = filters
    BY DEF FiltersOf
<1> HIDE DEF filters, finite
<1>6. \A rule \in Range(finite) : Allows(rule, value)
    BY <1>3, DomainIsExact DEF Allows
<1>7. \A rule \in Range(rules) : HasDomain(rule) => rule \in Range(finite) /\ rule.kind # "required_field"
    BY <1>3 DEF HasDomain, IsFilter
<1>8. (\A rule \in Range(finite) : rule.kind = "required_field") \/ \E rule \in Range(finite) : HasDomain(rule)
    BY <1>4 DEF HasDomain, IsFilter, Kinds
<1>9. IsList(source) /\ value \in Range(source)
    <2>1. CASE \E rule \in Range(rules) : HasDomain(rule)
        <3>1. ~open /\ \E rule \in Range(finite) : HasDomain(rule)
            BY <1>7, <2>1 DEF Range
        <3> QED
            BY <1>1, <1>6, <3>1, FiniteCandidatesAreAll, FiniteCandidatesFit
    <2>2. CASE (\A rule \in Range(rules) : ~HasDomain(rule)) /\ filters # << >>
        <3>1. open
            BY <1>3, <1>8, <2>2 DEF Range
        <3> QED
            BY <1>1, <1>5, <2>2, <3>1, FilterMenuIsMenu DEF AreRules, IsMenu
    <2>3. CASE (\A rule \in Range(rules) : ~HasDomain(rule)) /\ filters = << >>
        <3>1. ~open /\ value = Null
            BY <1>5, <2>3
        <3> QED
            BY <1>1, <1>6, <3>1, FiniteCandidatesAreAll, FiniteCandidatesFit
    <2> QED
        BY <2>1, <2>2, <2>3
<1> HIDE DEF source, open
<1>10. Range(ElementsAt(source, kept)) = {source[k] : k \in kept}
    <2>1. kept \in SUBSET DOMAIN source
        OBVIOUS
    <2> HIDE DEF kept
    <2> QED
        BY <1>9, <2>1, ListAtPositions
<1>11. PICK k \in DOMAIN source : source[k] = value
    BY <1>9 DEF Range
<1>12. ASSUME NEW i \in DOMAIN filters
       PROVE  Passes(filters[i], CandidateView(filters[i].path, value))
    <2>1. filters[i] \in Range(filters) /\ filters[i] \in Range(rules)
        BY <1>3 DEF Range
    <2>2. ValueAt(CandidateView(filters[i].path, value), filters[i].path) = value
        BY <1>4, <2>1, AssignedIsThere DEF CandidateView
    <2> QED
        BY <1>4, <2>1, <2>2, PassingRule
<1>13. k \in kept
    BY <1>11, <1>12
<1> HIDE DEF kept
<1> QED
    BY <1>2, <1>10, <1>11, <1>13

\* The integers next to a bound, and the bound itself.
LEMMA NextToBound ==
    ASSUME NEW n \in Int
    PROVE  /\ Ceiling(n).type = "integer" /\ Ceiling(n).halves \in Int /\ n <= Ceiling(n).halves
           /\ \A h \in Int : h % 2 = 0 /\ n <= h => Ceiling(n).halves <= h
           /\ Floor(n).type = "integer" /\ Floor(n).halves \in Int /\ Floor(n).halves <= n
           /\ \A h \in Int : h % 2 = 0 /\ h <= n => h <= Floor(n).halves
           /\ AsWritten(n).type \in {"integer", "number"} /\ AsWritten(n).halves = n
<1>1. \A m : Integer(m).type = "integer" /\ Integer(m).halves = 2 * m
    BY DEF Integer
<1>2. Ceiling(n).type = "integer" /\ Ceiling(n).halves = 2 * ((n + 1) \div 2)
    BY <1>1 DEF Ceiling
<1>3. Floor(n).type = "integer" /\ Floor(n).halves = 2 * (n \div 2)
    BY <1>1 DEF Floor
<1>4. AsWritten(n).type \in {"integer", "number"} /\ AsWritten(n).halves = n
    <2>1. CASE n % 2 = 0
        <3>1. AsWritten(n) = Integer(n \div 2) /\ 2 * (n \div 2) = n
            BY <2>1 DEF AsWritten
        <3> QED
            BY <1>1, <3>1
    <2>2. CASE n % 2 # 0
        BY <2>2 DEF AsWritten, Number
    <2> QED
        BY <2>1, <2>2
<1>5. \A h \in Int : h % 2 = 0 => h = 2 * (h \div 2)
    OBVIOUS
<1> QED
    BY <1>2, <1>3, <1>4, <1>5

\* Rules that only narrow down the candidates.
AreFilters(filters) ==
    \A i \in DOMAIN filters :
        IsFilter(filters[i]) /\ IsRule(filters[i]) /\ HasBounds(filters[i])

Fits(filters, value) == \A i \in DOMAIN filters : Satisfies(filters[i], value)

\* For a number that passes all filters, one near a bound does.
LEMMA NumberOnMenu ==
    ASSUME NEW filters, AreFilters(filters), NEW values, MenuHas(filters, values),
           NEW value, IsJson(value), value.type \in {"integer", "number"}, Fits(filters, value)
    PROVE  \E other \in values : Fits(filters, other)
<1> DEFINE h == value.halves
           ranges == {i \in DOMAIN filters : filters[i].kind = "range"}
           lows == UNION {filters[i].minimum : i \in ranges}
           highs == UNION {filters[i].maximum : i \in ranges}
<1>1. h \in Int /\ (value.type = "integer" => h % 2 = 0)
    BY DEF IsJson
<1>2. ASSUME NEW i \in DOMAIN filters, filters[i].kind # "range"
      PROVE  filters[i].kind = "type" /\ TypeMatches(value, filters[i].types)
    <2>1. filters[i].kind # "length"
        BY DEF Fits, Satisfies
    <2> QED
        BY <1>2, <2>1 DEF Fits, Satisfies, AreFilters, IsFilter
<1>3. /\ lows \in SUBSET Int /\ \A n \in lows : n <= h
      /\ highs \in SUBSET Int /\ \A n \in highs : h <= n
    <2>1. \A i \in ranges : filters[i].minimum \subseteq Int /\ filters[i].maximum \subseteq Int
        BY DEF AreFilters, HasBounds
    <2>2. \A i \in ranges : Within(h, filters[i])
        BY DEF Fits, Satisfies
    <2> QED
        BY <2>1, <2>2 DEF Within
<1>4. ASSUME NEW other \in values, other.type \in {"integer", "number"},
             value.type = "integer" => other.type = "integer",
             \A n \in lows : n <= other.halves, \A n \in highs : other.halves <= n
      PROVE  Fits(filters, other)
    <2> SUFFICES ASSUME NEW i \in DOMAIN filters PROVE Satisfies(filters[i], other)
        BY DEF Fits
    <2>1. CASE filters[i].kind = "range"
        <3>1. Within(other.halves, filters[i])
            BY <1>4, <2>1 DEF Within
        <3> QED
            BY <1>4, <2>1, <3>1 DEF Satisfies
    <2>2. CASE filters[i].kind # "range"
        BY <1>2, <1>4, <2>2 DEF Satisfies, TypeMatches
    <2> QED
        BY <2>1, <2>2
<1>5. \A i \in ranges : RangeHas(filters[i], values)
    BY DEF MenuHas
<1>6. CASE lows # {}
    <2>1. PICK m \in lows : \A n \in lows : n <= m
        <3> HIDE DEF lows, h
        <3> QED
            BY <1>1, <1>3, <1>6, LargestNumber
    <2>2. m \in Int /\ m <= h /\ \A n \in highs : m <= n
        BY <1>1, <1>3, <2>1
    <2>3. Ceiling(m) \in values /\ AsWritten(m) \in values
        BY <1>5, <2>1 DEF RangeHas
    <2>4. CASE value.type = "integer"
        <3>1. /\ Ceiling(m).type = "integer" /\ Ceiling(m).halves \in Int /\ m <= Ceiling(m).halves
              /\ Ceiling(m).halves <= h
            BY <1>1, <2>2, <2>4, NextToBound
        <3>2. \A n \in lows : n <= Ceiling(m).halves
            BY <1>3, <2>1, <2>2, <3>1
        <3>3. \A n \in highs : Ceiling(m).halves <= n
            BY <1>1, <1>3, <3>1
        <3>4. Fits(filters, Ceiling(m))
            BY <1>4, <2>3, <3>1, <3>2, <3>3
        <3> QED
            BY <2>3, <3>4
    <2>5. CASE value.type # "integer"
        <3>1. AsWritten(m).type \in {"integer", "number"} /\ AsWritten(m).halves = m
            BY <2>2, NextToBound
        <3>2. Fits(filters, AsWritten(m))
            BY <1>4, <2>1, <2>2, <2>3, <2>5, <3>1
        <3> QED
            BY <2>3, <3>2
    <2> QED
        BY <2>4, <2>5
<1>7. CASE lows = {} /\ highs # {}
    <2>1. PICK m \in highs : \A n \in highs : m <= n
        <3> HIDE DEF highs, h
        <3> QED
            BY <1>1, <1>3, <1>7, SmallestNumber
    <2>2. m \in Int /\ h <= m
        BY <1>1, <1>3, <2>1
    <2>3. Floor(m) \in values /\ AsWritten(m) \in values
        BY <1>5, <2>1 DEF RangeHas
    <2>4. CASE value.type = "integer"
        <3>1. Floor(m).type = "integer" /\ Floor(m).halves \in Int /\ Floor(m).halves <= m
            BY <2>2, NextToBound
        <3>2. \A n \in highs : Floor(m).halves <= n
            BY <1>3, <2>1, <2>2, <3>1
        <3>3. Fits(filters, Floor(m))
            BY <1>4, <1>7, <2>3, <3>1, <3>2
        <3> QED
            BY <2>3, <3>3
    <2>5. CASE value.type # "integer"
        <3>1. AsWritten(m).type \in {"integer", "number"} /\ AsWritten(m).halves = m
            BY <2>2, NextToBound
        <3>2. Fits(filters, AsWritten(m))
            BY <1>4, <1>7, <2>1, <2>3, <2>5, <3>1
        <3> QED
            BY <2>3, <3>2
    <2> QED
        BY <2>4, <2>5
<1>8. CASE lows = {} /\ highs = {}
    <2>1. Integer(0) \in values /\ Integer(0).type = "integer"
        BY DEF MenuHas, Integer
    <2>2. Fits(filters, Integer(0))
        BY <1>4, <1>8, <2>1
    <2> QED
        BY <2>1, <2>2
<1> QED
    BY <1>6, <1>7, <1>8

\* For a string or a list that passes all filters, a shortest one does; for an
\* object only where none has to have members.
LEMMA SizedOnMenu ==
    ASSUME NEW filters, AreFilters(filters), NEW values, MenuHas(filters, values),
           NEW value, IsJson(value), value.type \in {"string", "array", "object"},
           Fits(filters, value),
           value.type = "object" =>
               \A i \in DOMAIN filters : filters[i].kind = "length" => filters[i].minimum = {}
    PROVE  \E other \in values : Fits(filters, other)
<1> DEFINE size == Length(value)
           lengths == {i \in DOMAIN filters : filters[i].kind = "length"}
           lows == UNION {filters[i].minimum : i \in lengths}
           highs == UNION {filters[i].maximum : i \in lengths}
<1>1. size \in Nat
    <2>1. CASE value.type = "object"
        <3>1. size = Cardinality(DOMAIN value.members) /\ IsFiniteSet(DOMAIN value.members)
            BY <2>1 DEF Length, IsJson
        <3> QED
            BY <3>1, FS_CardinalityType
    <2>2. CASE value.type # "object"
        BY <2>2 DEF Length, IsJson
    <2> QED
        BY <2>1, <2>2
<1>2. ASSUME NEW i \in DOMAIN filters, filters[i].kind # "length"
      PROVE  filters[i].kind = "type" /\ TypeMatches(value, filters[i].types)
    <2>1. filters[i].kind # "range"
        BY DEF Fits, Satisfies
    <2> QED
        BY <1>2, <2>1 DEF Fits, Satisfies, AreFilters, IsFilter
<1>3. /\ lows \in SUBSET Int /\ \A n \in lows : n <= size
      /\ highs \in SUBSET Int /\ \A n \in highs : size <= n
      /\ value.type = "object" => lows = {}
    <2>1. \A i \in lengths : filters[i].minimum \subseteq Int /\ filters[i].maximum \subseteq Int
        BY DEF AreFilters, HasBounds
    <2>2. \A i \in lengths : Within(size, filters[i])
        BY DEF Fits, Satisfies
    <2> QED
        BY <2>1, <2>2 DEF Within
<1>4. ASSUME NEW other \in values, other.type = value.type,
             \A n \in lows : n <= Length(other), \A n \in highs : Length(other) <= n
      PROVE  \E each \in values : Fits(filters, each)
    <2>1. ASSUME NEW i \in DOMAIN filters PROVE Satisfies(filters[i], other)
        <3>1. CASE filters[i].kind = "length"
            <4>1. Within(Length(other), filters[i])
                BY <1>4, <3>1 DEF Within
            <4> QED
                BY <1>4, <3>1, <4>1 DEF Satisfies
        <3>2. CASE filters[i].kind # "length"
            BY <1>2, <1>4, <3>2 DEF Satisfies, TypeMatches
        <3> QED
            BY <3>1, <3>2
    <2> QED
        BY <2>1 DEF Fits
<1>5. \A n : /\ String(n).type = "string" /\ Length(String(n)) = n
             /\ Array(n).type = "array" /\ Length(Array(n)) = Len(n)
    BY DEF String, Array, Length
<1> HIDE DEF size
<1>6. CASE \E n \in lows : n > 0
    <2>1. PICK m \in lows : \A n \in lows : n <= m
        <3>1. lows # {} /\ lows \in SUBSET Int /\ \A n \in lows : n <= size
            BY <1>3, <1>6
        <3>2. size \in Int
            BY <1>1
        <3> HIDE DEF lows
        <3> QED
            BY <3>1, <3>2, LargestNumber
    <2>2. m \in Nat /\ m > 0 /\ m <= size /\ \A n \in highs : m <= n
        <3>1. m \in Int /\ m > 0
            BY <1>3, <1>6, <2>1
        <3> QED
            BY <1>1, <1>3, <2>1, <3>1
    <2>3. /\ String(m) \in values
          /\ m < MAX_JSON_NODES => Array([k \in 1..m |-> Null]) \in values
        BY <2>1, <2>2 DEF MenuHas
    <2>4. CASE value.type = "string"
        <3>1. String(m) \in values /\ String(m).type = "string" /\ Length(String(m)) = m
            BY <1>5, <2>3
        <3> HIDE DEF lows, highs
        <3> QED
            BY <1>4, <2>1, <2>2, <2>4, <3>1
    <2>5. CASE value.type = "array"
        <3> DEFINE items == [k \in 1..m |-> Null]
        <3>1. m < MAX_JSON_NODES
            <4>1. size = Len(value.items) /\ Len(value.items) < MAX_JSON_NODES
                BY <2>5 DEF size, Length, IsJson
            <4> QED
                BY <1>1, <2>2, <4>1, BoundsAssumption
        <3>2. Len(items) = m
            BY <2>2
        <3>3. Array(items) \in values
            BY <2>3, <3>1
        <3> HIDE DEF items
        <3>4. Array(items).type = "array" /\ Length(Array(items)) = m
            BY <1>5, <3>2
        <3> QED
            BY <1>4, <2>1, <2>2, <2>5, <3>3, <3>4
    <2>6. value.type # "object"
        BY <1>3, <1>6
    <2> QED
        BY <2>4, <2>5, <2>6
<1>7. CASE ~ \E n \in lows : n > 0
    <2>1. \A n \in lows : n <= 0
        BY <1>3, <1>7
    <2>2. \A n \in highs : 0 <= n
        BY <1>1, <1>3
    <2>3. {String(0), Array(<< >>), EmptyObject} \subseteq values
        BY DEF MenuHas
    <2>4. EmptyObject.type = "object" /\ Length(EmptyObject) = 0 /\ Len(<< >>) = 0
        <3>1. DOMAIN << >> = {}
            OBVIOUS
        <3>2. EmptyObject.type = "object" /\ EmptyObject.members = << >>
            BY DEF EmptyObject, Object
        <3>3. Length(EmptyObject) = Cardinality({})
            BY <3>1, <3>2 DEF Length
        <3> QED
            BY <3>2, <3>3, FS_EmptySet
    <2>5. CASE value.type = "string"
        BY <1>4, <1>5, <2>1, <2>2, <2>3, <2>5
    <2>6. CASE value.type = "array"
        BY <1>4, <1>5, <2>1, <2>2, <2>3, <2>4, <2>6
    <2>7. CASE value.type = "object"
        BY <1>4, <2>1, <2>2, <2>3, <2>4, <2>7
    <2> QED
        BY <2>5, <2>6, <2>7
<1> QED
    BY <1>6, <1>7

\* So for each value that passes the filters of a path, the menu has one, but
\* for an object that has to have members.
LEMMA MenuSuffices ==
    ASSUME NEW filters, AreFilters(filters), IsList(filters),
           NEW value, IsJson(value), Fits(filters, value),
           value.type = "object" =>
               \A i \in DOMAIN filters : filters[i].kind = "length" => filters[i].minimum = {}
    PROVE  \E other \in Range(FilterMenu(filters)) : Fits(filters, other)
<1> DEFINE values == Range(FilterMenu(filters))
<1>1. MenuHas(filters, values)
    BY FilterMenuHas DEF AreFilters
<1> HIDE DEF values
<1>2. CASE value.type \in {"integer", "number"}
    BY <1>1, <1>2, NumberOnMenu DEF values
<1>3. CASE value.type \in {"string", "array", "object"}
    BY <1>1, <1>3, SizedOnMenu DEF values
<1>4. CASE value.type \in {"null", "boolean"}
    <2>1. PICK other \in values : other.type = value.type
        <3>1. Null \in values /\ Boolean("false") \in values
            BY <1>1 DEF MenuHas
        <3>2. Null.type = "null" /\ Boolean("false").type = "boolean"
            BY DEF Null, Boolean
        <3> QED
            BY <1>4, <3>1, <3>2
    <2>2. ASSUME NEW i \in DOMAIN filters PROVE Satisfies(filters[i], other)
        <3>1. filters[i].kind \notin {"range", "length"}
            BY <1>4 DEF Fits, Satisfies
        <3>2. filters[i].kind = "type"
            BY <3>1 DEF AreFilters, IsFilter
        <3> QED
            BY <2>1, <3>2 DEF Fits, Satisfies, TypeMatches
    <2> QED
        BY <2>2 DEF Fits, values
<1> QED
    BY <1>2, <1>3, <1>4 DEF IsJson, Types

-----------------------------------------------------------------------------
(* And that nothing else has to be in the way.                             *)

\* A member is led to by a path that is done.
IsUsed(path, name) == \E done \in Done : IsBelow(done, path) /\ done[Len(path) + 1] = name

\* The response has no other members at the paths that are left.
NoIdleMembers ==
    \A path \in ordered_paths :
        LET value == ValueAt(passing_response, path) IN
        value.type = "object" => \A name \in DOMAIN value.members : IsUsed(path, name)

\* What is no longer a candidate fails a rule below the path; what is still to
\* check is below it.
Tried ==
    /\ pc = "compare" => Range(to_check) \subseteq Range(DescendantRules)
    /\ error \in {"conflict", "no_candidate"} => candidates = << >>
    /\ (pc = "compare" \/ error \in {"conflict", "no_candidate"}) =>
          /\ ordered_paths # {} /\ ~AlreadySatisfied
          /\ \A value \in Range(CandidateValues(PathRules)) :
                \/ value \in Range(candidates)
                \/ \E rule \in Range(DescendantRules) :
                      ~Passes(rule, CandidateView(Path, value))

\* What is given up was tried, and what is there had to be there.
TryingInv == SearchInv /\ NoIdleMembers /\ Tried

\* There are no members at first.
LEMMA TryingInit ==
    ASSUME Init
    PROVE  TryingInv
<1>1. NoIdleMembers
    <2> SUFFICES ASSUME NEW path \in ordered_paths
                 PROVE  ValueAt(passing_response, path).type # "object"
        BY DEF NoIdleMembers
    <2>1. path \in Seq(Nat) /\ path # << >>
        BY PolicyFacts DEF Init
    <2>2. ValueAt(passing_response, path) = Absent
        BY <2>1, NothingInEmptyObject DEF Init
    <2> QED
        BY <2>2 DEF Absent
<1>2. Tried
    BY DEF Init, Tried
<1> QED
    BY <1>1, <1>2, SearchInit DEF TryingInv

\* Paths that become done lead to what others led to.
LEMMA StillUsed ==
    ASSUME Done \subseteq Done', NEW path, NEW name, IsUsed(path, name)
    PROVE  IsUsed(path, name)'
    BY DEF IsUsed

\* A path that is skipped leaves the members as they are.
LEMMA SkipKeepsTrying ==
    ASSUME TryingInv, SkipPath
    PROVE  NoIdleMembers' /\ Tried'
<1>1. Done' = Done \cup {Path} /\ pc' = "construct" /\ error' = "none"
      /\ passing_response' = passing_response /\ ordered_paths' \subseteq ordered_paths
    BY PathDone DEF TryingInv, SkipPath, SearchInv, Outcome
<1>2. Tried'
    BY <1>1 DEF Tried
<1>3. NoIdleMembers'
    BY <1>1, StillUsed DEF NoIdleMembers, TryingInv
<1> QED
    BY <1>2, <1>3

\* An assignment adds one member on its way, which its path leads to.
LEMMA AcceptKeepsTrying ==
    ASSUME TryingInv, AcceptCandidate
    PROVE  NoIdleMembers' /\ Tried'
<1>1. /\ SearchInv /\ pc = "compare" /\ ordered_paths # {} /\ policy \in Policies
      /\ Path \in Seq(Nat) /\ \A left \in ordered_paths : Len(left) <= Len(Path)
      /\ \A left \in ordered_paths : left \in Seq(Nat)
    <2>1. SearchInv /\ pc = "compare"
        BY DEF TryingInv, AcceptCandidate
    <2>2. ordered_paths # {} /\ policy \in Policies /\ ordered_paths \subseteq PathsOf(policy)
        BY <2>1 DEF SearchInv, Comparison
    <2> QED
        BY <2>1, <2>2, PathFacts, PolicyFacts
<1>2. /\ passing_response' = Assigned(Candidate) /\ policy' = policy
      /\ constructed_rules' = constructed_rules \o PathRules
      /\ ordered_paths' = ordered_paths \ {Path}
      /\ pc' = "construct" /\ error' = "none"
    BY <1>1, PathIsFree DEF AcceptCandidate, SearchInv, Outcome
<1>3. Done' = Done \cup {Path}
    BY <1>1, <1>2, PathDone
<1>4. Tried'
    BY <1>2 DEF Tried
<1>5. ASSUME NEW path \in ordered_paths, path # Path,
             ValueAt(Assigned(Candidate), path).type = "object",
             NEW name \in DOMAIN ValueAt(Assigned(Candidate), path).members
      PROVE  IsUsed(path, name)'
    <2>1. path \in Seq(Nat) /\ Len(path) \in Nat /\ Len(Path) \in Nat /\ Len(path) <= Len(Path)
        BY <1>1
    <2>2. ASSUME ValueAt(passing_response, path).type = "object",
                 name \in DOMAIN ValueAt(passing_response, path).members
          PROVE  IsUsed(path, name)'
        BY <1>3, <2>2, StillUsed DEF TryingInv, NoIdleMembers
    <2>3. CASE IsBelow(Path, path)
        <3> DEFINE n == Len(path)
                   b == Built(passing_response, Path, Candidate)
                   old == ValueAt(passing_response, path)
        <3>1. n \in 0..(Len(Path) - 1) /\ n \in 0..Len(Path) /\ path = Prefix(Path, n)
            BY <2>1, <2>3 DEF IsBelow
        <3>2. ValueAt(Assigned(Candidate), path) = Walk(Assigned(Candidate), Path)[n]
            BY <1>1, <3>1, PrefixWalk
        <3>3. Walk(Assigned(Candidate), Path)[n] = b[n]
            BY <1>1, <3>1, AssignedWalk DEF Assigned
        <3>4. b[n] = Put(old, Path[n + 1], b[n + 1])
            BY <2>1, <3>1, BuiltSteps
        <3>5. \/ name = Path[n + 1]
              \/ old.type = "object" /\ name \in DOMAIN old.members
            <4> HIDE DEF old, b, n
            <4>1. name \in DOMAIN Put(old, Path[n + 1], b[n + 1]).members
                BY <1>5, <3>2, <3>3, <3>4
            <4> QED
                BY <4>1, PutAdds
        <3>6. CASE name = Path[n + 1]
            BY <1>3, <2>3, <3>6 DEF IsUsed
        <3> QED
            BY <2>2, <3>5, <3>6
    <2>4. CASE ~IsBelow(Path, path)
        <3>1. ~Related(Path, path)
            BY <1>5, <2>1, <2>4 DEF Related, IsBelow
        <3>2. ValueAt(Assigned(Candidate), path) = ValueAt(passing_response, path)
            BY <1>1, <2>1, <3>1, UnrelatedIsKept DEF Assigned
        <3> QED
            BY <1>5, <2>2, <3>2
    <2> QED
        BY <2>3, <2>4
<1>6. NoIdleMembers'
    BY <1>2, <1>5 DEF NoIdleMembers
<1> QED
    BY <1>4, <1>6

\* Nothing of this changes while a path is in progress.
LEMMA NothingTried ==
    ASSUME TryingInv,
           UNCHANGED <<policy, ordered_paths, passing_response, constructed_rules>>
    PROVE  /\ NoIdleMembers' /\ Path' = Path /\ DescendantRules' = DescendantRules
           /\ AlreadySatisfied' = AlreadySatisfied
           /\ CandidateValues(PathRules)' = CandidateValues(PathRules)
<1>1. Done' = Done
    BY DEF Done, PathsOf
<1>2. Path' = Path /\ PathRules' = PathRules /\ DescendantRules' = DescendantRules
    BY NothingDone DEF TryingInv
<1>3. NoIdleMembers'
    BY <1>1, StillUsed DEF NoIdleMembers, TryingInv
<1>4. AlreadySatisfied' = AlreadySatisfied
    BY <1>2 DEF AlreadySatisfied
<1> QED
    BY <1>2, <1>3, <1>4

\* At first all candidates are still to be tried.
LEMMA BeginKeepsTrying ==
    ASSUME TryingInv, BeginPath
    PROVE  NoIdleMembers' /\ Tried'
<1>1. /\ NoIdleMembers' /\ Path' = Path /\ DescendantRules' = DescendantRules
      /\ AlreadySatisfied' = AlreadySatisfied
      /\ CandidateValues(PathRules)' = CandidateValues(PathRules)
    BY NothingTried DEF BeginPath
<1>2. /\ candidates' = CandidateValues(PathRules) /\ to_check' = DescendantRules
      /\ ordered_paths' # {} /\ ~AlreadySatisfied
    BY DEF BeginPath
<1>3. \/ candidates' = << >>
      \/ pc' = "compare" /\ error' = "none"
    BY DEF BeginPath, TryingInv, SearchInv, Outcome
<1> QED
    BY <1>1, <1>2, <1>3 DEF Tried

\* The one that is rejected fails a rule below the path.
LEMMA RejectKeepsTrying ==
    ASSUME TryingInv, RejectCandidate
    PROVE  NoIdleMembers' /\ Tried'
<1>1. /\ NoIdleMembers' /\ Path' = Path /\ DescendantRules' = DescendantRules
      /\ AlreadySatisfied' = AlreadySatisfied
      /\ CandidateValues(PathRules)' = CandidateValues(PathRules)
    BY NothingTried DEF RejectCandidate
<1>2. /\ pc = "compare" /\ to_check' = DescendantRules /\ candidates' = Tail(candidates)
      /\ ordered_paths' = ordered_paths
      /\ \/ candidates' = << >>
         \/ pc' = "compare" /\ error' = "none"
    BY DEF RejectCandidate, TryingInv, SearchInv, Outcome
<1>3. Range(candidates) = {Candidate} \cup Range(candidates')
    <2>1. IsList(candidates) /\ candidates # << >>
        BY <1>2 DEF TryingInv, SearchInv, Comparison, IsMenu
    <2> QED
        BY <1>2, <2>1, HeadAndTail DEF Candidate
<1>4. \E rule \in Range(DescendantRules) : ~Passes(rule, CandidateView(Path, Candidate))
    <2>1. IsList(to_check) /\ Range(to_check) \subseteq Range(DescendantRules)
        BY <1>2 DEF TryingInv, SearchInv, Comparison, Tried
    <2>2. to_check # << >> /\ ~Passes(Head(to_check), CandidateView(Path, Candidate))
        BY DEF RejectCandidate, Compatible
    <2>3. Head(to_check) \in Range(to_check)
        BY <2>1, <2>2, HeadAndTail
    <2> QED
        BY <2>1, <2>2, <2>3
<1>5. /\ ordered_paths # {} /\ ~AlreadySatisfied
      /\ \A value \in Range(CandidateValues(PathRules)) :
            \/ value \in Range(candidates)
            \/ \E rule \in Range(DescendantRules) : ~Passes(rule, CandidateView(Path, value))
    BY <1>2 DEF TryingInv, Tried
<1>6. \A value \in Range(CandidateValues(PathRules)) :
          \/ value \in Range(candidates')
          \/ \E rule \in Range(DescendantRules) : ~Passes(rule, CandidateView(Path, value))
    BY <1>3, <1>4, <1>5
<1>7. \A value \in Range(CandidateValues(PathRules)') :
          \/ value \in Range(candidates')
          \/ \E rule \in Range(DescendantRules') : ~Passes(rule, CandidateView(Path', value))
    BY <1>1, <1>6
<1> QED
    BY <1>1, <1>2, <1>5, <1>7 DEF Tried

\* What is left to check is still below the path.
LEMMA NextRuleKeepsTrying ==
    ASSUME TryingInv, NextRule
    PROVE  NoIdleMembers' /\ Tried'
<1>1. /\ NoIdleMembers' /\ Path' = Path /\ DescendantRules' = DescendantRules
      /\ AlreadySatisfied' = AlreadySatisfied
      /\ CandidateValues(PathRules)' = CandidateValues(PathRules)
    BY NothingTried DEF NextRule
<1>2. /\ pc = "compare" /\ pc' = pc /\ error' = error /\ Len(to_check) > 1
      /\ to_check' = Tail(to_check) /\ candidates' = candidates /\ ordered_paths' = ordered_paths
    BY DEF NextRule
<1>3. Range(to_check') \subseteq Range(DescendantRules)
    <2>1. IsList(to_check) /\ Range(to_check) \subseteq Range(DescendantRules)
        BY <1>2 DEF TryingInv, SearchInv, Comparison, Tried
    <2>2. to_check # << >>
        <3>1. Len(to_check) # 0
            BY <1>2, <2>1 DEF IsList
        <3> QED
            BY <2>1, <3>1, ListFacts
    <2> QED
        BY <1>2, <2>1, <2>2, HeadAndTail
<1> QED
    BY <1>1, <1>2, <1>3 DEF TryingInv, Tried

\* The invariant is inductive.
LEMMA TryingStep ==
    ASSUME TryingInv, [Next]_vars
    PROVE  TryingInv'
<1>1. SearchInv'
    BY SearchStep DEF TryingInv
<1>2. CASE SkipPath
    BY <1>1, <1>2, SkipKeepsTrying DEF TryingInv
<1>3. CASE BeginPath
    BY <1>1, <1>3, BeginKeepsTrying DEF TryingInv
<1>4. CASE NextRule
    BY <1>1, <1>4, NextRuleKeepsTrying DEF TryingInv
<1>5. CASE RejectCandidate
    BY <1>1, <1>5, RejectKeepsTrying DEF TryingInv
<1>6. CASE AcceptCandidate
    BY <1>1, <1>6, AcceptKeepsTrying DEF TryingInv
<1>7. CASE TooMuchWork
    <2>1. NoIdleMembers'
        BY <1>7, NothingTried DEF TooMuchWork
    <2>2. pc' = "failed" /\ error' = "too_much_work"
        BY <1>7 DEF TooMuchWork, Raise
    <2> QED
        BY <1>1, <2>1, <2>2 DEF TryingInv, Tried
<1>8. CASE Verify
    <2>1. NoIdleMembers'
        BY <1>8, NothingTried DEF Verify
    <2>2. pc' # "compare" /\ error' \notin {"conflict", "no_candidate"}
        BY <1>8 DEF Verify, Raise, TryingInv, SearchInv, Outcome
    <2> QED
        BY <1>1, <2>1, <2>2 DEF TryingInv, Tried
<1>9. CASE Ended \/ UNCHANGED vars
    <2>1. UNCHANGED vars
        BY <1>9 DEF Ended
    <2>2. /\ NoIdleMembers' /\ Path' = Path /\ DescendantRules' = DescendantRules
          /\ AlreadySatisfied' = AlreadySatisfied
          /\ CandidateValues(PathRules)' = CandidateValues(PathRules)
        BY <2>1, NothingTried DEF vars
    <2>3. Tried'
        BY <2>1, <2>2 DEF vars, TryingInv, Tried
    <2> QED
        BY <1>1, <2>2, <2>3 DEF TryingInv
<1> QED
    BY <1>2, <1>3, <1>4, <1>5, <1>6, <1>7, <1>8, <1>9 DEF Next

\* What a response that passes the policy has at the path in progress.
LEMMA PassingValue ==
    ASSUME SearchInv, ordered_paths # {}, NEW document \in Documents, AllPass(policy, document)
    PROVE  /\ ValueAt(document, Path) # Absent /\ IsJson(ValueAt(document, Path))
           /\ \A rule \in Range(PathRules) : Satisfies(rule, ValueAt(document, Path))
           /\ \A rule \in Range(DescendantRules) :
                 /\ rule.path \in Seq(Nat) /\ IsBelow(rule.path, Path)
                 /\ Passes(rule, passing_response) /\ ValueAt(passing_response, rule.path) # Absent
                 /\ ValueAt(document, rule.path) # Absent
                 /\ Passes(rule, CandidateView(Path, ValueAt(document, Path)))
<1> DEFINE value == ValueAt(document, Path)
<1>1. policy \in Policies /\ Path \in ordered_paths /\ Path \in Seq(Nat) /\ Path \in PathsOf(policy)
    BY PathFacts DEF SearchInv
<1>2. ASSUME NEW rule \in Range(PathRules)
      PROVE  value # Absent /\ Satisfies(rule, value)
    <2>1. rule.path = Path /\ rule.kind \in Kinds /\ Passes(rule, document)
        BY <1>1, PathRulesFacts, PolicyFacts DEF AllPass
    <2> QED
        BY <2>1, PassingRule
<1>3. value # Absent
    <2>1. PICK i \in DOMAIN policy : policy[i].path = Path
        BY <1>1 DEF PathsOf
    <2>2. policy[i] \in Range(PathRules)
        BY <1>1, <2>1, PathRulesFacts
    <2> QED
        BY <1>2, <2>2
<1>4. IsJson(value)
    BY <1>1, <1>3, DocumentsAssumption
<1>5. ASSUME NEW rule \in Range(DescendantRules)
      PROVE  /\ rule.path \in Seq(Nat) /\ IsBelow(rule.path, Path)
             /\ Passes(rule, passing_response) /\ ValueAt(passing_response, rule.path) # Absent
             /\ ValueAt(document, rule.path) # Absent
             /\ Passes(rule, CandidateView(Path, value))
    <2>1. rule \in Range(constructed_rules) /\ IsBelow(rule.path, Path)
        BY DescendantFacts DEF SearchInv, ConstructedAreDone
    <2>2. PICK j \in DOMAIN policy : policy[j] = rule
        BY <2>1 DEF SearchInv, ConstructedAreDone
    <2>3. rule.path \in Seq(Nat) /\ rule.kind \in Kinds
        BY <1>1, <2>2, PolicyFacts
    <2>4. Passes(rule, document)
        BY <2>2 DEF AllPass
    <2>5. Passes(rule, passing_response)
        BY <2>1, AllInRange DEF SearchInv, ConstructedRulesHold
    <2>6. ValueAt(CandidateView(Path, value), rule.path) = ValueAt(document, rule.path)
        BY <1>1, <2>1, <2>3, BelowAssigned, PathsSplit DEF CandidateView
    <2>7. Passes(rule, CandidateView(Path, value))
        BY <2>4, <2>6, SameVerdict
    <2> QED
        BY <2>1, <2>3, <2>4, <2>5, <2>7, PassingRule
<1> QED
    BY <1>2, <1>3, <1>4, <1>5

\* What the policy says of the rules of the path in progress.
LEMMA RulesInProgress ==
    ASSUME policy \in Policies, NEW rule \in Range(PathRules)
    PROVE  /\ IsRule(rule) /\ HasBounds(rule) /\ rule.kind \in Kinds
           /\ \E i \in DOMAIN policy : policy[i] = rule /\ rule.path = Path
<1>1. PICK i \in DOMAIN policy : policy[i] = rule /\ rule.path = Path
    BY PathRulesFacts
<1>2. IsRule(rule) /\ HasBounds(rule)
    BY <1>1, PoliciesAssumption
<1> QED
    BY <1>1, <1>2 DEF IsRule

\* Where a length minimum is not for an object, some passing response has
\* something else there.
LEMMA NoPadding ==
    ASSUME policy \in Policies, ~NeedsPaddedObject,
           NEW rule \in Range(PathRules), rule.kind = "length", rule.minimum # {}
    PROVE  \E document \in Documents :
               AllPass(policy, document) /\ ValueAt(document, Path).type # "object"
    BY RulesInProgress DEF NeedsPaddedObject

\* The object that the rules below a path have built passes what a response
\* says of that path: its members are among those of the response.
LEMMA ObjectSuffices ==
    ASSUME TryingInv, ordered_paths # {}, ~NeedsPaddedObject,
           NEW document \in Documents, AllPass(policy, document),
           Range(DescendantRules) # {}, \A rule \in Range(PathRules) : ~HasDomain(rule)
    PROVE  AlreadySatisfied
<1> DEFINE value == ValueAt(document, Path)
           built == ValueAt(passing_response, Path)
<1>1. SearchInv /\ policy \in Policies /\ Path \in ordered_paths /\ Path \in Seq(Nat)
    BY PathFacts DEF TryingInv, SearchInv
<1>2. PICK below \in Range(DescendantRules) : TRUE
    OBVIOUS
<1>3. below.path \in Seq(Nat) /\ IsBelow(below.path, Path)
      /\ ValueAt(passing_response, below.path) # Absent
    BY <1>1, PassingValue
<1>4. \A each \in Documents :
          AllPass(policy, each) => ValueAt(each, Path).type = "object"
    <2> SUFFICES ASSUME NEW each \in Documents, AllPass(policy, each)
                 PROVE  ValueAt(each, Path).type = "object"
        OBVIOUS
    <2>1. ValueAt(each, below.path) # Absent
        BY <1>1, PassingValue
    <2> QED
        BY <1>1, <1>3, <2>1, ObjectsAbove
<1>5. value.type = "object" /\ built.type = "object"
    BY <1>1, <1>3, <1>4, ObjectsAbove
<1>6. value # Absent /\ IsJson(value) /\ \A rule \in Range(PathRules) : Satisfies(rule, value)
    BY <1>1, PassingValue
<1>7. DOMAIN built.members \subseteq DOMAIN value.members
    <2> SUFFICES ASSUME NEW name \in DOMAIN built.members PROVE name \in DOMAIN value.members
        OBVIOUS
    <2>1. IsUsed(Path, name)
        BY <1>1, <1>5 DEF TryingInv, NoIdleMembers
    <2>2. PICK done \in Done : IsBelow(done, Path) /\ done[Len(Path) + 1] = name
        BY <2>1 DEF IsUsed
    <2>3. PICK i \in DOMAIN policy : policy[i].path = done
        BY <2>2 DEF Done, PathsOf
    <2>4. done \in Seq(Nat) /\ ValueAt(document, done) # Absent
        <3>1. policy[i].kind \in Kinds /\ policy[i].path \in Seq(Nat) /\ Passes(policy[i], document)
            BY <1>1, <2>3, PolicyFacts DEF AllPass
        <3> QED
            BY <2>3, <3>1, PassingRule
    <2> QED
        BY <1>1, <2>2, <2>4, ObjectsAbove
<1>8. /\ Length(built) \in Nat /\ Length(value) \in Nat /\ Length(built) <= Length(value)
    <2>1. IsFiniteSet(DOMAIN value.members)
        BY <1>5, <1>6 DEF IsJson
    <2>2. /\ Length(built) = Cardinality(DOMAIN built.members)
          /\ Length(value) = Cardinality(DOMAIN value.members)
        BY <1>5 DEF Length
    <2> QED
        BY <1>7, <2>1, <2>2, FS_Subset, FS_CardinalityType
<1> HIDE DEF value, built
<1>9. ASSUME NEW rule \in Range(PathRules)
      PROVE  Satisfies(rule, built)
    <2>1. rule.kind \in Kinds /\ ~HasDomain(rule) /\ HasBounds(rule) /\ Satisfies(rule, value)
        BY <1>1, <1>6, RulesInProgress
    <2>2. CASE rule.kind = "required_field"
        BY <2>2 DEF Satisfies
    <2>3. CASE rule.kind = "type"
        BY <1>5, <2>1, <2>3 DEF Satisfies, TypeMatches
    <2>4. CASE rule.kind = "range"
        BY <1>5, <2>1, <2>4 DEF Satisfies
    <2>5. CASE rule.kind = "length"
        <3>1. rule.minimum = {}
            BY <1>1, <1>4, <2>5, NoPadding
        <3>2. \A high \in rule.maximum : high \in Int /\ Length(value) <= high
            BY <2>1, <2>5 DEF Satisfies, Within, HasBounds
        <3>3. Within(Length(built), rule)
            BY <1>8, <3>1, <3>2 DEF Within
        <3> QED
            BY <1>5, <2>5, <3>3 DEF Satisfies
    <2> QED
        BY <2>1, <2>2, <2>3, <2>4, <2>5 DEF Kinds, HasDomain
<1>10. ASSUME NEW rule \in Range(PathRules) PROVE Passes(rule, passing_response)
    <2>1. rule.path = Path /\ rule.kind \in Kinds
        BY <1>1, RulesInProgress
    <2>2. built # Absent
        BY <1>5 DEF Absent
    <2> QED
        BY <1>9, <2>1, <2>2, PassingRule DEF built
<1> QED
    BY <1>10, AllInRange DEF AlreadySatisfied

\* Where nothing is below a path, a candidate passes if some response does.
LEMMA LeafHasCandidate ==
    ASSUME SearchInv, ordered_paths # {}, ~NeedsPaddedObject,
           NEW document \in Documents, AllPass(policy, document),
           \A rule \in Range(PathRules) : ~HasDomain(rule)
    PROVE  \E value : value \in Range(CandidateValues(PathRules))
<1> DEFINE filters == FiltersOf(PathRules)
<1>1. policy \in Policies /\ AreRules(PathRules)
    BY PathRulesFacts DEF SearchInv
<1>2. /\ IsList(filters) /\ Range(filters) \subseteq Range(PathRules)
      /\ \A rule \in Range(filters) : IsFilter(rule)
      /\ \A rule \in Range(PathRules) : IsFilter(rule) => rule \in Range(filters)
    <2> DEFINE narrow == {i \in DOMAIN PathRules : IsFilter(PathRules[i])}
    <2>1. narrow \in SUBSET DOMAIN PathRules /\ filters = ElementsAt(PathRules, narrow)
        BY DEF FiltersOf
    <2>2. /\ IsList(ElementsAt(PathRules, narrow))
          /\ Range(ElementsAt(PathRules, narrow)) = {PathRules[i] : i \in narrow}
        <3> HIDE DEF narrow
        <3> QED
            BY <1>1, <2>1, ListAtPositions DEF AreRules
    <2> QED
        BY <2>1, <2>2 DEF Range
<1> HIDE DEF filters
<1>3. AreFilters(filters)
    BY <1>1, <1>2, RulesInProgress DEF AreFilters, Range
<1>4. ASSUME NEW rule \in Range(PathRules), ~IsFilter(rule), NEW value
      PROVE  Satisfies(rule, value)
    <2>1. rule.kind = "required_field"
        BY <1>1, <1>4, RulesInProgress DEF IsFilter, HasDomain, Kinds
    <2> QED
        BY <2>1 DEF Satisfies
<1>5. CASE filters = << >>
    <2>1. \A rule \in Range(PathRules) : Satisfies(rule, Null)
        <3>1. Range(<< >>) = {}
            BY DEF Range
        <3> QED
            BY <1>2, <1>4, <1>5, <3>1
    <2>2. Null # Absent
        BY ValuesAreThere
    <2> QED
        BY <1>1, <1>5, <2>1, <2>2, FittingIsCandidate DEF filters
<1>6. CASE filters # << >>
    <2>1. PICK each \in Documents :
              /\ AllPass(policy, each)
              /\ ValueAt(each, Path).type = "object" =>
                    \A i \in DOMAIN filters :
                        filters[i].kind = "length" => filters[i].minimum = {}
        <3>1. CASE \A i \in DOMAIN filters : filters[i].kind = "length" => filters[i].minimum = {}
            BY <3>1
        <3>2. CASE \E i \in DOMAIN filters : filters[i].kind = "length" /\ filters[i].minimum # {}
            <4>1. PICK rule \in Range(PathRules) : rule.kind = "length" /\ rule.minimum # {}
                BY <1>2, <3>2 DEF Range
            <4> QED
                BY <1>1, <4>1, NoPadding
        <3> QED
            BY <3>1, <3>2
    <2>2. /\ IsJson(ValueAt(each, Path))
          /\ \A rule \in Range(PathRules) : Satisfies(rule, ValueAt(each, Path))
        BY <2>1, PassingValue
    <2>3. Fits(filters, ValueAt(each, Path))
        BY <1>2, <2>2 DEF Fits, Range
    <2>4. PICK value \in Range(FilterMenu(filters)) : Fits(filters, value)
        BY <1>2, <1>3, <2>1, <2>2, <2>3, MenuSuffices
    <2>5. \A rule \in Range(PathRules) : Satisfies(rule, value)
        BY <1>2, <1>4, <2>4 DEF Fits, Range
    <2>6. value # Absent
        BY <1>2, <2>4, FilterMenuIsMenu DEF IsMenu
    <2> QED
        BY <1>1, <1>6, <2>4, <2>5, <2>6, FittingIsCandidate DEF filters
<1> QED
    BY <1>5, <1>6

\* A search that gives up has tried a candidate that some response vouches for,
\* if there is such a response.
LEMMA NothingWasMissed ==
    ASSUME TryingInv, error \in {"conflict", "no_candidate"}, ~NeedsPaddedObject,
           NEW document \in Documents, AllPass(policy, document)
    PROVE  FALSE
<1> DEFINE value == ValueAt(document, Path)
<1>1. /\ SearchInv /\ policy \in Policies /\ ordered_paths # {} /\ ~AlreadySatisfied
      /\ \A other \in Range(CandidateValues(PathRules)) :
            \E rule \in Range(DescendantRules) : ~Passes(rule, CandidateView(Path, other))
    <2>1. Range(<< >>) = {}
        BY DEF Range
    <2> QED
        BY <2>1 DEF TryingInv, SearchInv, Tried
<1>2. /\ value # Absent /\ \A rule \in Range(PathRules) : Satisfies(rule, value)
      /\ \A rule \in Range(DescendantRules) : Passes(rule, CandidateView(Path, value))
    BY <1>1, PassingValue
<1>3. CASE \E rule \in Range(PathRules) : HasDomain(rule)
    <2>1. AreRules(PathRules)
        BY <1>1, PathRulesFacts
    <2>2. value \in Range(CandidateValues(PathRules))
        BY <1>2, <1>3, <2>1, FittingIsCandidate
    <2> QED
        BY <1>1, <1>2, <2>2
<1>4. CASE \A rule \in Range(PathRules) : ~HasDomain(rule)
    <2>1. CASE Range(DescendantRules) = {}
        BY <1>1, <1>4, <2>1, LeafHasCandidate
    <2>2. CASE Range(DescendantRules) # {}
        BY <1>1, <1>4, <2>2, ObjectSuffices
    <2> QED
        BY <2>1, <2>2
<1> QED
    BY <1>3, <1>4

\* generate_synthetic_cases, for every policy: though it never goes back on an
\* assignment, it finds no candidate only where no response of Documents passes
\* the policy, or where an object would have to be padded, as README says.
THEOREM GivingUpIsDeserved == Spec => []FailureIsDeserved
<1>1. Init => TryingInv
    BY TryingInit
<1>2. TryingInv /\ [Next]_vars => TryingInv'
    BY TryingStep
<1>3. TryingInv => FailureIsDeserved
    BY NothingWasMissed DEF FailureIsDeserved, Satisfiable
<1> QED
    BY <1>1, <1>2, <1>3, PTL DEF Spec

-----------------------------------------------------------------------------
(* The mutations.                                                          *)

IsMutation(p, item) ==
    /\ item[1] \in DOMAIN p /\ item[2] \in {"missing", "wrong_value"}
    /\ item[2] = "wrong_value" => p[item[1]].kind # "required_field"

\* Each rule has one without its field and, unless that is all it asks for,
\* one with a wrong value; no mutation is made twice.
LEMMA MutationsFacts ==
    ASSUME NEW p \in Policies
    PROVE  /\ IsList(Mutations(p)) /\ Len(Mutations(p)) <= 2 * Len(p)
           /\ \A k \in 1..Len(Mutations(p)) : IsMutation(p, Mutations(p)[k])
           /\ \A k, l \in 1..Len(Mutations(p)) :
                 /\ Mutations(p)[k][1] = Mutations(p)[l][1]
                 /\ Mutations(p)[k][2] = Mutations(p)[l][2]
                 => k = l
           /\ \A i \in DOMAIN p, mode \in {"missing", "wrong_value"} :
                 mode = "missing" \/ p[i].kind # "required_field" =>
                     \E k \in 1..Len(Mutations(p)) :
                         Mutations(p)[k][1] = i /\ Mutations(p)[k][2] = mode
<1> DEFINE n == 2 * Len(p)
           Index(k) == (k + 1) \div 2
           Mode(k) == IF k % 2 = 1 THEN "missing" ELSE "wrong_value"
           both == [k \in 1..n |-> <<Index(k), Mode(k)>>]
           some == {k \in DOMAIN both :
                       both[k][2] = "wrong_value" => p[both[k][1]].kind # "required_field"}
           S == {k \in 1..n : Mode(k) = "wrong_value" => p[Index(k)].kind # "required_field"}
           kept == ElementsAt(both, S)
           m == Cardinality(S)
<1>1. Len(p) \in Nat /\ DOMAIN p = 1..Len(p) /\ n \in Nat
    BY PolicyFacts
<1>2. \A k \in 1..n : both[k][1] = Index(k) /\ both[k][2] = Mode(k)
    OBVIOUS
<1>3. some = S
    BY <1>2, Zenon
<1>4. Mutations(p) = kept
    BY <1>3 DEF Mutations
<1>5. \A k \in 1..n : Index(k) \in DOMAIN p /\ Mode(k) \in {"missing", "wrong_value"}
    BY <1>1
<1>6. \A k, l \in 1..n : Index(k) = Index(l) /\ Mode(k) = Mode(l) => k = l
    <2> SUFFICES ASSUME NEW k \in 1..n, NEW l \in 1..n, Index(k) = Index(l), Mode(k) = Mode(l)
                 PROVE  k = l
        OBVIOUS
    <2>1. k \in Nat /\ l \in Nat /\ (k % 2 = 1 <=> l % 2 = 1)
        OBVIOUS
    <2> QED
        BY <2>1
<1>7. \A i \in DOMAIN p, mode \in {"missing", "wrong_value"} :
          \E k \in 1..n : Index(k) = i /\ Mode(k) = mode
    <2> SUFFICES ASSUME NEW i \in 1..Len(p)
                 PROVE  /\ \E k \in 1..n : Index(k) = i /\ Mode(k) = "missing"
                        /\ \E k \in 1..n : Index(k) = i /\ Mode(k) = "wrong_value"
        BY <1>1
    <2>1. 2 * i - 1 \in 1..n /\ Index(2 * i - 1) = i /\ (2 * i - 1) % 2 = 1
        BY <1>1
    <2>2. 2 * i \in 1..n /\ Index(2 * i) = i /\ (2 * i) % 2 # 1
        BY <1>1
    <2> QED
        BY <2>1, <2>2
<1>8. S \in SUBSET (1..n)
    OBVIOUS
<1> HIDE DEF n, both, S, kept, m, Index, Mode
<1>9. /\ m \in Nat /\ DOMAIN kept = 1..m /\ Len(kept) = m /\ kept = [k \in 1..m |-> kept[k]]
      /\ \A k \in 1..m : Nth(S, k) \in S /\ kept[k] = both[Nth(S, k)]
      /\ \A k \in S : \E l \in 1..m : kept[l] = both[k]
    BY <1>1, <1>8, ElementsKept DEF kept, m
<1>10. IsList(kept)
    BY <1>9, FunctionsAreLists
<1>11. m <= n
    <2>1. IsFiniteSet(1..n) /\ Cardinality(1..n) = n
        BY <1>1, CountOfAll
    <2> QED
        BY <1>8, <2>1, FS_Subset DEF m
<1>12. ASSUME NEW k \in 1..m
       PROVE  /\ Nth(S, k) \in 1..n
              /\ kept[k][1] = Index(Nth(S, k)) /\ kept[k][2] = Mode(Nth(S, k))
              /\ IsMutation(p, kept[k])
    <2>1. Nth(S, k) \in S /\ Nth(S, k) \in 1..n /\ kept[k] = both[Nth(S, k)]
        BY <1>8, <1>9
    <2>2. kept[k][1] = Index(Nth(S, k)) /\ kept[k][2] = Mode(Nth(S, k))
        BY <1>2, <2>1
    <2>3. Mode(Nth(S, k)) = "wrong_value" => p[Index(Nth(S, k))].kind # "required_field"
        BY <2>1 DEF S
    <2> QED
        BY <1>5, <2>1, <2>2, <2>3 DEF IsMutation
<1>13. ASSUME NEW k \in 1..m, NEW l \in 1..m, kept[k][1] = kept[l][1], kept[k][2] = kept[l][2]
       PROVE  k = l
    <2>1. Nth(S, k) = Nth(S, l) /\ Nth(S, k) \in 1..n
        BY <1>6, <1>12, <1>13
    <2>2. (Nth(S, k) <= Nth(S, l) <=> k <= l) /\ (Nth(S, l) <= Nth(S, k) <=> l <= k)
        BY <1>1, <1>8, NthGrows DEF m
    <2>3. Nth(S, k) \in Nat
        BY <1>1, <2>1
    <2> QED
        BY <1>9, <2>1, <2>2, <2>3
<1>14. ASSUME NEW i \in DOMAIN p, NEW mode \in {"missing", "wrong_value"},
              mode = "missing" \/ p[i].kind # "required_field"
       PROVE  \E k \in 1..m : kept[k][1] = i /\ kept[k][2] = mode
    <2>1. PICK j \in 1..n : Index(j) = i /\ Mode(j) = mode
        BY <1>7
    <2>2. j \in S
        BY <1>14, <2>1 DEF S
    <2> QED
        BY <1>2, <1>9, <2>1, <2>2
<1> QED
    BY <1>4, <1>9, <1>10, <1>11, <1>12, <1>13, <1>14 DEF n

-----------------------------------------------------------------------------
(* Wrong values.                                                           *)

\* Values that a rule refuses, and there is one.
AreWrong(rule, values) ==
    IsMenu(values) /\ values # << >> /\ \A value \in Range(values) : ~Satisfies(rule, value)

\* One value that a rule refuses is a list of wrong values.
LEMMA OneIsWrong ==
    ASSUME NEW rule, NEW value, value # Absent, ~Satisfies(rule, value)
    PROVE  AreWrong(rule, <<value>>)
<1>1. <<value>> # << >>
    OBVIOUS
<1> QED
    BY <1>1, OneElement, OneOnMenu DEF AreWrong

\* What is left of a menu is wrong, as long as something is.
LEMMA WrongOnMenu ==
    ASSUME NEW rule, NEW values, IsMenu(values), NEW S \in SUBSET DOMAIN values, S # {},
           \A k \in S : ~Satisfies(rule, values[k])
    PROVE  AreWrong(rule, ElementsAt(values, S))
<1>1. /\ IsList(ElementsAt(values, S)) /\ Range(ElementsAt(values, S)) = {values[k] : k \in S}
      /\ IsList(values)
    BY ListAtPositions DEF IsMenu
<1>2. ElementsAt(values, S) # << >>
    <2>1. Range(<< >>) = {}
        BY DEF Range
    <2>2. {values[k] : k \in S} # {}
        OBVIOUS
    <2> QED
        BY <1>1, <2>1, <2>2
<1>3. \A k \in S : values[k] # Absent
    BY DEF IsMenu, Range
<1> QED
    BY <1>1, <1>2, <1>3 DEF AreWrong, IsMenu

\* The menu of probes has a value of every type.
LEMMA ProbeMenuFacts ==
    /\ IsMenu(PROBE_MENU)
    /\ \A type \in Types : \E value \in Range(PROBE_MENU) : value.type = type
<1>1. /\ PROBE_MENU = [k \in 1..7 |-> PROBE_MENU[k]] /\ DOMAIN PROBE_MENU = 1..7
      /\ PROBE_MENU[1] = Null /\ PROBE_MENU[2] = Boolean("false")
      /\ PROBE_MENU[3] = Integer(0) /\ PROBE_MENU[4] = Number(1, "fraction")
      /\ PROBE_MENU[5] = String(15) /\ PROBE_MENU[6] = Array(<< >>)
      /\ PROBE_MENU[7] = EmptyObject
    BY DEF PROBE_MENU
<1>2. /\ Null.type = "null" /\ Boolean("false").type = "boolean" /\ Integer(0).type = "integer"
      /\ Number(1, "fraction").type = "number" /\ String(15).type = "string"
      /\ Array(<< >>).type = "array" /\ EmptyObject.type = "object"
      /\ Absent.type = "absent"
    BY DEF Null, Boolean, Integer, Number, String, Array, EmptyObject, Object, Absent
<1>3. IsList(PROBE_MENU)
    <2>1. 7 \in Nat
        OBVIOUS
    <2> QED
        BY <1>1, <2>1, FunctionsAreLists
<1>4. \A k \in 1..7 : PROBE_MENU[k] \in Range(PROBE_MENU)
    BY <1>1 DEF Range
<1>5. \A k \in 1..7 : k \in {1, 2, 3, 4, 5, 6, 7}
    OBVIOUS
<1>6. {1, 2, 3, 4, 5, 6, 7} \subseteq 1..7
    OBVIOUS
<1>7. Absent \notin Range(PROBE_MENU)
    <2> SUFFICES ASSUME NEW k \in {1, 2, 3, 4, 5, 6, 7} PROVE PROBE_MENU[k].type # "absent"
        BY <1>1, <1>2, <1>5 DEF Range
    <2> QED
        BY <1>1, <1>2
<1>8. ASSUME NEW type \in Types
      PROVE  \E value \in Range(PROBE_MENU) : value.type = type
    <2>1. \E k \in {1, 2, 3, 4, 5, 6, 7} : PROBE_MENU[k].type = type
        BY <1>1, <1>2 DEF Types
    <2> QED
        BY <1>4, <1>6, <2>1
<1> QED
    BY <1>3, <1>7, <1>8 DEF IsMenu

\* No value is a menu, too.
LEMMA EmptyMenu ==
    IsMenu(<< >>)
    BY DEF IsMenu, IsList, Range

\* The integers beyond the bounds of a rule are a menu.
LEMMA BoundariesAreMenu ==
    ASSUME NEW rule
    PROVE  IsMenu(Boundaries(rule))
<1> DEFINE low  == Given(rule.minimum)
           high == Given(rule.maximum)
           fits == {i \in DOMAIN high : high[i] + 1 <= MAX_LENGTH_PROBE}
           long == ElementsAt(high, fits)
           a == [i \in DOMAIN high |-> AsWritten(high[i] + 2)]
           b == [i \in DOMAIN low |-> AsWritten(low[i] - 2)]
           c == [i \in DOMAIN long |-> String(long[i] + 1)]
           d == [i \in DOMAIN long |-> Array([k \in 1..(long[i] + 1) |-> Null])]
           e == IF rule.minimum \subseteq {0} THEN << >> ELSE <<String(0)>>
<1>1. IsList(low) /\ IsList(high)
    BY GivenBound
<1> HIDE DEF low, high
<1>2. IsList(long)
    <2>1. fits \in SUBSET DOMAIN high
        OBVIOUS
    <2> HIDE DEF fits
    <2> QED
        BY <1>1, <2>1, ListAtPositions
<1> HIDE DEF long
<1>3. /\ a = [i \in DOMAIN high |-> a[i]] /\ \A i \in DOMAIN high : a[i] # Absent
      /\ b = [i \in DOMAIN low |-> b[i]] /\ \A i \in DOMAIN low : b[i] # Absent
      /\ c = [i \in DOMAIN long |-> c[i]] /\ \A i \in DOMAIN long : c[i] # Absent
      /\ d = [i \in DOMAIN long |-> d[i]] /\ \A i \in DOMAIN long : d[i] # Absent
    BY ValuesAreThere
<1>4. IsMenu(e)
    <2>1. IsMenu(<<String(0)>>)
        BY OneOnMenu, ValuesAreThere
    <2> QED
        BY <2>1, EmptyMenu
<1>5. Boundaries(rule) = IF rule.kind = "range" THEN a \o b
                         ELSE IF rule.kind = "length" THEN c \o d \o e ELSE << >>
    BY DEF Boundaries, low, high, long
<1> HIDE DEF a, b, c, d, e
<1>6. IsMenu(a) /\ IsMenu(b) /\ IsMenu(c) /\ IsMenu(d)
    BY <1>1, <1>2, <1>3, MadeMenu
<1>7. IsMenu(a \o b) /\ IsMenu(c \o d) /\ IsMenu(c \o d \o e)
    BY <1>4, <1>6, JoinedMenus
<1> QED
    BY <1>5, <1>7, EmptyMenu

\* "One always exists": no filter accepts a value of every type.
LEMMA FiltersRefuseSome ==
    ASSUME NEW rule, IsRule(rule), IsFilter(rule)
    PROVE  \E value \in Range(PROBE_MENU) : ~Satisfies(rule, value)
<1>1. PICK type \in Types : \A value : value.type = type => ~Satisfies(rule, value)
    <2>1. CASE rule.kind = "type"
        <3>1. PICK type \in Types \ {"integer"} : type \notin rule.types
            BY <2>1 DEF IsRule
        <3>2. \A value : value.type = type => ~Satisfies(rule, value)
            BY <2>1, <3>1 DEF Satisfies, TypeMatches
        <3> QED
            BY <3>1, <3>2
    <2>2. CASE rule.kind \in {"range", "length"}
        <3>1. "null" \in Types
            BY DEF Types
        <3>2. \A value : value.type = "null" => ~Satisfies(rule, value)
            BY <2>2 DEF Satisfies
        <3> QED
            BY <3>1, <3>2
    <2> QED
        BY <2>1, <2>2 DEF IsFilter
<1>2. PICK value \in Range(PROBE_MENU) : value.type = type
    BY ProbeMenuFacts
<1> QED
    BY <1>1, <1>2

\* A filter refuses all values that are tried against it, and there is one.
LEMMA FilterProbesAreWrong ==
    ASSUME NEW rule, IsRule(rule), IsFilter(rule)
    PROVE  AreWrong(rule, FilterProbeValues(rule))
<1> DEFINE values == Boundaries(rule) \o PROBE_MENU
           S == {k \in DOMAIN values : ~Passes(rule, CandidateView(rule.path, values[k]))}
<1>1. IsMenu(values) /\ Range(PROBE_MENU) \subseteq Range(values)
    BY BoundariesAreMenu, ProbeMenuFacts, JoinedMenus, JoinedLists DEF IsMenu
<1> HIDE DEF values
<1>2. ASSUME NEW k \in DOMAIN values
      PROVE  Passes(rule, CandidateView(rule.path, values[k])) <=> Satisfies(rule, values[k])
    <2>1. ValueAt(CandidateView(rule.path, values[k]), rule.path) = values[k]
        BY AssignedIsThere DEF CandidateView, IsRule
    <2>2. values[k] # Absent /\ rule.kind \in Kinds
        BY <1>1 DEF IsMenu, Range, IsRule
    <2> QED
        BY <2>1, <2>2, PassingRule
<1>3. S \in SUBSET DOMAIN values /\ \A k \in S : ~Satisfies(rule, values[k])
    BY <1>2
<1>4. S # {}
    <2>1. PICK value \in Range(PROBE_MENU) : ~Satisfies(rule, value)
        BY FiltersRefuseSome
    <2>2. PICK k \in DOMAIN values : values[k] = value
        BY <1>1, <2>1 DEF Range
    <2> QED
        BY <1>2, <2>1, <2>2
<1>5. FilterProbeValues(rule) = ElementsAt(values, S)
    BY DEF FilterProbeValues, values
<1> HIDE DEF S
<1> QED
    BY <1>1, <1>3, <1>4, <1>5, WrongOnMenu

\* A rule allows fewer values than there are names.
LEMMA NamesAreWrong ==
    ASSUME NEW rule, IsRule(rule), rule.kind \in {"equals", "one_of"},
           AllowsJson(rule), Len(rule.values) <= MAX_ONE_OF_VALUES
    PROVE  AreWrong(rule, UnforbiddenNames(rule))
<1> DEFINE n == MAX_ONE_OF_VALUES + 1
           names == [k \in 1..n |-> ProbeString(k - 1)]
           S == {k \in DOMAIN names : names[k] \notin Domain(rule)}
           allowed == IF rule.kind = "equals" THEN <<rule.value>> ELSE rule.values
           m == IF rule.kind = "equals" THEN 1 ELSE Len(rule.values)
<1>1. n \in Nat /\ m \in Nat /\ m < n /\ n >= 2
    <2>1. MAX_ONE_OF_VALUES \in Nat \ {0}
        BY LimitsAssumption
    <2>2. Len(rule.values) \in Nat
        BY DEF AllowsJson
    <2> QED
        BY <2>1, <2>2
<1>2. \A value \in Domain(rule) : \E j \in 1..m : allowed[j] = value
    <2>1. CASE rule.kind = "equals"
        <3>1. Domain(rule) = {rule.value} /\ allowed = <<rule.value>> /\ m = 1
            BY <2>1 DEF Domain
        <3> QED
            BY <3>1
    <2>2. CASE rule.kind = "one_of"
        <3>1. IsList(rule.values)
            BY DEF AllowsJson, IsList
        <3>2. DOMAIN rule.values = 1..Len(rule.values)
            BY <3>1, ListFacts
        <3>3. Domain(rule) = {rule.values[i] : i \in DOMAIN rule.values}
            BY <2>2 DEF Domain
        <3>4. allowed = rule.values /\ m = Len(rule.values)
            BY <2>2
        <3> QED
            BY <3>2, <3>3, <3>4
    <2> QED
        BY <2>1, <2>2
<1> HIDE DEF m, allowed
<1>3. DOMAIN names = 1..n /\ \A k \in 1..n : names[k] = ProbeString(k - 1) /\ names[k] # Absent
    BY DEF ProbeString, Absent
<1>4. \A k, l \in 1..n : names[k] = names[l] => k = l
    <2>1. \A k \in 1..n : names[k].literal = k - 1
        BY <1>3 DEF ProbeString
    <2> QED
        BY <1>1, <2>1
<1>5. IsMenu(names)
    <2>1. names = [k \in 1..n |-> names[k]]
        OBVIOUS
    <2> HIDE DEF names, n
    <2>2. IsList(names)
        BY <1>1, <2>1, FunctionsAreLists
    <2> QED
        BY <1>3, <2>2 DEF IsMenu, Range
<1> HIDE DEF names, n
<1>6. S # {}
    <2> SUFFICES ASSUME S = {} PROVE FALSE
        OBVIOUS
    <2> DEFINE f == [k \in 1..n |-> CHOOSE j \in 1..m : allowed[j] = names[k]]
    <2>1. \A k \in 1..n : f[k] \in 1..m /\ allowed[f[k]] = names[k]
        BY <1>2, <1>3
    <2>2. f \in [1..n -> 1..m]
        BY <2>1
    <2> HIDE DEF f
    <2>3. /\ IsFiniteSet(1..n) /\ Cardinality(1..n) = n
          /\ IsFiniteSet(1..m) /\ Cardinality(1..m) = m
        BY <1>1, CountOfAll
    <2>4. Cardinality(1..m) < Cardinality(1..n)
        BY <1>1, <2>3
    <2>5. \E k, l \in 1..n : k # l /\ f[k] = f[l]
        <3> DEFINE A == 1..n
                   B == 1..m
        <3>1. f \in [A -> B] /\ IsFiniteSet(A) /\ IsFiniteSet(B) /\ Cardinality(B) < Cardinality(A)
            BY <2>2, <2>3, <2>4
        <3> HIDE DEF A, B
        <3>2. \E k, l \in A : k # l /\ f[k] = f[l]
            BY <3>1, FS_PigeonHole
        <3> QED
            BY <3>2 DEF A
    <2> QED
        BY <1>4, <2>1, <2>5
<1>7. \A k \in S : ~Satisfies(rule, names[k])
    <2>1. HasDomain(rule)
        BY DEF HasDomain
    <2> QED
        BY <2>1, DomainIsExact
<1>8. S \in SUBSET DOMAIN names /\ UnforbiddenNames(rule) = ElementsAt(names, S)
    BY DEF UnforbiddenNames, names, n
<1> HIDE DEF S
<1> QED
    BY <1>5, <1>6, <1>7, <1>8, WrongOnMenu

\* Every kind of rule but required_field has wrong values, all refused.
LEMMA WrongValuesAreWrong ==
    ASSUME NEW rule, IsRule(rule), AllowsJson(rule),
           Len(rule.values) <= MAX_ONE_OF_VALUES, rule.kind # "required_field"
    PROVE  AreWrong(rule, WrongValues(rule))
<1>2. CASE rule.kind = "false"
    <2>1. /\ Boolean("true") # Absent /\ Boolean("true") # Boolean("false")
          /\ WrongValues(rule) = <<Boolean("true")>>
        BY <1>2 DEF WrongValues, Boolean, Absent, IsFilter
    <2>2. ~Satisfies(rule, Boolean("true"))
        BY <1>2, <2>1 DEF Satisfies
    <2> QED
        BY <2>1, <2>2, OneIsWrong
<1>3. CASE rule.kind = "empty_list"
    <2>1. Array(<<Null>>) # Absent /\ WrongValues(rule) = <<Array(<<Null>>)>>
        BY <1>3, ValuesAreThere DEF WrongValues, IsFilter
    <2>2. Array(<<Null>>) # Array(<< >>)
        <3>1. <<Null>> # << >>
            OBVIOUS
        <3>2. Array(<<Null>>).items = <<Null>> /\ Array(<< >>).items = << >>
            BY DEF Array
        <3> QED
            BY <3>1, <3>2
    <2>3. ~Satisfies(rule, Array(<<Null>>))
        BY <1>3, <2>2 DEF Satisfies
    <2> QED
        BY <2>1, <2>3, OneIsWrong
<1>4. CASE IsFilter(rule)
    <2>1. WrongValues(rule) = FilterProbeValues(rule)
        BY <1>4 DEF WrongValues, IsFilter
    <2> QED
        BY <1>4, <2>1, FilterProbesAreWrong
<1>5. CASE rule.kind \in {"equals", "one_of"}
    <2>1. WrongValues(rule) = UnforbiddenNames(rule)
        BY <1>5 DEF WrongValues, IsFilter
    <2> QED
        BY <1>5, <2>1, NamesAreWrong
<1>6. rule.kind \in Kinds /\ rule.kind # "required_field"
    BY DEF IsRule
<1> QED
    BY <1>2, <1>3, <1>4, <1>5, <1>6 DEF Kinds, IsFilter

-----------------------------------------------------------------------------
(* Mutated responses.                                                      *)

\* The way to a value leads through objects.
LEMMA WayIsObjects ==
    ASSUME NEW document, NEW path \in Seq(Nat), ValueAt(document, path) # Absent,
           NEW n \in 0..(Len(path) - 1)
    PROVE  ValueAt(document, Prefix(path, n)).type = "object"
<1> DEFINE start == Prefix(path, n)
<1>1. Len(path) \in Nat
    OBVIOUS
<1>2. n \in 0..Len(path) /\ n < Len(path)
    BY <1>1
<1>3. start \in Seq(Nat) /\ Len(start) = n
    BY <1>2, PrefixWalk
<1>4. IsBelow(path, start)
    BY <1>2, <1>3 DEF IsBelow
<1> HIDE DEF start
<1>5. ValueAt(document, path) =
          ValueAt(ValueAt(document, start), SubSeq(path, Len(start) + 1, Len(path)))
    BY <1>3, <1>4, PathsSplit
<1>6. /\ SubSeq(path, Len(start) + 1, Len(path)) \in Seq(Nat)
      /\ Len(SubSeq(path, Len(start) + 1, Len(path))) > 0
    <2>1. Len(path) > Len(start)
        BY <1>2, <1>3
    <2> QED
        BY <1>3, <2>1, RestOfPath
<1>7. ValueAt(document, start).type = "object"
    BY <1>5, <1>6, NothingBelow
<1> QED
    BY <1>7 DEF start

\* A response that has a field is an object.
LEMMA ResponseIsObject ==
    ASSUME NEW document, NEW path \in Seq(Nat), path # << >>, ValueAt(document, path) # Absent
    PROVE  document.type = "object"
<1>1. Len(path) \in Nat /\ 0 \in 0..(Len(path) - 1) /\ 0 \in 0..Len(path)
    OBVIOUS
<1>2. ValueAt(document, Prefix(path, 0)).type = "object"
    BY <1>1, WayIsObjects
<1>3. ValueAt(document, Prefix(path, 0)) = Walk(document, path)[0]
    BY <1>1, PrefixWalk
<1> QED
    BY <1>1, <1>2, <1>3, WalkSteps

\* A response with a field assigned is an object.
LEMMA AssignedIsObject ==
    ASSUME NEW document, NEW path \in Seq(Nat), path # << >>, NEW value
    PROVE  AssignPath(document, path, value).type = "object"
<1> DEFINE b == Built(document, path, value)
<1>1. Len(path) \in Nat /\ 0 \in 0..(Len(path) - 1)
    OBVIOUS
<1>2. b[0] = Put(ValueAt(document, Prefix(path, 0)), path[0 + 1], b[0 + 1])
    BY <1>1, BuiltSteps
<1> QED
    BY <1>2, AssignPathIsBuilt, PutFacts

\* An object stays one without a field.
LEMMA DeletedIsObject ==
    ASSUME NEW document, document.type = "object", NEW path \in Seq(Nat), path # << >>
    PROVE  DeletePath(document, path).type = "object"
<1>1. CASE ValueAt(document, path) = Absent
    BY <1>1 DEF DeletePath
<1>2. CASE ValueAt(document, path) # Absent
    <2> DEFINE n == Len(path) - 1
               parent == Prefix(path, n)
               left == Without(Walk(document, path)[n], path[n + 1])
    <2>1. /\ parent \in Seq(Nat) /\ Len(parent) = n
          /\ DeletePath(document, path) = AssignPath(document, parent, left)
        BY <1>2, DeletedFrom
    <2>2. left.type = "object"
        BY DEF Without, Object
    <2> HIDE DEF parent, left
    <2>3. CASE parent = << >>
        <3>1. Len(parent) = 0 /\ Len(parent) \in Nat
            BY <2>3
        <3>2. AssignPath(document, parent, left) = left
            BY <3>1, AssignPathIsBuilt, BuiltSteps
        <3> QED
            BY <2>1, <2>2, <3>2
    <2>4. CASE parent # << >>
        BY <2>1, <2>4, AssignedIsObject
    <2> QED
        BY <2>3, <2>4
<1> QED
    BY <1>1, <1>2

\* What a mutation of a passing response does: its rule fails for the reason
\* it was made for, and a rule that fails is related to it.
LEMMA MutatedFacts ==
    ASSUME SearchInv, pc = "done", NEW i \in DOMAIN policy,
           NEW mode \in {"missing", "wrong_value"},
           mode = "wrong_value" => policy[i].kind # "required_field"
    PROVE  /\ Obstacle(policy[i], mode) = "none"
           /\ ReasonCode(policy[i], Mutated(policy[i], mode)) =
                 IF mode = "missing" THEN "FIELD_MISSING"
                 ELSE FAILURE_REASON_BY_KIND[policy[i].kind]
           /\ ~Passes(policy[i], Mutated(policy[i], mode))
           /\ Mutated(policy[i], mode).type = "object"
           /\ \A j \in DOMAIN policy :
                 ~Passes(policy[j], Mutated(policy[i], mode)) =>
                     Related(policy[j].path, policy[i].path)
<1> DEFINE rule == policy[i]
           response == Mutated(rule, mode)
<1>1. /\ policy \in Policies /\ AllPass(policy, passing_response)
      /\ \A j \in DOMAIN policy : /\ policy[j].path \in Seq(Nat) /\ policy[j].path # << >>
                                  /\ policy[j].kind \in Kinds
                                  /\ Passes(policy[j], passing_response)
    BY PolicyFacts DEF SearchInv, Outcome, AllPass
<1>2. /\ rule.path \in Seq(Nat) /\ rule.path # << >> /\ rule.kind \in Kinds
      /\ ValueAt(passing_response, rule.path) # Absent
      /\ passing_response.type = "object"
    BY <1>1, PassingRule, ResponseIsObject
<1>3. ~AssignRaises(passing_response, rule.path)
    <2> SUFFICES ASSUME NEW n \in 1..(Len(rule.path) - 1)
                 PROVE  ValueAt(passing_response, Prefix(rule.path, n)).type = "object"
        BY DEF AssignRaises
    <2>1. Len(rule.path) \in Nat
        BY <1>2
    <2>2. n \in 0..(Len(rule.path) - 1)
        BY <2>1
    <2> QED
        BY <1>2, <2>2, WayIsObjects
<1>4. CASE mode = "missing"
    <2>1. response = DeletePath(passing_response, rule.path) /\ Obstacle(rule, mode) = "none"
        BY <1>4 DEF Mutated, Obstacle
    <2> HIDE DEF response
    <2>2. ReasonCode(rule, response) = "FIELD_MISSING"
        BY <1>2, <2>1, DeletedIsGone DEF ReasonCode
    <2>3. response.type = "object"
        BY <1>2, <2>1, DeletedIsObject
    <2>4. ASSUME NEW j \in DOMAIN policy, ~Related(policy[j].path, rule.path)
          PROVE  Passes(policy[j], response)
        <3>1. ~Related(rule.path, policy[j].path)
            BY <2>4 DEF Related
        <3>2. ValueAt(response, policy[j].path) = ValueAt(passing_response, policy[j].path)
            BY <1>1, <1>2, <2>1, <3>1, UnrelatedIsNotDeleted
        <3> QED
            BY <1>1, <3>2, SameVerdict
    <2> QED
        BY <1>4, <2>1, <2>2, <2>3, <2>4 DEF response, Passes
<1>5. CASE mode = "wrong_value"
    <2> DEFINE value == Head(WrongValues(rule))
    <2>1. AreWrong(rule, WrongValues(rule)) /\ rule.kind # "required_field"
        <3>1. rule.kind # "required_field"
            BY <1>5
        <3>2. IsRule(rule) /\ AllowsJson(rule) /\ Len(rule.values) <= MAX_ONE_OF_VALUES
            BY <1>1, PoliciesAssumption, PolicyAssumption
        <3> HIDE DEF rule
        <3> QED
            BY <3>1, <3>2, WrongValuesAreWrong
    <2>2. value # Absent /\ ~Satisfies(rule, value) /\ WrongValues(rule) # << >>
        BY <2>1, HeadAndTail DEF AreWrong, IsMenu
    <2>3. response = AssignPath(passing_response, rule.path, value) /\ Obstacle(rule, mode) = "none"
        BY <1>3, <1>5, <2>2 DEF Mutated, Obstacle
    <2> HIDE DEF response, value
    <2>4. ReasonCode(rule, response) = FAILURE_REASON_BY_KIND[rule.kind]
        BY <1>2, <2>2, <2>3, AssignedIsThere DEF ReasonCode
    <2>5. response.type = "object"
        BY <1>2, <2>3, AssignedIsObject
    <2>6. ASSUME NEW j \in DOMAIN policy, ~Related(policy[j].path, rule.path)
          PROVE  Passes(policy[j], response)
        <3>1. ~Related(rule.path, policy[j].path)
            BY <2>6 DEF Related
        <3>2. ValueAt(response, policy[j].path) = ValueAt(passing_response, policy[j].path)
            BY <1>1, <1>2, <2>3, <3>1, UnrelatedIsKept
        <3> QED
            BY <1>1, <3>2, SameVerdict
    <2>7. ~Passes(rule, response)
        BY <1>2, <2>1, <2>4, FailuresHaveReasons DEF Passes
    <2>8. mode # "missing"
        BY <1>5
    <2> QED
        BY <2>3, <2>4, <2>5, <2>6, <2>7, <2>8 DEF response
<1> QED
    BY <1>4, <1>5

-----------------------------------------------------------------------------
(* The inductive invariant of the probes.                                  *)

\* The k-th case after the baseline and the k-th probe are the k-th mutation.
ProbeMade(k) ==
    LET index == Mutations(policy)[k][1]
        mode  == Mutations(policy)[k][2]
    IN /\ cases[k + 1] = Case(<<"probe", index, mode>>, Mutated(policy[index], mode), FALSE)
       /\ probes[k].target_rule_id = policy[index].rule_id
       /\ probes[k].mutation = mode
       /\ probes[k].failed_rule_ids = Failed(Mutated(policy[index], mode))

\* The mutations made and those to make are all of them, in order.
Made ==
    /\ pc = "done"
    /\ IsList(probes) /\ IsList(cases)
    /\ Len(probes) + Len(to_probe) = Len(Mutations(policy))
    /\ \A k \in 1..Len(to_probe) : to_probe[k] = Mutations(policy)[Len(probes) + k]
    /\ Len(cases) = Len(probes) + 1
    /\ cases[1] = Case(<<"baseline">>, passing_response, TRUE)
    /\ \A k \in 1..Len(probes) : ProbeMade(k)

ProbeInv ==
    /\ SearchInv
    /\ status \in {"generate", "probe", "complete", "too_many_rules", "limits"}
    /\ status # "too_many_rules" => Len(policy) <= MAX_PROBE_RULES
    /\ IsList(to_probe)
    /\ status \in {"generate", "too_many_rules"} =>
          cases = << >> /\ probes = << >> /\ to_probe = Mutations(policy)
    /\ status \in {"probe", "complete", "limits"} => Made
    /\ status = "complete" => to_probe = << >>

\* Rule ids tell the rules of a policy apart.
LEMMA RuleOfId ==
    ASSUME NEW p \in Policies, NEW i \in DOMAIN p
    PROVE  RuleOf(p, p[i].rule_id) = p[i] /\ p[i].rule_id \in RuleIds(p)
<1>1. \A j \in DOMAIN p : p[j].rule_id = p[i].rule_id => j = i
    BY PolicyAssumption DEF IsPolicy
<1> QED
    BY <1>1 DEF RuleOf, RuleIds

\* A list with one more element.
LEMMA AppendedList ==
    ASSUME NEW s, IsList(s), NEW value
    PROVE  /\ IsList(Append(s, value)) /\ Len(Append(s, value)) = Len(s) + 1
           /\ \A k \in 1..Len(s) : Append(s, value)[k] = s[k]
           /\ Append(s, value)[Len(s) + 1] = value
<1> DEFINE S == Range(s) \cup {value}
<1>1. s \in Seq(S) /\ value \in S
    <2>1. s \in Seq(Range(s)) /\ Range(s) \subseteq S /\ value \in S
        BY ListFacts
    <2> HIDE DEF S
    <2> QED
        BY <2>1
<1> HIDE DEF S
<1>2. /\ Append(s, value) \in Seq(S) /\ Len(Append(s, value)) = Len(s) + 1
      /\ \A k \in 1..Len(s) : Append(s, value)[k] = s[k]
      /\ Append(s, value)[Len(s) + 1] = value
    BY <1>1
<1> QED
    BY <1>2, SequencesAreLists

\* What is left of a loop after one iteration.
LEMMA RestOfList ==
    ASSUME NEW s, IsList(s), s # << >>, NEW k \in 1..Len(Tail(s))
    PROVE  Tail(s)[k] = s[k + 1]
<1> DEFINE S == Range(s)
<1>1. s \in Seq(S)
    BY ListFacts
<1> HIDE DEF S
<1> QED
    BY <1>1

\* No mutation is made at first.
LEMMA ProbeInit ==
    ASSUME ProbesInit
    PROVE  ProbeInv
<1>1. SearchInv /\ policy \in Policies
    BY SearchInit DEF ProbesInit, Init
<1>2. IsList(to_probe)
    BY <1>1, MutationsFacts DEF ProbesInit
<1>3. Len(policy) \in Nat /\ MAX_PROBE_RULES \in Nat
    BY <1>1, PolicyFacts, LimitsAssumption
<1>4. status = "generate" => Len(policy) <= MAX_PROBE_RULES
    BY <1>3 DEF ProbesInit
<1> QED
    BY <1>1, <1>2, <1>4 DEF ProbesInit, ProbeInv

\* Generation does not change the policy.
LEMMA PolicyStays ==
    ASSUME [Next]_vars
    PROVE  policy' = policy
    BY DEF Next, vars, SkipPath, BeginPath, TooMuchWork, NextRule, RejectCandidate,
           AcceptCandidate, Verify, Ended

\* A step of the generation makes no probes.
LEMMA GenerateKeeps ==
    ASSUME ProbeInv, Generate
    PROVE  ProbeInv'
<1>1. [Next]_vars /\ status = "generate" /\ UNCHANGED <<to_probe, cases, probes, status>>
    BY DEF Generate
<1>2. SearchInv' /\ policy' = policy
    BY <1>1, SearchStep, PolicyStays DEF ProbeInv
<1> QED
    BY <1>1, <1>2 DEF ProbeInv

\* The generation is over, and nothing of it changes.
LEMMA GeneratedStays ==
    ASSUME ProbeInv, UNCHANGED generated
    PROVE  /\ SearchInv' /\ policy' = policy /\ pc' = pc
           /\ passing_response' = passing_response
           /\ \A rule, mode : Mutated(rule, mode)' = Mutated(rule, mode)
           /\ \A response : Failed(response)' = Failed(response)
<1>1. UNCHANGED vars
    BY DEF generated
<1>2. SearchInv'
    BY <1>1, StutterKeeps DEF ProbeInv
<1> QED
    BY <1>1, <1>2 DEF vars, Mutated, Failed

\* Nor does what was made, as long as the probes stay the same.
LEMMA MadeStays ==
    ASSUME ProbeInv, UNCHANGED generated, UNCHANGED <<to_probe, cases, probes>>, Made
    PROVE  Made'
<1>1. /\ policy' = policy /\ pc' = pc /\ passing_response' = passing_response
      /\ \A rule, mode : Mutated(rule, mode)' = Mutated(rule, mode)
      /\ \A response : Failed(response)' = Failed(response)
    BY GeneratedStays
<1>2. \A k : ProbeMade(k) => ProbeMade(k)'
    BY <1>1 DEF ProbeMade
<1> QED
    BY <1>1, <1>2 DEF Made

\* The passing case is the first case.
LEMMA BaselineKeeps ==
    ASSUME ProbeInv, Baseline
    PROVE  ProbeInv'
<1>1. /\ status = "generate" /\ pc = "done" /\ status' = "probe"
      /\ cases' = <<Case(<<"baseline">>, passing_response, TRUE)>>
      /\ UNCHANGED generated /\ UNCHANGED <<to_probe, probes>>
    BY DEF Baseline
<1>2. SearchInv' /\ policy' = policy /\ pc' = pc /\ passing_response' = passing_response
    BY <1>1, GeneratedStays
<1>3. probes = << >> /\ to_probe = Mutations(policy) /\ IsList(to_probe)
    BY <1>1 DEF ProbeInv
<1>4. /\ IsList(probes') /\ Len(probes') = 0
      /\ IsList(cases') /\ Len(cases') = 1
      /\ cases'[1] = Case(<<"baseline">>, passing_response, TRUE)
    BY <1>1, <1>3, OneElement DEF IsList
<1>5. Len(Mutations(policy)) \in Nat
    BY <1>3 DEF IsList
<1>6. Made'
    BY <1>1, <1>2, <1>3, <1>4, <1>5 DEF Made
<1> QED
    BY <1>1, <1>2, <1>3, <1>6 DEF ProbeInv

\* The next mutation is made, its probe and its case go together.
LEMMA ProbeKeeps ==
    ASSUME ProbeInv, Probe
    PROVE  ProbeInv'
<1> DEFINE index == Head(to_probe)[1]
           mode  == Head(to_probe)[2]
           rule  == policy[index]
           response == Mutated(rule, mode)
           all == Mutations(policy)
           n == Len(probes)
           record == [case_id |-> <<"probe", index, mode>>, target_rule_id |-> rule.rule_id,
                      mutation |-> mode, failed_rule_ids |-> Failed(response)]
           case == Case(<<"probe", index, mode>>, response, FALSE)
<1>1. /\ status = "probe" /\ to_probe # << >> /\ Made /\ SearchInv /\ pc = "done"
      /\ policy \in Policies /\ IsList(to_probe) /\ IsList(probes) /\ IsList(cases)
      /\ n + Len(to_probe) = Len(all) /\ Len(cases) = n + 1
      /\ n \in Nat /\ Len(cases) \in Nat /\ Len(all) \in Nat
    BY MutationsFacts DEF Probe, ProbeInv, Made, SearchInv, IsList
<1>2. /\ IsList(Tail(to_probe)) /\ Len(Tail(to_probe)) = Len(to_probe) - 1
      /\ Len(to_probe) \in Nat \ {0} /\ Head(to_probe) = to_probe[1]
    BY <1>1, HeadAndTail
<1>3. Head(to_probe) = all[n + 1] /\ n + 1 \in 1..Len(all)
    <2>1. 1 \in 1..Len(to_probe)
        BY <1>2
    <2>2. to_probe[1] = all[n + 1]
        BY <1>1, <2>1 DEF Made
    <2> QED
        BY <1>1, <1>2, <2>2
<1>4. IsMutation(policy, Head(to_probe))
    BY <1>1, <1>3, MutationsFacts
<1>5. Obstacle(rule, mode) = "none" /\ ~Passes(rule, response)
    BY <1>1, <1>4, MutatedFacts DEF IsMutation
<1>6. rule.rule_id \in Failed(response)
    BY <1>1, <1>4, <1>5, RuleOfId DEF IsMutation, Failed
<1>7. /\ cases' = Append(cases, case) /\ probes' = Append(probes, record)
      /\ to_probe' = Tail(to_probe) /\ UNCHANGED generated /\ status' = status
    BY <1>5, <1>6 DEF Probe
<1>8. /\ SearchInv' /\ policy' = policy /\ pc' = pc
      /\ passing_response' = passing_response
      /\ \A r, m : Mutated(r, m)' = Mutated(r, m)
      /\ \A r : Failed(r)' = Failed(r)
    BY <1>7, GeneratedStays
<1>9. /\ IsList(probes') /\ Len(probes') = n + 1
      /\ \A k \in 1..n : probes'[k] = probes[k]
      /\ probes'[n + 1] = record
    <2> HIDE DEF record
    <2> QED
        BY <1>1, <1>7, AppendedList
<1>10. /\ IsList(cases') /\ Len(cases') = n + 2
       /\ \A k \in 1..(n + 1) : cases'[k] = cases[k]
       /\ cases'[n + 2] = case
    <2> HIDE DEF case
    <2>1. /\ IsList(cases') /\ Len(cases') = Len(cases) + 1
          /\ \A k \in 1..Len(cases) : cases'[k] = cases[k]
          /\ cases'[Len(cases) + 1] = case
        BY <1>1, <1>7, AppendedList
    <2>2. Len(cases) + 1 = n + 2 /\ Len(cases) = n + 1
        BY <1>1
    <2> QED
        BY <2>1, <2>2
<1>11. ASSUME NEW k \in 1..n PROVE ProbeMade(k)'
    <2>1. ProbeMade(k)
        BY <1>1 DEF Made
    <2>2. probes'[k] = probes[k] /\ cases'[k + 1] = cases[k + 1]
        BY <1>1, <1>9, <1>10
    <2> QED
        BY <1>8, <2>1, <2>2 DEF ProbeMade
<1>12. ASSUME NEW k, k = n + 1 PROVE ProbeMade(k)'
    <2>1. k + 1 = n + 2 /\ all[k] = Head(to_probe)
        BY <1>1, <1>3, <1>12
    <2>2. cases'[k + 1] = Case(<<"probe", index, mode>>, Mutated(policy[index], mode), FALSE)
        BY <1>10, <2>1
    <2>3. /\ probes'[k].target_rule_id = policy[index].rule_id /\ probes'[k].mutation = mode
          /\ probes'[k].failed_rule_ids = Failed(Mutated(policy[index], mode))
        BY <1>9, <1>12
    <2>4. Mutations(policy)[k][1] = index /\ Mutations(policy)[k][2] = mode
        BY <2>1
    <2> HIDE DEF index, mode, case, record, n, all
    <2> QED
        BY <1>8, <2>2, <2>3, <2>4 DEF ProbeMade
<1>13. ASSUME NEW k \in 1..Len(to_probe') PROVE to_probe'[k] = all[Len(probes') + k]
    <2>1. k + 1 \in 1..Len(to_probe)
        BY <1>2, <1>7
    <2>2. to_probe'[k] = to_probe[k + 1]
        BY <1>1, <1>7, RestOfList
    <2>3. to_probe[k + 1] = all[n + (k + 1)]
        BY <1>1, <2>1 DEF Made
    <2>4. n + (k + 1) = Len(probes') + k
        BY <1>1, <1>9
    <2> QED
        BY <2>2, <2>3, <2>4
<1> HIDE DEF record, case, response, rule, n, all
<1>14. ASSUME NEW k \in 1..Len(probes') PROVE ProbeMade(k)'
    <2>1. k \in 1..n \/ k = n + 1
        BY <1>1, <1>9
    <2>2. CASE k \in 1..n
        BY <1>11, <2>2
    <2>3. CASE k = n + 1
        BY <1>12, <2>3
    <2> QED
        BY <2>1, <2>2, <2>3
<1>15. /\ Len(probes') + Len(to_probe') = Len(all) /\ Len(cases') = Len(probes') + 1
       /\ cases'[1] = cases[1]
    <2>1. 1 \in 1..(n + 1)
        BY <1>1
    <2> QED
        BY <1>1, <1>2, <1>7, <1>9, <1>10, <2>1
<1>16. Made'
    <2>1. all' = all
        BY <1>8 DEF all
    <2>2. cases[1] = Case(<<"baseline">>, passing_response, TRUE)
        BY <1>1 DEF Made
    <2>3. /\ pc' = "done" /\ IsList(probes') /\ IsList(cases')
          /\ cases'[1] = Case(<<"baseline">>, passing_response', TRUE)
        BY <1>1, <1>8, <1>9, <1>10, <1>15, <2>2
    <2>4. \A k \in 1..Len(to_probe') : to_probe'[k] = all[Len(probes') + k]
        BY <1>13
    <2> QED
        BY <1>8, <1>14, <1>15, <2>3, <2>4 DEF Made, all
<1> QED
    BY <1>1, <1>2, <1>7, <1>8, <1>16 DEF ProbeInv

\* Limits that are exceeded leave what was made.
LEMMA LimitsKeep ==
    ASSUME ProbeInv, ExceedLimits
    PROVE  ProbeInv'
<1>1. /\ status = "probe" /\ status' = "limits"
      /\ UNCHANGED generated /\ UNCHANGED <<to_probe, cases, probes>>
    BY DEF ExceedLimits, Refuse
<1>2. SearchInv' /\ policy' = policy
    BY <1>1, GeneratedStays
<1>3. Made'
    BY <1>1, MadeStays DEF ProbeInv
<1> QED
    BY <1>1, <1>2, <1>3 DEF ProbeInv

\* Nothing happens.
LEMMA NoMoreKeeps ==
    ASSUME ProbeInv, UNCHANGED probe_vars
    PROVE  ProbeInv'
<1>1. UNCHANGED generated /\ UNCHANGED <<to_probe, cases, probes, status>>
    BY DEF probe_vars
<1>2. SearchInv' /\ policy' = policy
    BY <1>1, GeneratedStays
<1>3. Made => Made'
    BY <1>1, MadeStays
<1> QED
    BY <1>1, <1>2, <1>3 DEF ProbeInv

\* The cases made: the baseline, which passes, and one for each mutation made,
\* which fails its rule.
LEMMA CasesMade ==
    ASSUME ProbeInv, Made, Len(policy) <= MAX_PROBE_RULES
    PROVE  /\ DOMAIN cases = 1..(Len(probes) + 1) /\ Len(probes) \in Nat
           /\ Len(cases) <= MAX_SUITE_CASES
           /\ AllPass(policy, passing_response) /\ passing_response.type = "object"
           /\ cases[1] = Case(<<"baseline">>, passing_response, TRUE)
           /\ \A n \in 1..Len(probes) :
                 LET index == Mutations(policy)[n][1]
                     mode  == Mutations(policy)[n][2]
                     response == Mutated(policy[index], mode)
                 IN /\ cases[n + 1] = Case(<<"probe", index, mode>>, response, FALSE)
                    /\ n \in 1..Len(Mutations(policy))
                    /\ IsMutation(policy, Mutations(policy)[n])
                    /\ ~Passes(policy[index], response) /\ ~AllPass(policy, response)
                    /\ response.type = "object"
<1>1. /\ policy \in Policies /\ SearchInv /\ pc = "done" /\ IsList(cases) /\ IsList(to_probe)
      /\ Len(probes) \in Nat /\ Len(to_probe) \in Nat /\ Len(cases) = Len(probes) + 1
      /\ Len(probes) + Len(to_probe) = Len(Mutations(policy))
    BY DEF ProbeInv, Made, SearchInv, IsList
<1>2. Len(policy) \in Nat \ {0} /\ Len(Mutations(policy)) \in Nat
      /\ Len(Mutations(policy)) <= 2 * Len(policy)
    BY <1>1, PolicyFacts, MutationsFacts DEF IsList
<1>3. Len(cases) <= MAX_SUITE_CASES
    <2>1. MAX_PROBE_RULES \in Nat /\ MAX_SUITE_CASES >= 2 * MAX_PROBE_RULES + 1
          /\ MAX_SUITE_CASES \in Nat
        BY LimitsAssumption, MaxAssumption
    <2> QED
        BY <1>1, <1>2, <2>1
<1>4. DOMAIN cases = 1..(Len(probes) + 1)
    BY <1>1, ListFacts
<1>5. AllPass(policy, passing_response)
    BY <1>1 DEF SearchInv, Outcome
<1>6. passing_response.type = "object"
    <2>1. 1 \in DOMAIN policy /\ policy[1].path \in Seq(Nat) /\ policy[1].path # << >>
          /\ policy[1].kind \in Kinds
        BY <1>1, PolicyFacts
    <2>2. ValueAt(passing_response, policy[1].path) # Absent
        BY <1>5, <2>1, PassingRule DEF AllPass
    <2> QED
        BY <2>1, <2>2, ResponseIsObject
<1>7. ASSUME NEW n \in 1..Len(probes)
      PROVE  LET index == Mutations(policy)[n][1]
                 mode  == Mutations(policy)[n][2]
                 response == Mutated(policy[index], mode)
             IN /\ cases[n + 1] = Case(<<"probe", index, mode>>, response, FALSE)
                /\ n \in 1..Len(Mutations(policy))
                /\ IsMutation(policy, Mutations(policy)[n])
                /\ ~Passes(policy[index], response) /\ ~AllPass(policy, response)
                /\ response.type = "object"
    <2> DEFINE index == Mutations(policy)[n][1]
               mode  == Mutations(policy)[n][2]
               response == Mutated(policy[index], mode)
    <2>1. n \in 1..Len(Mutations(policy))
        BY <1>1, <1>2
    <2>2. IsMutation(policy, Mutations(policy)[n])
        BY <1>1, <2>1, MutationsFacts
    <2>3. /\ index \in DOMAIN policy /\ mode \in {"missing", "wrong_value"}
          /\ mode = "wrong_value" => policy[index].kind # "required_field"
        BY <2>2 DEF IsMutation
    <2>4. cases[n + 1] = Case(<<"probe", index, mode>>, response, FALSE)
        BY DEF Made, ProbeMade
    <2>5. ~Passes(policy[index], response) /\ response.type = "object"
        <3> HIDE DEF index, mode
        <3> QED
            BY <1>1, <2>3, MutatedFacts
    <2>6. ~AllPass(policy, response)
        BY <2>3, <2>5 DEF AllPass
    <2> QED
        BY <2>1, <2>2, <2>4, <2>5, <2>6
<1> QED
    BY <1>1, <1>3, <1>4, <1>5, <1>6, <1>7 DEF Made

\* validate_suite has nothing against the cases.
LEMMA SuiteIsValid ==
    ASSUME ProbeInv, Made, Len(policy) <= MAX_PROBE_RULES
    PROVE  IsSuite(ProbeSuite)
<1> DEFINE m == Len(probes)
           all == Mutations(policy)
<1>1. /\ DOMAIN cases = 1..(m + 1) /\ m \in Nat /\ Len(cases) <= MAX_SUITE_CASES
      /\ passing_response.type = "object"
      /\ cases[1] = Case(<<"baseline">>, passing_response, TRUE)
      /\ \A n \in 1..m :
            /\ cases[n + 1] = Case(<<"probe", all[n][1], all[n][2]>>,
                                   Mutated(policy[all[n][1]], all[n][2]), FALSE)
            /\ n \in 1..Len(all)
            /\ Mutated(policy[all[n][1]], all[n][2]).type = "object"
    BY CasesMade
<1>2. Len(cases) = m + 1 /\ cases = [k \in 1..Len(cases) |-> cases[k]] /\ policy \in Policies
    BY DEF Made, IsList, ProbeInv, SearchInv
<1>3. ASSUME NEW case, NEW id, NEW response, response.type = "object",
             case = Case(id, response, TRUE) \/ case = Case(id, response, FALSE)
      PROVE  IsCase(case) /\ case.case_id = id /\ case.expected_rules = {}
    <2>1. /\ case.case_id = id /\ case.response = response /\ case.expected_rules = {}
          /\ case = [case_id |-> case.case_id, response |-> case.response,
                     expected_passed |-> case.expected_passed,
                     expected_rules |-> case.expected_rules]
        BY <1>3 DEF Case
    <2>2. case.expected_passed \in BOOLEAN
        <3>1. CASE case = Case(id, response, TRUE)
            BY <3>1, Zenon DEF Case
        <3>2. CASE case = Case(id, response, FALSE)
            BY <3>2, Zenon DEF Case
        <3> QED
            BY <1>3, <3>1, <3>2
    <2> QED
        BY <1>3, <2>1, <2>2 DEF IsCase
<1> HIDE DEF m, all
<1>4. ASSUME NEW k \in 1..(m + 1)
      PROVE  k = 1 \/ \E n \in 1..m : k = n + 1
    <2>1. k # 1 => k - 1 \in 1..m /\ k = (k - 1) + 1
        BY <1>1
    <2> QED
        BY <2>1
<1>5. ASSUME NEW k \in 1..(m + 1)
      PROVE  IsCase(cases[k]) /\ cases[k].expected_rules = {}
    <2>1. CASE k = 1
        BY <1>1, <1>3, <2>1
    <2>2. CASE k # 1
        <3>1. PICK n \in 1..m : k = n + 1
            BY <1>4, <2>2
        <3> DEFINE id == <<"probe", all[n][1], all[n][2]>>
                   response == Mutated(policy[all[n][1]], all[n][2])
        <3>2. cases[k] = Case(id, response, FALSE) /\ response.type = "object"
            BY <1>1, <3>1
        <3> HIDE DEF id, response
        <3> QED
            BY <1>3, <3>2
    <2> QED
        BY <2>1, <2>2
<1>6. cases[1].case_id = <<"baseline">>
    BY <1>1, <1>3
<1>7. ASSUME NEW n \in 1..m
      PROVE  cases[n + 1].case_id = <<"probe", all[n][1], all[n][2]>>
    <2> DEFINE id == <<"probe", all[n][1], all[n][2]>>
               response == Mutated(policy[all[n][1]], all[n][2])
    <2>1. cases[n + 1] = Case(id, response, FALSE) /\ response.type = "object"
        BY <1>1
    <2> HIDE DEF id, response
    <2>2. cases[n + 1].case_id = id
        BY <1>3, <2>1
    <2> QED
        BY <2>2 DEF id
<1>8. \A i, mode : <<"baseline">> # <<"probe", i, mode>>
    OBVIOUS
<1>9. ASSUME NEW n \in 1..m, NEW o \in 1..m,
             <<"probe", all[n][1], all[n][2]>> = <<"probe", all[o][1], all[o][2]>>
      PROVE  n = o
    <2>1. all[n][1] = all[o][1] /\ all[n][2] = all[o][2]
        BY <1>9
    <2>2. n \in 1..Len(all) /\ o \in 1..Len(all)
        BY <1>1
    <2> QED
        BY <1>2, <2>1, <2>2, MutationsFacts DEF all
<1>10. ASSUME NEW k \in 1..(m + 1), NEW l \in 1..(m + 1), cases[k].case_id = cases[l].case_id
       PROVE  k = l
    <2>1. CASE k = 1 /\ l = 1
        BY <2>1
    <2>2. CASE k = 1 /\ l # 1
        <3>1. PICK o \in 1..m : l = o + 1
            BY <1>4, <2>2
        <3> QED
            BY <1>6, <1>7, <1>8, <1>10, <2>2, <3>1
    <2>3. CASE k # 1 /\ l = 1
        <3>1. PICK n \in 1..m : k = n + 1
            BY <1>4, <2>3
        <3> QED
            BY <1>6, <1>7, <1>8, <1>10, <2>3, <3>1
    <2>4. CASE k # 1 /\ l # 1
        <3>1. PICK n \in 1..m : k = n + 1
            BY <1>4, <2>4
        <3>2. PICK o \in 1..m : l = o + 1
            BY <1>4, <2>4
        <3> QED
            BY <1>7, <1>9, <1>10, <3>1, <3>2
    <2> QED
        BY <2>1, <2>2, <2>3, <2>4
<1>11. ProbeSuite.cases = cases /\ ProbeSuite.suite_version = "1.0"
       /\ ProbeSuite = [suite_version |-> ProbeSuite.suite_version, cases |-> ProbeSuite.cases]
    BY DEF ProbeSuite
<1>12. Len(cases) \in 1..MAX_SUITE_CASES
    <2>1. MAX_SUITE_CASES \in Nat
        BY MaxAssumption
    <2> QED
        BY <1>1, <1>2, <2>1
<1> QED
    BY <1>1, <1>2, <1>5, <1>10, <1>11, <1>12 DEF IsSuite

\* The suite of all mutations is valid when none is left.
LEMMA CompleteKeeps ==
    ASSUME ProbeInv, Complete
    PROVE  ProbeInv'
<1>1. /\ status = "probe" /\ to_probe = << >> /\ Made /\ Len(policy) <= MAX_PROBE_RULES
      /\ UNCHANGED generated /\ UNCHANGED <<to_probe, cases, probes>>
    BY DEF Complete, ProbeInv
<1>2. status' = "complete"
    BY <1>1, SuiteIsValid DEF Complete
<1>3. SearchInv' /\ policy' = policy
    BY <1>1, GeneratedStays
<1>4. Made'
    BY <1>1, MadeStays
<1> QED
    BY <1>1, <1>2, <1>3, <1>4 DEF ProbeInv

\* The invariant is inductive.
LEMMA ProbeStep ==
    ASSUME ProbeInv, [ProbesNext]_probe_vars
    PROVE  ProbeInv'
<1>1. CASE Generate
    BY <1>1, GenerateKeeps
<1>2. CASE Baseline
    BY <1>2, BaselineKeeps
<1>3. CASE Probe
    BY <1>3, ProbeKeeps
<1>4. CASE ExceedLimits
    BY <1>4, LimitsKeep
<1>5. CASE Complete
    BY <1>5, CompleteKeeps
<1>6. CASE NoMoreProbes \/ UNCHANGED probe_vars
    BY <1>6, NoMoreKeeps DEF NoMoreProbes
<1> QED
    BY <1>1, <1>2, <1>3, <1>4, <1>5, <1>6 DEF ProbesNext

\* A probe differs from the passing case at its target and nowhere unrelated.
LEMMA ProbeIsTargeted ==
    ASSUME ProbeInv
    PROVE  ProbesAreTargeted
<1> SUFFICES ASSUME NEW k \in DOMAIN probes
             PROVE  LET response == cases[k + 1].response
                        target   == RuleOf(policy, probes[k].target_rule_id)
                    IN /\ ReasonCode(target, response) =
                             IF probes[k].mutation = "missing" THEN "FIELD_MISSING"
                             ELSE FAILURE_REASON_BY_KIND[target.kind]
                       /\ \A id \in RuleIds(policy) :
                             ReasonCode(RuleOf(policy, id), response) # "RULE_SATISFIED" =>
                                 /\ id \in probes[k].failed_rule_ids
                                 /\ Related(RuleOf(policy, id).path, target.path)
    BY DEF ProbesAreTargeted
<1>1. Made
    <2>1. DOMAIN << >> = {}
        OBVIOUS
    <2> QED
        BY <2>1 DEF ProbeInv
<1>2. /\ policy \in Policies /\ SearchInv /\ pc = "done" /\ IsList(probes) /\ IsList(to_probe)
      /\ Len(probes) + Len(to_probe) = Len(Mutations(policy))
    BY <1>1 DEF ProbeInv, Made, SearchInv
<1>3. k \in 1..Len(probes) /\ k \in 1..Len(Mutations(policy))
    <2>1. k \in 1..Len(probes) /\ Len(probes) \in Nat /\ Len(to_probe) \in Nat
        BY <1>2, ListFacts DEF IsList
    <2> QED
        BY <1>2, <2>1
<1> DEFINE index == Mutations(policy)[k][1]
           mode  == Mutations(policy)[k][2]
           made  == Mutated(policy[index], mode)
<1>4. IsMutation(policy, Mutations(policy)[k])
    BY <1>2, <1>3, MutationsFacts
<1>5. /\ index \in DOMAIN policy /\ mode \in {"missing", "wrong_value"}
      /\ mode = "wrong_value" => policy[index].kind # "required_field"
    BY <1>4 DEF IsMutation
<1>6. /\ cases[k + 1].response = made /\ probes[k].target_rule_id = policy[index].rule_id
      /\ probes[k].mutation = mode /\ probes[k].failed_rule_ids = Failed(made)
    <2>1. /\ cases[k + 1] = Case(<<"probe", index, mode>>, made, FALSE)
          /\ probes[k].target_rule_id = policy[index].rule_id
          /\ probes[k].mutation = mode /\ probes[k].failed_rule_ids = Failed(made)
        BY <1>1, <1>3 DEF Made, ProbeMade
    <2> HIDE DEF made, index, mode
    <2>2. cases[k + 1].response = made
        BY <2>1 DEF Case
    <2> QED
        BY <2>1, <2>2
<1> HIDE DEF index, mode
<1>7. RuleOf(policy, probes[k].target_rule_id) = policy[index]
    BY <1>2, <1>5, <1>6, RuleOfId
<1>8. /\ ReasonCode(policy[index], made) =
            IF mode = "missing" THEN "FIELD_MISSING"
            ELSE FAILURE_REASON_BY_KIND[policy[index].kind]
      /\ \A j \in DOMAIN policy :
            ~Passes(policy[j], made) => Related(policy[j].path, policy[index].path)
    BY <1>2, <1>5, MutatedFacts
<1>9. ASSUME NEW id \in RuleIds(policy),
             ReasonCode(RuleOf(policy, id), made) # "RULE_SATISFIED"
      PROVE  id \in Failed(made) /\ Related(RuleOf(policy, id).path, policy[index].path)
    <2>1. ~Passes(RuleOf(policy, id), made)
        BY <1>9 DEF Passes
    <2>2. PICK j \in DOMAIN policy : policy[j].rule_id = id
        BY DEF RuleIds
    <2>3. RuleOf(policy, id) = policy[j]
        BY <1>2, <2>2, RuleOfId
    <2> QED
        BY <1>8, <2>1, <2>3 DEF Failed
<1> HIDE DEF made
<1> QED
    BY <1>6, <1>7, <1>8, <1>9

\* generate_rule_probes, for every policy and every order of its rules: each
\* probe fails its target for the reason it was made for, and what else it
\* fails is reported and lies on the way to the target or below it.
THEOREM ProbesAreAlwaysTargeted == ProbesSpec => []ProbesAreTargeted
<1>1. ProbesInit => ProbeInv
    BY ProbeInit
<1>2. ProbeInv /\ [ProbesNext]_probe_vars => ProbeInv'
    BY ProbeStep
<1>3. ProbeInv => ProbesAreTargeted
    BY ProbeIsTargeted
<1> QED
    BY <1>1, <1>2, <1>3, PTL DEF ProbesSpec

\* What check-suite looks at: verdicts as expected, and no rule asserted.
LEMMA CasesAsExpected ==
    ASSUME ProbeInv, Made, Len(policy) <= MAX_PROBE_RULES, NEW case \in Cases(ProbeSuite)
    PROVE  /\ AllPass(policy, case.response) = case.expected_passed
           /\ case.expected_rules = {} /\ AssertedRules(case) = {}
<1>1. /\ DOMAIN cases = 1..(Len(probes) + 1) /\ Len(probes) \in Nat
      /\ AllPass(policy, passing_response)
      /\ cases[1] = Case(<<"baseline">>, passing_response, TRUE)
    BY CasesMade
<1>2. PICK k \in 1..(Len(probes) + 1) : case = cases[k]
    BY <1>1 DEF Cases, ProbeSuite
<1>3. CASE k = 1
    <2>1. case = Case(<<"baseline">>, passing_response, TRUE)
        BY <1>1, <1>2, <1>3
    <2>2. case.response = passing_response /\ case.expected_rules = {}
        BY <2>1 DEF Case
    <2>3. case.expected_passed = TRUE
        BY <2>1, Zenon DEF Case
    <2>4. AllPass(policy, case.response) = case.expected_passed
        BY <1>1, <2>2, <2>3, Zenon DEF AllPass
    <2> QED
        BY <2>2, <2>4 DEF AssertedRules
<1>4. CASE k # 1
    <2> DEFINE n == k - 1
               index == Mutations(policy)[n][1]
               mode == Mutations(policy)[n][2]
               response == Mutated(policy[index], mode)
    <2>1. n \in 1..Len(probes) /\ k = n + 1
        BY <1>1, <1>4
    <2> HIDE DEF n
    <2>2. /\ cases[n + 1] = Case(<<"probe", index, mode>>, response, FALSE)
          /\ ~AllPass(policy, response)
        BY <2>1, CasesMade
    <2> HIDE DEF index, mode, response
    <2>3. case = Case(<<"probe", index, mode>>, response, FALSE)
        BY <1>2, <2>1, <2>2
    <2>4. case.response = response /\ case.expected_rules = {}
        BY <2>3 DEF Case
    <2>5. case.expected_passed = FALSE
        BY <2>3, Zenon DEF Case
    <2>6. AllPass(policy, case.response) = case.expected_passed
        BY <2>2, <2>4, <2>5, Zenon DEF AllPass
    <2> QED
        BY <2>4, <2>6 DEF AssertedRules
<1> QED
    BY <1>3, <1>4

\* No case contradicts another, and each gives what is expected of it.
LEMMA SuiteIsReady ==
    ASSUME ProbeInv, Made, Len(policy) <= MAX_PROBE_RULES
    PROVE  Ready(policy, ProbeSuite)
<1>1. policy \in Policies /\ AllPass(policy, passing_response) /\ RuleIds(policy) # {}
    <2>1. policy \in Policies
        BY DEF ProbeInv, SearchInv
    <2>2. 1 \in DOMAIN policy
        BY <2>1, PolicyFacts
    <2> QED
        BY <2>1, <2>2, CasesMade DEF RuleIds
<1>2. ~HasConflicts(policy)
    <2>1. \A i \in DOMAIN policy : IsRule(policy[i])
        BY <1>1, PoliciesAssumption
    <2> QED
        BY <1>1, <2>1, ConflictsAreReal
<1>3. ConsistentExpectations(ProbeSuite)
    BY CasesAsExpected DEF ConsistentExpectations
<1>4. AssertionsCompatible(policy, ProbeSuite)
    <2> SUFFICES ASSUME NEW case \in Cases(ProbeSuite)
                 PROVE  CompatibleCase(policy, case)
        BY DEF AssertionsCompatible
    <2>1. AssertedRules(case) = {}
        BY CasesAsExpected
    <2> QED
        BY <1>1, <2>1 DEF CompatibleCase
<1>5. MatchesExpectations(policy, ProbeSuite)
    BY CasesAsExpected DEF MatchesExpectations, MatchesExpectation, AssertionMismatches
<1> QED
    BY <1>2, <1>3, <1>4, <1>5 DEF Ready

\* A code is seen when some case of the suite gives it.
LEMMA CodeSeen ==
    ASSUME policy \in Policies, NEW i \in DOMAIN policy, NEW k \in DOMAIN cases
    PROVE  ReasonCode(policy[i], cases[k].response)
               \in CodesSeen(policy, ProbeSuite, policy[i].rule_id)
<1>1. cases[k] \in Cases(ProbeSuite)
    BY DEF Cases, ProbeSuite
<1>2. Observed(policy, cases[k].response)[policy[i].rule_id] = ReasonCode(policy[i], cases[k].response)
    BY RuleOfId DEF Observed
<1> QED
    BY <1>1, <1>2 DEF CodesSeen

\* suite-coverage finds nothing missing.
LEMMA EverythingIsExercised ==
    ASSUME ProbeInv, status = "complete", NEW i \in DOMAIN policy
    PROVE  UnexercisedReasonCodes(policy, ProbeSuite, policy[i].rule_id) = {}
<1> DEFINE id == policy[i].rule_id
           seen == CodesSeen(policy, ProbeSuite, id)
           all == Mutations(policy)
<1>1. /\ Made /\ SearchInv /\ pc = "done" /\ policy \in Policies /\ to_probe = << >>
      /\ Len(policy) <= MAX_PROBE_RULES
    BY DEF ProbeInv, Made, SearchInv
<1>2. RuleOf(policy, id) = policy[i] /\ policy[i].kind \in Kinds
    BY <1>1, RuleOfId, PolicyFacts
<1>3. /\ DOMAIN cases = 1..(Len(probes) + 1) /\ Len(probes) \in Nat
      /\ AllPass(policy, passing_response)
      /\ cases[1] = Case(<<"baseline">>, passing_response, TRUE)
    BY <1>1, CasesMade
<1>4. Len(all) = Len(probes)
    <2>1. Len(<< >>) = 0 /\ Len(probes) + Len(to_probe) = Len(all)
        BY <1>1 DEF Made
    <2> QED
        BY <1>1, <1>3, <2>1
<1>5. "RULE_SATISFIED" \in seen
    <2>1. 1 \in DOMAIN cases /\ cases[1].response = passing_response
        BY <1>3 DEF Case
    <2>2. ReasonCode(policy[i], passing_response) = "RULE_SATISFIED"
        BY <1>3 DEF AllPass, Passes
    <2> QED
        BY <1>1, <2>1, <2>2, CodeSeen
<1>6. ASSUME NEW mode \in {"missing", "wrong_value"},
             mode = "missing" \/ policy[i].kind # "required_field"
      PROVE  (IF mode = "missing" THEN "FIELD_MISSING"
              ELSE FAILURE_REASON_BY_KIND[policy[i].kind]) \in seen
    <2>1. PICK k \in 1..Len(all) : all[k][1] = i /\ all[k][2] = mode
        BY <1>1, <1>6, MutationsFacts
    <2>2. k \in 1..Len(probes) /\ k + 1 \in DOMAIN cases
        BY <1>3, <1>4, <2>1
    <2>3. cases[k + 1] = Case(<<"probe", i, mode>>, Mutated(policy[i], mode), FALSE)
        BY <1>1, <2>1, <2>2 DEF Made, ProbeMade
    <2>4. cases[k + 1].response = Mutated(policy[i], mode)
        BY <2>3 DEF Case
    <2>5. ReasonCode(policy[i], Mutated(policy[i], mode)) =
              IF mode = "missing" THEN "FIELD_MISSING"
              ELSE FAILURE_REASON_BY_KIND[policy[i].kind]
        BY <1>1, <1>6, MutatedFacts
    <2> HIDE DEF seen
    <2>6. ReasonCode(policy[i], cases[k + 1].response) \in seen
        BY <1>1, <2>2, CodeSeen DEF seen
    <2> QED
        BY <2>4, <2>5, <2>6
<1>7. "FIELD_MISSING" \in seen
    BY <1>6
<1>8. policy[i].kind # "required_field" => FAILURE_REASON_BY_KIND[policy[i].kind] \in seen
    BY <1>6
<1>9. policy[i].kind = "required_field" => policy[i].kind \notin DOMAIN FAILURE_REASON_BY_KIND
    BY DEF FAILURE_REASON_BY_KIND
<1> HIDE DEF seen
<1>10. ReachableReasonCodes(policy[i].kind) \subseteq seen
    BY <1>5, <1>7, <1>8, <1>9 DEF ReachableReasonCodes
<1>11. UnexercisedReasonCodes(policy, ProbeSuite, id) = {}
    BY <1>2, <1>10 DEF UnexercisedReasonCodes, seen
<1> QED
    BY <1>11

\* Every rule is seen to pass and to fail in each way it can.
LEMMA SuiteCovers ==
    ASSUME ProbeInv
    PROVE  ProbeSuiteCoversEverything
<1>1. status = "complete" => Ready(policy, ProbeSuite)
    BY SuiteIsReady DEF ProbeInv
<1>2. ASSUME status = "complete", NEW id \in RuleIds(policy)
      PROVE  UnexercisedReasonCodes(policy, ProbeSuite, id) = {}
    <2>1. PICK i \in DOMAIN policy : id = policy[i].rule_id
        BY DEF RuleIds
    <2> QED
        BY <1>2, <2>1, EverythingIsExercised
<1> QED
    BY <1>1, <1>2 DEF ProbeInv, ProbeSuiteCoversEverything

\* What cases can be generated for can be probed, but for the limits: there
\* always is a wrong value, no mutation is blocked or misses its target, and
\* validate_suite accepts the cases.  The finished suite is ready, and gives
\* every reason code that a rule of the policy can give.
THEOREM ProbesAlwaysCoverEverything == ProbesSpec => []ProbeSuiteCoversEverything
<1>1. ProbesInit => ProbeInv
    BY ProbeInit
<1>2. ProbeInv /\ [ProbesNext]_probe_vars => ProbeInv'
    BY ProbeStep
<1>3. ProbeInv => ProbeSuiteCoversEverything
    BY SuiteCovers
<1> QED
    BY <1>1, <1>2, <1>3, PTL DEF ProbesSpec
=============================================================================
